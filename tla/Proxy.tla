------------------------------- MODULE Proxy -------------------------------
(***************************************************************************)
(* What the user sees: CoolClientProxy on top of the registry of jobs      *)
(* (src/CoolClient/src/coolclientproxy.cpp: GetJobStatusTable,             *)
(* SearchResource).                                                        *)
(*                                                                         *)
(* The jobs are shown in a global Lua table that outlives the calls: a row *)
(* per job, under an integer key.  A row is updated in place, the row of a *)
(* removed job is set to nil, which leaves a hole, and a new row goes to   *)
(* the key after the length of the table.  Of a table with holes, Lua      *)
(* takes any border for the length.  The script sorts the table in place.  *)
(*                                                                         *)
(* The user interface is one thread: the proxy runs its commands one at a  *)
(* time.                                                                   *)
(***************************************************************************)
EXTENDS JobRegistry, FiniteSets, Functions

CONSTANTS
    Query     \* what can be searched for: pairs of keywords and a type

VARIABLES
    rows,      \* the table: key -> handle
    unshown,   \* GetJobStatusTable: the handles that are still to get a row
    shown,     \* history: the handles of the copy of job_status_ being shown
    asked,     \* last_request_keywords and last_request_type
    totalOf,   \* total_record_count: the search it is the count of
    uncounted  \* history: the count of the search remembered has failed

table == <<rows, unshown, shown>>
search == <<asked, totalOf, uncounted>>
proxyVars == <<vars, table, search>>

\* last_request_keywords and last_request_type before the first search.
NoQuery == <<"", 0>>

ProxyInit ==
    /\ Init
    /\ rows = <<>> /\ unshown = {} /\ shown = {}
    /\ asked = NoQuery /\ totalOf = NoQuery /\ uncounted = FALSE

-----------------------------------------------------------------------------
\* The thread of the user interface is in no command.
Idle == pc[UI] = "idle" /\ unshown = {}

\* What Lua may take for the length of the table: a key before a hole.
Key == 0 .. Cardinality(Handle)
Borders(r) == {n \in Key : n \in DOMAIN r \cup {0} /\ n + 1 \notin DOMAIN r}

\* The table is brought up to the copy of job_status_: rows of handles that
\* are not in it are set to nil, the others updated.
GetJobStatusTable ==
    /\ Idle
    /\ shown' = status
    /\ rows' = [k \in {l \in DOMAIN rows : rows[l] \in status} |-> rows[k]]
    /\ unshown' = {h \in status : \A k \in DOMAIN rows : rows[k] # h}
    /\ UNCHANGED <<vars, search>>

\* (Faulty variant, to validate EveryJobShown: the next key is one more than
\* the number of rows.)
NextKeys_counted(r) == {Cardinality(DOMAIN r) + 1}

NextKeys(r) == {n + 1 : n \in Borders(r)}

\* A handle without a row gets one, the smallest first.
AddRow(h) ==
    /\ h \in unshown
    /\ \A g \in unshown : h <= g
    /\ \E k \in NextKeys(rows) :
         rows' = [l \in DOMAIN rows \cup {k} |-> IF l = k THEN h ELSE rows[l]]
    /\ unshown' = unshown \ {h}
    /\ UNCHANGED <<vars, shown, search>>

\* The script sorts what it takes for the length of the table; where there is
\* a hole before that, the comparison fails and leaves the sort half done.
SortRows ==
    /\ Idle
    /\ \E n \in Borders(rows) : \E p \in Bijection(1 .. n, 1 .. n) :
         LET from(k) == IF k <= n THEN p[k] ELSE k
         IN  rows' = [k \in {l \in (1 .. n) \cup DOMAIN rows : from(l) \in DOMAIN rows}
                        |-> rows[from(k)]]
    /\ UNCHANGED <<vars, unshown, shown, search>>

-----------------------------------------------------------------------------
NewSearch(q) == q # asked

\* SearchResource: a new search is remembered, then its total is asked for,
\* and nothing is shown when there is no answer.
CountFails(q) ==
    /\ Idle
    /\ NewSearch(q)
    /\ asked' = q
    /\ uncounted' = TRUE
    /\ UNCHANGED <<vars, table, totalOf>>

\* (Faulty variant, to validate TotalOfItsSearch: the results are counted
\* again when the keywords have changed.)
Total_keywords(q) == IF q[1] # asked[1] THEN q ELSE totalOf

Total(q) == IF NewSearch(q) THEN q ELSE totalOf

\* The records are asked for, and shown with the total.
SearchResource(q) ==
    /\ Idle
    /\ asked' = q
    /\ totalOf' = Total(q)
    /\ uncounted' = (uncounted /\ ~NewSearch(q))
    /\ UNCHANGED <<vars, table>>

-----------------------------------------------------------------------------
\* The registry goes on; its user interface thread, between the commands above.
Registry ==
    /\ \/ \E a \in Adder : (a = UI => unshown = {}) /\ Add(a)
       \/ unshown = {} /\ Removal
       \/ Collect
    /\ UNCHANGED <<table, search>>

Show ==
    \/ GetJobStatusTable
    \/ \E h \in Handle : AddRow(h)
    \/ SortRows

Search == \E q \in Query : CountFails(q) \/ SearchResource(q)

ProxyNext == Registry \/ Show \/ Search

ProxySpec == ProxyInit /\ [][ProxyNext]_proxyVars

-----------------------------------------------------------------------------
\* The inductive invariant behind EveryJobShown: the rows are those of the
\* handles of the copy that are not still to be shown, one each.
RowsOnce ==
    /\ rows \in [DOMAIN rows -> shown \ unshown]
    /\ DOMAIN rows \subseteq Nat \ {0}
    /\ unshown \subseteq shown
    /\ \A h \in shown : h \in unshown \/ \E k \in DOMAIN rows : rows[k] = h
    /\ \A k, l \in DOMAIN rows : rows[k] = rows[l] => k = l

\* When GetJobStatusTable returns, and after any sort, every job that has a
\* status in the copy it was given has one row, and there are no other rows:
\* no hole left by a removed job makes another job disappear.
EveryJobShown ==
    unshown = {} =>
      /\ \A h \in shown : \E k \in DOMAIN rows : \A l \in DOMAIN rows : rows[l] = h <=> l = k
      /\ \A k \in DOMAIN rows : rows[k] \in shown

\* The total a page is shown with is the count of that very search, keywords
\* and type, unless the count of it has failed: SearchResource has remembered
\* the search by then, does not count it again, and shows every page of it with
\* the total of an earlier one.
TotalOfItsSearch == totalOf = asked \/ uncounted
=============================================================================
