--------------------------- MODULE Proxy_proofs -----------------------------
(***************************************************************************)
(* Theorems about the registry of jobs and about what the user sees of it, *)
(* for any torrents, any threads that add jobs, any bound on the jobs and  *)
(* any searches.  Of the registry, two hold however many threads add jobs; *)
(* the others need the convention of AddNewJob, that one thread at most    *)
(* adds jobs, and removes them (SingleAdder).  The proxy only looks at the *)
(* registry, so that all of it holds under the user interface; and the     *)
(* rows it shows are the jobs it was told of, whatever holes their removal *)
(* has left and whichever of them Lua takes for the end.                   *)
(*                                                                         *)
(* And about the torrents the proxy has made, for any makers, files, chunk *)
(* size, failures and stops: a checksum is that of its file although all   *)
(* makers use one engine, a downloader finds the chunks where the maker    *)
(* read them, and a maker that the user stops publishes nothing.           *)
(***************************************************************************)
EXTENDS Proxy, MakeTorrent, SequenceTheorems, TLAPS

-----------------------------------------------------------------------------
(* The registry, whatever threads add jobs                                 *)

AnyAdderInv == TypeOK /\ NumbersFresh

\* Initially nothing is numbered: the tables are empty.
LEMMA AnyAdderInit == Init => AnyAdderInv
<1> SUFFICES ASSUME Init PROVE AnyAdderInv
  OBVIOUS
<1> USE RegistryAssumption DEF Init
<1>1. TypeOK
  <2>1. index \in 1 .. MaxJobs + 1
    OBVIOUS
  <2> QED BY <2>1 DEF TypeOK
<1>2. NumbersFresh
  BY DEF NumbersFresh, RemovePC
<1> QED BY <1>1, <1>2 DEF AnyAdderInv

\* Every step of an adder keeps the types and the numbers in use below
\* job_index_.
LEMMA AnyAdderAdd ==
    ASSUME AnyAdderInv, NEW a \in Adder, Add(a)
    PROVE  AnyAdderInv'
<1> USE RegistryAssumption DEF AnyAdderInv, TypeOK, NumbersFresh, Handle, AddPC,
        RemovePC, tables, collector, Goto
<1>1. ASSUME NEW t \in Torrent, HasThisTorrent(a, t) PROVE AnyAdderInv'
  BY <1>1 DEF HasThisTorrent, TakeTorrent
<1>2. CASE RegisterTorrent(a)
  BY <1>2 DEF RegisterTorrent
<1>3. CASE BuildJobInfo(a)
  BY <1>3 DEF BuildJobInfo
<1>4. CASE NumberJob(a)
  BY <1>4 DEF NumberJob
<1>5. CASE InsertJob(a)
  <2> USE <1>5 DEF InsertJob, InsertUnder
  <2>1. handle[a] \in Handle /\ index \in Handle /\ torrent[a] \in Torrent \cup {NoTorrent}
    OBVIOUS
  <2>2. index' \in 1 .. MaxJobs + 1
    OBVIOUS
  <2>3. jobTorrent' \in [Handle -> Torrent \cup {NoTorrent}]
    OBVIOUS
  <2>4. TypeOK'
    BY <2>1, <2>2, <2>3
  <2>5. \A h \in Handle :
          (h \in jobs \/ h \in removedJobs \/ jobTorrent[h] # NoTorrent => h < index)'
    BY <2>1
  <2>6. NumbersFresh'
    BY <2>1, <2>5
  <2> QED BY <2>4, <2>6
<1>6. CASE StartJob(a)
  BY <1>6 DEF StartJob
<1> QED BY <1>1, <1>2, <1>3, <1>4, <1>5, <1>6 DEF Add

\* So does every step of a removal.
LEMMA AnyAdderRemove == AnyAdderInv /\ Removal => AnyAdderInv'
<1> SUFFICES ASSUME AnyAdderInv, Removal PROVE AnyAdderInv'
  OBVIOUS
<1> USE RegistryAssumption DEF AnyAdderInv, TypeOK, NumbersFresh, Handle, AddPC,
        RemovePC, tables, collector, Goto
<1>1. ASSUME NEW h \in Handle, GetJobByHandle(h) PROVE AnyAdderInv'
  BY <1>1 DEF GetJobByHandle
<1>2. CASE UnregisterTorrent
  BY <1>2 DEF UnregisterTorrent
<1>3. CASE EraseJob
  BY <1>3 DEF EraseJob, EraseWith
<1>4. CASE EraseStatus
  BY <1>4 DEF EraseStatus
<1>5. CASE KeepJob
  BY <1>5 DEF KeepJob
<1> QED BY <1>1, <1>2, <1>3, <1>4, <1>5 DEF Removal

\* And every step of the collector.
LEMMA AnyAdderCollect == AnyAdderInv /\ Collect => AnyAdderInv'
BY DEF AnyAdderInv, TypeOK, NumbersFresh, Collect, CollectBegin, CollectEnd, Locked,
       tables, locals

LEMMA AnyAdderStep == AnyAdderInv /\ [Next]_vars => AnyAdderInv'
<1>1. AnyAdderInv /\ UNCHANGED vars => AnyAdderInv'
  BY DEF AnyAdderInv, TypeOK, NumbersFresh, vars, tables, locals, collector
<1> QED BY <1>1, AnyAdderAdd, AnyAdderRemove, AnyAdderCollect DEF Next

\* However many threads add jobs, the tables keep their types, and every
\* number in use is below job_index_.
THEOREM TypeCorrect == Spec => []TypeOK
<1>1. Spec => []AnyAdderInv
  BY AnyAdderInit, AnyAdderStep, PTL DEF Spec
<1> QED BY <1>1, PTL DEF AnyAdderInv

\* However many threads add jobs, a handle is never given to a second job and
\* a job never changes its torrent.
THEOREM NeverReused == Spec => HandlesNeverReused
<1> DEFINE Step ==
      /\ (jobs' \ jobs) \cap (removedJobs \cup {h \in Handle : jobTorrent[h] # NoTorrent}) = {}
      /\ \A h \in jobs \cap jobs' : jobTorrent'[h] = jobTorrent[h]
<1>1. ASSUME AnyAdderInv, [Next]_vars PROVE [Step]_vars
  <2>1. ASSUME NEW a \in Adder, InsertJob(a) PROVE Step
    BY <1>1, <2>1, RegistryAssumption
       DEF AnyAdderInv, TypeOK, NumbersFresh, Handle, InsertJob, InsertUnder
  <2>2. ASSUME jobs' \subseteq jobs, jobTorrent' = jobTorrent PROVE Step
    BY <2>2
  <2>3. ASSUME NEW a \in Adder, Add(a), ~ InsertJob(a)
        PROVE  jobs' \subseteq jobs /\ jobTorrent' = jobTorrent
    BY <2>3 DEF Add, HasThisTorrent, TakeTorrent, RegisterTorrent, BuildJobInfo,
                NumberJob, StartJob, tables
  <2>4. ASSUME Removal PROVE jobs' \subseteq jobs /\ jobTorrent' = jobTorrent
    BY <2>4 DEF Removal, GetJobByHandle, UnregisterTorrent, EraseJob, EraseWith, EraseStatus,
                KeepJob, tables
  <2>5. ASSUME Collect PROVE jobs' \subseteq jobs /\ jobTorrent' = jobTorrent
    BY <2>5 DEF Collect, CollectBegin, CollectEnd, tables
  <2> HIDE DEF Step
  <2> QED BY <1>1, <2>1, <2>2, <2>3, <2>4, <2>5 DEF Next
<1>2. Spec => []AnyAdderInv
  BY AnyAdderInit, AnyAdderStep, PTL DEF Spec
<1>3. Spec => [][Step]_vars
  BY <1>1, <1>2, PTL DEF Spec
<1> QED BY <1>3, PTL DEF HandlesNeverReused

-----------------------------------------------------------------------------
(* With one adder.  The mutual support of the parts: the collector's copy  *)
(* covers the jobs because no job is added or erased while it holds        *)
(* mutex_, and what it writes back covers them for the same reason; a job  *)
(* is inserted under the number its status and its path were filed under   *)
(* because nobody else advances job_index_ in between.                     *)

SingleAdderInv ==
    /\ AnyAdderInv
    /\ JobsHaveStatus
    /\ CollectorCovers
    /\ JobsHavePath
    /\ OneJobPerTorrent
    /\ HandleNamesJob
    /\ HandsOK

\* Initially there is no job to say anything of.
LEMMA SingleAdderInit == SingleAdder /\ Init => SingleAdderInv
BY AnyAdderInit
   DEF SingleAdder, Init, SingleAdderInv, JobsHaveStatus, CollectorCovers, JobsHavePath,
       OneJobPerTorrent, HandleNamesJob, HandsOK

\* The steps of the adder.
LEMMA SingleAdderAdd ==
    ASSUME SingleAdder, SingleAdderInv, AnyAdderInv', Add(UI)
    PROVE  SingleAdderInv'
<1> USE DEF SingleAdder, SingleAdderInv, AnyAdderInv, TypeOK, JobsHaveStatus, CollectorCovers,
            JobsHavePath, OneJobPerTorrent, HandleNamesJob, HandsOK, tables, collector, Goto
<1>1. ASSUME NEW t \in Torrent, HasThisTorrent(UI, t) PROVE SingleAdderInv'
  BY <1>1 DEF HasThisTorrent, TakeTorrent
<1>2. CASE RegisterTorrent(UI)
  BY <1>2 DEF RegisterTorrent
<1>3. CASE BuildJobInfo(UI)
  BY <1>3 DEF BuildJobInfo
<1>4. CASE NumberJob(UI)
  BY <1>4 DEF NumberJob
<1>5. CASE InsertJob(UI)
  <2> USE <1>5 DEF InsertJob, InsertUnder, Locked
  <2>1. handle[UI] = index /\ index \in Handle /\ index \notin jobs
    BY DEF NumbersFresh
  <2>2. /\ jobs' = jobs \cup {index} /\ status' = status \cup {index} /\ ~ collecting'
        /\ jobTorrent'[index] = torrent[UI]
        /\ \A h \in jobs : jobTorrent'[h] = jobTorrent[h] /\ jobTorrent[h] # torrent[UI]
        /\ pc'[UI] = "start"
    BY <2>1
  <2>3. JobsHaveStatus' /\ CollectorCovers' /\ JobsHavePath'
    BY <2>1, <2>2
  <2>4. OneJobPerTorrent'
    BY <2>1, <2>2
  <2>5. HandleNamesJob' /\ HandsOK'
    BY <2>1, <2>2
  <2> QED BY <2>3, <2>4, <2>5
<1>6. CASE StartJob(UI)
  BY <1>6 DEF StartJob
<1> QED BY <1>1, <1>2, <1>3, <1>4, <1>5, <1>6 DEF Add

\* The steps of a removal.
LEMMA SingleAdderRemove ==
    ASSUME SingleAdder, SingleAdderInv, AnyAdderInv', Removal
    PROVE  SingleAdderInv'
<1> USE DEF SingleAdder, SingleAdderInv, AnyAdderInv, TypeOK, JobsHaveStatus, CollectorCovers,
            JobsHavePath, OneJobPerTorrent, HandleNamesJob, HandsOK, tables, collector, Goto
<1>1. ASSUME NEW h \in Handle, GetJobByHandle(h) PROVE SingleAdderInv'
  BY <1>1 DEF GetJobByHandle
<1>2. CASE UnregisterTorrent
  BY <1>2 DEF UnregisterTorrent
<1>3. CASE EraseJob
  BY <1>3 DEF EraseJob, EraseWith, Locked
<1>4. CASE EraseStatus
  BY <1>4 DEF EraseStatus
<1>5. CASE KeepJob
  BY <1>5 DEF KeepJob
<1> QED BY <1>1, <1>2, <1>3, <1>4, <1>5 DEF Removal

\* The steps of the collector.
LEMMA SingleAdderCollect ==
    ASSUME SingleAdder, SingleAdderInv, AnyAdderInv', Collect
    PROVE  SingleAdderInv'
BY DEF SingleAdder, SingleAdderInv, AnyAdderInv, TypeOK, JobsHaveStatus, CollectorCovers,
       JobsHavePath, OneJobPerTorrent, HandleNamesJob, HandsOK, tables, locals,
       Collect, CollectBegin, CollectEnd, Locked

LEMMA SingleAdderStep == SingleAdder /\ SingleAdderInv /\ [Next]_vars => SingleAdderInv'
<1> SUFFICES ASSUME SingleAdder, SingleAdderInv, [Next]_vars PROVE SingleAdderInv'
  OBVIOUS
<1>1. AnyAdderInv'
  BY AnyAdderStep DEF SingleAdderInv
<1>2. CASE UNCHANGED vars
  BY <1>1, <1>2 DEF SingleAdder, SingleAdderInv, JobsHaveStatus, CollectorCovers, JobsHavePath,
       OneJobPerTorrent, HandleNamesJob, HandsOK, vars, tables, locals, collector
<1>3. CASE Next
  BY <1>1, <1>3, SingleAdderAdd, SingleAdderRemove, SingleAdderCollect DEF Next, SingleAdder
<1> QED BY <1>2, <1>3

\* As long as one thread at most adds jobs: every job has a status, so the
\* assertion of the collector never fails; what it writes back covers the
\* jobs; SaveJobHistory finds the torrent path of each job; there is one job
\* at most for a torrent; and the handle given back names the job added.
THEOREM SingleAdderSafe ==
    SingleAdder =>
        (Spec => [](JobsHaveStatus /\ CollectorCovers /\ JobsHavePath
                      /\ OneJobPerTorrent /\ HandleNamesJob))
<1> SUFFICES ASSUME SingleAdder
             PROVE  Spec => [](JobsHaveStatus /\ CollectorCovers /\ JobsHavePath
                                 /\ OneJobPerTorrent /\ HandleNamesJob)
  OBVIOUS
<1>1. Init => SingleAdderInv
  BY SingleAdderInit
<1>2. SingleAdderInv /\ [Next]_vars => SingleAdderInv'
  BY SingleAdderStep
<1>3. SingleAdderInv => /\ JobsHaveStatus /\ CollectorCovers /\ JobsHavePath
                        /\ OneJobPerTorrent /\ HandleNamesJob
  BY DEF SingleAdderInv
<1> QED BY <1>1, <1>2, <1>3, PTL DEF Spec

-----------------------------------------------------------------------------
(* The user interface over the registry                                    *)

\* Every step of the proxy is a step of the registry or leaves it alone.
LEMMA ProxyStepsRegistry == [ProxyNext]_proxyVars => [Next]_vars
<1> SUFFICES ASSUME [ProxyNext]_proxyVars PROVE [Next]_vars
  OBVIOUS
<1>1. CASE Registry
  BY <1>1 DEF Registry, Next
<1>2. CASE Show
  BY <1>2 DEF Show, GetJobStatusTable, AddRow, SortRows
<1>3. CASE Search
  BY <1>3 DEF Search, CountFails, SearchResource
<1>4. CASE UNCHANGED proxyVars
  BY <1>4 DEF proxyVars
<1> QED BY <1>1, <1>2, <1>3, <1>4 DEF ProxyNext

\* The proxy implements the registry: every theorem about the registry is one
\* about the program with its user interface.
THEOREM ProxyImplementsRegistry == ProxySpec => Spec
<1>1. ProxyInit => Init
  BY DEF ProxyInit
<1> QED BY <1>1, ProxyStepsRegistry, PTL DEF ProxySpec, Spec

\* Under the proxy too, a handle is never given to a second job.
THEOREM ProxyNeverReuses == ProxySpec => HandlesNeverReused
BY ProxyImplementsRegistry, NeverReused

\* Under the proxy too, with one adder, every job has a status and there is one
\* job for a torrent.
THEOREM ProxySafe ==
    SingleAdder => (ProxySpec => [](JobsHaveStatus /\ OneJobPerTorrent))
<1> SUFFICES ASSUME SingleAdder
             PROVE  ProxySpec => [](JobsHaveStatus /\ OneJobPerTorrent)
  OBVIOUS
<1>1. Spec => [](JobsHaveStatus /\ CollectorCovers /\ JobsHavePath
                   /\ OneJobPerTorrent /\ HandleNamesJob)
  BY SingleAdderSafe
<1> QED BY <1>1, ProxyImplementsRegistry, PTL

-----------------------------------------------------------------------------
\* A row that is added takes a key that has none.
LEMMA NextKeyIsFree ==
    ASSUME NEW r, NEW k \in NextKeys(r)
    PROVE  k \notin DOMAIN r
BY DEF NextKeys, Borders

\* GetJobStatusTable drops the rows of removed jobs and no others.
LEMMA RowsOnceRefresh == RowsOnce /\ GetJobStatusTable => RowsOnce'
<1> SUFFICES ASSUME RowsOnce, GetJobStatusTable PROVE RowsOnce'
  OBVIOUS
<1> DEFINE Kept == {l \in DOMAIN rows : rows[l] \in status}
<1>1. /\ DOMAIN rows' = Kept
      /\ \A k \in Kept : rows'[k] = rows[k]
      /\ rows' = [k \in Kept |-> rows'[k]]
      /\ shown' = status
      /\ unshown' = {h \in status : \A k \in DOMAIN rows : rows[k] # h}
  BY DEF GetJobStatusTable
<1>2. \A k \in Kept : rows'[k] \in shown' \ unshown'
  BY <1>1
<1>3. \A h \in shown' : h \in unshown' \/ \E k \in Kept : rows'[k] = h
  BY <1>1
<1>4. \A k, l \in Kept : rows'[k] = rows'[l] => k = l
  BY <1>1 DEF RowsOnce
<1> QED BY <1>1, <1>2, <1>3, <1>4 DEF RowsOnce

\* A row that is added leaves the others where they are.
LEMMA RowsOnceAdd == ASSUME RowsOnce, NEW h, AddRow(h) PROVE RowsOnce'
<1>1. PICK k \in NextKeys(rows) :
        rows' = [l \in DOMAIN rows \cup {k} |-> IF l = k THEN h ELSE rows[l]]
  BY DEF AddRow
<1>2. k \notin DOMAIN rows
  BY NextKeyIsFree
<1>3. /\ DOMAIN rows' = DOMAIN rows \cup {k}
      /\ rows'[k] = h
      /\ \A l \in DOMAIN rows : rows'[l] = rows[l]
      /\ rows' = [l \in DOMAIN rows' |-> rows'[l]]
  BY <1>1, <1>2
<1>4. h \in unshown /\ unshown' = unshown \ {h} /\ shown' = shown
  BY DEF AddRow
<1>5. \A l \in DOMAIN rows : rows[l] \in shown \ unshown
  BY DEF RowsOnce
<1>6. h \in shown
  BY <1>4 DEF RowsOnce
<1>7. k \in Nat \ {0}
  BY DEF NextKeys, Borders, Key
<1> QED BY <1>2, <1>3, <1>4, <1>5, <1>6, <1>7 DEF RowsOnce

\* Sorting moves rows and holes about below a border and loses no row.
LEMMA RowsOnceSort == RowsOnce /\ SortRows => RowsOnce'
<1> SUFFICES ASSUME RowsOnce, SortRows PROVE RowsOnce'
  OBVIOUS
<1>0. PICK n \in Borders(rows) : \E p \in Bijection(1 .. n, 1 .. n) :
        LET from(k) == IF k <= n THEN p[k] ELSE k
        IN  rows' = [k \in {l \in (1 .. n) \cup DOMAIN rows : from(l) \in DOMAIN rows}
                       |-> rows[from(k)]]
  BY DEF SortRows
<1>1. PICK p \in Bijection(1 .. n, 1 .. n) :
        LET from(k) == IF k <= n THEN p[k] ELSE k
        IN  rows' = [k \in {l \in (1 .. n) \cup DOMAIN rows : from(l) \in DOMAIN rows}
                       |-> rows[from(k)]]
  BY <1>0
<1> DEFINE from(k) == IF k <= n THEN p[k] ELSE k
           Keys == {l \in (1 .. n) \cup DOMAIN rows : from(l) \in DOMAIN rows}
<1>2. n \in Nat
  BY DEF Borders, Key
<1>3. /\ p \in [1 .. n -> 1 .. n]
      /\ \A k, l \in 1 .. n : p[k] = p[l] => k = l
      /\ \A k \in 1 .. n : \E l \in 1 .. n : p[l] = k
  BY DEF Bijection, Injection, Surjection, IsInjective
<1>4. /\ DOMAIN rows' = Keys
      /\ \A k \in Keys : rows'[k] = rows[from(k)]
      /\ rows' = [k \in DOMAIN rows' |-> rows'[k]]
      /\ shown' = shown /\ unshown' = unshown
  BY <1>1 DEF SortRows
<1>5. /\ DOMAIN rows \subseteq Nat \ {0}
      /\ \A k \in DOMAIN rows : rows[k] \in shown \ unshown
      /\ \A k, l \in DOMAIN rows : rows[k] = rows[l] => k = l
      /\ \A h \in shown : h \in unshown \/ \E k \in DOMAIN rows : rows[k] = h
      /\ unshown \subseteq shown
  BY DEF RowsOnce
<1>6. Keys \subseteq Nat \ {0}
  BY <1>2, <1>5
<1>7. \A k \in Keys : rows'[k] \in shown' \ unshown'
  BY <1>4, <1>5
<1>8. \A k, l \in Keys : from(k) = from(l) => k = l
  <2> SUFFICES ASSUME NEW k \in Keys, NEW l \in Keys, from(k) = from(l) PROVE k = l
    OBVIOUS
  <2>1. ASSUME NEW m \in Keys, m <= n
        PROVE  m \in 1 .. n /\ from(m) = p[m] /\ from(m) \in 1 .. n
    <3>1. m \in Nat \ {0}
      BY <1>6
    <3>2. m \in 1 .. n
      BY <3>1, <2>1, <1>2
    <3>3. from(m) = p[m]
      BY <2>1
    <3> QED BY <3>2, <3>3, <1>3
  <2>2. \A m \in Keys : ~(m <= n) => from(m) = m
    OBVIOUS
  <2>3. k \in Nat /\ l \in Nat
    BY <1>6
  <2> HIDE DEF Keys, from
  <2>4. CASE k <= n /\ l <= n
    BY <2>1, <2>4, <1>3
  <2>5. CASE ~(k <= n /\ l <= n)
    BY <2>1, <2>2, <2>3, <2>5, <1>2
  <2> QED BY <2>4, <2>5
<1>9. \A k, l \in Keys : rows'[k] = rows'[l] => k = l
  BY <1>4, <1>5, <1>8
<1>10. \A k \in DOMAIN rows : \E l \in Keys : from(l) = k
  <2> SUFFICES ASSUME NEW k \in DOMAIN rows PROVE \E l \in Keys : from(l) = k
    OBVIOUS
  <2>1. CASE k <= n
    <3>1. k \in 1 .. n
      BY <2>1, <1>2, <1>5
    <3>2. PICK l \in 1 .. n : p[l] = k
      BY <3>1, <1>3
    <3>3. l <= n /\ from(l) = k
      BY <3>2, <1>2
    <3> QED BY <3>3
  <2>2. CASE ~(k <= n)
    BY <2>2
  <2> QED BY <2>1, <2>2
<1>11. \A h \in shown' : h \in unshown' \/ \E k \in Keys : rows'[k] = h
  <2> SUFFICES ASSUME NEW h \in shown, h \notin unshown
               PROVE  \E k \in Keys : rows'[k] = h
    BY <1>4
  <2>1. PICK k \in DOMAIN rows : rows[k] = h
    BY <1>5
  <2>2. PICK l \in Keys : from(l) = k
    BY <1>10
  <2> QED BY <2>1, <2>2, <1>4
<1> HIDE DEF Keys, from
<1> QED BY <1>4, <1>5, <1>6, <1>7, <1>9, <1>11 DEF RowsOnce

\* No other step touches the table.
LEMMA RowsOnceStep == RowsOnce /\ [ProxyNext]_proxyVars => RowsOnce'
<1> SUFFICES ASSUME RowsOnce, [ProxyNext]_proxyVars PROVE RowsOnce'
  OBVIOUS
<1>1. ASSUME UNCHANGED table PROVE RowsOnce'
  BY <1>1 DEF RowsOnce, table
<1>2. CASE Registry
  BY <1>1, <1>2 DEF Registry
<1>3. CASE Show
  BY <1>3, RowsOnceRefresh, RowsOnceAdd, RowsOnceSort DEF Show
<1>4. CASE Search
  BY <1>1, <1>4 DEF Search, CountFails, SearchResource
<1>5. CASE UNCHANGED proxyVars
  BY <1>1, <1>5 DEF proxyVars
<1> QED BY <1>2, <1>3, <1>4, <1>5 DEF ProxyNext

\* GetJobStatusTable shows every job it was told of in one row, and no others,
\* however many jobs have been removed and however the table was sorted.
THEOREM EveryJobIsShown == ProxySpec => []EveryJobShown
<1>1. ProxyInit => RowsOnce
  BY DEF ProxyInit, RowsOnce
<1>2. RowsOnce => EveryJobShown
  <2> SUFFICES ASSUME RowsOnce, unshown = {}
               PROVE  /\ \A h \in shown : \E k \in DOMAIN rows :
                             \A l \in DOMAIN rows : rows[l] = h <=> l = k
                      /\ \A k \in DOMAIN rows : rows[k] \in shown
    BY DEF EveryJobShown
  <2>1. \A k \in DOMAIN rows : rows[k] \in shown
    BY DEF RowsOnce
  <2>2. ASSUME NEW h \in shown
        PROVE  \E k \in DOMAIN rows : \A l \in DOMAIN rows : rows[l] = h <=> l = k
    <3>1. PICK k \in DOMAIN rows : rows[k] = h
      BY DEF RowsOnce
    <3>2. \A l \in DOMAIN rows : rows[l] = h <=> l = k
      BY <3>1 DEF RowsOnce
    <3> QED BY <3>2
  <2> QED BY <2>1, <2>2
<1> QED BY <1>1, <1>2, RowsOnceStep, PTL DEF ProxySpec

\* The total a page is shown with is the count of its search, unless the count
\* of that search has failed.
THEOREM TotalIsOfItsSearch == ProxySpec => []TotalOfItsSearch
<1>1. ProxyInit => TotalOfItsSearch
  BY DEF ProxyInit, TotalOfItsSearch
<1>2. TotalOfItsSearch /\ [ProxyNext]_proxyVars => TotalOfItsSearch'
  <2> SUFFICES ASSUME TotalOfItsSearch, [ProxyNext]_proxyVars PROVE TotalOfItsSearch'
    OBVIOUS
  <2>1. ASSUME UNCHANGED search PROVE TotalOfItsSearch'
    BY <2>1 DEF TotalOfItsSearch, search
  <2>2. ASSUME NEW q \in Query, CountFails(q) PROVE TotalOfItsSearch'
    BY <2>2 DEF TotalOfItsSearch, CountFails
  <2>3. ASSUME NEW q \in Query, SearchResource(q) PROVE TotalOfItsSearch'
    <3>1. CASE NewSearch(q)
      BY <2>3, <3>1 DEF TotalOfItsSearch, SearchResource, Total
    <3>2. CASE ~NewSearch(q)
      BY <2>3, <3>2 DEF TotalOfItsSearch, SearchResource, Total, NewSearch
    <3> QED BY <3>1, <3>2
  <2>4. CASE Registry
    BY <2>1, <2>4 DEF Registry
  <2>5. CASE Show
    BY <2>1, <2>5 DEF Show, GetJobStatusTable, AddRow, SortRows
  <2>6. CASE UNCHANGED proxyVars
    BY <2>1, <2>6 DEF proxyVars
  <2> QED BY <2>2, <2>3, <2>4, <2>5, <2>6 DEF ProxyNext, Search
<1> QED BY <1>1, <1>2, PTL DEF ProxySpec

-----------------------------------------------------------------------------
(* The invariant *)

Read == [offset : Nat, size : Int]

Fed == Maker \X Nat \X Nat

\* A file as the torrent describes it.
Entry == [file : Nat, size : Nat, checksum : Seq(Fed), reads : Seq(Read),
          chunks : Seq(Int)]

MakerTypes ==
    /\ at \in [Maker -> PC]
    /\ file \in [Maker -> Nat \ {0}]
    /\ offset \in [Maker -> Nat]
    /\ reads \in [Maker -> Seq(Read)]
    /\ pTorrent \in [Maker -> Seq(Entry)]

SharedTypes ==
    /\ engine \in Seq(Fed)
    /\ stop \in BOOLEAN
    /\ doomed \in SUBSET Maker
    /\ skips \in Nat

\* Who is in the middle of a file has the mutex, and nobody else has it.
MutexHeld == \A m \in Maker : at[m] = "chunk" <=> holder = m

\* The first chunks of a file, all of them full.
FullChunks(rs) == \A k \in 1 .. Len(rs) : rs[k].offset = (k - 1) * C /\ rs[k].size = C

\* What the engine holds after the chunks rs of a file f of maker m.
Digest(m, f, rs) == [k \in 1 .. Len(rs) |-> <<m, f, rs[k].offset>>]

\* In the middle of a file, the engine was fed the full chunks read so far
\* and nothing else, and there is something left to read.
Reading ==
    \A m \in Maker : at[m] = "chunk" =>
        /\ FileLeft(m)
        /\ FullChunks(reads[m])
        /\ offset[m] = Len(reads[m]) * C
        /\ offset[m] = 0 \/ offset[m] < FileSize(m)
        /\ engine = Digest(m, file[m], reads[m])

\* The chunks rs cover a file of the given size: all but the last are full,
\* and the last is what is left.
Covers(rs, size) ==
    LET n == Len(rs)
    IN  /\ n > 0
        /\ \A k \in 1 .. n : rs[k].offset = (k - 1) * C
        /\ \A k \in 1 .. n - 1 : rs[k].size = C
        /\ rs[n].size = size - (n - 1) * C
        /\ rs[n].size <= C
        /\ n = 1 \/ rs[n].size > 0

Described(m, r) ==
    /\ r.checksum = Digest(m, r.file, r.reads)
    /\ Covers(r.reads, r.size)
    /\ r.chunks = ChunkSizes(Len(r.reads), r.size, C)

Torrents == \A m \in Maker : \A k \in 1 .. Len(pTorrent[m]) : Described(m, pTorrent[m][k])

\* As long as no file fails, the stop of a doomed maker stands until it has
\* read a chunk of the files it had left.
StopStands ==
    skips = 0 =>
        \A m \in doomed :
            /\ stop
            /\ \/ at[m] \in {"begin", "file", "chunk"} /\ FileLeft(m)
               \/ at[m] \in {"stopped", "gone"}

MakersInv == MakerTypes /\ SharedTypes /\ MutexHeld /\ Reading /\ Torrents /\ StopStands

-----------------------------------------------------------------------------
(* Chunks *)

LEMMA Constants ==
    /\ C \in Nat \ {0}
    /\ \A m \in Maker : Len(Sizes[m]) \in Nat
    /\ \A m \in Maker : \A i \in 1 .. Len(Sizes[m]) : Sizes[m][i] \in Nat
    /\ None \notin Maker
BY MakeTorrentAssumption, LenProperties, ElementOfSeq

\* A remainder: what is left of a file after its full chunks, when it does not
\* fill one.
LEMMA LastChunk ==
    ASSUME NEW q \in Nat, NEW r \in Nat, r < C
    PROVE  (q * C + r) % C = r
<1>1. C \in Nat \ {0}
  BY Constants
<1> QED BY <1>1

\* Every chunk of a covered file is found where it was read.
LEMMA CoversMatch ==
    ASSUME NEW size \in Nat, NEW rs \in Seq(Read), Covers(rs, size),
           NEW cs, cs = ChunkSizes(Len(rs), size, C),
           NEW k \in 1 .. Len(rs)
    PROVE  /\ chunk_offset(cs, k - 1) = rs[k].offset
           /\ size > 0 => rs[k].size > 0
           /\ rs[k].offset + rs[k].size =
                 IF k = Len(rs) THEN size ELSE rs[k + 1].offset
           /\ size % C # 0 => chunk_size(cs, k - 1) = rs[k].size
<1> DEFINE n == Len(rs)
<1>1. C \in Nat \ {0} /\ n \in Nat \ {0}
  BY Constants, LenProperties DEF Covers
<1>2. /\ Len(cs) = n
      /\ \A i \in 1 .. n : cs[i] = IF i = n THEN size % C ELSE C
      /\ size % C \in Int
  <2>1. cs = [i \in 1 .. n |-> IF i = n THEN size % C ELSE C]
    BY DEF ChunkSizes, last_chunk_size
  <2>2. size % C \in Int
    BY <1>1
  <2>3. cs \in Seq(Int)
    BY <2>1, <2>2, <1>1, IsASeq
  <2> QED BY <2>1, <2>2, <2>3, <1>1, LenProperties
<1>3. /\ \A i \in 1 .. n : rs[i].offset = (i - 1) * C
      /\ \A i \in 1 .. n - 1 : rs[i].size = C
      /\ rs[n].size = size - (n - 1) * C
      /\ rs[n].size <= C
      /\ n = 1 \/ rs[n].size > 0
  BY DEF Covers
<1> HIDE DEF n
<1>4. k \in 1 .. n /\ k \in Int
  BY DEF n
<1>5. chunk_offset(cs, k - 1) = rs[k].offset
  <2>1. ~ (k - 1 >= n)
    BY <1>1, <1>4
  <2>2. chunk_offset(cs, k - 1) = cs[1] * (k - 1)
    BY <1>2, <2>1 DEF chunk_offset
  <2>3. CASE n = 1
    BY <1>1, <1>2, <1>3, <1>4, <2>2, <2>3
  <2>4. CASE n # 1
    <3>1. cs[1] = C
      BY <1>1, <1>2, <2>4
    <3>2. cs[1] * (k - 1) = (k - 1) * C
      BY <1>1, <1>4, <3>1
    <3> QED BY <2>2, <3>2, <1>3, <1>4
  <2> QED BY <2>3, <2>4
<1>6. size > 0 => rs[k].size > 0
  <2>1. CASE k = n
    BY <1>1, <1>3, <2>1
  <2>2. CASE k # n
    <3>1. k \in 1 .. n - 1
      BY <1>1, <1>4, <2>2
    <3> QED BY <1>1, <1>3, <3>1
  <2> QED BY <2>1, <2>2
<1>7. rs[k].offset + rs[k].size = IF k = n THEN size ELSE rs[k + 1].offset
  <2>1. CASE k = n
    <3>1. (n - 1) * C \in Int
      BY <1>1
    <3> QED BY <1>1, <1>3, <1>4, <2>1, <3>1
  <2>2. CASE k # n
    <3>1. k \in 1 .. n - 1 /\ k + 1 \in 1 .. n
      BY <1>1, <1>4, <2>2
    <3>2. rs[k].offset = (k - 1) * C /\ rs[k].size = C /\ rs[k + 1].offset = (k + 1 - 1) * C
      BY <1>3, <1>4, <3>1
    <3>3. (k - 1) * C + C = (k + 1 - 1) * C
      BY <1>1, <1>4
    <3> QED BY <2>2, <3>2, <3>3
  <2> QED BY <2>1, <2>2
<1>8. size % C # 0 => chunk_size(cs, k - 1) = rs[k].size
  <2> SUFFICES ASSUME size % C # 0
               PROVE  chunk_size(cs, k - 1) = rs[k].size
    OBVIOUS
  <2>1. chunk_size(cs, k - 1) = cs[k]
    <3>1. ~ (k - 1 >= n) /\ k - 1 + 1 = k
      BY <1>1, <1>4
    <3> QED BY <1>2, <3>1 DEF chunk_size
  <2>2. CASE k # n
    <3>1. k \in 1 .. n - 1
      BY <1>1, <1>4, <2>2
    <3> QED BY <1>2, <1>3, <1>4, <2>1, <2>2, <3>1
  <2>3. CASE k = n
    <3> DEFINE r == size - (n - 1) * C
               q == n - 1
    <3>1. q \in Nat /\ r \in Int /\ size = q * C + r
      BY <1>1
    <3>2. r \in Nat
      <4>1. CASE n = 1
        <5>1. (1 - 1) * C = 0
          BY <1>1
        <5> QED BY <4>1, <5>1
      <4>2. CASE n # 1
        BY <1>1, <1>3, <3>1, <4>2
      <4> QED BY <4>1, <4>2
    <3>3. r # C
      <4>1. SUFFICES ASSUME r = C PROVE FALSE
        OBVIOUS
      <4>2. size = n * C + 0
        BY <4>1, <3>1, <1>1
      <4>3. (n * C + 0) % C = 0
        BY <1>1, LastChunk
      <4> QED BY <4>2, <4>3
    <3>4. r < C
      BY <1>1, <1>3, <3>2, <3>3
    <3>5. (q * C + r) % C = r
      BY <3>1, <3>2, <3>4, LastChunk
    <3> QED BY <1>2, <1>3, <1>4, <2>1, <2>3, <3>1, <3>5
  <2> QED BY <2>2, <2>3
<1> QED BY <1>5, <1>6, <1>7, <1>8 DEF n

\* One more chunk for the engine is one more for the digest.
LEMMA DigestGrows ==
    ASSUME NEW m \in Maker, NEW f \in Nat, NEW rs \in Seq(Read), NEW x \in Read
    PROVE  Append(Digest(m, f, rs), <<m, f, x.offset>>) = Digest(m, f, Append(rs, x))
<1>1. Len(rs) \in Nat /\ Append(rs, x) \in Seq(Read) /\ Len(Append(rs, x)) = Len(rs) + 1
  BY AppendProperties, LenProperties
<1>2. \A k \in 1 .. Len(rs) : rs[k].offset \in Nat
  <2>1. \A k \in 1 .. Len(rs) : rs[k] \in Read
    BY ElementOfSeq
  <2> QED BY <2>1 DEF Read
<1>3. x.offset \in Nat
  BY DEF Read
<1> DEFINE d == Digest(m, f, rs)
<1>4. d \in Seq(Fed) /\ Len(d) = Len(rs) /\ \A k \in 1 .. Len(rs) : d[k] = <<m, f, rs[k].offset>>
  <2>1. d = [k \in 1 .. Len(rs) |-> <<m, f, rs[k].offset>>]
    BY DEF Digest
  <2>2. \A k \in 1 .. Len(rs) : <<m, f, rs[k].offset>> \in Fed
    BY <1>2 DEF Fed
  <2>3. d \in Seq(Fed)
    BY <2>1, <2>2, <1>1, IsASeq
  <2> QED BY <2>1, <2>3, <1>1, LenProperties
<1> HIDE DEF d
<1> DEFINE e == <<m, f, x.offset>>
<1>5. e \in Fed
  BY <1>3 DEF Fed
<1>6. /\ Append(d, e) \in Seq(Fed) /\ Len(Append(d, e)) = Len(rs) + 1
      /\ \A k \in 1 .. Len(rs) : Append(d, e)[k] = d[k]
      /\ Append(d, e)[Len(rs) + 1] = e
  BY <1>4, <1>5, AppendProperties
<1>7. Append(d, e) = [k \in 1 .. Len(rs) + 1 |-> Append(d, e)[k]]
  BY <1>6, LenProperties
<1>8. \A k \in 1 .. Len(rs) + 1 : Append(d, e)[k] = <<m, f, Append(rs, x)[k].offset>>
  <2> SUFFICES ASSUME NEW k \in 1 .. Len(rs) + 1
               PROVE  Append(d, e)[k] = <<m, f, Append(rs, x)[k].offset>>
    OBVIOUS
  <2>1. CASE k = Len(rs) + 1
    BY <1>6, <2>1, AppendProperties
  <2>2. CASE k # Len(rs) + 1
    <3>1. k \in 1 .. Len(rs)
      BY <1>1, <2>2
    <3>2. Append(rs, x)[k] = rs[k]
      BY <3>1, AppendProperties
    <3> QED BY <1>4, <1>6, <3>1, <3>2
  <2> QED BY <2>1, <2>2
<1> QED BY <1>1, <1>7, <1>8 DEF Digest, d

-----------------------------------------------------------------------------
(* Every step preserves the invariant *)

LEMMA InitMakers == MakeInit => MakersInv
<1> SUFFICES ASSUME MakeInit
             PROVE  MakersInv
  OBVIOUS
<1>1. /\ <<>> \in Seq(Read) /\ <<>> \in Seq(Entry) /\ <<>> \in Seq(Fed)
      /\ MaxSkips \in Nat
  BY EmptySeq, MakeTorrentAssumption
<1>2. MakerTypes
  <2>1. at \in [Maker -> PC] /\ file \in [Maker -> Nat \ {0}] /\ offset \in [Maker -> Nat]
    BY DEF MakeInit, PC
  <2>2. reads \in [Maker -> Seq(Read)]
    BY <1>1 DEF MakeInit
  <2>3. pTorrent \in [Maker -> Seq(Entry)]
    BY <1>1 DEF MakeInit
  <2> QED BY <2>1, <2>2, <2>3 DEF MakerTypes
<1>0. SharedTypes
  BY <1>1 DEF MakeInit, SharedTypes
<1>3. MutexHeld /\ Reading /\ StopStands
  BY Constants DEF MakeInit, MutexHeld, Reading, StopStands
<1>4. Torrents
  <2>1. \A m \in Maker : pTorrent[m] = <<>>
    BY DEF MakeInit
  <2>2. 1 .. Len(<<>>) = {}
    OBVIOUS
  <2> QED BY <2>1, <2>2 DEF Torrents
<1> QED BY <1>0, <1>2, <1>3, <1>4 DEF MakersInv

LEMMA StartMakers ==
    ASSUME MakersInv, NEW m \in Maker, MakeTorrentAndPublish(m)
    PROVE  MakersInv'
<1> USE DEF MakeTorrentAndPublish, GoesTo, MakersInv
<1>1. MakerTypes' /\ SharedTypes'
  BY DEF MakerTypes, SharedTypes, PC
<1>2. \A p \in Maker : /\ (at'[p] = "chunk" <=> at[p] = "chunk")
  BY DEF MakerTypes
<1>3. MutexHeld'
  BY <1>2 DEF MutexHeld
<1>4. Reading'
  BY <1>2 DEF Reading, FileLeft, FileSize
<1>5. Torrents' /\ StopStands'
  BY DEF Torrents, StopStands
<1> QED BY <1>1, <1>3, <1>4, <1>5

LEMMA StopMakers ==
    ASSUME MakersInv, StopMakingTorrent
    PROVE  MakersInv'
<1> USE DEF StopMakingTorrent, local, MakersInv
<1>1. MakerTypes' /\ SharedTypes'
  BY DEF MakerTypes, SharedTypes
<1>2. MutexHeld' /\ Reading' /\ Torrents'
  BY DEF MutexHeld, Reading, Torrents, FileLeft, FileSize
<1>3. StopStands'
  BY DEF StopStands, FileLeft
<1> QED BY <1>1, <1>2, <1>3

\* The steps of a maker outside its files.
LEMMA OutsideMakers ==
    ASSUME MakersInv, NEW m \in Maker,
           Begin(m) \/ BeginFails(m) \/ Save(m) \/ RemoveTorrent(m) \/ Publish(m)
    PROVE  MakersInv'
<1> USE DEF MakersInv, GoesTo
<1>1. /\ UNCHANGED <<file, offset, reads, pTorrent, engine, holder, stop, doomed>>
      /\ at[m] # "chunk"
      /\ \E l \in PC \ {"chunk"} : at' = [at EXCEPT ![m] = l]
      /\ skips' \in Nat /\ (skips' = skips \/ skips' = skips + 1)
  <2>1. skips \in Nat
    BY DEF SharedTypes
  <2>2. CASE Begin(m)
    BY <2>1, <2>2 DEF Begin, PC
  <2>3. CASE BeginFails(m)
    <3>1. at[m] = "begin" /\ at' = [at EXCEPT ![m] = "publish"] /\ skips' = skips + 1
      BY <2>3 DEF BeginFails
    <3>2. "publish" \in PC \ {"chunk"}
      BY DEF PC
    <3>3. UNCHANGED <<file, offset, reads, pTorrent, engine, holder, stop, doomed>>
      BY <2>3 DEF BeginFails
    <3>4. \E l \in PC \ {"chunk"} : at' = [at EXCEPT ![m] = l]
      BY <3>1, <3>2
    <3>5. at[m] # "chunk"
      BY <3>1
    <3>6. skips' \in Nat
      BY <2>1, <3>1
    <3> QED BY <3>1, <3>3, <3>4, <3>5, <3>6
  <2>4. CASE Save(m)
    BY <2>1, <2>4 DEF Save, PC
  <2>5. CASE RemoveTorrent(m)
    BY <2>1, <2>5 DEF RemoveTorrent, RemoveFrom, PC
  <2>6. CASE Publish(m)
    BY <2>1, <2>6 DEF Publish, PC
  <2> QED BY <2>2, <2>3, <2>4, <2>5, <2>6
<1>2. MakerTypes' /\ SharedTypes'
  BY <1>1 DEF MakerTypes, SharedTypes
<1>3. \A p \in Maker : at'[p] = "chunk" <=> at[p] = "chunk"
  BY <1>1 DEF MakerTypes
<1>4. MutexHeld'
  BY <1>1, <1>3 DEF MutexHeld
<1>5. Reading'
  BY <1>1, <1>3 DEF Reading, FileLeft, FileSize
<1>6. Torrents'
  BY <1>1 DEF Torrents
<1>7. StopStands'
  <2> SUFFICES ASSUME skips' = 0, NEW d \in doomed
               PROVE  /\ stop
                      /\ \/ at'[d] \in {"begin", "file", "chunk"} /\ FileLeft(d)
                         \/ at'[d] \in {"stopped", "gone"}
    BY <1>1 DEF StopStands, FileLeft
  <2>1. skips = 0 /\ skips' = skips
    BY <1>1 DEF SharedTypes
  <2>2. /\ stop
        /\ \/ at[d] \in {"begin", "file", "chunk"} /\ FileLeft(d)
           \/ at[d] \in {"stopped", "gone"}
    BY <2>1 DEF StopStands
  <2>3. d \in Maker
    BY DEF SharedTypes
  <2>4. CASE d # m
    BY <1>1, <2>2, <2>3, <2>4 DEF MakerTypes
  <2>5. CASE d = m
    <3>1. at \in [Maker -> PC] /\ skips \in Nat
      BY DEF MakerTypes, SharedTypes
    <3>2. CASE Begin(m)
      BY <3>1, <2>2, <2>5, <3>2 DEF Begin
    <3>3. CASE BeginFails(m)
      BY <3>1, <2>1, <3>3 DEF BeginFails
    <3>4. CASE Save(m)
      BY <3>1, <2>2, <2>5, <3>4 DEF Save
    <3>5. CASE RemoveTorrent(m)
      BY <3>1, <2>2, <2>5, <3>5 DEF RemoveTorrent, RemoveFrom
    <3>6. CASE Publish(m)
      BY <3>1, <2>2, <2>5, <3>6 DEF Publish
    <3> QED BY <3>2, <3>3, <3>4, <3>5, <3>6
  <2> QED BY <2>4, <2>5
<1> QED BY <1>2, <1>4, <1>5, <1>6, <1>7

LEMMA OpenMakers ==
    ASSUME MakersInv, NEW m \in Maker, OpenFile(m)
    PROVE  MakersInv'
<1> USE DEF MakersInv, OpenFile, OpenWith, GoesTo
<1>1. <<>> \in Seq(Read) /\ <<>> \in Seq(Fed) /\ Len(<<>>) = 0
  BY EmptySeq
<1>2. MakerTypes' /\ SharedTypes'
  BY <1>1 DEF MakerTypes, SharedTypes, PC
<1>3. \A p \in Maker : at[p] # "chunk" /\ (at'[p] = "chunk" <=> p = m)
  BY Constants DEF MutexHeld, MakerTypes
<1>4. MutexHeld'
  BY <1>3 DEF MutexHeld
<1>5. Reading'
  <2>1. reads'[m] = <<>> /\ offset'[m] = 0
    BY DEF MakerTypes
  <2>2. 1 .. Len(<<>>) = {} /\ 0 * C = 0
    BY Constants
  <2>3. FullChunks(reads'[m])
    BY <2>1, <2>2 DEF FullChunks
  <2>4. Digest(m, file[m], <<>>) = <<>>
    BY <2>2 DEF Digest
  <2>5. FileLeft(m)'
    BY DEF FileLeft
  <2> QED BY <1>1, <1>3, <2>1, <2>2, <2>3, <2>4, <2>5 DEF Reading
<1>6. Torrents'
  BY DEF Torrents
<1>7. StopStands'
  BY <1>3 DEF StopStands, MakerTypes, SharedTypes, FileLeft
<1> QED BY <1>2, <1>4, <1>5, <1>6, <1>7

LEMMA SkipMakers ==
    ASSUME MakersInv, NEW m \in Maker, SkipFile(m)
    PROVE  MakersInv'
<1> USE DEF MakersInv, SkipFile, GoesTo
<1>1. MakerTypes' /\ SharedTypes'
  BY DEF MakerTypes, SharedTypes, PC
<1>2. \A p \in Maker : at'[p] # "chunk"
  BY Constants DEF MutexHeld, MakerTypes
<1>3. MutexHeld'
  BY <1>2, Constants DEF MutexHeld
<1>4. Reading'
  BY <1>2 DEF Reading
<1>5. Torrents' /\ StopStands'
  BY DEF Torrents, StopStands, SharedTypes
<1> QED BY <1>1, <1>3, <1>4, <1>5

\* The chunk a maker reads, and what it has read then.
LEMMA ChunkFacts ==
    ASSUME MakersInv, NEW m \in Maker, ChunkRead(m)
    PROVE  LET x == [offset |-> offset[m], size |-> ReadSize(offset[m], FileSize(m), C)]
           IN  /\ holder = m /\ FileLeft(m)
               /\ file[m] \in Nat /\ FileSize(m) \in Nat /\ offset[m] \in Nat
               /\ x \in Read
               /\ reads[m] \in Seq(Read)
               /\ reads' = [reads EXCEPT ![m] = Append(reads[m], x)]
               /\ Append(reads[m], x) \in Seq(Read)
               /\ engine' = Digest(m, file[m], Append(reads[m], x))
               /\ engine' \in Seq(Fed)
<1> DEFINE x == [offset |-> offset[m], size |-> ReadSize(offset[m], FileSize(m), C)]
<1>1. at[m] = "chunk"
  BY DEF ChunkRead
<1>2. holder = m /\ FileLeft(m) /\ engine = Digest(m, file[m], reads[m])
  BY <1>1 DEF MakersInv, MutexHeld, Reading
<1>3. file[m] \in Nat \ {0} /\ offset[m] \in Nat /\ reads \in [Maker -> Seq(Read)] /\ engine \in Seq(Fed)
  BY DEF MakersInv, MakerTypes, SharedTypes
<1>4. FileSize(m) \in Nat
  <2>1. file[m] \in 1 .. Len(Sizes[m])
    BY <1>2, <1>3, Constants DEF FileLeft
  <2> QED BY <2>1, Constants DEF FileSize
<1>5. x \in Read
  BY <1>3, <1>4, Constants DEF ReadSize, Read
<1>6. reads' = [reads EXCEPT ![m] = Append(reads[m], x)] /\ engine' = Append(engine, <<m, file[m], x.offset>>)
  BY <1>3 DEF ChunkRead
<1> HIDE DEF x
<1>7. reads[m] \in Seq(Read) /\ Append(reads[m], x) \in Seq(Read)
  BY <1>3, <1>5, AppendProperties
<1>8. engine' = Digest(m, file[m], Append(reads[m], x))
  BY <1>2, <1>3, <1>5, <1>6, <1>7, DigestGrows
<1>9. engine' \in Seq(Fed)
  <2>1. <<m, file[m], x.offset>> \in Fed
    BY <1>3, <1>5 DEF Fed, Read
  <2> QED BY <1>3, <1>6, <2>1, AppendProperties
<1> QED BY <1>2, <1>3, <1>4, <1>5, <1>6, <1>7, <1>8, <1>9 DEF x

\* A stop: nothing is described, the stopped maker leaves the mutex.
LEMMA StoppedMakers ==
    ASSUME MakersInv, NEW m \in Maker, ChunkRead(m), stop, StopReading(m)
    PROVE  MakersInv'
<1> USE DEF MakersInv, StopReading, GoesTo
<1> DEFINE x == [offset |-> offset[m], size |-> ReadSize(offset[m], FileSize(m), C)]
<1>1. /\ holder = m /\ engine' \in Seq(Fed)
      /\ reads' = [reads EXCEPT ![m] = Append(reads[m], x)]
      /\ Append(reads[m], x) \in Seq(Read)
  BY ChunkFacts
<1> HIDE DEF x
<1>2. UNCHANGED <<stop, doomed, skips>>
  BY DEF ChunkRead
<1>3. MakerTypes'
  BY <1>1 DEF MakerTypes, PC
<1>4. SharedTypes'
  BY <1>1, <1>2 DEF SharedTypes
<1>5. \A p \in Maker : at'[p] # "chunk"
  BY <1>1 DEF MakerTypes, MutexHeld
<1>6. MutexHeld' /\ Reading'
  BY <1>5, Constants DEF MutexHeld, Reading
<1>7. Torrents'
  BY DEF Torrents
<1>8. StopStands'
  BY <1>2 DEF StopStands, MakerTypes, SharedTypes, FileLeft
<1> QED BY <1>3, <1>4, <1>6, <1>7, <1>8

\* A full chunk, with more of the file to come.
LEMMA NextMakers ==
    ASSUME MakersInv, NEW m \in Maker, ChunkRead(m), NextChunk(m)
    PROVE  MakersInv'
<1> USE DEF MakersInv, NextChunk
<1> DEFINE x == [offset |-> offset[m], size |-> ReadSize(offset[m], FileSize(m), C)]
           n == Len(reads[m])
<1>1. /\ holder = m /\ engine' \in Seq(Fed) /\ FileLeft(m)
      /\ x \in Read /\ FileSize(m) \in Nat /\ offset[m] \in Nat
      /\ reads[m] \in Seq(Read)
      /\ reads' = [reads EXCEPT ![m] = Append(reads[m], x)]
      /\ Append(reads[m], x) \in Seq(Read)
      /\ engine' = Digest(m, file[m], Append(reads[m], x))
  BY ChunkFacts
<1>2. C \in Nat \ {0} /\ n \in Nat
  BY <1>1, Constants, LenProperties
<1>3. x.offset = offset[m] /\ x.size = C
  BY DEF ReadSize
<1>4. /\ Len(Append(reads[m], x)) = n + 1
      /\ \A k \in 1 .. n : Append(reads[m], x)[k] = reads[m][k]
      /\ Append(reads[m], x)[n + 1] = x
  BY <1>1, AppendProperties
<1> HIDE DEF x
<1>5. UNCHANGED <<stop, doomed, skips>>
  BY DEF ChunkRead
<1>6. MakerTypes'
  BY <1>1, <1>2 DEF MakerTypes
<1>7. SharedTypes'
  BY <1>1, <1>5 DEF SharedTypes
<1>8. \A p \in Maker : at'[p] = "chunk" <=> p = m
  BY <1>1 DEF MutexHeld, ChunkRead
<1>9. MutexHeld'
  BY <1>8, <1>1 DEF MutexHeld
<1>10. reads'[m] = Append(reads[m], x) /\ offset'[m] = offset[m] + C
  BY <1>1 DEF MakerTypes
<1>11. Reading'
  <2>1. offset[m] = n * C /\ FullChunks(reads[m])
    BY <1>1 DEF Reading, MutexHeld
  <2>2. FullChunks(Append(reads[m], x))
    <3> SUFFICES ASSUME NEW k \in 1 .. n + 1
                 PROVE  /\ Append(reads[m], x)[k].offset = (k - 1) * C
                        /\ Append(reads[m], x)[k].size = C
      BY <1>4 DEF FullChunks
    <3>1. CASE k = n + 1
      <4>1. n = k - 1
        BY <1>2, <3>1
      <4> QED BY <1>3, <1>4, <2>1, <3>1, <4>1
    <3>2. CASE k # n + 1
      <4>1. k \in 1 .. n
        BY <1>2, <3>2
      <4> QED BY <1>4, <2>1, <4>1 DEF FullChunks
    <3> QED BY <3>1, <3>2
  <2>3. offset'[m] = (n + 1) * C
    BY <1>2, <1>10, <2>1
  <2>4. offset'[m] < FileSize(m)
    BY <1>10 DEF MoreAfter
  <2>5. FileLeft(m)' /\ FileSize(m)' = FileSize(m)
    BY <1>1 DEF FileLeft, FileSize
  <2> QED BY <1>1, <1>4, <1>8, <1>10, <2>2, <2>3, <2>4, <2>5 DEF Reading
<1>12. Torrents' /\ StopStands'
  BY <1>5 DEF Torrents, StopStands, FileLeft
<1> QED BY <1>6, <1>7, <1>9, <1>11, <1>12

\* Full chunks and what is left cover a file.
LEMMA CoversFile ==
    ASSUME NEW rs, NEW size, NEW n \in Nat, Len(rs) = n + 1,
           \A k \in 1 .. n + 1 : rs[k].offset = (k - 1) * C,
           \A k \in 1 .. n : rs[k].size = C,
           rs[n + 1].size = size - n * C,
           rs[n + 1].size <= C,
           n = 0 \/ rs[n + 1].size > 0
    PROVE  Covers(rs, size)
<1>1. n + 1 > 0 /\ (n + 1) - 1 = n /\ (n + 1 = 1 \/ n # 0)
  OBVIOUS
<1>2. n + 1 = 1 \/ rs[n + 1].size > 0
  BY <1>1
<1> QED BY <1>1, <1>2 DEF Covers

\* The last chunk: the file is described.
LEMMA RecordMakers ==
    ASSUME MakersInv, NEW m \in Maker, ChunkRead(m), ~ stop, RecordFile(m)
    PROVE  MakersInv'
<1> USE DEF MakersInv, RecordFile, GoesTo
<1> DEFINE size == FileSize(m)
           x == [offset |-> offset[m], size |-> ReadSize(offset[m], size, C)]
           n == Len(reads[m])
           rs == Append(reads[m], x)
           r == [file |-> file[m], size |-> size, checksum |-> engine', reads |-> rs,
                 chunks |-> ChunkSizes(Len(rs), size, C)]
<1>1. /\ holder = m /\ engine' \in Seq(Fed) /\ FileLeft(m)
      /\ x \in Read /\ size \in Nat /\ offset[m] \in Nat /\ file[m] \in Nat
      /\ reads[m] \in Seq(Read)
      /\ reads' = [reads EXCEPT ![m] = rs]
      /\ rs \in Seq(Read)
      /\ engine' = Digest(m, file[m], rs)
  BY ChunkFacts
<1>2. C \in Nat \ {0} /\ n \in Nat
  BY <1>1, Constants, LenProperties
<1>3. x.offset = offset[m] /\ x.size = size - offset[m] /\ ~ (offset[m] + C < size)
  BY DEF ReadSize, MoreAfter
<1>4. /\ Len(rs) = n + 1
      /\ \A k \in 1 .. n : rs[k] = reads[m][k]
      /\ rs[n + 1] = x
  BY <1>1, AppendProperties
<1>5. reads'[m] = rs
  BY <1>1 DEF MakerTypes
<1>6. pTorrent' = [pTorrent EXCEPT ![m] = Append(pTorrent[m], r)]
  BY <1>5 DEF MakerTypes
<1> HIDE DEF x, rs
<1>7. UNCHANGED <<stop, doomed, skips>> /\ at[m] = "chunk"
  BY DEF ChunkRead
<1>8. \A p \in Maker : at'[p] # "chunk"
  BY <1>1 DEF MakerTypes, MutexHeld
<1>9. MutexHeld' /\ Reading'
  BY <1>8, Constants DEF MutexHeld, Reading
<1>10. Covers(rs, size)
  <2> HIDE DEF size
  <2>1. offset[m] = n * C /\ FullChunks(reads[m]) /\ (offset[m] = 0 \/ offset[m] < size)
    BY <1>7 DEF Reading, size
  <2>2. \A k \in 1 .. n : rs[k].offset = (k - 1) * C /\ rs[k].size = C
    BY <1>4, <2>1 DEF FullChunks
  <2>3. rs[n + 1].offset = n * C /\ rs[n + 1].size = size - n * C
    BY <1>3, <1>4, <2>1
  <2>4. n * C \in Nat
    BY <1>1, <2>1
  <2>5. size - n * C <= C
    BY <1>1, <1>2, <1>3, <2>1
  <2>6. n = 0 \/ size - n * C > 0
    <3>1. CASE offset[m] = 0
      <4>1. n = 0
        BY <1>2, <2>1, <3>1
      <4> QED BY <4>1
    <3>2. CASE offset[m] < size
      BY <1>1, <2>1, <2>4, <3>2
    <3> QED BY <2>1, <3>1, <3>2
  <2>7. \A k \in 1 .. n + 1 : rs[k].offset = (k - 1) * C
    <3> SUFFICES ASSUME NEW k \in 1 .. n + 1
                 PROVE  rs[k].offset = (k - 1) * C
      OBVIOUS
    <3>1. CASE k = n + 1
      <4>1. k - 1 = n
        BY <1>2, <3>1
      <4> QED BY <2>3, <3>1, <4>1
    <3>2. CASE k # n + 1
      <4>1. k \in 1 .. n
        BY <1>2, <3>2
      <4> QED BY <2>2, <4>1
    <3> QED BY <3>1, <3>2
  <2>8. rs[n + 1].size <= C /\ (n = 0 \/ rs[n + 1].size > 0)
    BY <2>3, <2>5, <2>6
  <2> HIDE DEF n
  <2> QED BY <1>2, <1>4, <2>2, <2>3, <2>7, <2>8, CoversFile
<1>11. Described(m, r)
  BY <1>1, <1>10 DEF Described
<1>12. r \in Entry
  <2>1. ChunkSizes(Len(rs), size, C) \in Seq(Int)
    <3> HIDE DEF size
    <3>1. size % C \in Int
      BY <1>1, <1>2
    <3>2. Len(rs) \in Nat
      BY <1>2, <1>4
    <3>3. \A k \in 1 .. Len(rs) : (IF k = Len(rs) THEN size % C ELSE C) \in Int
      BY <1>2, <3>1
    <3>4. [k \in 1 .. Len(rs) |-> IF k = Len(rs) THEN size % C ELSE C] \in Seq(Int)
      BY <3>2, <3>3, IsASeq
    <3> QED BY <3>4 DEF ChunkSizes, last_chunk_size
  <2> HIDE DEF size
  <2> QED BY <1>1, <2>1 DEF Entry
<1> HIDE DEF r
<1>13. /\ pTorrent[m] \in Seq(Entry)
       /\ Append(pTorrent[m], r) \in Seq(Entry)
       /\ Len(pTorrent[m]) \in Nat
       /\ Len(Append(pTorrent[m], r)) = Len(pTorrent[m]) + 1
       /\ \A k \in 1 .. Len(pTorrent[m]) : Append(pTorrent[m], r)[k] = pTorrent[m][k]
       /\ Append(pTorrent[m], r)[Len(pTorrent[m]) + 1] = r
  <2>1. pTorrent[m] \in Seq(Entry)
    BY DEF MakerTypes
  <2> QED BY <2>1, <1>12, AppendProperties, LenProperties
<1>14. MakerTypes'
  <2>1. at' \in [Maker -> PC] /\ offset' \in [Maker -> Nat]
    BY DEF MakerTypes, PC
  <2>2. file' \in [Maker -> Nat \ {0}]
    BY DEF MakerTypes
  <2>3. reads' \in [Maker -> Seq(Read)]
    BY <1>1 DEF MakerTypes
  <2>4. pTorrent' \in [Maker -> Seq(Entry)]
    BY <1>6, <1>13 DEF MakerTypes
  <2> QED BY <2>1, <2>2, <2>3, <2>4 DEF MakerTypes
<1>15. SharedTypes'
  BY <1>1, <1>7 DEF SharedTypes
<1>16. Torrents'
  <2> SUFFICES ASSUME NEW p \in Maker, NEW k \in 1 .. Len(pTorrent'[p])
               PROVE  Described(p, pTorrent'[p][k])
    BY DEF Torrents, Described
  <2>1. CASE p # m
    BY <1>6, <2>1 DEF Torrents, MakerTypes
  <2>2. CASE p = m
    <3>1. pTorrent'[m] = Append(pTorrent[m], r)
      BY <1>6 DEF MakerTypes
    <3>2. CASE k = Len(pTorrent[m]) + 1
      BY <1>11, <1>13, <2>2, <3>1, <3>2
    <3>3. CASE k # Len(pTorrent[m]) + 1
      <4>1. k \in 1 .. Len(pTorrent[m])
        BY <1>13, <2>2, <3>1, <3>3
      <4> QED BY <1>13, <2>2, <3>1, <4>1 DEF Torrents
    <3> QED BY <3>2, <3>3
  <2> QED BY <2>1, <2>2
<1>17. StopStands'
  BY <1>7 DEF StopStands
<1> QED BY <1>9, <1>14, <1>15, <1>16, <1>17

\* All steps.
LEMMA NextMakersInv ==
    ASSUME MakersInv, [MakeNext]_makeVars
    PROVE  MakersInv'
<1>1. CASE UNCHANGED makeVars
  BY <1>1 DEF makeVars, local, MakersInv, MakerTypes, SharedTypes, MutexHeld, Reading,
     FullChunks, FileLeft, FileSize, Torrents, StopStands
<1>2. CASE StopMakingTorrent
  BY <1>2, StopMakers
<1>3. ASSUME NEW m \in Maker, MakeTorrentAndPublish(m)
      PROVE  MakersInv'
  BY <1>3, StartMakers
<1>4. ASSUME NEW m \in Maker, MakerStep(m)
      PROVE  MakersInv'
  <2>1. CASE Begin(m) \/ BeginFails(m) \/ Save(m) \/ RemoveTorrent(m) \/ Publish(m)
    BY <2>1, OutsideMakers
  <2>2. CASE OpenFile(m)
    BY <2>2, OpenMakers
  <2>3. CASE SkipFile(m)
    BY <2>3, SkipMakers
  <2>4. CASE ReadChunk(m)
    <3>1. /\ ChunkRead(m)
          /\ \/ stop /\ StopReading(m)
             \/ ~ stop /\ (NextChunk(m) \/ RecordFile(m))
      BY <2>4 DEF ReadChunk
    <3> QED BY <3>1, StoppedMakers, NextMakers, RecordMakers
  <2> QED BY <1>4, <2>1, <2>2, <2>3, <2>4 DEF MakerStep
<1> QED BY <1>1, <1>2, <1>3, <1>4 DEF MakeNext

THEOREM MakersInvariant == MakeSpec => []MakersInv
<1>1. MakeInit => MakersInv
  BY InitMakers
<1>2. MakersInv /\ [MakeNext]_makeVars => MakersInv'
  BY NextMakersInv
<1> QED BY <1>1, <1>2, PTL DEF MakeSpec

-----------------------------------------------------------------------------
(* What the project's runs check, for all makers and files *)

LEMMA EntryOf ==
    ASSUME MakersInv, NEW m \in Maker, NEW r \in Range(pTorrent[m])
    PROVE  r \in Entry /\ Described(m, r)
<1>1. pTorrent[m] \in Seq(Entry)
  BY DEF MakersInv, MakerTypes
<1>2. PICK k \in 1 .. Len(pTorrent[m]) : r = pTorrent[m][k]
  <2>1. DOMAIN pTorrent[m] = 1 .. Len(pTorrent[m])
    BY <1>1, LenProperties
  <2> QED BY <2>1 DEF Range
<1> QED BY <1>1, <1>2, ElementOfSeq DEF MakersInv, Torrents

\* The mutex of Verification is held by the one maker that is in the middle
\* of a file, and by nobody else.
THEOREM OneReader == MakeSpec => []MutexHeld
<1>1. MakersInv => MutexHeld
  BY DEF MakersInv
<1> QED BY <1>1, MakersInvariant, PTL

\* The checksum of a file in a torrent is that of all its chunks, in order,
\* and of nothing else.
THEOREM ChecksumsOfFiles == MakeSpec => []DigestOfFile
<1>1. MakersInv => DigestOfFile
  BY EntryOf DEF DigestOfFile, Described, Digest
<1> QED BY <1>1, MakersInvariant, PTL

\* Downloaders find the chunks of a file, whatever its size and that of the
\* chunks, where the maker read them, and the chunks are the whole file.
THEOREM OffsetsAgree == MakeSpec => []OffsetsMatch
<1>1. ASSUME MakersInv, NEW m \in Maker, NEW r \in Range(pTorrent[m])
      PROVE  /\ \A k \in 1 .. Len(r.reads) :
                   /\ chunk_offset(r.chunks, k - 1) = r.reads[k].offset
                   /\ r.size > 0 => r.reads[k].size > 0
                   /\ r.reads[k].offset + r.reads[k].size =
                         IF k = Len(r.reads) THEN r.size ELSE r.reads[k + 1].offset
             /\ r.size % C # 0 =>
                   \A k \in 1 .. Len(r.reads) : chunk_size(r.chunks, k - 1) = r.reads[k].size
  <2>1. r \in Entry /\ Described(m, r)
    BY <1>1, EntryOf
  <2>2. r.size \in Nat /\ r.reads \in Seq(Read)
    BY <2>1 DEF Entry
  <2>3. Covers(r.reads, r.size) /\ r.chunks = ChunkSizes(Len(r.reads), r.size, C)
    BY <2>1 DEF Described
  <2> QED BY <2>2, <2>3, CoversMatch
<1>2. MakersInv => OffsetsMatch
  BY <1>1 DEF OffsetsMatch
<1> QED BY <1>2, MakersInvariant, PTL

\* A maker that the user stops while it has a file to read publishes nothing,
\* as long as no file fails and no new maker clears the flag.
THEOREM StopsHeeded == MakeSpec => []StopHeeded
<1>1. MakersInv => StopHeeded
  BY DEF MakersInv, StopStands, StopHeeded
<1> QED BY <1>1, MakersInvariant, PTL
=============================================================================
