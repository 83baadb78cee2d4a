-------------------------- MODULE LocalSockManager --------------------------
(***************************************************************************)
(* The pool of sockets to other clients (local_sock_manager.cc).  For each *)
(* client the pool keeps a list of (socket, IDLE | USED) pairs; the list   *)
(* only ever grows, so a socket is named by its client and its position.   *)
(* Every operation runs under client_sock_map_mutex_ and is one step.      *)
(*                                                                         *)
(* This module gives the state and the operations.  It has no behaviour of *)
(* its own: SockUsers composes it with the jobs of the application, and    *)
(* DownloadJob with the threads of one job.                                *)
(***************************************************************************)
EXTENDS Naturals, Sequences, FiniteSets

CONSTANTS
    Client,     \* the remote clients (clientid)
    MaxConn     \* MAX_CONNECTION_PER_CLIENT, 10 in the code

ASSUME MaxConnAssumption == MaxConn \in Nat \ {0}

VARIABLE
    sockList    \* client_sock_map_ : Client -> list of (socket, status)

-----------------------------------------------------------------------------
\* A pair of SockList.  `null` is a pair whose SockPtr is NULL: the code
\* pushes the result of make_connection without looking at it.
SockEntry == [null : BOOLEAN, status : {"IDLE", "USED"}]

Sock == Client \X (Nat \ {0})

SockListType == sockList \in [Client -> Seq(SockEntry)]

SockListInit == sockList = [c \in Client |-> <<>>]

\* A client has a list (and a condition variable) once one connection to it
\* has been made, and a list is never empty.
is_connected(c) == sockList[c] # <<>>

\* The sockets of c that IdleSockSelector accepts.
IdleSocks(c) == {i \in DOMAIN sockList[c] : sockList[c][i].status = "IDLE"}

\* The sockets a thread of the program may believe it holds.
UsedSocks ==
    {s \in UNION {{c} \X DOMAIN sockList[c] : c \in Client} :
        /\ sockList[s[1]][s[2]].status = "USED"
        /\ ~ sockList[s[1]][s[2]].null}

\* The payload of a client is the length of its list; a client with no list
\* counts as fully loaded (100, where a full list counts as 1).
get_payload_percentage(c) ==
    IF is_connected(c) THEN Len(sockList[c]) ELSE 100 * MaxConn

SetStatus(c, i, st) ==
    sockList' = [sockList EXCEPT ![c][i].status = st]

Push(c, isNull, st) ==
    sockList' = [sockList EXCEPT ![c] = Append(@, [null |-> isNull, status |-> st])]

-----------------------------------------------------------------------------
\* connect_client when the peer accepts: the limit is tested with `>`.
\* When it is reached, or the peer is unreachable, nothing changes.
connect_client(c) ==
    /\ Len(sockList[c]) <= MaxConn
    /\ Push(c, FALSE, "IDLE")

\* What find_if returns, and the case in which it returns the end.
FirstIdle(c, i) == i \in IdleSocks(c) /\ \A j \in IdleSocks(c) : i <= j

AllUsed(c) == is_connected(c) /\ IdleSocks(c) = {}

NewSock(c, i) == i = Len(sockList[c]) + 1 /\ Push(c, FALSE, "USED")

\* get_idle_client_sock returning the socket at position i: the first idle
\* one, or a new connection to the peer of the first one.
\* (Faulty variants, to validate NoSharedSock and ListBound: the idle socket
\* is not marked as used; the limit is not tested.)
get_idle_unmarked(c, i) ==
    \/ FirstIdle(c, i) /\ UNCHANGED sockList
    \/ AllUsed(c) /\ Len(sockList[c]) <= MaxConn /\ NewSock(c, i)

get_idle_unlimited(c, i) ==
    \/ FirstIdle(c, i) /\ SetStatus(c, i, "USED")
    \/ AllUsed(c) /\ Len(sockList[c]) <= MaxConn + 1 /\ NewSock(c, i)

get_idle_client_sock(c, i) ==
    \/ FirstIdle(c, i) /\ SetStatus(c, i, "USED")
    \/ AllUsed(c) /\ Len(sockList[c]) <= MaxConn /\ NewSock(c, i)

\* get_idle_client_sock returning NULL because c has no list, or its list is
\* full and every socket of it is used.
get_idle_refused(c) ==
    /\ IdleSocks(c) = {}
    /\ is_connected(c) => Len(sockList[c]) > MaxConn
    /\ UNCHANGED sockList

\* get_idle_client_sock returning NULL because the new connection failed: the
\* NULL socket is pushed on the list all the same, and marked USED.
get_idle_connect_failed(c) ==
    /\ AllUsed(c)
    /\ Len(sockList[c]) <= MaxConn
    /\ Push(c, TRUE, "USED")

\* return_sock, without its signal: the caller names the waiter it wakes.
\* (Faulty variant, to validate UsedIsHeld and NobodyWaits: the mark stays.)
return_sock_forgets(c, i) == i \in DOMAIN sockList[c] /\ UNCHANGED sockList

return_sock(c, i) ==
    IF i \in DOMAIN sockList[c]
    THEN SetStatus(c, i, "IDLE")
    ELSE UNCHANGED sockList

-----------------------------------------------------------------------------
(* What the pool keeps to, whoever uses it *)

\* connect_client and get_idle_client_sock test the limit with `>`: a list
\* gets to one more than MAX_CONNECTION_PER_CLIENT and never further.
ListBound == \A c \in Client : Len(sockList[c]) <= MaxConn + 1

\* get_idle_client_sock dereferences the first socket of a list to find the
\* peer's address; NULL entries may be anywhere but there.
PrototypeNotNull == \A c \in Client : is_connected(c) => ~ sockList[c][1].null

=============================================================================
