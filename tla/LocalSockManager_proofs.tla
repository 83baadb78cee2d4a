----------------------- MODULE LocalSockManager_proofs -----------------------
(***************************************************************************)
(* Lemmas about the operations of the socket pool, for any clients and any *)
(* limit: what each does to the lists and to the set of sockets in use.    *)
(* The proofs about the jobs that share the pool (SockUsers) and about the *)
(* threads of one job (DownloadJob) rest on them.                          *)
(***************************************************************************)
EXTENDS LocalSockManager, TLAPS

\* A NULL pair of a list is marked USED and stays so: nobody can return it,
\* and find_if never finds it.
NullIsUsed ==
    \A c \in Client : \A i \in 1 .. Len(sockList[c]) :
        sockList[c][i].null => sockList[c][i].status = "USED"

PoolOK == SockListType /\ NullIsUsed /\ ListBound /\ PrototypeNotNull

-----------------------------------------------------------------------------
(* Lemmas about the operations of the pool.                                *)

\* A socket that may be held: a position of a list whose pair is not NULL and
\* is marked USED.
LEMMA UsedSocksMember ==
    ASSUME SockListType, NEW c \in Client, NEW i
    PROVE  <<c, i>> \in UsedSocks <=>
              /\ i \in 1 .. Len(sockList[c])
              /\ sockList[c][i].status = "USED"
              /\ ~ sockList[c][i].null
BY DEF UsedSocks, SockListType, SockEntry

\* The same in the next state.
LEMMA UsedSocksMemberNext ==
    ASSUME SockListType', NEW c \in Client, NEW i
    PROVE  <<c, i>> \in UsedSocks' <=>
              /\ i \in 1 .. Len(sockList'[c])
              /\ sockList'[c][i].status = "USED"
              /\ ~ sockList'[c][i].null
BY DEF UsedSocks, SockListType, SockEntry

\* Every used socket is a socket.
LEMMA UsedSocksType == SockListType => UsedSocks \subseteq Sock
BY DEF UsedSocks, SockListType, Sock

\* Two sets of used sockets agree when they agree on every pair.
LEMMA SameUsed ==
    ASSUME SockListType, SockListType',
           NEW T \in SUBSET Sock,
           \A c \in Client : \A i \in Nat \ {0} : <<c, i>> \in UsedSocks' <=> <<c, i>> \in T
    PROVE  UsedSocks' = T
<1>1. UsedSocks' \subseteq Sock
  BY DEF UsedSocks, SockListType, Sock
<1> QED BY <1>1 DEF Sock

\* Appending a pair leaves the others where they are.
LEMMA PushEffect ==
    ASSUME SockListType, NEW c \in Client, NEW n \in BOOLEAN, NEW st \in {"IDLE", "USED"},
           Push(c, n, st)
    PROVE  /\ SockListType'
           /\ Len(sockList'[c]) = Len(sockList[c]) + 1
           /\ sockList'[c][Len(sockList[c]) + 1] = [null |-> n, status |-> st]
           /\ \A i \in 1 .. Len(sockList[c]) : sockList'[c][i] = sockList[c][i]
           /\ \A d \in Client \ {c} : sockList'[d] = sockList[d]
<1> DEFINE e == [null |-> n, status |-> st]
<1>1. e \in SockEntry
  BY DEF SockEntry
<1>2. sockList[c] \in Seq(SockEntry) /\ sockList'[c] = Append(sockList[c], e)
  BY DEF SockListType, Push
<1>3. \A d \in Client \ {c} : sockList'[d] = sockList[d]
  BY DEF SockListType, Push
<1>4. SockListType'
  BY <1>1, <1>2 DEF SockListType, Push
<1> QED BY <1>1, <1>2, <1>3, <1>4

\* Marking a pair changes its mark only.
LEMMA SetStatusEffect ==
    ASSUME SockListType, NEW c \in Client, NEW i \in 1 .. Len(sockList[c]),
           NEW st \in {"IDLE", "USED"}, SetStatus(c, i, st)
    PROVE  /\ SockListType'
           /\ Len(sockList'[c]) = Len(sockList[c])
           /\ sockList'[c][i].status = st /\ sockList'[c][i].null = sockList[c][i].null
           /\ \A j \in 1 .. Len(sockList[c]) \ {i} : sockList'[c][j] = sockList[c][j]
           /\ \A d \in Client \ {c} : sockList'[d] = sockList[d]
<1>1. sockList[c] \in Seq(SockEntry) /\ sockList[c][i] \in SockEntry
  BY DEF SockListType
<1>2. sockList'[c] = [sockList[c] EXCEPT ![i] = [sockList[c][i] EXCEPT !.status = st]]
  BY DEF SockListType, SetStatus
<1>3. [sockList[c][i] EXCEPT !.status = st] \in SockEntry
  BY <1>1 DEF SockEntry
<1>4. \A d \in Client \ {c} : sockList'[d] = sockList[d]
  BY DEF SockListType, SetStatus
<1>5. sockList'[c] \in Seq(SockEntry) /\ Len(sockList'[c]) = Len(sockList[c])
  BY <1>1, <1>2, <1>3
<1>6. SockListType'
  BY <1>4, <1>5 DEF SockListType, SetStatus
<1>7. sockList'[c][i].status = st /\ sockList'[c][i].null = sockList[c][i].null
  BY <1>1, <1>2 DEF SockEntry
<1> QED BY <1>1, <1>2, <1>4, <1>5, <1>6, <1>7

-----------------------------------------------------------------------------
(* What each operation does to the pool and to the set of used sockets.    *)

\* Making a connection: the new socket is the last of its list.
LEMMA NewEffect ==
    ASSUME PoolOK, NEW c \in Client, NEW n \in BOOLEAN, NEW st \in {"IDLE", "USED"},
           Len(sockList[c]) <= MaxConn, Push(c, n, st),
           n => st = "USED" /\ is_connected(c)
    PROVE  /\ PoolOK'
           /\ <<c, Len(sockList[c]) + 1>> \in Sock \ UsedSocks
           /\ UsedSocks' = UsedSocks \cup {s \in {<<c, Len(sockList[c]) + 1>>} : st = "USED" /\ ~ n}
<1> USE MaxConnAssumption DEF PoolOK
<1> DEFINE k == Len(sockList[c]) + 1
           T == UsedSocks \cup {s \in {<<c, k>>} : st = "USED" /\ ~ n}
<1>1. /\ SockListType'
      /\ Len(sockList'[c]) = k
      /\ sockList'[c][k] = [null |-> n, status |-> st]
      /\ \A i \in 1 .. Len(sockList[c]) : sockList'[c][i] = sockList[c][i]
      /\ \A d \in Client \ {c} : sockList'[d] = sockList[d]
  BY PushEffect
<1>2. \A d \in Client : Len(sockList[d]) \in Nat
  BY DEF SockListType
<1>3. NullIsUsed'
  BY <1>1, <1>2 DEF NullIsUsed
<1>4. ListBound'
  BY <1>1, <1>2 DEF ListBound
<1>5. PrototypeNotNull'
  <2>1. ASSUME NEW d \in Client, is_connected(d)' PROVE ~ sockList'[d][1].null
    <3>1. CASE d # c
      BY <1>1, <2>1, <3>1 DEF PrototypeNotNull, is_connected
    <3>2. CASE d = c /\ is_connected(c)
      <4>1. 1 \in 1 .. Len(sockList[c])
        BY <3>2 DEF is_connected, SockListType
      <4> QED BY <1>1, <3>2, <4>1 DEF PrototypeNotNull
    <3>3. CASE d = c /\ ~ is_connected(c)
      <4>1. k = 1
        BY <3>3 DEF is_connected
      <4> QED BY <1>1, <3>3, <4>1
    <3> QED BY <3>1, <3>2, <3>3
  <2> QED BY <2>1 DEF PrototypeNotNull
<1>6. <<c, k>> \in Sock /\ <<c, k>> \notin UsedSocks
  BY <1>2, UsedSocksMember DEF Sock
<1>7. \A d \in Client : \A i \in Nat \ {0} : <<d, i>> \in UsedSocks' <=> <<d, i>> \in T
  <2> TAKE d \in Client
  <2> TAKE i \in Nat \ {0}
  <2>1. <<d, i>> \in UsedSocks <=>
          i \in 1 .. Len(sockList[d]) /\ sockList[d][i].status = "USED" /\ ~ sockList[d][i].null
    BY UsedSocksMember
  <2>2. <<d, i>> \in UsedSocks' <=>
          i \in 1 .. Len(sockList'[d]) /\ sockList'[d][i].status = "USED" /\ ~ sockList'[d][i].null
    BY <1>1, UsedSocksMemberNext
  <2>3. CASE d # c
    BY <1>1, <2>1, <2>2, <2>3
  <2>4. CASE d = c /\ i = k
    BY <1>1, <1>2, <2>2, <1>6, <2>4
  <2>5. CASE d = c /\ i # k
    BY <1>1, <1>2, <2>1, <2>2, <2>5
  <2> QED BY <2>3, <2>4, <2>5
<1>8. T \in SUBSET Sock
  BY <1>6, UsedSocksType
<1>9. UsedSocks' = T
  BY <1>1, <1>7, <1>8, SameUsed
<1> QED BY <1>1, <1>3, <1>4, <1>5, <1>6, <1>9

\* Marking a socket that is not NULL.
LEMMA MarkEffect ==
    ASSUME PoolOK, NEW c \in Client, NEW i \in 1 .. Len(sockList[c]),
           ~ sockList[c][i].null, NEW st \in {"IDLE", "USED"}, SetStatus(c, i, st)
    PROVE  /\ PoolOK'
           /\ <<c, i>> \in Sock
           /\ UsedSocks' = IF st = "USED" THEN UsedSocks \cup {<<c, i>>}
                                          ELSE UsedSocks \ {<<c, i>>}
<1> USE DEF PoolOK
<1> DEFINE T == IF st = "USED" THEN UsedSocks \cup {<<c, i>>} ELSE UsedSocks \ {<<c, i>>}
<1>1. /\ SockListType'
      /\ Len(sockList'[c]) = Len(sockList[c])
      /\ sockList'[c][i].status = st /\ sockList'[c][i].null = sockList[c][i].null
      /\ \A j \in 1 .. Len(sockList[c]) \ {i} : sockList'[c][j] = sockList[c][j]
      /\ \A d \in Client \ {c} : sockList'[d] = sockList[d]
  BY SetStatusEffect
<1>2. \A d \in Client : Len(sockList[d]) \in Nat
  BY DEF SockListType
<1>3. NullIsUsed'
  BY <1>1, <1>2 DEF NullIsUsed
<1>4. ListBound'
  BY <1>1, <1>2 DEF ListBound
<1>5. PrototypeNotNull'
  <2>1. ASSUME NEW d \in Client, is_connected(d)' PROVE ~ sockList'[d][1].null
    <3>1. CASE d # c
      BY <1>1, <2>1, <3>1 DEF PrototypeNotNull, is_connected
    <3>2. CASE d = c
      <4>1. is_connected(c) /\ 1 \in 1 .. Len(sockList[c])
        BY <3>2 DEF is_connected, SockListType
      <4> QED BY <1>1, <3>2, <4>1 DEF PrototypeNotNull
    <3> QED BY <3>1, <3>2
  <2> QED BY <2>1 DEF PrototypeNotNull
<1>6. <<c, i>> \in Sock
  BY <1>2 DEF Sock
<1>7. \A d \in Client : \A j \in Nat \ {0} : <<d, j>> \in UsedSocks' <=> <<d, j>> \in T
  <2> TAKE d \in Client
  <2> TAKE j \in Nat \ {0}
  <2>1. <<d, j>> \in UsedSocks <=>
          j \in 1 .. Len(sockList[d]) /\ sockList[d][j].status = "USED" /\ ~ sockList[d][j].null
    BY UsedSocksMember
  <2>2. <<d, j>> \in UsedSocks' <=>
          j \in 1 .. Len(sockList'[d]) /\ sockList'[d][j].status = "USED" /\ ~ sockList'[d][j].null
    BY <1>1, UsedSocksMemberNext
  <2>3. CASE d # c
    BY <1>1, <2>1, <2>2, <2>3
  <2>4. CASE d = c /\ i = j
    BY <1>1, <1>2, <2>2, <1>6, <2>4
  <2>5. CASE d = c /\ i # j
    BY <1>1, <1>2, <2>1, <2>2, <2>5
  <2> QED BY <2>3, <2>4, <2>5
<1>8. T \in SUBSET Sock
  BY <1>6, UsedSocksType
<1>9. UsedSocks' = T
  BY <1>1, <1>7, <1>8, SameUsed
<1> QED BY <1>1, <1>3, <1>4, <1>5, <1>6, <1>9

\* Taking a socket: it was not in use, and now it is.
LEMMA TakeEffect ==
    ASSUME PoolOK, NEW c \in Client, NEW i \in 1 .. Len(sockList[c]) + 1,
           get_idle_client_sock(c, i)
    PROVE  /\ PoolOK'
           /\ <<c, i>> \in Sock
           /\ <<c, i>> \notin UsedSocks
           /\ UsedSocks' = UsedSocks \cup {<<c, i>>}
<1>1. CASE FirstIdle(c, i) /\ SetStatus(c, i, "USED")
  <2>1. i \in 1 .. Len(sockList[c]) /\ sockList[c][i].status = "IDLE"
    BY <1>1 DEF FirstIdle, IdleSocks, SockListType, PoolOK
  <2>2. ~ sockList[c][i].null
    BY <2>1 DEF NullIsUsed, PoolOK
  <2>3. <<c, i>> \notin UsedSocks
    BY <2>1, UsedSocksMember DEF PoolOK
  <2> QED BY <1>1, <2>1, <2>2, <2>3, MarkEffect
<1>2. CASE AllUsed(c) /\ Len(sockList[c]) <= MaxConn /\ NewSock(c, i)
  <2>1. i = Len(sockList[c]) + 1 /\ Push(c, FALSE, "USED")
    BY <1>2 DEF NewSock
  <2> QED BY <1>2, <2>1, NewEffect
<1> QED BY <1>1, <1>2 DEF get_idle_client_sock

\* Returning a socket in use: it is idle again.
LEMMA ReturnEffect ==
    ASSUME PoolOK, NEW c \in Client, NEW i, <<c, i>> \in UsedSocks, return_sock(c, i)
    PROVE  PoolOK' /\ UsedSocks' = UsedSocks \ {<<c, i>>}
<1>1. i \in 1 .. Len(sockList[c]) /\ ~ sockList[c][i].null
  BY UsedSocksMember DEF PoolOK
<1>2. SetStatus(c, i, "IDLE")
  BY <1>1 DEF return_sock, PoolOK, SockListType
<1> QED BY <1>1, <1>2, MarkEffect

\* Connecting to a client, or failing to, puts no socket in use.
LEMMA ConnectEffect ==
    ASSUME PoolOK, NEW c \in Client,
           connect_client(c) \/ get_idle_connect_failed(c) \/ get_idle_refused(c)
    PROVE  PoolOK' /\ UsedSocks' = UsedSocks
<1>1. CASE connect_client(c)
  BY <1>1, NewEffect DEF connect_client
<1>2. CASE get_idle_connect_failed(c)
  BY <1>2, NewEffect DEF get_idle_connect_failed, AllUsed
<1>3. CASE get_idle_refused(c)
  BY <1>3 DEF get_idle_refused, PoolOK, SockListType, NullIsUsed, ListBound,
              PrototypeNotNull, is_connected, UsedSocks
<1> QED BY <1>1, <1>2, <1>3

-----------------------------------------------------------------------------
(* Pools in which no connection has failed                                 *)

NoNull == \A c \in Client : \A i \in 1 .. Len(sockList[c]) : ~ sockList[c][i].null

\* Only a failed connection is pushed as a NULL pair, and no operation takes
\* the last socket of a client away.
LEMMA NoNullKept ==
    ASSUME SockListType, NoNull, NEW c \in Client, NEW i,
           \/ get_idle_client_sock(c, i) \/ connect_client(c) \/ return_sock(c, i)
           \/ UNCHANGED sockList
    PROVE  NoNull' /\ \A d \in Client : is_connected(d) => is_connected(d)'
<1>1. \A d \in Client : Len(sockList[d]) \in Nat /\ (is_connected(d) <=> Len(sockList[d]) > 0)
  BY DEF SockListType, is_connected
<1>2. ASSUME NEW st \in {"IDLE", "USED"}, Push(c, FALSE, st)
      PROVE  NoNull' /\ \A d \in Client : is_connected(d) => is_connected(d)'
  <2>1. /\ SockListType'
        /\ Len(sockList'[c]) = Len(sockList[c]) + 1
        /\ sockList'[c][Len(sockList[c]) + 1] = [null |-> FALSE, status |-> st]
        /\ \A k \in 1 .. Len(sockList[c]) : sockList'[c][k] = sockList[c][k]
        /\ \A d \in Client \ {c} : sockList'[d] = sockList[d]
    BY <1>2, PushEffect
  <2>2. \A d \in Client : is_connected(d)' <=> Len(sockList'[d]) > 0
    BY <2>1 DEF SockListType, is_connected
  <2>3. \A d \in Client : is_connected(d) => is_connected(d)'
    BY <1>1, <2>1, <2>2
  <2>4. NoNull'
    BY <1>1, <2>1 DEF NoNull
  <2> QED BY <2>3, <2>4
<1>3. ASSUME NEW st \in {"IDLE", "USED"}, i \in DOMAIN sockList[c], SetStatus(c, i, st)
      PROVE  NoNull' /\ \A d \in Client : is_connected(d) => is_connected(d)'
  <2>1. i \in 1 .. Len(sockList[c])
    BY <1>3 DEF SockListType
  <2>2. /\ SockListType'
        /\ Len(sockList'[c]) = Len(sockList[c])
        /\ sockList'[c][i].null = sockList[c][i].null
        /\ \A j \in 1 .. Len(sockList[c]) \ {i} : sockList'[c][j] = sockList[c][j]
        /\ \A d \in Client \ {c} : sockList'[d] = sockList[d]
    BY <1>3, <2>1, SetStatusEffect
  <2>3. \A d \in Client : is_connected(d)' <=> Len(sockList'[d]) > 0
    BY <2>2 DEF SockListType, is_connected
  <2>4. \A d \in Client : is_connected(d) => is_connected(d)'
    BY <1>1, <2>2, <2>3
  <2>5. NoNull'
    BY <1>1, <2>1, <2>2 DEF NoNull
  <2> QED BY <2>4, <2>5
<1>4. CASE UNCHANGED sockList
  BY <1>4 DEF NoNull, is_connected
<1>5. CASE get_idle_client_sock(c, i)
  BY <1>2, <1>3, <1>5 DEF get_idle_client_sock, FirstIdle, IdleSocks, NewSock
<1>6. CASE connect_client(c)
  BY <1>2, <1>6 DEF connect_client
<1>7. CASE return_sock(c, i)
  BY <1>3, <1>4, <1>7 DEF return_sock
<1> QED BY <1>4, <1>5, <1>6, <1>7

=============================================================================
