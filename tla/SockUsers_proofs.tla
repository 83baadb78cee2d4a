-------------------------- MODULE SockUsers_proofs --------------------------
(***************************************************************************)
(* Theorems about the socket pool and the jobs that share it, for any      *)
(* clients, jobs, threads, limit and number of faults.                     *)
(***************************************************************************)
EXTENDS SockUsers, LocalSockManager_proofs, FiniteSetTheorems

-----------------------------------------------------------------------------
(* The jobs.                                                               *)

\* A run thread has a socket in its hand while it shakes hands and from the
\* moment it has one for a task until the task starts, and only then.
HandWhereUsed == \A j \in Job : hand[j] # 0 <=> pc[j] \in {"shaking", "slot"}

\* What is left to show for a step once its effect on the pool is known.
JobsTyped ==
    /\ pc \in [Job -> PC]
    /\ peer \in [Job -> Client]
    /\ hand \in [Job -> Nat]
    /\ flight \in [Job -> SUBSET Sock]
    /\ leaked \in SUBSET Sock
    /\ faults \in 0 .. MaxFaults

UsersInv == PoolOK /\ JobsTyped /\ HandWhereUsed /\ NoSharedSock /\ UsedIsHeld

\* Initially there are no sockets.
LEMMA UsersInit == Init => UsersInv
<1> SUFFICES ASSUME Init PROVE UsersInv
  OBVIOUS
<1> USE MaxConnAssumption, UsersAssumption DEF Init, SockListInit
<1>1. SockListType
  BY DEF SockListType
<1>2. \A c \in Client : sockList[c] = <<>>
  OBVIOUS
<1>3. PoolOK
  BY <1>1, <1>2 DEF PoolOK, NullIsUsed, ListBound, PrototypeNotNull, is_connected
<1>4. UsedSocks = {}
  BY <1>2 DEF UsedSocks
<1>5. JobsTyped
  BY DEF JobsTyped, PC
<1>6. HandWhereUsed /\ NoSharedSock
  BY DEF HandWhereUsed, NoSharedSock, Holds, HandSock
<1>7. UsedIsHeld
  BY <1>4 DEF UsedIsHeld, Holds, HandSock
<1> QED BY <1>3, <1>5, <1>6, <1>7 DEF UsersInv

\* UsedIsHeld, socket by socket.
LEMMA HeldPointwise ==
    UsedIsHeld <=>
        \A s : s \in UsedSocks <=> s \in leaked \/ \E k \in Job : s \in Holds(k)
BY DEF UsedIsHeld

LEMMA HeldPointwiseNext ==
    UsedIsHeld' <=>
        \A s : s \in UsedSocks' <=> s \in leaked' \/ \E k \in Job : s \in Holds(k)'
BY DEF UsedIsHeld

\* One job takes a socket nobody holds.
LEMMA JobTakes ==
    ASSUME NoSharedSock, UsedIsHeld, NEW j \in Job, NEW s, s \notin UsedSocks,
           UsedSocks' = UsedSocks \cup {s},
           HandSock(j) = {}, HandSock(j)' = {s},
           \A k \in Job \ {j} : HandSock(k)' = HandSock(k),
           flight' = flight, leaked' = leaked
    PROVE  NoSharedSock' /\ UsedIsHeld'
<1>1. \A k \in Job \ {j} : Holds(k)' = Holds(k)
  BY DEF Holds
<1>2. Holds(j)' = Holds(j) \cup {s}
  BY DEF Holds
<1>3. s \notin leaked /\ \A k \in Job : s \notin Holds(k)
  BY HeldPointwise
<1>4. NoSharedSock'
  BY <1>1, <1>2, <1>3 DEF NoSharedSock, Holds
<1>5. UsedIsHeld'
  BY <1>1, <1>2, HeldPointwise, HeldPointwiseNext
<1> QED BY <1>4, <1>5

\* One job gives up a socket, which leaves the pool of used sockets.
LEMMA JobReturns ==
    ASSUME NoSharedSock, UsedIsHeld, NEW j \in Job, NEW s \in Holds(j),
           UsedSocks' = UsedSocks \ {s},
           HandSock(j)' = HandSock(j) \ {s}, flight'[j] = flight[j] \ {s},
           \A k \in Job \ {j} : HandSock(k)' = HandSock(k) /\ flight'[k] = flight[k],
           leaked' = leaked
    PROVE  NoSharedSock' /\ UsedIsHeld'
<1>1. \A k \in Job \ {j} : Holds(k)' = Holds(k)
  BY DEF Holds
<1>2. Holds(j)' = Holds(j) \ {s}
  BY DEF Holds
<1>3. s \notin leaked /\ \A k \in Job \ {j} : s \notin Holds(k)
  BY DEF NoSharedSock
<1>4. NoSharedSock'
  BY <1>1, <1>2 DEF NoSharedSock
<1>5. UsedIsHeld'
  BY <1>1, <1>2, <1>3, HeldPointwise, HeldPointwiseNext
<1> QED BY <1>4, <1>5

\* One job passes the socket in its hand to a task, or loses it.
LEMMA JobPasses ==
    ASSUME NoSharedSock, UsedIsHeld, NEW j \in Job, UsedSocks' = UsedSocks,
           HandSock(j)' = {},
           \A k \in Job \ {j} : HandSock(k)' = HandSock(k) /\ flight'[k] = flight[k],
           \/ flight'[j] = flight[j] \cup HandSock(j) /\ leaked' = leaked
           \/ flight'[j] = flight[j] /\ leaked' = leaked \cup HandSock(j)
    PROVE  NoSharedSock' /\ UsedIsHeld'
<1>1. \A k \in Job \ {j} : Holds(k)' = Holds(k)
  BY DEF Holds
<1>2. CASE flight'[j] = flight[j] \cup HandSock(j) /\ leaked' = leaked
  <2>1. Holds(j)' = Holds(j)
    BY <1>2 DEF Holds
  <2>2. \A k \in Job : Holds(k)' = Holds(k)
    BY <1>1, <2>1
  <2>3. NoSharedSock'
    BY <1>1, <1>2, <2>1 DEF NoSharedSock
  <2> QED BY <1>2, <2>2, <2>3, HeldPointwise, HeldPointwiseNext
<1>3. CASE flight'[j] = flight[j] /\ leaked' = leaked \cup HandSock(j)
  <2>1. Holds(j)' = Holds(j) \ HandSock(j) /\ HandSock(j) \subseteq Holds(j)
    BY <1>3 DEF Holds, NoSharedSock
  <2>2. NoSharedSock'
    BY <1>1, <1>3, <2>1 DEF NoSharedSock
  <2> QED BY <1>1, <1>3, <2>1, <2>2, HeldPointwise, HeldPointwiseNext
<1> QED BY <1>2, <1>3

\* Nobody takes or gives up a socket.
LEMMA JobsKeep ==
    ASSUME NoSharedSock, UsedIsHeld, UsedSocks' = UsedSocks,
           \A k \in Job : HandSock(k)' = HandSock(k), flight' = flight, leaked' = leaked
    PROVE  NoSharedSock' /\ UsedIsHeld'
<1>1. \A k \in Job : Holds(k)' = Holds(k)
  BY DEF Holds
<1>2. UsedIsHeld'
  BY <1>1, HeldPointwise, HeldPointwiseNext
<1> QED BY <1>1, <1>2 DEF NoSharedSock

\* Asking the pool for a socket to the peer, where the run thread has none.
LEMMA AskStep ==
    ASSUME UsersInv, NEW j \in Job, pc[j] \in {"shake", "get"},
           NEW ok \in {"shaking", "slot"}, NEW ko \in {"dead", "toWait"},
           Ask(j, peer[j], ok, ko), UNCHANGED <<peer, flight, leaked>>
    PROVE  UsersInv'
<1>1. PoolOK /\ JobsTyped /\ HandWhereUsed /\ NoSharedSock /\ UsedIsHeld
  BY DEF UsersInv
<1>2. peer[j] \in Client /\ hand[j] = 0 /\ HandSock(j) = {}
  BY <1>1 DEF JobsTyped, HandWhereUsed, HandSock
<1>3. ASSUME NEW i \in 1 .. Len(sockList[peer[j]]) + 1,
             get_idle_client_sock(peer[j], i),
             hand' = [hand EXCEPT ![j] = i], pc' = [pc EXCEPT ![j] = ok], faults' = faults
      PROVE  UsersInv'
  <2>1. i \in Nat \ {0}
    BY <1>1, <1>2 DEF PoolOK, SockListType
  <2>2. PoolOK' /\ <<peer[j], i>> \notin UsedSocks
        /\ UsedSocks' = UsedSocks \cup {<<peer[j], i>>}
    BY <1>1, <1>2, <1>3, TakeEffect
  <2>3. JobsTyped'
    BY <1>1, <1>3, <2>1 DEF JobsTyped, PC
  <2>4. HandWhereUsed'
    BY <1>1, <1>3, <2>1 DEF JobsTyped, HandWhereUsed
  <2>5. HandSock(j)' = {<<peer[j], i>>}
    BY <1>1, <1>3, <2>1 DEF JobsTyped, HandSock
  <2>6. \A k \in Job \ {j} : HandSock(k)' = HandSock(k)
    BY <1>1, <1>3 DEF JobsTyped, HandSock
  <2>7. NoSharedSock' /\ UsedIsHeld'
    BY <1>1, <1>2, <2>2, <2>5, <2>6, JobTakes
  <2> QED BY <2>2, <2>3, <2>4, <2>7 DEF UsersInv
<1>4. ASSUME get_idle_refused(peer[j]) \/ get_idle_connect_failed(peer[j]),
             hand' = hand, pc' = [pc EXCEPT ![j] = ko], faults' \in 0 .. MaxFaults
      PROVE  UsersInv'
  <2>1. PoolOK' /\ UsedSocks' = UsedSocks
    BY <1>1, <1>2, <1>4, ConnectEffect
  <2>2. JobsTyped'
    BY <1>1, <1>4 DEF JobsTyped, PC
  <2>3. HandWhereUsed'
    BY <1>1, <1>2, <1>4 DEF JobsTyped, HandWhereUsed
  <2>4. \A k \in Job : HandSock(k)' = HandSock(k)
    BY <1>4 DEF HandSock
  <2>5. NoSharedSock' /\ UsedIsHeld'
    BY <1>1, <2>1, <2>4, JobsKeep
  <2> QED BY <2>1, <2>2, <2>3, <2>5 DEF UsersInv
<1>5. /\ faults' = faults => faults' \in 0 .. MaxFaults
      /\ faults < MaxFaults /\ faults' = faults + 1 => faults' \in 0 .. MaxFaults
  BY <1>1, UsersAssumption DEF JobsTyped
<1> QED BY <1>3, <1>4, <1>5 DEF Ask

\* A signal wakes a run thread that holds nothing.
LEMMA SignalEffect ==
    ASSUME JobsTyped, HandWhereUsed, NEW c \in Client, NEW from \in [Job -> PC],
           NEW h \in [Job -> Nat], hand' = h,
           \A k \in Job : h[k] # 0 <=> from[k] \in {"shaking", "slot"},
           Signal(c, from)
    PROVE  pc' \in [Job -> PC] /\ HandWhereUsed'
<1> DEFINE asleep == {w \in Job : from[w] = "waiting" /\ peer[w] = c}
<1>1. CASE pc' = from
  BY <1>1 DEF HandWhereUsed
<1>2. ASSUME NEW w \in asleep, pc' = [from EXCEPT ![w] = "get"]
      PROVE  pc' \in [Job -> PC] /\ HandWhereUsed'
  BY <1>2 DEF HandWhereUsed, PC
<1>3. pc' = from \/ \E w \in asleep : pc' = [from EXCEPT ![w] = "get"]
  BY DEF Signal
<1> QED BY <1>1, <1>2, <1>3

\* Returning the socket of a hand shake.
LEMMA ShakeEndStep == ASSUME UsersInv, NEW j \in Job, ShakeEnd(j) PROVE UsersInv'
<1> USE DEF ShakeEnd
<1>1. PoolOK /\ JobsTyped /\ HandWhereUsed /\ NoSharedSock /\ UsedIsHeld
  BY DEF UsersInv
<1> DEFINE s == <<peer[j], hand[j]>>
<1>2. HandSock(j) = {s} /\ s \in Holds(j) /\ s \in UsedSocks
  BY <1>1, HeldPointwise DEF HandWhereUsed, HandSock, Holds
<1>3. PoolOK' /\ UsedSocks' = UsedSocks \ {s}
  BY <1>1, <1>2, ReturnEffect DEF JobsTyped
<1>4. hand' \in [Job -> Nat] /\ hand'[j] = 0 /\ \A k \in Job \ {j} : hand'[k] = hand[k]
  BY <1>1 DEF JobsTyped
<1>5. pc' \in [Job -> PC] /\ HandWhereUsed'
  <2> DEFINE from == [pc EXCEPT ![j] = "idle"]
  <2>1. from \in [Job -> PC]
    BY <1>1 DEF JobsTyped, PC
  <2>2. \A k \in Job : hand'[k] # 0 <=> from[k] \in {"shaking", "slot"}
    BY <1>1, <1>4 DEF JobsTyped, HandWhereUsed
  <2> QED BY <1>1, <1>4, <2>1, <2>2, SignalEffect DEF JobsTyped
<1>6. JobsTyped'
  BY <1>1, <1>4, <1>5 DEF JobsTyped
<1>7. HandSock(j)' = HandSock(j) \ {s} /\ flight'[j] = flight[j] \ {s}
  BY <1>1, <1>2, <1>4 DEF HandSock, NoSharedSock
<1>8. \A k \in Job \ {j} : HandSock(k)' = HandSock(k) /\ flight'[k] = flight[k]
  BY <1>4 DEF HandSock
<1>9. NoSharedSock' /\ UsedIsHeld'
  BY <1>1, <1>2, <1>3, <1>7, <1>8, JobReturns
<1> QED BY <1>3, <1>5, <1>6, <1>9 DEF UsersInv

\* Returning the socket of a task.
LEMMA TaskFinishedStep ==
    ASSUME UsersInv, NEW j \in Job, NEW s \in flight[j], TaskFinished(j, s)
    PROVE  UsersInv'
<1> USE DEF TaskFinished
<1>1. PoolOK /\ JobsTyped /\ HandWhereUsed /\ NoSharedSock /\ UsedIsHeld
  BY DEF UsersInv
<1>2. s \in Holds(j) /\ s \in UsedSocks /\ s \notin HandSock(j)
  BY <1>1, HeldPointwise DEF Holds, NoSharedSock
<1>3. s[1] \in Client /\ s = <<s[1], s[2]>>
  BY <1>1 DEF JobsTyped, Sock
<1>4. PoolOK' /\ UsedSocks' = UsedSocks \ {s}
  BY <1>1, <1>2, <1>3, ReturnEffect
<1>5. pc' \in [Job -> PC] /\ HandWhereUsed'
  BY <1>1, <1>3, SignalEffect DEF JobsTyped, HandWhereUsed
<1>6. JobsTyped'
  BY <1>1, <1>5 DEF JobsTyped
<1>7. \A k \in Job : HandSock(k)' = HandSock(k)
  BY DEF HandSock
<1>8. flight'[j] = flight[j] \ {s} /\ \A k \in Job \ {j} : flight'[k] = flight[k]
  BY <1>1 DEF JobsTyped
<1>9. NoSharedSock' /\ UsedIsHeld'
  BY <1>1, <1>2, <1>4, <1>7, <1>8, JobReturns
<1> QED BY <1>4, <1>5, <1>6, <1>9 DEF UsersInv

\* A task starts with the socket in hand, or the socket is lost.
LEMMA PassStep ==
    ASSUME UsersInv, NEW j \in Job, StartTask(j) \/ AbandonTask(j)
    PROVE  UsersInv'
<1> USE DEF StartTask, AbandonTask
<1>1. PoolOK /\ JobsTyped /\ HandWhereUsed /\ NoSharedSock /\ UsedIsHeld
  BY DEF UsersInv
<1>2. HandSock(j) = {<<peer[j], hand[j]>>} /\ <<peer[j], hand[j]>> \in Sock
  BY <1>1 DEF JobsTyped, HandWhereUsed, HandSock, Sock
<1>3. PoolOK' /\ UsedSocks' = UsedSocks
  BY <1>1 DEF PoolOK, SockListType, NullIsUsed, ListBound, PrototypeNotNull, is_connected,
              UsedSocks
<1>4. hand'[j] = 0 /\ \A k \in Job \ {j} : hand'[k] = hand[k]
  BY <1>1 DEF JobsTyped
<1>5. JobsTyped'
  BY <1>1, <1>2, UsersAssumption DEF JobsTyped, PC
<1>6. HandWhereUsed'
  BY <1>1 DEF JobsTyped, HandWhereUsed
<1>7. HandSock(j)' = {} /\ \A k \in Job \ {j} : HandSock(k)' = HandSock(k) /\ flight'[k] = flight[k]
  BY <1>1, <1>4 DEF HandSock, JobsTyped
<1>8. \/ flight'[j] = flight[j] \cup HandSock(j) /\ leaked' = leaked
      \/ flight'[j] = flight[j] /\ leaked' = leaked \cup HandSock(j)
  BY <1>1, <1>2 DEF JobsTyped
<1>9. NoSharedSock' /\ UsedIsHeld'
  BY <1>1, <1>3, <1>7, <1>8, JobPasses
<1> QED BY <1>3, <1>5, <1>6, <1>9 DEF UsersInv

\* The steps in which no socket is taken or given up.
LEMMA QuietStep ==
    ASSUME UsersInv, NEW j \in Job,
           \/ \E c \in Client : Connect(j, c)
           \/ \E c \in Client : Choose(j, c)
           \/ WaitSock(j)
           \/ End(j)
    PROVE  UsersInv'
<1>1. PoolOK /\ JobsTyped /\ HandWhereUsed /\ NoSharedSock /\ UsedIsHeld
  BY DEF UsersInv
<1>2. hand' = hand /\ flight' = flight /\ leaked' = leaked /\ hand[j] = 0
      /\ \A k \in Job \ {j} : peer'[k] = peer[k]
  BY <1>1 DEF Connect, Choose, WaitSock, End, JobsTyped, HandWhereUsed
<1>3. UNCHANGED sockList => PoolOK' /\ UsedSocks' = UsedSocks
  BY <1>1 DEF PoolOK, SockListType, NullIsUsed, ListBound, PrototypeNotNull,
              is_connected, UsedSocks
<1>4. PoolOK' /\ UsedSocks' = UsedSocks
  <2>1. \/ UNCHANGED sockList
        \/ \E c \in Client : connect_client(c)
    BY DEF Connect, Choose, WaitSock, End
  <2> QED BY <1>1, <1>3, <2>1, ConnectEffect
<1>5. JobsTyped'
  BY <1>1, UsersAssumption DEF JobsTyped, PC, Connect, Choose, WaitSock, End
<1>6. HandWhereUsed'
  BY <1>1 DEF JobsTyped, HandWhereUsed, Connect, Choose, WaitSock, End
<1>7. \A k \in Job : HandSock(k)' = HandSock(k)
  BY <1>2 DEF HandSock
<1>8. NoSharedSock' /\ UsedIsHeld'
  BY <1>1, <1>2, <1>4, <1>7, JobsKeep
<1> QED BY <1>4, <1>5, <1>6, <1>8 DEF UsersInv

LEMMA UsersStep == UsersInv /\ [Next]_vars => UsersInv'
<1> SUFFICES ASSUME UsersInv, [Next]_vars PROVE UsersInv'
  OBVIOUS
<1>1. CASE UNCHANGED vars
  BY <1>1 DEF vars, UsersInv, PoolOK, SockListType, NullIsUsed, ListBound, PrototypeNotNull,
              is_connected, JobsTyped, HandWhereUsed, NoSharedSock, UsedIsHeld, UsedSocks,
              Holds, HandSock
<1>2. ASSUME NEW j \in Job, ShakeBegin(j) \/ GetSock(j) PROVE UsersInv'
  BY <1>2, AskStep DEF ShakeBegin, GetSock
<1>3. ASSUME NEW j \in Job, StartTask(j) \/ AbandonTask(j) PROVE UsersInv'
  BY <1>3, PassStep
<1>4. ASSUME NEW j \in Job,
             \/ \E c \in Client : Connect(j, c)
             \/ \E c \in Client : Choose(j, c)
             \/ WaitSock(j)
             \/ End(j)
      PROVE  UsersInv'
  BY <1>4, QuietStep
<1> QED BY <1>1, <1>2, <1>3, <1>4, ShakeEndStep, TaskFinishedStep DEF Next

LEMMA UsersInvariant == Spec => []UsersInv
BY UsersInit, UsersStep, PTL DEF Spec

\* The pool and the jobs keep their types: positions, lists and holders stay
\* well formed whatever fails.
THEOREM TypeCorrect == Spec => []TypeOK
<1>1. UsersInv => TypeOK
  BY DEF UsersInv, PoolOK, JobsTyped, TypeOK
<1> QED BY <1>1, UsersInvariant, PTL

\* Two transfers never share a socket: over all jobs, their run threads and
\* their tasks, and with failed connections and lost sockets.
THEOREM SocketsNotShared == Spec => []NoSharedSock
BY UsersInvariant, PTL DEF UsersInv

\* A socket is marked USED exactly while someone holds it, or for ever once
\* it went to a task that was not started.
THEOREM UsedSocketsHeld == Spec => []UsedIsHeld
BY UsersInvariant, PTL DEF UsersInv

\* No list gets more than one socket past the limit, and the first socket of
\* a list, which get_idle_client_sock dereferences, is never NULL.
THEOREM ListsSound == Spec => [](ListBound /\ PrototypeNotNull)
<1>1. UsersInv => ListBound /\ PrototypeNotNull
  BY DEF UsersInv, PoolOK
<1> QED BY <1>1, UsersInvariant, PTL

-----------------------------------------------------------------------------
(* Where nobody waits.  As long as nothing has failed, a list has no NULL  *)
(* pair and no socket is lost, so that each pair marked USED is in the     *)
(* hands of a thread; and the run thread that asks for a socket has none.  *)

\* A job has no more tasks than download threads.
TasksBounded == \A j \in Job : IsFiniteSet(flight[j]) /\ Cardinality(flight[j]) <= Workers

\* What holds until the first failure: a run thread deals with a client that
\* is connected.
Unharmed ==
    /\ leaked = {}
    /\ NoNull
    /\ \A j \in Job : pc[j] \notin {"idle", "ended", "dead"} => is_connected(peer[j])

\* The limit is enough for the threads of all the jobs.
Enough == Cardinality(Job) * (Workers + 1) <= MaxConn + 1

NoWait == \A j \in Job : pc[j] \notin {"toWait", "waiting", "dead"}

WaitInv == UsersInv /\ TasksBounded /\ (faults = 0 => Unharmed /\ (Enough => NoWait))

\* A finite set is numbered by the first numbers.
LEMMA Numbering ==
    ASSUME NEW S, NEW n \in Nat, IsFiniteSet(S), Cardinality(S) <= n
    PROVE  \E f : f \in Injection(S, 1 .. n)
<1>1. Cardinality(S) \in Nat
  BY FS_CardinalityType
<1>2. PICK b : b \in Bijection(1 .. Cardinality(S), S)
  BY FS_CardinalityType DEF ExistsBijection
<1>3. \A x \in S : \E i \in 1 .. Cardinality(S) : b[i] = x
  BY <1>2 DEF Bijection, Surjection
<1> DEFINE f == [x \in S |-> CHOOSE i \in 1 .. Cardinality(S) : b[i] = x]
<1>4. \A x \in S : f[x] \in 1 .. Cardinality(S) /\ b[f[x]] = x
  BY <1>3
<1>5. f \in [S -> 1 .. n]
  BY <1>1, <1>4
<1>6. f \in Injection(S, 1 .. n)
  <2>1. \A x, y \in S : f[x] = f[y] => x = y
    BY <1>4
  <2> HIDE DEF f
  <2> QED BY <1>5, <2>1 DEF Injection, IsInjective
<1> QED BY <1>6

\* Where the limit is enough, the pool never refuses a run thread that has no
\* socket: were a full list used up, each of its sockets would be with a
\* thread, and there are fewer of those.
LEMMA NotRefused ==
    ASSUME UsersInv, TasksBounded, Unharmed, Enough,
           NEW j \in Job, hand[j] = 0, NEW c \in Client, is_connected(c)
    PROVE  ~ get_idle_refused(c)
<1> SUFFICES ASSUME get_idle_refused(c) PROVE FALSE
  OBVIOUS
<1> DEFINE L == Len(sockList[c])
           Slots(k) == 1 .. IF k = j THEN Workers ELSE Workers + 1
           Room == (Job \X (1 .. Workers + 1)) \ {<<j, Workers + 1>>}
<1>1. IdleSocks(c) = {} /\ L > MaxConn /\ L \in Nat
  BY DEF get_idle_refused, UsersInv, PoolOK, SockListType
<1>2. \A i \in 1 .. L : \E k \in Job : <<c, i>> \in Holds(k)
  <2> SUFFICES ASSUME NEW i \in 1 .. L
               PROVE  \E k \in Job : <<c, i>> \in Holds(k)
    OBVIOUS
  <2>1. sockList[c][i] \in SockEntry /\ i \in DOMAIN sockList[c]
    BY DEF UsersInv, PoolOK, SockListType
  <2>2. sockList[c][i].status = "USED" /\ ~ sockList[c][i].null
    BY <1>1, <2>1 DEF IdleSocks, SockEntry, Unharmed, NoNull
  <2>3. <<c, i>> \in UsedSocks
    BY <2>2, UsedSocksMember DEF UsersInv, PoolOK
  <2> QED BY <2>3, HeldPointwise DEF UsersInv, Unharmed
<1>3. \A k \in Job : \E g : g \in Injection(Holds(k), Slots(k))
  <2> SUFFICES ASSUME NEW k \in Job
               PROVE  \E g : g \in Injection(Holds(k), Slots(k))
    OBVIOUS
  <2>1. IsFiniteSet(flight[k]) /\ Cardinality(flight[k]) <= Workers /\ Workers \in Nat
        /\ Cardinality(flight[k]) \in Nat
    BY FS_CardinalityType, UsersAssumption DEF TasksBounded
  <2>2. CASE k = j
    BY <2>1, <2>2, Numbering DEF Holds, HandSock
  <2>3. CASE k # j
    <3>1. HandSock(k) = {} \/ HandSock(k) = {<<peer[k], hand[k]>>}
      BY DEF HandSock
    <3>2. IsFiniteSet(Holds(k)) /\ Cardinality(Holds(k)) <= Workers + 1
      <4>1. CASE HandSock(k) = {}
        BY <2>1, <4>1 DEF Holds
      <4>2. CASE HandSock(k) = {<<peer[k], hand[k]>>}
        <5>1. Holds(k) = flight[k] \cup {<<peer[k], hand[k]>>}
          BY <4>2 DEF Holds
        <5> DEFINE n == Cardinality(flight[k])
        <5>2. /\ IsFiniteSet(Holds(k))
              /\ Cardinality(Holds(k)) = n \/ Cardinality(Holds(k)) = n + 1
          <6> DEFINE F == flight[k]
                     e == <<peer[k], hand[k]>>
          <6>1. IsFiniteSet(F) /\ Holds(k) = F \cup {e} /\ n = Cardinality(F)
            BY <2>1, <5>1
          <6> HIDE DEF F, e, n
          <6>2. /\ IsFiniteSet(F \cup {e})
                /\ Cardinality(F \cup {e}) = Cardinality(F)
                     \/ Cardinality(F \cup {e}) = Cardinality(F) + 1
            BY <6>1, FS_AddElement
          <6> QED BY <6>1, <6>2
        <5> HIDE DEF n
        <5>3. n \in Nat /\ n <= Workers
          BY <2>1 DEF n
        <5> QED BY <2>1, <5>2, <5>3
      <4> QED BY <3>1, <4>1, <4>2
    <3> QED BY <2>1, <2>3, <3>2, Numbering
  <2> QED BY <2>2, <2>3
<1> DEFINE owner == [i \in 1 .. L |-> CHOOSE k \in Job : <<c, i>> \in Holds(k)]
           number == [k \in Job |-> CHOOSE g : g \in Injection(Holds(k), Slots(k))]
           h == [i \in 1 .. L |-> <<owner[i], number[owner[i]][<<c, i>>]>>]
<1>4. \A i \in 1 .. L : owner[i] \in Job /\ <<c, i>> \in Holds(owner[i])
  BY <1>2
<1>5. \A k \in Job : number[k] \in Injection(Holds(k), Slots(k))
  BY <1>3
<1> HIDE DEF owner, number
<1>6. \A i \in 1 .. L : h[i] \in Room
  <2> SUFFICES ASSUME NEW i \in 1 .. L PROVE h[i] \in Room
    OBVIOUS
  <2>1. PICK k \in Job : k = owner[i] /\ <<c, i>> \in Holds(k)
    BY <1>4
  <2>2. number[k][<<c, i>>] \in Slots(k)
    BY <1>5, <2>1 DEF Injection
  <2>3. number[k][<<c, i>>] \in 1 .. Workers + 1 /\ (k = j => number[k][<<c, i>>] # Workers + 1)
    BY <2>2, UsersAssumption
  <2> QED BY <2>1, <2>3
<1>7. h \in Injection(1 .. L, Room)
  <2> SUFFICES ASSUME NEW i \in 1 .. L, NEW m \in 1 .. L, h[i] = h[m]
               PROVE  i = m
    <3>1. h \in [1 .. L -> Room]
      BY <1>6
    <3> HIDE DEF h, L
    <3> QED BY <3>1 DEF Injection, IsInjective
  <2>1. owner[i] = owner[m] /\ number[owner[i]][<<c, i>>] = number[owner[i]][<<c, m>>]
    OBVIOUS
  <2>2. /\ owner[i] \in Job
        /\ <<c, i>> \in Holds(owner[i]) /\ <<c, m>> \in Holds(owner[i])
    BY <1>4, <2>1
  <2>3. <<c, i>> = <<c, m>>
    BY <1>5, <2>1, <2>2 DEF Injection, IsInjective
  <2> QED BY <2>3
<1>8. /\ IsFiniteSet(Room)
      /\ Cardinality(Room) = Cardinality(Job) * (Workers + 1) - 1
  <2>1. IsFiniteSet(1 .. Workers + 1) /\ Cardinality(1 .. Workers + 1) = Workers + 1
    BY FS_Interval, UsersAssumption
  <2>2. /\ IsFiniteSet(Job \X (1 .. Workers + 1))
        /\ Cardinality(Job \X (1 .. Workers + 1)) = Cardinality(Job) * (Workers + 1)
    BY <2>1, FS_Product, UsersAssumption
  <2>3. <<j, Workers + 1>> \in Job \X (1 .. Workers + 1)
    BY UsersAssumption
  <2> HIDE DEF Room
  <2>4. Room = (Job \X (1 .. Workers + 1)) \ {<<j, Workers + 1>>}
    BY DEF Room
  <2> DEFINE P == Job \X (1 .. Workers + 1)
             e == <<j, Workers + 1>>
  <2>5. e \in P /\ IsFiniteSet(P) /\ Room = P \ {e}
    BY <2>2, <2>3, <2>4
  <2> HIDE DEF P, e
  <2>6. IsFiniteSet(Room) /\ Cardinality(Room) = Cardinality(P) - 1
    BY <2>5, FS_RemoveElement
  <2> QED BY <2>2, <2>6 DEF P
<1>9. L <= Cardinality(Room) /\ Cardinality(Room) \in Nat
  <2>1. Cardinality(1 .. L) <= Cardinality(Room) /\ Cardinality(Room) \in Nat
    BY <1>7, <1>8, FS_Injection, FS_CardinalityType
  <2>2. Cardinality(1 .. L) = L
    BY <1>1, FS_Interval
  <2> QED BY <2>1, <2>2
<1>10. PICK n : n = Cardinality(Job) * (Workers + 1)
  OBVIOUS
<1>11. n - 1 = Cardinality(Room) /\ n <= MaxConn + 1 /\ n \in Nat
  <2>1. Cardinality(Job) \in Nat
    BY FS_CardinalityType, UsersAssumption
  <2> QED BY <1>8, <1>10, <2>1, UsersAssumption DEF Enough
<1> QED BY <1>1, <1>9, <1>11, MaxConnAssumption

LEMMA WaitInit == Init => WaitInv
<1> SUFFICES ASSUME Init PROVE WaitInv
  OBVIOUS
<1>1. UsersInv
  BY UsersInit
<1>2. TasksBounded
  BY FS_EmptySet, UsersAssumption DEF Init, TasksBounded
<1>3. Unharmed /\ NoWait
  BY DEF Init, SockListInit, Unharmed, NoNull, NoWait
<1> QED BY <1>1, <1>2, <1>3 DEF WaitInv

\* The set of tasks grows only below the bound.
LEMMA TasksBoundedStep ==
    ASSUME UsersInv, TasksBounded, NEW j \in Job, flight' \in [Job -> SUBSET Sock],
           \A k \in Job \ {j} : flight'[k] = flight[k],
           \/ \E s : flight'[j] = flight[j] \ {s}
           \/ Cardinality(flight[j]) < Workers /\ \E s : flight'[j] = flight[j] \cup {s}
    PROVE  TasksBounded'
<1> DEFINE F == flight[j]
           G == flight'[j]
<1>1. IsFiniteSet(F) /\ Cardinality(F) <= Workers /\ Cardinality(F) \in Nat /\ Workers \in Nat
  BY FS_CardinalityType, UsersAssumption DEF TasksBounded
<1>2. IsFiniteSet(G) /\ Cardinality(G) <= Workers
  <2>1. CASE \E s : G = F \ {s}
    <3>1. PICK s : G = F \ {s}
      BY <2>1
    <3> HIDE DEF F, G
    <3>2. IsFiniteSet(F \ {s})
          /\ Cardinality(F \ {s}) = IF s \in F THEN Cardinality(F) - 1 ELSE Cardinality(F)
      BY <1>1, FS_RemoveElement
    <3> QED BY <1>1, <3>1, <3>2
  <2>2. CASE Cardinality(F) < Workers /\ \E s : G = F \cup {s}
    <3>1. PICK s : G = F \cup {s}
      BY <2>2
    <3> HIDE DEF F, G
    <3>2. IsFiniteSet(F \cup {s})
          /\ Cardinality(F \cup {s}) = IF s \in F THEN Cardinality(F) ELSE Cardinality(F) + 1
      BY <1>1, FS_AddElement
    <3> DEFINE n == Cardinality(F)
    <3>3. IsFiniteSet(G) /\ (Cardinality(G) = n \/ Cardinality(G) = n + 1)
      BY <3>1, <3>2
    <3> HIDE DEF n
    <3>4. n \in Nat /\ n < Workers
      BY <1>1, <2>2 DEF n
    <3> QED BY <1>1, <3>3, <3>4
  <2> QED BY <2>1, <2>2
<1> QED BY <1>2 DEF TasksBounded

\* Where nothing fails, a run thread goes on with a connected client.
LEMMA UnharmedStep ==
    ASSUME Unharmed, JobsTyped, JobsTyped', SockListType, leaked' = leaked,
           NEW c \in Client, NEW i,
           \/ get_idle_client_sock(c, i) \/ connect_client(c) \/ return_sock(c, i)
           \/ UNCHANGED sockList,
           \A k \in Job : pc'[k] \notin {"idle", "ended", "dead"} =>
                \/ is_connected(peer[k])'
                \/ peer'[k] = peer[k] /\ pc[k] \notin {"idle", "ended", "dead"}
    PROVE  Unharmed'
<1>1. NoNull' /\ \A d \in Client : is_connected(d) => is_connected(d)'
  BY NoNullKept DEF Unharmed
<1>2. ASSUME NEW k \in Job, pc'[k] \notin {"idle", "ended", "dead"}
      PROVE  is_connected(peer[k])'
  <2>1. CASE peer'[k] = peer[k] /\ pc[k] \notin {"idle", "ended", "dead"}
    <3>1. PICK d \in Client : d = peer[k]
      BY DEF JobsTyped
    <3>2. is_connected(d)'
      BY <1>1, <2>1, <3>1 DEF Unharmed
    <3> QED BY <2>1, <3>1, <3>2 DEF is_connected
  <2> QED BY <1>2, <2>1
<1> QED BY <1>1, <1>2 DEF Unharmed

LEMMA WaitAsk ==
    ASSUME WaitInv, UsersInv', NEW j \in Job, pc[j] \in {"shake", "get"},
           NEW ok \in {"shaking", "slot"}, NEW ko \in {"dead", "toWait"},
           Ask(j, peer[j], ok, ko), UNCHANGED <<peer, flight, leaked>>,
           faults' = 0
    PROVE  Unharmed' /\ (Enough => NoWait')
<1>1. /\ UsersInv /\ TasksBounded /\ JobsTyped /\ JobsTyped' /\ SockListType
      /\ hand[j] = 0 /\ peer[j] \in Client
  BY DEF WaitInv, UsersInv, JobsTyped, HandWhereUsed, PoolOK
<1>2. faults = 0 /\ Unharmed /\ (Enough => NoWait)
  BY <1>1 DEF Ask, WaitInv, JobsTyped
<1>3. PICK c \in Client : c = peer[j] /\ is_connected(c)
  BY <1>1, <1>2 DEF Unharmed
<1>4. \/ \E i : get_idle_client_sock(c, i) /\ pc' = [pc EXCEPT ![j] = ok]
      \/ get_idle_refused(c) /\ pc' = [pc EXCEPT ![j] = ko]
  BY <1>2, <1>3 DEF Ask
<1>5. CASE \E i : get_idle_client_sock(c, i) /\ pc' = [pc EXCEPT ![j] = ok]
  <2>1. PICK i : get_idle_client_sock(c, i)
    BY <1>5
  <2>2. \A k \in Job : pc'[k] \notin {"idle", "ended", "dead"} =>
            peer'[k] = peer[k] /\ pc[k] \notin {"idle", "ended", "dead"}
    BY <1>1, <1>5 DEF JobsTyped
  <2>3. Unharmed'
    BY <1>1, <1>2, <2>1, <2>2, UnharmedStep
  <2>4. Enough => NoWait'
    BY <1>1, <1>2, <1>5 DEF NoWait, JobsTyped
  <2> QED BY <2>3, <2>4
<1>6. CASE get_idle_refused(c) /\ pc' = [pc EXCEPT ![j] = ko]
  <2>1. UNCHANGED sockList
    BY <1>6 DEF get_idle_refused
  <2>2. \A k \in Job : pc'[k] \notin {"idle", "ended", "dead"} =>
            peer'[k] = peer[k] /\ pc[k] \notin {"idle", "ended", "dead"}
    BY <1>1, <1>6 DEF JobsTyped
  <2>3. Unharmed'
    BY <1>1, <1>2, <2>1, <2>2, UnharmedStep
  <2>4. ~ Enough
    BY <1>1, <1>2, <1>3, <1>6, NotRefused
  <2> QED BY <2>3, <2>4
<1> QED BY <1>4, <1>5, <1>6

\* The signal wakes a run thread that waits, if one does.
LEMMA WaitSignal ==
    ASSUME NEW c, NEW from \in [Job -> PC], Signal(c, from),
           NEW k \in Job
    PROVE  pc'[k] = from[k] \/ (from[k] = "waiting" /\ pc'[k] = "get")
<1> DEFINE asleep == {w \in Job : from[w] = "waiting" /\ peer[w] = c}
<1>1. pc' = from \/ \E w \in asleep : pc' = [from EXCEPT ![w] = "get"]
  BY DEF Signal
<1> QED BY <1>1

\* The other steps.
LEMMA WaitOther ==
    ASSUME WaitInv, UsersInv', NEW j \in Job, faults' = 0,
           \/ \E c \in Client : Connect(j, c)
           \/ ShakeEnd(j)
           \/ \E c \in Client : Choose(j, c)
           \/ WaitSock(j) \/ StartTask(j) \/ AbandonTask(j)
           \/ \E s \in flight[j] : TaskFinished(j, s)
           \/ End(j)
    PROVE  Unharmed' /\ (Enough => NoWait')
<1>1. UsersInv /\ JobsTyped /\ JobsTyped' /\ SockListType
  BY DEF WaitInv, UsersInv, PoolOK
<1>2. faults \in Nat
  BY <1>1, UsersAssumption DEF JobsTyped
<1>3. CASE \E c \in Client : Connect(j, c)
  <2>1. PICK c \in Client : Connect(j, c)
    BY <1>3
  <2>2. faults = 0 /\ Unharmed /\ (Enough => NoWait)
    BY <1>2, <2>1 DEF Connect, WaitInv
  <2>3. /\ peer' = [peer EXCEPT ![j] = c] /\ pc' = [pc EXCEPT ![j] = "shake"] /\ leaked' = leaked
        /\ (is_connected(c) /\ UNCHANGED sockList) \/ connect_client(c)
    BY <1>2, <2>1, <2>2 DEF Connect
  <2>4. is_connected(c)'
    <3>1. CASE is_connected(c) /\ UNCHANGED sockList
      BY <3>1 DEF is_connected
    <3>2. CASE connect_client(c)
      <4>1. Len(sockList'[c]) = Len(sockList[c]) + 1 /\ SockListType'
        BY <1>1, <3>2, PushEffect DEF connect_client
      <4> QED BY <1>1, <4>1 DEF is_connected, SockListType
    <3> QED BY <2>3, <3>1, <3>2
  <2>5. \A k \in Job : pc'[k] \notin {"idle", "ended", "dead"} =>
            \/ is_connected(peer[k])'
            \/ peer'[k] = peer[k] /\ pc[k] \notin {"idle", "ended", "dead"}
    <3> SUFFICES ASSUME NEW k \in Job, pc'[k] \notin {"idle", "ended", "dead"}
                 PROVE  \/ is_connected(peer[k])'
                        \/ peer'[k] = peer[k] /\ pc[k] \notin {"idle", "ended", "dead"}
      OBVIOUS
    <3>1. CASE k = j
      BY <1>1, <2>3, <2>4, <3>1 DEF JobsTyped, is_connected
    <3>2. CASE k # j
      BY <1>1, <2>3, <3>2 DEF JobsTyped
    <3> QED BY <3>1, <3>2
  <2>6. Unharmed'
    BY <1>1, <2>2, <2>3, <2>5, UnharmedStep
  <2>7. Enough => NoWait'
    BY <1>1, <2>2, <2>3 DEF NoWait, JobsTyped
  <2> QED BY <2>6, <2>7
<1>4. CASE \E c \in Client : Choose(j, c)
  <2>1. PICK c \in Client : Choose(j, c)
    BY <1>4
  <2>2. faults = 0 /\ Unharmed /\ (Enough => NoWait)
    BY <2>1 DEF Choose, WaitInv
  <2>3. /\ peer' = [peer EXCEPT ![j] = c] /\ pc' = [pc EXCEPT ![j] = "get"] /\ leaked' = leaked
        /\ UNCHANGED sockList /\ is_connected(c)'
    BY <2>1 DEF Choose, is_connected
  <2>4. \A k \in Job : pc'[k] \notin {"idle", "ended", "dead"} =>
            \/ is_connected(peer[k])'
            \/ peer'[k] = peer[k] /\ pc[k] \notin {"idle", "ended", "dead"}
    <3> SUFFICES ASSUME NEW k \in Job, pc'[k] \notin {"idle", "ended", "dead"}
                 PROVE  \/ is_connected(peer[k])'
                        \/ peer'[k] = peer[k] /\ pc[k] \notin {"idle", "ended", "dead"}
      OBVIOUS
    <3>1. CASE k = j
      BY <1>1, <2>3, <3>1 DEF JobsTyped, is_connected
    <3>2. CASE k # j
      BY <1>1, <2>3, <3>2 DEF JobsTyped
    <3> QED BY <3>1, <3>2
  <2>5. Unharmed'
    BY <1>1, <2>2, <2>3, <2>4, UnharmedStep
  <2>6. Enough => NoWait'
    BY <1>1, <2>2, <2>3 DEF NoWait, JobsTyped
  <2> QED BY <2>5, <2>6
<1>5. CASE WaitSock(j) \/ StartTask(j) \/ End(j)
  <2>1. faults = 0 /\ Unharmed /\ (Enough => NoWait)
    BY <1>5 DEF WaitSock, StartTask, End, WaitInv
  <2>2. UNCHANGED sockList /\ leaked' = leaked /\ peer' = peer
        /\ \A k \in Job \ {j} : pc'[k] = pc[k]
    BY <1>1, <1>5 DEF WaitSock, StartTask, End, JobsTyped
  <2>3. \/ pc[j] = "toWait" /\ is_connected(peer[j]) /\ pc'[j] = "waiting"
        \/ pc'[j] \in {"idle", "ended"}
    BY <1>1, <1>5, <2>1 DEF WaitSock, StartTask, End, JobsTyped, Unharmed
  <2>4. \A k \in Job : pc'[k] \notin {"idle", "ended", "dead"} =>
            peer'[k] = peer[k] /\ pc[k] \notin {"idle", "ended", "dead"}
    BY <2>2, <2>3
  <2>5. PICK c \in Client : c = peer[j]
    BY <1>1 DEF JobsTyped
  <2>6. Unharmed'
    BY <1>1, <2>1, <2>2, <2>4, <2>5, UnharmedStep
  <2>7. Enough => NoWait'
    BY <2>1, <2>2, <2>3 DEF NoWait
  <2> QED BY <2>6, <2>7
<1>6. CASE AbandonTask(j)
  BY <1>2, <1>6 DEF AbandonTask
<1>7. ASSUME NEW c \in Client, NEW i, NEW from \in [Job -> PC], return_sock(c, i),
             Signal(c, from), UNCHANGED <<peer, leaked, faults>>,
             \A k \in Job : from[k] = pc[k] \/ from[k] = "idle"
      PROVE  Unharmed' /\ (Enough => NoWait')
  <2>1. faults = 0 /\ Unharmed /\ (Enough => NoWait)
    BY <1>7 DEF WaitInv
  <2>2. \A k \in Job : pc'[k] \in {from[k], "get"} /\ (pc'[k] # from[k] => from[k] = "waiting")
    BY <1>7, WaitSignal
  <2>3. \A k \in Job : pc'[k] \notin {"idle", "ended", "dead"} =>
            peer'[k] = peer[k] /\ pc[k] \notin {"idle", "ended", "dead"}
    BY <1>7, <2>2
  <2>4. Unharmed'
    BY <1>1, <1>7, <2>1, <2>3, UnharmedStep
  <2>5. Enough => NoWait'
    BY <1>7, <2>1, <2>2 DEF NoWait
  <2> QED BY <2>4, <2>5
<1>8. CASE ShakeEnd(j)
  <2>1. [pc EXCEPT ![j] = "idle"] \in [Job -> PC] /\ peer[j] \in Client
    BY <1>1 DEF JobsTyped, PC
  <2> QED BY <1>1, <1>7, <1>8, <2>1 DEF ShakeEnd, JobsTyped
<1>9. CASE \E s \in flight[j] : TaskFinished(j, s)
  <2>1. PICK s \in flight[j] : TaskFinished(j, s)
    BY <1>9
  <2>2. s[1] \in Client /\ pc \in [Job -> PC]
    BY <1>1 DEF JobsTyped, Sock
  <2> QED BY <1>7, <2>1, <2>2 DEF TaskFinished
<1> QED BY <1>3, <1>4, <1>5, <1>6, <1>8, <1>9

LEMMA WaitStep == WaitInv /\ [Next]_vars => WaitInv'
<1> SUFFICES ASSUME WaitInv, [Next]_vars PROVE WaitInv'
  OBVIOUS
<1>1. UsersInv /\ UsersInv' /\ JobsTyped /\ JobsTyped'
  BY UsersStep DEF WaitInv, UsersInv
<1>2. CASE UNCHANGED vars
  BY <1>1, <1>2 DEF vars, WaitInv, TasksBounded, Unharmed, NoNull, is_connected, Enough, NoWait
<1>3. CASE Next
  <2>1. PICK j \in Job :
            \/ \E c \in Client : Connect(j, c)
            \/ ShakeBegin(j) \/ ShakeEnd(j)
            \/ \E c \in Client : Choose(j, c)
            \/ GetSock(j) \/ WaitSock(j) \/ StartTask(j) \/ AbandonTask(j)
            \/ \E s \in flight[j] : TaskFinished(j, s)
            \/ End(j)
    BY <1>3 DEF Next
  <2>2. TasksBounded'
    <3>1. CASE StartTask(j)
      BY <1>1, <3>1, TasksBoundedStep DEF StartTask, WaitInv, JobsTyped
    <3>2. CASE \E s \in flight[j] : TaskFinished(j, s)
      BY <1>1, <3>2, TasksBoundedStep DEF TaskFinished, WaitInv, JobsTyped
    <3>3. CASE ~ StartTask(j) /\ ~ \E s \in flight[j] : TaskFinished(j, s)
      <4>1. flight' = flight
        BY <2>1, <3>3 DEF Connect, ShakeBegin, ShakeEnd, Choose, GetSock, WaitSock, AbandonTask, End
      <4> QED BY <4>1 DEF WaitInv, TasksBounded
    <3> QED BY <3>1, <3>2, <3>3
  <2>3. ASSUME faults' = 0 PROVE Unharmed' /\ (Enough => NoWait')
    <3>1. CASE ShakeBegin(j) \/ GetSock(j)
      BY <1>1, <2>3, <3>1, WaitAsk DEF ShakeBegin, GetSock
    <3> QED BY <1>1, <2>1, <2>3, <3>1, WaitOther
  <2>4. Enough' = Enough
    BY DEF Enough
  <2> QED BY <1>1, <2>2, <2>3, <2>4 DEF WaitInv
<1> QED BY <1>2, <1>3

\* As long as nothing fails, a limit of as many connections as the jobs have
\* threads, run threads and download threads together, keeps every run thread
\* from sleeping on a condition and from failing an assertion, whatever the
\* jobs do and in whichever order.
THEOREM NobodyHasToWait == Spec => []NobodyWaits
<1>1. WaitInv => NobodyWaits
  BY DEF WaitInv, NobodyWaits, Enough, NoWait
<1> QED BY <1>1, WaitInit, WaitStep, PTL DEF Spec

=============================================================================
