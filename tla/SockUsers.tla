------------------------------ MODULE SockUsers ------------------------------
(***************************************************************************)
(* The jobs of one client sharing the socket pool.  Each job has a run     *)
(* thread (Job::run), which takes an idle socket to a peer for a hand      *)
(* shake or for a chunk, and up to Workers download threads, each of which *)
(* inherits a socket from the run thread and returns it when its task is   *)
(* over.  When the pool answers NULL the run thread fetches the condition  *)
(* of that peer and sleeps on it.  The two are separate steps: nothing is  *)
(* locked between them.                                                    *)
(***************************************************************************)
EXTENDS LocalSockManager

CONSTANTS
    Job,        \* the jobs started in this process
    Workers,    \* download threads of a job: tp_(2, 4), so 4 in the code
    MaxFaults   \* bound on failed connections and on tasks not started

ASSUME UsersAssumption ==
    /\ IsFiniteSet(Job)
    /\ Workers \in Nat \ {0} /\ MaxFaults \in Nat

VARIABLES
    pc,         \* where the run thread of a job is
    peer,       \* the client it deals with
    hand,       \* position in the list of peer of the socket it holds, or 0
    flight,     \* the sockets its download tasks hold
    leaked,     \* sockets taken for a task that was not started (history)
    faults      \* faults that happened so far

vars == <<sockList, pc, peer, hand, flight, leaked, faults>>

PC == {"idle", "shake", "shaking", "get", "toWait", "waiting", "slot", "ended", "dead"}

TypeOK ==
    /\ SockListType
    /\ pc \in [Job -> PC]
    /\ peer \in [Job -> Client]
    /\ hand \in [Job -> Nat]
    /\ flight \in [Job -> SUBSET Sock]
    /\ leaked \in SUBSET Sock
    /\ faults \in 0 .. MaxFaults

Init ==
    /\ SockListInit
    /\ pc = [j \in Job |-> "idle"]
    /\ peer \in [Job -> Client]
    /\ hand = [j \in Job |-> 0]
    /\ flight = [j \in Job |-> {}]
    /\ leaked = {}
    /\ faults = 0

-----------------------------------------------------------------------------
\* The pool is asked for a socket to client c by job j.  On success j goes
\* to `ok` with the socket in its hand, on NULL it goes to `ko`.
Ask(j, c, ok, ko) ==
    \/ \E i \in 1 .. Len(sockList[c]) + 1 :
        /\ get_idle_client_sock(c, i)
        /\ hand' = [hand EXCEPT ![j] = i]
        /\ pc' = [pc EXCEPT ![j] = ok]
        /\ UNCHANGED faults
    \/ /\ get_idle_refused(c)
       /\ pc' = [pc EXCEPT ![j] = ko]
       /\ UNCHANGED <<hand, faults>>
    \/ /\ get_idle_connect_failed(c)
       /\ faults < MaxFaults
       /\ faults' = faults + 1
       /\ pc' = [pc EXCEPT ![j] = ko]
       /\ UNCHANGED hand

\* The signal of return_sock: one of the threads asleep on the condition of
\* client c wakes up, if there is one.  `from` is pc after the other effects.
Signal(c, from) ==
    LET asleep == {w \in Job : from[w] = "waiting" /\ peer[w] = c}
    IN  IF asleep = {}
        THEN pc' = from
        ELSE \E w \in asleep : pc' = [from EXCEPT ![w] = "get"]

\* reinit_file_owner_info: connect to an owner if there is no connection yet.
\* The shake hand is tried whether or not the connection was made.
Connect(j, c) ==
    /\ pc[j] = "idle"
    /\ peer' = [peer EXCEPT ![j] = c]
    /\ pc' = [pc EXCEPT ![j] = "shake"]
    /\ \/ is_connected(c) /\ UNCHANGED <<sockList, faults>>
       \/ ~ is_connected(c) /\ connect_client(c) /\ UNCHANGED faults
       \/ /\ ~ is_connected(c)
          /\ faults < MaxFaults
          /\ faults' = faults + 1
          /\ UNCHANGED sockList
    /\ UNCHANGED <<hand, flight, leaked>>

\* shake_hand asserts that there is a connection and that the socket it gets
\* is not NULL; a failed assertion ends the run thread.
ShakeBegin(j) ==
    /\ pc[j] = "shake"
    /\ Ask(j, peer[j], "shaking", "dead")
    /\ UNCHANGED <<peer, flight, leaked>>

\* The guard of shake_hand returns the socket on every path out of it.
ShakeEnd(j) ==
    /\ pc[j] = "shaking"
    /\ return_sock(peer[j], hand[j])
    /\ hand' = [hand EXCEPT ![j] = 0]
    /\ Signal(peer[j], [pc EXCEPT ![j] = "idle"])
    /\ UNCHANGED <<peer, flight, leaked, faults>>

\* A peer is chosen for a chunk among the clients that shook hands.
Choose(j, c) ==
    /\ pc[j] = "idle"
    /\ is_connected(c)
    /\ peer' = [peer EXCEPT ![j] = c]
    /\ pc' = [pc EXCEPT ![j] = "get"]
    /\ UNCHANGED <<sockList, hand, flight, leaked, faults>>

GetSock(j) ==
    /\ pc[j] = "get"
    /\ Ask(j, peer[j], "slot", "toWait")
    /\ UNCHANGED <<peer, flight, leaked>>

\* get_sock_idel_condition, then Condition::wait.
WaitSock(j) ==
    /\ pc[j] = "toWait"
    /\ pc' = [pc EXCEPT ![j] = IF is_connected(peer[j]) THEN "waiting" ELSE "dead"]
    /\ UNCHANGED <<sockList, peer, hand, flight, leaked, faults>>

\* The run thread waits for a free download thread and hands it the socket.
StartTask(j) ==
    /\ pc[j] = "slot"
    /\ Cardinality(flight[j]) < Workers
    /\ flight' = [flight EXCEPT ![j] = @ \cup {<<peer[j], hand[j]>>}]
    /\ hand' = [hand EXCEPT ![j] = 0]
    /\ pc' = [pc EXCEPT ![j] = "idle"]
    /\ UNCHANGED <<sockList, peer, leaked, faults>>

\* A pause, or an exception while the task is built: the exception handler
\* of Job::run only logs, and nobody returns the socket.
AbandonTask(j) ==
    /\ pc[j] = "slot"
    /\ faults < MaxFaults
    /\ faults' = faults + 1
    /\ leaked' = leaked \cup {<<peer[j], hand[j]>>}
    /\ hand' = [hand EXCEPT ![j] = 0]
    /\ pc' = [pc EXCEPT ![j] = "idle"]
    /\ UNCHANGED <<sockList, peer, flight>>

\* Job::onFinished, in the download thread, after success and failure alike.
TaskFinished(j, s) ==
    /\ s \in flight[j]
    /\ return_sock(s[1], s[2])
    /\ flight' = [flight EXCEPT ![j] = @ \ {s}]
    /\ Signal(s[1], pc)
    /\ UNCHANGED <<peer, hand, leaked, faults>>

\* The loop of run() ends: nothing left in the queue, or the job is removed.
End(j) ==
    /\ pc[j] = "idle"
    /\ pc' = [pc EXCEPT ![j] = "ended"]
    /\ UNCHANGED <<sockList, peer, hand, flight, leaked, faults>>

Next ==
    \E j \in Job :
        \/ \E c \in Client : Connect(j, c)
        \/ ShakeBegin(j)
        \/ ShakeEnd(j)
        \/ \E c \in Client : Choose(j, c)
        \/ GetSock(j)
        \/ WaitSock(j)
        \/ StartTask(j)
        \/ AbandonTask(j)
        \/ \E s \in flight[j] : TaskFinished(j, s)
        \/ End(j)

Spec == Init /\ [][Next]_vars

-----------------------------------------------------------------------------
\* The sockets job j holds: the one in the hand of its run thread and those
\* of its tasks.
HandSock(j) == IF hand[j] = 0 THEN {} ELSE {<<peer[j], hand[j]>>}
Holds(j) == HandSock(j) \cup flight[j]

\* Two transfers never share a socket: chunk bytes carry no tag, so two tasks
\* reading one stream would each get a part of the other's chunk.  Over all
\* jobs, and with the sockets that were lost.
NoSharedSock ==
    /\ \A j, k \in Job : j # k => Holds(j) \cap Holds(k) = {}
    /\ \A j \in Job : HandSock(j) \cap flight[j] = {} /\ Holds(j) \cap leaked = {}

\* A USED mark is removed by whoever set it: the used sockets are exactly
\* those some thread holds and those lost with a task that did not start.
UsedIsHeld == UsedSocks = leaked \cup UNION {Holds(j) : j \in Job}

\* With as many connections as jobs times threads, and as long as nothing
\* fails, no run thread ever goes to sleep on a condition (so that no wakeup can be lost).
\* With 4 threads a job the code's limit of 11 is enough for two jobs.
NobodyWaits ==
    faults = 0 /\ Cardinality(Job) * (Workers + 1) <= MaxConn + 1
        => \A j \in Job : pc[j] \notin {"toWait", "waiting", "dead"}

=============================================================================
