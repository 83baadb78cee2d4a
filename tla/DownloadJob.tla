----------------------------- MODULE DownloadJob -----------------------------
(***************************************************************************)
(* One download job: the run thread (Job::run), its chunk queue            *)
(* (ChunkSelector), its download tasks (DownloadTask::runTask with         *)
(* Job::onFailed and Job::onFinished) and the commands of the user, which  *)
(* reach the other threads through three flags and a condition variable.   *)
(*                                                                         *)
(* Contents are abstracted to what the control depends on: a chunk is a    *)
(* pair <<file, position>>, the bitmap a peer sends is the set of chunks   *)
(* it claims, the transfer of a chunk is one exchange and one blocking     *)
(* receive, and a stream is either aligned or not (`broken`).              *)
(***************************************************************************)
EXTENDS LocalSockManager, Integers, FiniteSetsExt

CONSTANTS
    File,         \* UniqueFileidList()
    ChunkCount,   \* File -> number of chunks
    PeerHas,      \* Client -> the chunks in the bitmap it answers
    TrackerViews, \* the sets of clients the tracker may answer
    StartBitmaps, \* the bitmaps a job may start with (new, reloaded, upload)
    Copies,       \* the files that occur at more than one path of the torrent
    MaxThreads,   \* download threads: tp_(2, 4)
    RareCount,    \* RARE_COUNT, 5 in the code
    MaxFaults,    \* bound on failures of the network and of the checksums
    MaxCommands,  \* bound on the commands given after the job is started
    NoPeer        \* peer before the first one is chosen

Chunk == UNION {{f} \X (0 .. ChunkCount[f] - 1) : f \in File}

ASSUME JobAssumption ==
    /\ ChunkCount \in [File -> Nat]
    /\ PeerHas \in [Client -> SUBSET Chunk]
    /\ TrackerViews \subseteq (SUBSET Client \ {{}})
    /\ \A S \in TrackerViews : IsFiniteSet(S)
    /\ StartBitmaps \subseteq SUBSET Chunk
    /\ Copies \subseteq File
    /\ MaxThreads \in Nat \ {0} /\ RareCount \in Nat \ {0}
    /\ MaxFaults \in Nat /\ MaxCommands \in Nat
    /\ NoPeer \notin Client

VARIABLES
    \* the flags of DownloadInfo
    removed, stopped, paused,
    \* the run thread
    pc,         \* where it is
    after,      \* where reinit_file_owner_info returns to
    scan,       \* files whose owners have not been looked up yet
    cur,        \* the file being looked up
    todo,       \* owners of cur still to shake hands with
    bad,        \* invalid_clients
    hand,       \* chunk_info, the chunk popped and not yet given to a task; {} or {entry}
    peer,       \* peer_clientid
    hsock,      \* position of sock in the list of peer, 0 when there is none
    \* shared state
    queue,      \* chunk_queue_
    listed,     \* ownerInfoMap: File -> clients
    shaken,     \* File -> the listed clients whose bitmap has been received
    claims,     \* Client -> the chunks its last bitmaps hold
    done,       \* bitmap_map: the chunks marked as downloaded
    tasks,      \* the download tasks that run
    copied,     \* files copied to their other paths
    \* the environment and auxiliary variables
    broken,     \* sockets closed, or with bytes of a chunk left to read
    lost,       \* history: chunks popped whose task was never started
    faults, commands

flags == <<removed, stopped, paused>>
lookup == <<after, scan, cur, todo, bad>>
owners == <<listed, shaken, claims>>
run == <<hand, peer, hsock>>
vars == <<flags, pc, lookup, run, queue, owners, done, tasks, copied,
          sockList, broken, lost, faults, commands>>

-----------------------------------------------------------------------------
(* ChunkSelector *)

HIGHEST == 20
NORMAL == 10
UNAVAILABLE == 0

\* RARE_COUNT is 5: a chunk with fewer owners is more urgent than a normal one.
ASSUME RareAssumption == RareCount <= HIGHEST - NORMAL

Entry == [chunk : Chunk, status : {"FREE", "FAILED", "NOOWNER"},
          list : SUBSET Client, priority : Int]

\* get_priority: the priority of a chunk with n owners.
Priority(n, baseline) ==
    baseline + IF n = 0 THEN UNAVAILABLE
               ELSE IF n < RareCount THEN HIGHEST - n
               ELSE NORMAL

\* (Faulty variant of the next, to validate AvailableFirst.)
Baseline_swapped == [FREE |-> 0, FAILED |-> - HIGHEST, NOOWNER |-> - NORMAL]

Baseline == [FREE |-> 0, FAILED |-> - NORMAL, NOOWNER |-> - HIGHEST]

Claimants(k) == {c \in shaken[k[1]] : k \in claims[c]}

\* The client lists get_priority may compute for chunk k.  A listed client
\* that has not shaken hands has an empty bitmap: `size() < chunk_num` lets
\* chunk 0 through, and test(0) reads past the bitmap, so that either answer
\* is possible.
ClientLists(k) ==
    LET unread == IF k[2] = 0 THEN listed[k[1]] \ shaken[k[1]] ELSE {}
    IN  {Claimants(k) \cup u : u \in SUBSET unread}

NewEntry(k, status, list) ==
    [chunk |-> k, status |-> status, list |-> list,
     priority |-> Priority(Cardinality(list), Baseline[status])]

\* report_failed_chunk and report_no_owner_chunk.
Requeue(k, status) ==
    \E l \in ClientLists(k) : queue' = queue \cup {NewEntry(k, status, l)}

\* init_queue: every chunk not marked in the bitmap.  Every lookup is over, so
\* that each listed client has a bitmap (BitmapsKnown) and the lists are exact.
\* (Faulty variant, to validate Completes: the last chunk is left out.)
init_queue_short ==
    queue' = {NewEntry(k, "FREE", Claimants(k)) :
                k \in {o \in Chunk \ done : o[2] < ChunkCount[o[1]] - 1}}

init_queue ==
    queue' = {NewEntry(k, "FREE", Claimants(k)) : k \in Chunk \ done}

\* get_chunk: an entry of the highest priority.
get_chunk(e) ==
    /\ e \in queue
    /\ \A o \in queue : o.priority <= e.priority
    /\ queue' = queue \ {e}

-----------------------------------------------------------------------------
(* Init and the commands of the user *)

PC == {"new", "owners", "request", "connect", "shake", "shaking", "top",
       "stopCheck", "toSleep", "asleep", "pauseCheck", "choose", "getSock",
       "toWait", "waiting", "slot", "start", "join", "finished", "dead"}

TaskState == {"request", "flags", "receive", "failed"}

Task == [chunk : Chunk, client : Client, sock : Nat \ {0}, state : TaskState]

TypeOK ==
    /\ removed \in BOOLEAN /\ stopped \in BOOLEAN /\ paused \in BOOLEAN
    /\ pc \in PC
    /\ after \in {"owners", "choose"}
    /\ scan \in SUBSET File /\ cur \in File
    /\ todo \in SUBSET Client /\ bad \in SUBSET Client
    /\ hand \in SUBSET Entry
    /\ peer \in Client \cup {NoPeer} /\ hsock \in Nat
    /\ queue \in SUBSET Entry
    /\ listed \in [File -> SUBSET Client]
    /\ shaken \in [File -> SUBSET Client]
    /\ claims \in [Client -> SUBSET Chunk]
    /\ done \in SUBSET Chunk
    /\ tasks \in SUBSET Task
    /\ copied \in SUBSET File
    /\ SockListType
    /\ broken \in SUBSET Sock
    /\ lost \in SUBSET [chunk : Chunk, client : Client, sock : Nat \ {0}]
    /\ faults \in 0 .. MaxFaults /\ commands \in 0 .. MaxCommands

Init ==
    /\ removed = FALSE /\ stopped = TRUE /\ paused = TRUE
    /\ pc = "new"
    /\ after = "owners" /\ scan = File /\ cur \in File
    /\ todo = {} /\ bad = {}
    /\ hand = {} /\ peer = NoPeer /\ hsock = 0
    /\ queue = {}
    /\ listed = [f \in File |-> {}]
    /\ shaken = [f \in File |-> {}]
    /\ claims = [c \in Client |-> {}]
    /\ done \in StartBitmaps
    /\ tasks = {} /\ copied = {}
    /\ SockListInit
    /\ broken = {} /\ lost = {} /\ faults = 0 /\ commands = 0

\* StartJob, called once for a job by the code that added it: the flags are
\* cleared as by ResumeJob and run() is given a thread.
StartJob ==
    /\ pc = "new"
    /\ stopped' = FALSE /\ paused' = FALSE
    /\ pc' = "owners"
    /\ UNCHANGED <<removed, lookup, run, queue, owners, done, tasks, copied,
                   sockList, broken, lost, faults, commands>>

Command ==
    /\ ~ removed
    /\ commands < MaxCommands
    /\ commands' = commands + 1
    /\ UNCHANGED <<lookup, run, queue, owners, done, tasks, copied,
                   sockList, broken, lost, faults>>

PauseJob ==
    /\ Command
    /\ paused' = TRUE
    /\ UNCHANGED <<removed, stopped, pc>>

StopJob ==
    /\ Command
    /\ stopped' = TRUE
    /\ UNCHANGED <<removed, paused, pc>>

\* ResumeJob clears both flags and broadcasts job_stopped_cond.
ResumeJob ==
    /\ Command
    /\ stopped' = FALSE /\ paused' = FALSE
    /\ pc' = IF pc = "asleep" THEN "top" ELSE pc
    /\ UNCHANGED removed

\* RemoveJob broadcasts two conditions, but not job_stopped_cond.
RemoveJob ==
    /\ Command
    /\ removed' = TRUE
    /\ UNCHANGED <<stopped, paused, pc>>

-----------------------------------------------------------------------------
(* The environment: at most MaxFaults failures *)

Fault == faults < MaxFaults /\ faults' = faults + 1

NoFault == UNCHANGED faults

\* An exchange over socket s fails because its stream is no longer aligned,
\* or because it breaks now.
StreamFails(s) ==
    \/ s \in broken /\ NoFault /\ UNCHANGED broken
    \/ s \notin broken /\ Fault /\ broken' = broken \cup {s}

-----------------------------------------------------------------------------
(* Job::reinit_file_owner_info *)

\* run(): look up the owners of each file, then fill the queue.
ScanOwners ==
    /\ pc = "owners"
    /\ \/ \E f \in scan :
            /\ cur' = f
            /\ scan' = scan \ {f}
            /\ after' = "owners"
            /\ pc' = "request"
            /\ UNCHANGED queue
       \/ /\ scan = {}
          /\ init_queue
          /\ pc' = "top"
          /\ UNCHANGED <<cur, scan, after>>
    /\ UNCHANGED <<flags, todo, bad, run, owners, done, tasks, copied,
                   sockList, broken, lost, faults, commands>>

\* request_clients with a list of clients: it replaces the list of the file,
\* and the new infos have empty bitmaps.
request_clients ==
    /\ pc = "request"
    /\ \E S \in TrackerViews :
        /\ listed' = [listed EXCEPT ![cur] = S]
        /\ todo' = S
    /\ shaken' = [shaken EXCEPT ![cur] = {}]
    /\ bad' = {}
    /\ pc' = "connect"
    /\ UNCHANGED <<flags, after, scan, cur, claims, run, queue, done, tasks,
                   copied, sockList, broken, lost, faults, commands>>

\* request_clients without: no tracker, an error code, or no client, which
\* leave the list as it was; or no reply at all, and RequestClients reads the
\* count of clients of a NULL reply: the exception ends the run thread.
RequestFails ==
    /\ pc = "request"
    /\ Fault
    /\ pc' \in {after, "dead"}
    /\ UNCHANGED <<flags, lookup, run, queue, owners, done, tasks, copied,
                   sockList, broken, lost, commands>>

\* Connect to the next owner unless the pool has a connection.  When that
\* fails the code logs it and shakes hands all the same.
ConnectOwner ==
    /\ pc = "connect"
    /\ \E c \in todo :
        /\ peer' = c
        /\ \/ is_connected(c) /\ NoFault /\ UNCHANGED sockList
           \/ ~ is_connected(c) /\ NoFault /\ connect_client(c)
           \/ ~ is_connected(c) /\ Fault /\ UNCHANGED sockList
    /\ pc' = "shake"
    /\ UNCHANGED <<flags, lookup, hand, hsock, queue, owners, done, tasks,
                   copied, broken, lost, commands>>

\* get_idle_client_sock(peer): with a socket the run thread goes to `ok`,
\* with NULL to `ko`.
AskSock(ok, ko) ==
    \/ \E i \in 1 .. Len(sockList[peer]) + 1 :
        /\ get_idle_client_sock(peer, i)
        /\ hsock' = i
        /\ pc' = ok
        /\ NoFault
    \/ /\ get_idle_refused(peer)
       /\ pc' = ko
       /\ UNCHANGED hsock /\ NoFault
    \/ /\ get_idle_connect_failed(peer)
       /\ pc' = ko
       /\ UNCHANGED hsock /\ Fault

\* shake_hand asserts that the peer is connected and the socket not NULL.
\* The failed assertion is an exception, and nothing up to the thread pool
\* catches it: run() ends with is_running_ still set.
ShakeBegin ==
    /\ pc = "shake"
    /\ AskSock("shaking", "dead")
    /\ UNCHANGED <<flags, lookup, hand, peer, queue, owners, done, tasks,
                   copied, broken, lost, commands>>

\* The guard of shake_hand returns the socket on every path.
\* (Faulty variant, to validate SocksAccounted: there is no guard.)
ShakeReturn_unguarded ==
    /\ pc = "shaking"
    /\ hsock' = 0
    /\ todo' = todo \ {peer}
    /\ UNCHANGED <<flags, after, scan, cur, hand, peer, queue, listed, done,
                   tasks, copied, sockList, lost, commands>>

ShakeReturn ==
    /\ pc = "shaking"
    /\ return_sock(peer, hsock)
    /\ hsock' = 0
    /\ todo' = todo \ {peer}
    /\ UNCHANGED <<flags, after, scan, cur, hand, peer, queue, listed, done,
                   tasks, copied, lost, commands>>

\* The answer of the peer has its bitmap of the file.
ShakeSucceeds ==
    /\ ShakeReturn
    /\ <<peer, hsock>> \notin broken
    /\ shaken' = [shaken EXCEPT ![cur] = @ \cup {peer}]
    /\ claims' = [claims EXCEPT ![peer] =
                    {k \in @ : k[1] # cur} \cup {k \in PeerHas[peer] : k[1] = cur}]
    /\ pc' = "connect"
    /\ NoFault
    /\ UNCHANGED <<bad, broken>>

\* The peer does not have the file any more.
ShakeNoFile ==
    /\ ShakeReturn
    /\ <<peer, hsock>> \notin broken
    /\ Fault
    /\ bad' = bad \cup {peer}
    /\ pc' = "connect"
    /\ UNCHANGED <<shaken, claims, broken>>

\* The exchange fails: with an error code the owner is struck off, with an
\* exception (of the socket, or of the assertion on the header length) the
\* run thread ends.
ShakeBreaks ==
    /\ ShakeReturn
    /\ StreamFails(<<peer, hsock>>)
    /\ \/ pc' = "connect" /\ bad' = bad \cup {peer}
       \/ pc' = "dead" /\ UNCHANGED bad
    /\ UNCHANGED <<shaken, claims>>

\* All owners have been tried: the invalid clients leave the list.
\* (Faulty variant, to validate BitmapsKnown: they do not.)
LookupDone_keeps ==
    /\ pc = "connect"
    /\ todo = {}
    /\ pc' = after
    /\ UNCHANGED <<flags, lookup, run, queue, owners, done, tasks,
                   copied, sockList, broken, lost, faults, commands>>

LookupDone ==
    /\ pc = "connect"
    /\ todo = {}
    /\ listed' = [listed EXCEPT ![cur] = @ \ bad]
    /\ pc' = after
    /\ UNCHANGED <<flags, lookup, run, queue, shaken, claims, done, tasks,
                   copied, sockList, broken, lost, faults, commands>>

-----------------------------------------------------------------------------
(* The loop of Job::run *)

\* What the steps that only move the run thread leave alone.
OnlyMoves == UNCHANGED <<flags, lookup, queue, owners, done, tasks, copied,
                         sockList, broken, lost, faults, commands>>

CheckRemoved ==
    /\ pc = "top"
    /\ pc' = IF removed THEN "join" ELSE "stopCheck"
    /\ OnlyMoves /\ UNCHANGED run

CheckStopped ==
    /\ pc = "stopCheck"
    /\ pc' = IF stopped THEN "toSleep" ELSE "pauseCheck"
    /\ OnlyMoves /\ UNCHANGED run

\* job_stopped_cond.wait: the flag was read without any lock, and a broadcast
\* made before this step wakes nobody.
SleepStopped ==
    /\ pc = "toSleep"
    /\ pc' = "asleep"
    /\ OnlyMoves /\ UNCHANGED run

SpinPaused ==
    /\ pc = "pauseCheck"
    /\ paused
    /\ pc' = "top"
    /\ OnlyMoves /\ UNCHANGED run

\* The queue is empty: the loop is left, whatever the tasks still do.
QueueEmpty ==
    /\ pc = "pauseCheck"
    /\ ~ paused
    /\ queue = {}
    /\ pc' = "join"
    /\ OnlyMoves /\ UNCHANGED run

\* A chunk is popped.  The owners of its file are looked up again when it is
\* one for which no owner was found.
PopChunk ==
    /\ pc = "pauseCheck"
    /\ ~ paused
    /\ \E e \in queue :
        /\ get_chunk(e)
        /\ hand' = {e}
        /\ IF e.status = "NOOWNER"
           THEN /\ pc' = "request" /\ cur' = e.chunk[1] /\ after' = "choose"
           ELSE /\ pc' = "choose" /\ UNCHANGED <<cur, after>>
    /\ UNCHANGED <<flags, scan, todo, bad, peer, hsock, owners, done, tasks,
                   copied, sockList, broken, lost, faults, commands>>

\* The client list of the popped chunk (computed when it was queued) is empty.
\* (Faulty variant, to validate NoneForgotten: the chunk is not queued again.)
report_no_owner_forgets ==
    /\ pc = "choose"
    /\ \E e \in hand : e.list = {}
    /\ hand' = {}
    /\ pc' = "top"
    /\ UNCHANGED <<flags, lookup, peer, hsock, queue, owners, done, tasks,
                   copied, sockList, broken, lost, faults, commands>>

report_no_owner_chunk ==
    /\ pc = "choose"
    /\ \E e \in hand : e.list = {} /\ Requeue(e.chunk, "NOOWNER")
    /\ hand' = {}
    /\ pc' = "top"
    /\ UNCHANGED <<flags, lookup, peer, hsock, owners, done, tasks, copied,
                   sockList, broken, lost, faults, commands>>

\* A peer with the least payload is chosen.
ChoosePeer ==
    /\ pc = "choose"
    /\ \E e \in hand : \E c \in e.list :
        /\ \A o \in e.list : get_payload_percentage(c) <= get_payload_percentage(o)
        /\ peer' = c
    /\ pc' = "getSock"
    /\ OnlyMoves /\ UNCHANGED <<hand, hsock>>

GetSock ==
    /\ pc = "getSock"
    /\ AskSock("slot", "toWait")
    /\ UNCHANGED <<flags, lookup, hand, peer, queue, owners, done, tasks,
                   copied, broken, lost, commands>>

\* get_sock_idel_condition asserts that the peer has a condition.
WaitSock ==
    /\ pc = "toWait"
    /\ pc' = IF is_connected(peer) THEN "waiting" ELSE "dead"
    /\ OnlyMoves /\ UNCHANGED run

\* Busy waiting for a free download thread, given up when the job is paused.
WaitThread ==
    /\ pc = "slot"
    /\ Cardinality(tasks) < MaxThreads \/ paused
    /\ pc' = "start"
    /\ OnlyMoves /\ UNCHANGED run

\* (Faulty variant, to validate TypeOK: the socket is reset before it is used.)
StartTask_resets ==
    /\ pc = "start"
    /\ ~ paused
    /\ Cardinality(tasks) < MaxThreads
    /\ hand' = {} /\ hsock' = 0
    /\ \E e \in hand : tasks' = tasks \cup
            {[chunk |-> e.chunk, client |-> peer, sock |-> hsock', state |-> "request"]}
    /\ pc' = "top"
    /\ UNCHANGED <<flags, lookup, peer, queue, owners, done, copied,
                   sockList, broken, lost, faults, commands>>

StartTask ==
    /\ pc = "start"
    /\ ~ paused
    /\ Cardinality(tasks) < MaxThreads
    /\ \E e \in hand : tasks' = tasks \cup
            {[chunk |-> e.chunk, client |-> peer, sock |-> hsock, state |-> "request"]}
    /\ hand' = {} /\ hsock' = 0
    /\ pc' = "top"
    /\ UNCHANGED <<flags, lookup, peer, queue, owners, done, copied,
                   sockList, broken, lost, faults, commands>>

\* The task is not started: the job is paused, or was while no thread was
\* free, or the constructor of the task throws on a closed socket.  The
\* handler logs the exception; the chunk and the socket are forgotten.
DropTask ==
    /\ pc = "start"
    /\ paused \/ Cardinality(tasks) >= MaxThreads \/ <<peer, hsock>> \in broken
    /\ \E e \in hand : lost' = lost \cup
            {[chunk |-> e.chunk, client |-> peer, sock |-> hsock]}
    /\ hand' = {} /\ hsock' = 0
    /\ pc' = "top"
    /\ UNCHANGED <<flags, lookup, peer, queue, owners, done, tasks, copied,
                   sockList, broken, faults, commands>>

\* joinAll, the copies of the files that occur twice, is_running_ = false.
FinishRun ==
    /\ pc = "join"
    /\ tasks = {}
    /\ copied' = Copies
    /\ pc' = "finished"
    /\ UNCHANGED <<flags, lookup, run, queue, owners, done, tasks,
                   sockList, broken, lost, faults, commands>>

-----------------------------------------------------------------------------
(* A download task: DownloadTask::runTask, Job::onFailed, Job::onFinished *)

Becomes(t, st) == tasks' = (tasks \ {t}) \cup {[t EXCEPT !.state = st]}

TaskFrame == UNCHANGED <<flags, lookup, run, owners, copied, lost, commands>>

\* onFailed: the chunk goes back to the queue, the task is marked reported.
\* onFinished follows as a step of its own, with the socket still used.
Fail(t) ==
    /\ Requeue(t.chunk, "FAILED")
    /\ Becomes(t, "failed")
    /\ UNCHANGED <<pc, done, sockList>>
    /\ TaskFrame

\* The upload request and its positive reply.
Exchange(t) ==
    /\ t.state = "request"
    /\ <<t.client, t.sock>> \notin broken
    /\ Becomes(t, "flags")
    /\ UNCHANGED <<pc, queue, done, sockList, broken, faults>>
    /\ TaskFrame

ExchangeFails(t) ==
    /\ t.state = "request"
    /\ StreamFails(<<t.client, t.sock>>)
    /\ Fail(t)

\* The flags are read before the chunk is received.  A stop or a removal
\* leaves the bytes of the chunk unread in the socket.
\* (Faulty variants, to validate StopDrains and RemoveEnds: one of the flags
\* is not tested.)
AbortsWhen(t, flag) ==
    /\ t.state = "flags"
    /\ flag
    /\ broken' = broken \cup {<<t.client, t.sock>>}
    /\ NoFault
    /\ Fail(t)

TaskAborts_removed(t) == AbortsWhen(t, removed)

TaskAborts_stopped(t) == AbortsWhen(t, stopped)

TaskAborts(t) == AbortsWhen(t, stopped \/ removed)

TaskReceives(t) ==
    /\ t.state = "flags"
    /\ ~ stopped /\ ~ removed /\ ~ paused
    /\ Becomes(t, "receive")
    /\ UNCHANGED <<pc, queue, done, sockList, broken, faults>>
    /\ TaskFrame

\* The connection breaks while the chunk is received.
ReceiveFails(t) ==
    /\ t.state = "receive"
    /\ StreamFails(<<t.client, t.sock>>)
    /\ Fail(t)

\* The whole chunk has been received, and its checksum is wrong.
ChecksumFails(t) ==
    /\ t.state = "receive"
    /\ Fault /\ UNCHANGED broken
    /\ Fail(t)

\* onFinished: return the socket, wake the run thread if it sleeps on the
\* condition of this client.
ReturnSock(t) ==
    /\ return_sock(t.client, t.sock)
    /\ tasks' = tasks \ {t}
    /\ pc' = IF pc = "waiting" /\ peer = t.client THEN "getSock" ELSE pc
    /\ UNCHANGED <<queue, broken, faults>>
    /\ TaskFrame

\* The chunk is written, and report_success_chunk marks it.
TaskSucceeds(t) ==
    /\ t.state = "receive"
    /\ <<t.client, t.sock>> \notin broken
    /\ done' = done \cup {t.chunk}
    /\ ReturnSock(t)

\* onFinished of a task that onFailed has reported.
\* (Faulty variant, to validate OnePlace: reported() is not tested.)
FailedTaskFinishes_reports(t) ==
    /\ t.state = "failed"
    /\ done' = done \cup {t.chunk}
    /\ ReturnSock(t)

FailedTaskFinishes(t) ==
    /\ t.state = "failed"
    /\ UNCHANGED done
    /\ ReturnSock(t)

-----------------------------------------------------------------------------
Commands == PauseJob \/ StopJob \/ ResumeJob \/ RemoveJob

Lookup ==
    \/ ScanOwners \/ request_clients \/ RequestFails \/ ConnectOwner \/ ShakeBegin
    \/ ShakeSucceeds \/ ShakeNoFile \/ ShakeBreaks \/ LookupDone

Loop ==
    \/ CheckRemoved \/ CheckStopped \/ SleepStopped \/ SpinPaused
    \/ QueueEmpty \/ PopChunk \/ report_no_owner_chunk \/ ChoosePeer \/ GetSock
    \/ WaitSock \/ WaitThread \/ StartTask \/ DropTask \/ FinishRun

RunThread == Lookup \/ Loop

TaskStep(t) ==
    \/ Exchange(t) \/ ExchangeFails(t) \/ TaskAborts(t) \/ TaskReceives(t)
    \/ ReceiveFails(t) \/ ChecksumFails(t) \/ TaskSucceeds(t)
    \/ FailedTaskFinishes(t)

Next == StartJob \/ Commands \/ RunThread \/ \E t \in tasks : TaskStep(t)

Spec == Init /\ [][Next]_vars

\* The threads of the program keep running, and a blocking call on a socket
\* ends (peers answer or the connection breaks).  The user need not act.
TaskOf(k) == \E t \in tasks : t.chunk = k /\ TaskStep(t)

Fairness == WF_vars(StartJob) /\ WF_vars(RunThread)
            /\ \A k \in Chunk : WF_vars(TaskOf(k))

FairSpec == Spec /\ Fairness

-----------------------------------------------------------------------------
(* Safety *)

Queued == {e.chunk : e \in queue}
InHand == {e.chunk : e \in hand}
Active == {t \in tasks : t.state # "failed"}
InFlight == {t.chunk : t \in Active}
Lost == {l.chunk : l \in lost}

\* Before init_queue the queue says nothing about the chunks to download.
Scanning ==
    \/ pc \in {"new", "owners"}
    \/ after = "owners" /\ pc \in {"request", "connect", "shake", "shaking", "dead"}

\* A chunk is never worked on twice at a time: at most one entry of the queue,
\* popped entry or running task is about it, and none once it is marked in
\* the bitmap.  A failed task is over for the queue before it is for the pool,
\* and onFinished runs after onFailed for the same task.
OnePlace ==
    /\ \A e, o \in queue : e.chunk = o.chunk => e = o
    /\ \A t, u \in Active : t.chunk = u.chunk => t = u
    /\ Cardinality(hand) <= 1
    /\ Queued \cap (InHand \cup InFlight \cup Lost \cup done) = {}
    /\ InHand \cap (InFlight \cup Lost \cup done) = {}
    /\ InFlight \cap (Lost \cup done) = {}

\* No chunk is forgotten, save those popped for a task that did not start: a
\* chunk is downloaded, queued, in the hand of the run thread, in flight, or
\* it was dropped with its socket.
NoneForgotten ==
    ~ Scanning => Chunk = done \cup Queued \cup InHand \cup InFlight \cup Lost

\* The sockets of the pool and the threads agree: the used ones are those of
\* the tasks, the one of the run thread and those dropped, and all of these
\* are different sockets.
SocksAccounted ==
    LET ofTasks == {<<t.client, t.sock>> : t \in tasks}
        ofRun == IF hsock = 0 THEN {} ELSE {<<peer, hsock>>}
        dropped == {<<l.client, l.sock>> : l \in lost}
    IN  /\ UsedSocks = ofTasks \cup ofRun \cup dropped
        /\ ofTasks \cap (ofRun \cup dropped) = {} /\ ofRun \cap dropped = {}
        /\ Cardinality(ofTasks) = Cardinality(tasks)
        /\ Cardinality(dropped) = Cardinality(lost)

\* The run thread reaches init_queue only with the bitmaps of all the owners
\* it keeps, so that the first priorities count every owner of a chunk.
BitmapsKnown == pc = "owners" => listed = shaken

\* A chunk for which no owner was found makes the run thread ask the tracker
\* and shake hands again, which takes long: it is popped only when no chunk
\* that was not yet given up has an owner.  This is what the baselines of the
\* priorities are for ("all chunk left in queue are of no owners").
AvailableFirst ==
    [][\A e \in queue :
          (e \notin queue' /\ e.status = "NOOWNER")
             => \A o \in queue : o.status = "NOOWNER" \/ o.list = {}]_vars

-----------------------------------------------------------------------------
(* What the job implements *)

\* The place of a chunk.  A chunk in none of the four is in no place of the
\* ledger at all, so that losing one is not a step of it.
place == [k \in Chunk |->
            IF k \in done THEN "done"
            ELSE IF k \in Lost THEN "dropped"
            ELSE IF k \in InHand \cup InFlight THEN "work"
            ELSE IF Scanning \/ k \in Queued THEN "todo"
            ELSE "nowhere"]

Ledger == INSTANCE ChunkLedger WITH Workers <- MaxThreads + 1

\* Whatever the order of the run thread, the tasks and the commands: a chunk
\* that is not done is popped once at a time, by at most one more than the
\* threads, is marked as done only out of the hands of the task that received
\* it, never comes back once it is done, and goes back to the queue, to be
\* tried again, whenever it fails.
ImplementsLedger == Ledger!Spec

-----------------------------------------------------------------------------
(* Statements of the code that do not hold *)

\* "when the download one complete, we simply copy from it to the rest"
CopiesComplete == \A f \in copied : \A k \in Chunk : k[1] = f => k \in done

\* poco_assert( sockManager_->is_connected(peer_clientid) ) in shake_hand
ShakesConnected == pc = "shake" => is_connected(peer)

\* poco_assert( headerLength > 0 && headerLength < 1000 ): what is read where
\* a header is expected is a header, also after a stop and a resume.
HeaderExpected ==
    \A t \in tasks : t.state = "request" => <<t.client, t.sock>> \notin broken

-----------------------------------------------------------------------------
(* Liveness *)

Over == pc \in {"finished", "dead"}

\* Without a command of the user, with peers that have all the chunks between
\* them and a network that works, the job downloads every chunk and ends.
Completes == [](commands = 0) => <>(pc = "finished" /\ done = Chunk)

\* A stopped job gives its sockets back: every task that runs when the job is
\* stopped ends, and so does the one the run thread may be starting.
StopDrains == stopped ~> (tasks = {} \/ ~ stopped)

\* The run thread of a removed job ends, unless the job was stopped or the
\* thread was about to sleep on job_stopped_cond, which RemoveJob leaves alone.
RemoveEnds ==
    (removed /\ ~ stopped /\ pc \notin {"new", "toSleep", "asleep"}) ~> Over

=============================================================================
