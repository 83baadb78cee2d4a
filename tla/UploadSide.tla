------------------------------ MODULE UploadSide ------------------------------
(***************************************************************************)
(* How one client serves chunks to its peers: the reactor thread with a    *)
(* handler for each connection (ClientConnectionHandler), the upload tasks *)
(* it starts in a pool of threads (UploadTask, NetTaskManager), and, at    *)
(* the other end of each connection, a peer that runs the same program and *)
(* uses one connection for one exchange at a time (CoolClient::shake_hand, *)
(* DownloadTask::runTask).                                                 *)
(*                                                                         *)
(* A connection is a queue of messages in each direction.  A chunk is sent *)
(* in Size units; the queue to the peer holds at most Cap messages and     *)
(* units, and a sender waits when it is full.                              *)
(***************************************************************************)
EXTENDS Naturals, SequencesExt, FiniteSetsExt

CONSTANTS
    Conn,        \* the connections peers have opened
    Chunk,       \* the chunks of the file
    Size,        \* units of a chunk
    Cap,         \* room on the way to a peer
    Threads,     \* threads of the default pool that the upload tasks can get
    MaxRequests, \* bound on upload requests
    MaxStops,    \* bound on downloads the peers stop, and connections they close
    MaxCommands, \* bound on the commands of the user of this client
    None

ASSUME UploadAssumption ==
    /\ Size \in Nat \ {0} /\ Cap \in Nat \ {0} /\ Threads \in Nat
    /\ MaxRequests \in Nat /\ MaxStops \in Nat /\ MaxCommands \in Nat
    /\ None \notin Conn
    /\ None \notin [req : Nat, chunk : Chunk]
    /\ None \notin [conn : Conn, at : {"reply", "start"},
                    out : [type : {"shake", "yes", "no"}, req : Nat, bits : SUBSET Chunk]]

VARIABLES
    job,      \* the job that owns the file: "active", "stopped" or "removed";
              \* "ended" when the program has ended
    written,  \* chunks whose bytes are in the file
    have,     \* bitmap_map: chunks this client tells it has
    \* the connections
    up,       \* Conn -> messages on their way to this client
    down,     \* Conn -> messages and units on their way to the peer
    closed,   \* connections closed by the peer, or by the end of the program
    \* the peers
    peer,     \* Conn -> what the peer does: [at, req, got]
    known,    \* Conn -> the bitmap the peer has received
    \* the reactor thread
    handlers, \* connections whose handler exists
    reactor,  \* None, or the request being handled: [conn, at, out]
    last_request_upload, pTask, \* fields of the handlers
    \* the upload tasks
    tasks,    \* those that run: [conn, req, chunk, at, sent]
    \* history
    answered, \* requests answered with ERROR_OK
    started,  \* requests whose task was started, in order
    cut,      \* requests whose task threw, or could not be started
    misread,  \* connections where a peer left a chunk half read
    reqs, stops, commands

store == <<job, written, have>>
peers == <<peer, known, misread, reqs, stops>>
handler == <<handlers, last_request_upload, pTask>>
service == <<reactor, handler, tasks>>
history == <<answered, started, cut>>
vars == <<store, up, down, closed, peers, service, history, commands>>

Request == 1 .. MaxRequests

Init ==
    /\ job = "active"
    /\ have \in SUBSET Chunk /\ written = have
    /\ up = [c \in Conn |-> <<>>]
    /\ down = [c \in Conn |-> <<>>]
    /\ closed = {}
    /\ peer = [c \in Conn |-> [at |-> "idle", req |-> 0, got |-> 0]]
    /\ known = [c \in Conn |-> {}]
    /\ handlers = Conn
    /\ reactor = None
    /\ last_request_upload = [c \in Conn |-> FALSE]
    /\ pTask = [c \in Conn |-> None]
    /\ tasks = {}
    /\ answered = {} /\ started = <<>> /\ cut = {} /\ misread = {}
    /\ reqs = 0 /\ stops = 0 /\ commands = 0

-----------------------------------------------------------------------------
(* The job of this client *)

\* A download task writes a verified chunk.
WriteChunk(k) ==
    /\ job = "active"
    /\ written' = written \cup {k}
    /\ UNCHANGED <<job, have, up, down, closed, peers, service, history, commands>>

\* When it has finished, report_success_chunk marks the chunk.
\* (Faulty variant, to validate ServedOwned: the chunk is marked when its
\* bytes have come, before they are written.)
MarkFrom(k, chunks) ==
    /\ job # "ended"
    /\ k \in chunks
    /\ have' = have \cup {k}
    /\ UNCHANGED <<job, written, up, down, closed, peers, service, history, commands>>

MarkChunk_early(k) == MarkFrom(k, Chunk)

MarkChunk(k) == MarkFrom(k, written)

\* StopJob, ResumeJob and RemoveJob.
Command ==
    /\ commands < MaxCommands
    /\ commands' = commands + 1
    /\ job \notin {"removed", "ended"}
    /\ job' \in {"active", "stopped", "removed"} \ {job}
    /\ UNCHANGED <<written, have, up, down, closed, peers, service, history>>

-----------------------------------------------------------------------------
(* The peers *)

PeerIs(c, at, req, got) ==
    peer' = [peer EXCEPT ![c] = [at |-> at, req |-> req, got |-> got]]

Send(c, msg) == up' = [up EXCEPT ![c] = Append(@, msg)]

PeerShakes(c) ==
    /\ peer[c].at = "idle"
    /\ known[c] = {}
    /\ PeerIs(c, "shaking", 0, 0)
    /\ Send(c, [type |-> "shake", req |-> 0, chunk |-> None])
    /\ UNCHANGED <<store, down, closed, known, misread, reqs, stops, service,
                   history, commands>>

PeerRequests(c) ==
    /\ peer[c].at = "idle"
    /\ reqs < MaxRequests
    /\ reqs' = reqs + 1
    /\ PeerIs(c, "asked", reqs', 0)
    /\ \E k \in known[c] : Send(c, [type |-> "upload", req |-> reqs', chunk |-> k])
    /\ UNCHANGED <<store, down, closed, known, misread, stops, service, history,
                   commands>>

Receive(c) == down[c] # <<>> /\ down' = [down EXCEPT ![c] = Tail(@)]

\* receiveFrom in shake_hand and in runTask: what the peer reads next is taken
\* for the reply; units of a chunk make the assertion on the header fail.
PeerReadsReply(c) ==
    /\ Receive(c)
    /\ LET msg == Head(down[c])
       IN  \/ /\ peer[c].at = "shaking"
              /\ PeerIs(c, "idle", 0, 0)
              /\ known' = [known EXCEPT ![c] =
                             IF msg.type = "shake" THEN msg.bits ELSE {}]
           \/ /\ peer[c].at = "asked"
              /\ IF msg.type = "yes" THEN PeerIs(c, "check", peer[c].req, 0)
                                     ELSE PeerIs(c, "idle", 0, 0)
              /\ UNCHANGED known
    /\ UNCHANGED <<store, up, closed, misread, reqs, stops, service, history, commands>>

\* The receive loop: the flags of the download are looked at, then the peer
\* waits for bytes.
PeerChecks(c) ==
    /\ peer[c].at = "check"
    /\ IF peer[c].got = Size THEN PeerIs(c, "idle", 0, 0)
                             ELSE PeerIs(c, "receive", peer[c].req, peer[c].got)
    /\ UNCHANGED <<store, up, down, closed, known, misread, reqs, stops, service,
                   history, commands>>

PeerReceives(c) ==
    /\ peer[c].at = "receive"
    /\ Receive(c)
    /\ PeerIs(c, "check", peer[c].req, peer[c].got + 1)
    /\ UNCHANGED <<store, up, closed, known, misread, reqs, stops, service, history,
                   commands>>

\* The peer stops its job: the task throws and its connection goes back to the
\* pool of the peer, with the rest of the chunk still to come.
PeerStops(c) ==
    /\ peer[c].at = "check"
    /\ stops < MaxStops /\ stops' = stops + 1
    /\ PeerIs(c, "idle", 0, 0)
    /\ misread' = misread \cup {c}
    /\ UNCHANGED <<store, up, down, closed, known, reqs, service, history, commands>>

\* The peer ends.
PeerLeaves(c) ==
    /\ c \notin closed
    /\ stops < MaxStops /\ stops' = stops + 1
    /\ PeerIs(c, "gone", 0, 0)
    /\ closed' = closed \cup {c}
    /\ up' = [up EXCEPT ![c] = <<>>]
    /\ down' = [down EXCEPT ![c] = <<>>]
    /\ UNCHANGED <<store, known, misread, reqs, service, history, commands>>

-----------------------------------------------------------------------------
(* The reactor thread *)

Room(c) == Cap - Len(down[c])

\* HandleShakeHand: the bitmap, or hasfile = 0.
ShakeReply == [type |-> "shake", req |-> 0,
               bits |-> IF job = "removed" THEN {} ELSE have]

\* HandleUploadRequest refuses when no job has the file; it looks neither at
\* the bitmap nor at the flags of the job.
UploadReply(msg) == [type |-> IF job = "removed" THEN "no" ELSE "yes",
                     req |-> msg.req, bits |-> {}]

\* onReadable up to sendBy: the request is received and processed.
OnReadable(c) ==
    /\ reactor = None
    /\ c \in handlers
    /\ up[c] # <<>>
    /\ up' = [up EXCEPT ![c] = Tail(@)]
    /\ LET msg == Head(up[c])
           upload == msg.type = "upload"
           out == IF upload THEN UploadReply(msg) ELSE ShakeReply
       IN  /\ reactor' = [conn |-> c, at |-> "reply", out |-> out]
           /\ last_request_upload' = [last_request_upload EXCEPT ![c] = upload]
           /\ pTask' = [pTask EXCEPT ![c] =
                          IF out.type = "yes" THEN [req |-> msg.req, chunk |-> msg.chunk]
                                              ELSE @]
    /\ UNCHANGED <<store, down, closed, peers, handlers, tasks, history, commands>>

\* The reply is sent; the reactor, and with it every other connection, waits
\* for room.
SendReply ==
    /\ reactor # None /\ reactor.at = "reply"
    /\ LET c == reactor.conn
       IN  /\ c \notin closed
           /\ Room(c) > 0
           /\ down' = [down EXCEPT ![c] = Append(@, reactor.out)]
           /\ reactor' = IF last_request_upload[c] THEN [reactor EXCEPT !.at = "start"]
                                                   ELSE None
    /\ answered' = IF reactor.out.type = "yes" THEN answered \cup {reactor.out.req}
                                               ELSE answered
    /\ UNCHANGED <<store, up, closed, peers, handler, tasks, started, cut,
                   commands>>

\* The reply cannot be sent: the task is deleted, and the handler with it.
SendReplyFails ==
    /\ reactor # None /\ reactor.at = "reply"
    /\ reactor.conn \in closed
    /\ handlers' = handlers \ {reactor.conn}
    /\ pTask' = [pTask EXCEPT ![reactor.conn] = None]
    /\ reactor' = None
    /\ UNCHANGED <<store, up, down, closed, peers, last_request_upload, tasks,
                   history, commands>>

\* upload_manager().start(pTask), also after a request that was refused: a NULL
\* pointer throws, and nothing happens.  Without a thread the pool throws, and
\* pTask is not reset.
\* (Faulty variant, to validate StartedOnce: it is never reset.)
StartThen(next) ==
    /\ reactor # None /\ reactor.at = "start"
    /\ reactor' = None
    /\ LET c == reactor.conn
           t == pTask[c]
       IN  \/ /\ t = None
              /\ UNCHANGED <<pTask, tasks, started, cut>>
           \/ /\ t # None
              /\ Cardinality(tasks) < Threads
              /\ tasks' = tasks \cup {[conn |-> c, req |-> t.req, chunk |-> t.chunk,
                                       at |-> "read", sent |-> 0]}
              /\ started' = Append(started, t.req)
              /\ pTask' = [pTask EXCEPT ![c] = next[c]]
              /\ UNCHANGED cut
           \/ /\ t # None
              /\ Cardinality(tasks) >= Threads
              /\ cut' = cut \cup {t.req}
              /\ UNCHANGED <<pTask, tasks, started>>
    /\ UNCHANGED <<store, up, down, closed, peers, handlers, last_request_upload,
                   answered, commands>>

Reset == [c \in Conn |-> None]

StartTask_keeps == StartThen(pTask)

StartTask == StartThen(Reset)

\* onShutdown, or a receive that returns 0: `delete this`.
HandlerGone(c) ==
    /\ reactor = None
    /\ c \in handlers \cap closed
    /\ handlers' = handlers \ {c}
    /\ UNCHANGED <<store, up, down, closed, peers, last_request_upload, pTask, reactor,
                   tasks, history, commands>>

-----------------------------------------------------------------------------
(* The upload tasks *)

Becomes(t, new) == tasks' = (tasks \ {t}) \cup new

\* The chunk is read from the file, whether it is there or not.
TaskReads(t) ==
    /\ t.at = "read"
    /\ Becomes(t, {[t EXCEPT !.at = "check"]})
    /\ UNCHANGED <<store, up, down, closed, peers, reactor, handler, history,
                   commands>>

\* A stopped or removed job makes the task throw.  The connection stays open,
\* and the peer is told nothing.
TaskChecks(t) ==
    /\ t.at = "check"
    /\ \/ /\ job = "active"
          /\ Becomes(t, {[t EXCEPT !.at = "send"]})
          /\ UNCHANGED cut
       \/ /\ job # "active"
          /\ Becomes(t, {})
          /\ cut' = cut \cup {t.req}
    /\ UNCHANGED <<store, up, down, closed, peers, reactor, handler, answered,
                   started, commands>>

Units(t, n) == [i \in 1 .. n |-> [type |-> "data", req |-> t.req, bits |-> {},
                                  chunk |-> t.chunk, unit |-> t.sent + i]]

\* sendBytes takes what there is room for, at least one unit.
\* (Faulty variant, to validate NoGap and ExchangesEnd: what it took is not
\* looked at.)
Accepted(t) == 1 .. Min({Room(t.conn), Size - t.sent})

SendsAs(t, n, sent) ==
    /\ t.at = "send"
    /\ t.conn \notin closed
    /\ down' = [down EXCEPT ![t.conn] = @ \o Units(t, n)]
    /\ Becomes(t, {[t EXCEPT !.at = IF sent = Size THEN "end" ELSE "check",
                             !.sent = sent]})
    /\ UNCHANGED <<store, up, closed, peers, reactor, handler, history, commands>>

TaskSends_whole(t) == \E n \in Accepted(t) : SendsAs(t, n, Size)

TaskSends(t) == \E n \in Accepted(t) : SendsAs(t, n, t.sent + n)

\* The program ends, and with it every connection: the peers see their
\* exchanges fail.
ProgramEnds ==
    /\ job' = "ended"
    /\ tasks' = {} /\ handlers' = {} /\ reactor' = None
    /\ closed' = Conn
    /\ peer' = [c \in Conn |-> [at |-> "gone", req |-> 0, got |-> 0]]
    /\ up' = [c \in Conn |-> <<>>] /\ down' = [c \in Conn |-> <<>>]

\* On a closed connection sendBytes throws.  When the handler is gone the task
\* holds a reference to nothing: it throws, or it ends the program.
TaskSendFails(t) ==
    /\ t.at = "send"
    /\ t.conn \in closed
    /\ cut' = cut \cup {t.req}
    /\ \/ /\ Becomes(t, {})
          /\ UNCHANGED <<job, up, down, closed, peer, reactor, handlers>>
       \/ t.conn \notin handlers /\ ProgramEnds
    /\ UNCHANGED <<written, have, known, misread, reqs, stops, last_request_upload,
                   pTask, answered, started, commands>>

\* The checksum is computed and logged; then the thread is free, some time
\* after the peer has the whole chunk.
TaskEnds(t) ==
    /\ t.at = "end"
    /\ Becomes(t, {})
    /\ UNCHANGED <<store, up, down, closed, peers, reactor, handler, history,
                   commands>>

-----------------------------------------------------------------------------
PeerStep(c) ==
    PeerShakes(c) \/ PeerReadsReply(c) \/ PeerChecks(c) \/ PeerReceives(c)

ReactorStep ==
    SendReply \/ SendReplyFails \/ StartTask
        \/ \E c \in Conn : OnReadable(c) \/ HandlerGone(c)

TaskStep(t) ==
    TaskReads(t) \/ TaskChecks(t) \/ TaskSends(t) \/ TaskSendFails(t) \/ TaskEnds(t)

Next ==
    \/ \E k \in Chunk : WriteChunk(k) \/ MarkChunk(k)
    \/ Command
    \/ \E c \in Conn : PeerStep(c) \/ PeerRequests(c) \/ PeerStops(c) \/ PeerLeaves(c)
    \/ ReactorStep
    \/ \E t \in tasks : TaskStep(t)

Spec == Init /\ [][Next]_vars

\* The reactor thread handles the connections in turn, the threads of the pool
\* run, and the peers go on with an exchange they have begun.
FairSpec ==
    /\ Spec
    /\ WF_vars(SendReply \/ SendReplyFails \/ StartTask)
    /\ \A c \in Conn :
          /\ SF_vars(OnReadable(c) \/ HandlerGone(c))
          /\ WF_vars(PeerStep(c))
          /\ WF_vars(\E t \in tasks : t.conn = c /\ TaskStep(t))

-----------------------------------------------------------------------------
(* Properties *)

TypeOK ==
    /\ job \in {"active", "stopped", "removed", "ended"}
    /\ written \subseteq Chunk /\ have \subseteq Chunk
    /\ \A c \in Conn : /\ Range(up[c]) \subseteq
                            [type : {"shake", "upload"}, req : Request \cup {0},
                             chunk : Chunk \cup {None}]
                       /\ Len(down[c]) <= Cap
    /\ closed \subseteq Conn /\ handlers \subseteq Conn /\ misread \subseteq Conn
    /\ peer \in [Conn -> [at : {"idle", "shaking", "asked", "check", "receive", "gone"},
                          req : Request \cup {0}, got : 0 .. Size]]
    /\ known \in [Conn -> SUBSET Chunk]
    /\ last_request_upload \in [Conn -> BOOLEAN]
    /\ pTask \in [Conn -> [req : Request, chunk : Chunk] \cup {None}]
    /\ \A t \in tasks : t \in [conn : Conn, req : Request, chunk : Chunk,
                               at : {"read", "check", "send", "end"}, sent : 0 .. Size]
    /\ Cardinality(tasks) <= Threads
    /\ answered \subseteq Request /\ cut \subseteq Request /\ started \in Seq(Request)

\* A request is served at most once and only if it was accepted, although a
\* refused request starts whatever pTask still holds, and pTask is kept when
\* there was no thread for it.
StartedOnce == IsInjective(started) /\ Range(started) \subseteq answered

\* A chunk is only read from the file when its bytes are there, although the
\* upload side looks at no bitmap: peers ask for what a bitmap told them, and
\* chunks are marked after they are written.
ServedOwned == \A t \in tasks : t.chunk \in written

\* What a peer still has to receive of a chunk is on its way in order, with
\* nothing between, or will be sent, unless the task was cut; the connection
\* belongs to one exchange at a time.
NoGap ==
    \A c \in Conn \ (misread \cup closed) :
        peer[c].at \in {"check", "receive"} =>
            LET p == peer[c]
                n == Len(down[c])
            IN  /\ \A i \in 1 .. n : /\ down[c][i].type = "data"
                                     /\ down[c][i].req = p.req
                                     /\ down[c][i].unit = p.got + i
                /\ \/ p.got + n = Size
                   \/ p.req \in cut
                   \/ \E t \in tasks : t.req = p.req /\ t.conn = c /\ t.sent = p.got + n
                   \/ reactor # None /\ reactor.conn = c /\ reactor.at = "start"
                         /\ pTask[c] # None /\ pTask[c].req = p.req

\* Every exchange of a peer ends, unless the peer leaves, its own task was cut
\* (by a stop or for want of a thread), or some peer left a chunk half read:
\* what it does not read keeps its task waiting for room and, at its next
\* request, the reactor and with it everybody.
ExchangesEnd ==
    \A c \in Conn :
        peer[c].at # "idle" ~> \/ peer[c].at \in {"idle", "gone"}
                              \/ peer[c].req \in cut
                              \/ misread # {}

-----------------------------------------------------------------------------
(* Statements of the code that do not hold *)

\* "add task to uploadTaskManager and release ownership", when the request has
\* been accepted and the reply sent.
AddedToManager ==
    [][reactor # None /\ reactor.at = "start" /\ reactor.out.type = "yes"
         => reactor.out.req \in Range(started')]_<<reactor, started>>

=============================================================================
