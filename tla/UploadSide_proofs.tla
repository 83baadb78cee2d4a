--------------------------- MODULE UploadSide_proofs ---------------------------
(***************************************************************************)
(* Theorems about the upload side, for any connections, chunks, threads,   *)
(* bounds and stops: only written chunks are served, a request is served   *)
(* once and only if it was accepted, and a peer receives a chunk in order  *)
(* and with nothing between.                                               *)
(***************************************************************************)
EXTENDS UploadSide, SequenceTheorems, FiniteSetTheorems, TLAPS

-----------------------------------------------------------------------------
(* Types *)

\* What a peer sends, what it is answered, and the units of a chunk.
Asked == [type : {"shake", "upload"}, req : Request \cup {0}, chunk : Chunk \cup {None}]

Reply == [type : {"shake", "yes", "no"}, req : Request \cup {0}, bits : SUBSET Chunk]

Data == [type : {"data"}, req : Request, bits : {{}}, chunk : Chunk, unit : 1 .. Size]

Pending == [req : Request, chunk : Chunk]

Handled == [conn : Conn, at : {"reply", "start"}, out : Reply]

Task == [conn : Conn, req : Request, chunk : Chunk,
         at : {"read", "check", "send", "end"}, sent : 0 .. Size]

StoreTypes ==
    /\ job \in {"active", "stopped", "removed", "ended"}
    /\ have \subseteq written /\ written \subseteq Chunk

LinkTypes ==
    /\ up \in [Conn -> Seq(Asked)]
    /\ down \in [Conn -> Seq(Reply \cup Data)]
    /\ closed \subseteq Conn
    /\ \A c \in Conn : Len(down[c]) <= Cap

PeerTypes ==
    /\ peer \in [Conn -> [at : {"idle", "shaking", "asked", "check", "receive", "gone"},
                          req : Request \cup {0}, got : 0 .. Size]]
    /\ \A c \in Conn : peer[c].at = "receive" => peer[c].got < Size
    /\ known \in [Conn -> SUBSET Chunk]
    /\ misread \subseteq Conn
    /\ reqs \in 0 .. MaxRequests

ServiceTypes ==
    /\ handlers \subseteq Conn
    /\ reactor \in Handled \cup {None}
    /\ reactor # None /\ reactor.out.type = "yes" => reactor.out.req \in Request
    /\ last_request_upload \in [Conn -> BOOLEAN]
    /\ pTask \in [Conn -> Pending \cup {None}]
    /\ tasks \subseteq Task
    /\ IsFiniteSet(tasks) /\ Cardinality(tasks) <= Threads

HistoryTypes ==
    /\ answered \subseteq Request /\ cut \subseteq Request
    /\ started \in Seq(Request)

\* Requests ask for a chunk, and only they are accepted; a file that is
\* uploaded from has handlers as long as the program runs.
RequestsAsk ==
    /\ \A c \in Conn : \A i \in 1 .. Len(up[c]) :
          up[c][i].type = "upload" =>
              up[c][i].req \in 1 .. reqs /\ up[c][i].chunk \in Chunk
    /\ job = "ended" => reactor = None /\ handlers = {}

UploadTypes ==
    /\ StoreTypes /\ LinkTypes /\ PeerTypes /\ ServiceTypes /\ HistoryTypes
    /\ RequestsAsk

-----------------------------------------------------------------------------
(* Only what is written is told, asked for and served *)

Owned ==
    /\ \A c \in Conn : known[c] \subseteq written
    /\ \A c \in Conn : \A i \in 1 .. Len(down[c]) : down[c][i].bits \subseteq written
    /\ reactor # None => reactor.out.bits \subseteq written
    /\ \A c \in Conn : \A i \in 1 .. Len(up[c]) :
          up[c][i].type = "upload" => up[c][i].chunk \in written
    /\ \A c \in Conn : pTask[c] # None => pTask[c].chunk \in written
    /\ \A t \in tasks : t.chunk \in written

-----------------------------------------------------------------------------
(* A request is in one place *)

\* Those on their way are new, and each of them once.
FreshRequests ==
    /\ \A c \in Conn : \A i \in 1 .. Len(up[c]) : up[c][i].type = "upload" =>
          /\ up[c][i].req \notin Range(started)
          /\ \A d \in Conn : pTask[d] # None => pTask[d].req # up[c][i].req
    /\ \A c, d \in Conn : \A i \in 1 .. Len(up[c]), k \in 1 .. Len(up[d]) :
          /\ up[c][i].type = "upload" /\ up[d][k].type = "upload"
          /\ up[c][i].req = up[d][k].req
          => c = d /\ i = k

\* A prepared task is for a request that was accepted, or is about to be,
\* and not started yet.
PreparedTasks ==
    \A c \in Conn : pTask[c] # None =>
        /\ pTask[c].req \in 1 .. reqs
        /\ pTask[c].req \notin Range(started)
        /\ \A d \in Conn : pTask[d] # None /\ pTask[d].req = pTask[c].req => c = d
        /\ \/ pTask[c].req \in answered
           \/ job = "ended"
           \/ /\ reactor # None /\ reactor.conn = c /\ reactor.at = "reply"
              /\ reactor.out.type = "yes" /\ reactor.out.req = pTask[c].req

StartedOld == \A i \in 1 .. Len(started) : started[i] \in 1 .. reqs

Once == FreshRequests /\ PreparedTasks /\ StartedOld /\ StartedOnce

-----------------------------------------------------------------------------
(* An exchange at a time *)

Handling(c) == reactor # None /\ reactor.conn = c

\* The tasks that still have something to send.
Active(c) == {t \in tasks : t.conn = c /\ t.at # "end"}

\* Nothing is said and nothing is to be said on a connection.
Silent(c) ==
    /\ down[c] = <<>> /\ Active(c) = {} /\ pTask[c] = None
    /\ Handling(c) => reactor.at = "start"

\* After the first skip messages of s come units of a request, the first of
\* them after the first got.
InFlight(s, skip, req, got) ==
    \A i \in 1 .. Len(s) : i > skip =>
        s[i].type = "data" /\ s[i].req = req /\ s[i].unit = got + i - skip

\* After m units of an accepted request: the task is to be started, or was
\* cut, or is at work, or has sent the whole chunk.
Flow(c, req, m) ==
    \/ /\ Handling(c) /\ reactor.at = "start"
       /\ pTask[c] # None /\ pTask[c].req = req
       /\ m = 0 /\ Active(c) = {}
    \/ ~ Handling(c) /\ req \in cut /\ m < Size /\ Active(c) = {}
    \/ /\ ~ Handling(c) /\ pTask[c] = None /\ m < Size
       /\ \E t \in tasks : Active(c) = {t} /\ t.req = req /\ t.sent = m
    \/ ~ Handling(c) /\ pTask[c] = None /\ m = Size /\ Active(c) = {}

\* The phases of an exchange.
Idle(c) == peer[c].at = "idle" /\ up[c] = <<>> /\ Silent(c)

Sent(c) ==
    /\ peer[c].at \in {"shaking", "asked"}
    /\ Len(up[c]) = 1
    /\ up[c][1].type = IF peer[c].at = "asked" THEN "upload" ELSE "shake"
    /\ up[c][1].req = peer[c].req
    /\ Silent(c)

Processed(c) ==
    /\ up[c] = <<>> /\ down[c] = <<>> /\ Active(c) = {}
    /\ Handling(c) /\ reactor.at = "reply"
    /\ \/ /\ peer[c].at = "shaking"
          /\ reactor.out.type = "shake"
          /\ ~ last_request_upload[c]
          /\ pTask[c] = None
       \/ /\ peer[c].at = "asked"
          /\ reactor.out.type = "no"
          /\ pTask[c] = None
       \/ /\ peer[c].at = "asked"
          /\ reactor.out.type = "yes"
          /\ last_request_upload[c]
          /\ pTask[c] # None /\ pTask[c].req = peer[c].req

Refused(c) ==
    /\ up[c] = <<>> /\ Active(c) = {} /\ pTask[c] = None
    /\ Handling(c) => reactor.at = "start"
    /\ Len(down[c]) = 1
    /\ \/ peer[c].at = "shaking" /\ down[c][1].type = "shake"
       \/ peer[c].at = "asked" /\ down[c][1].type = "no"

Accepting(c) ==
    /\ up[c] = <<>>
    /\ peer[c].at = "asked"
    /\ Len(down[c]) > 0 /\ down[c][1].type = "yes"
    /\ InFlight(down[c], 1, peer[c].req, 0)
    /\ Flow(c, peer[c].req, Len(down[c]) - 1)

Receiving(c) ==
    /\ up[c] = <<>>
    /\ peer[c].at \in {"check", "receive"}
    /\ InFlight(down[c], 0, peer[c].req, peer[c].got)
    /\ Flow(c, peer[c].req, peer[c].got + Len(down[c]))

Phase(c) == Idle(c) \/ Sent(c) \/ Processed(c) \/ Refused(c) \/ Accepting(c) \/ Receiving(c)

OneExchange == \A c \in Conn \ (misread \cup closed) : Phase(c)

-----------------------------------------------------------------------------
(* Sequences, tasks and constants *)

LEMMA Constants ==
    /\ Size \in Nat \ {0} /\ Cap \in Nat \ {0} /\ Threads \in Nat /\ MaxRequests \in Nat
    /\ None \notin Conn /\ None \notin Pending /\ None \notin Handled
    /\ Request = 1 .. MaxRequests /\ 0 \notin Request
<1>1. Request = 1 .. MaxRequests /\ MaxRequests \in Nat /\ 0 \notin Request
  BY UploadAssumption DEF Request
<1>2. None \notin Pending
  <2>1. Pending \subseteq [req : Nat, chunk : Chunk]
    BY <1>1 DEF Pending
  <2> QED BY <2>1, UploadAssumption
<1>3. None \notin Handled
  <2>1. Request \cup {0} \subseteq Nat
    BY <1>1
  <2>2. Reply \subseteq [type : {"shake", "yes", "no"}, req : Nat, bits : SUBSET Chunk]
    BY <2>1 DEF Reply
  <2>3. Handled \subseteq [conn : Conn, at : {"reply", "start"},
                    out : [type : {"shake", "yes", "no"}, req : Nat, bits : SUBSET Chunk]]
    BY <2>2 DEF Handled
  <2> QED BY <2>3, UploadAssumption
<1> QED BY <1>1, <1>2, <1>3, UploadAssumption

LEMMA AppendFacts ==
    ASSUME NEW S, NEW s \in Seq(S), NEW x \in S
    PROVE  /\ Append(s, x) \in Seq(S)
           /\ Len(s) \in Nat /\ Len(Append(s, x)) = Len(s) + 1
           /\ \A i \in 1 .. Len(s) + 1 :
                 Append(s, x)[i] = IF i = Len(s) + 1 THEN x ELSE s[i]
<1>1. /\ Append(s, x) \in Seq(S) /\ Len(Append(s, x)) = Len(s) + 1
      /\ \A i \in 1 .. Len(s) : Append(s, x)[i] = s[i]
      /\ Append(s, x)[Len(s) + 1] = x
  BY AppendProperties
<1>2. Len(s) \in Nat
  BY LenProperties
<1>3. \A i \in 1 .. Len(s) + 1 : i = Len(s) + 1 \/ i \in 1 .. Len(s)
  BY <1>2
<1> QED BY <1>1, <1>2, <1>3

LEMMA Joined ==
    ASSUME NEW S, NEW s \in Seq(S), NEW r \in Seq(S)
    PROVE  s \o r \in Seq(S) /\ Len(s \o r) = Len(s) + Len(r)
BY ConcatProperties

LEMMA TailFacts ==
    ASSUME NEW S, NEW s \in Seq(S), s # <<>>
    PROVE  /\ Tail(s) \in Seq(S)
           /\ Len(s) \in Nat \ {0} /\ Len(Tail(s)) = Len(s) - 1
           /\ \A i \in 1 .. Len(s) - 1 : Tail(s)[i] = s[i + 1] /\ i + 1 \in 1 .. Len(s)
           /\ Head(s) = s[1] /\ Head(s) \in S /\ 1 \in 1 .. Len(s)
<1>1. Len(s) \in Nat \ {0}
  BY EmptySeq
<1>2. \A i \in 1 .. Len(s) - 1 : i + 1 \in 1 .. Len(s)
  BY <1>1
<1> QED BY <1>1, <1>2, HeadTailProperties

\* The tasks after one was replaced, or has gone.
LEMMA TasksChange ==
    ASSUME UploadTypes, NEW t \in tasks, NEW new, Becomes(t, new),
           new = {} \/ \E x \in Task : new = {x}
    PROVE  tasks' \subseteq Task /\ IsFiniteSet(tasks') /\ Cardinality(tasks') <= Threads
<1>1. tasks \subseteq Task /\ IsFiniteSet(tasks) /\ Cardinality(tasks) <= Threads
  BY DEF UploadTypes, ServiceTypes
<1>2. tasks' = (tasks \ {t}) \cup new
  BY DEF Becomes
<1> HIDE DEF Task
<1>3. tasks' \subseteq Task
  BY <1>1, <1>2
<1>4. /\ IsFiniteSet(tasks \ {t}) /\ Cardinality(tasks \ {t}) = Cardinality(tasks) - 1
      /\ Cardinality(tasks) \in Nat /\ Cardinality(tasks \ {t}) \in Nat
  BY <1>1, FS_RemoveElement, FS_CardinalityType
<1>5. CASE new = {}
  <2>1. tasks' = tasks \ {t}
    BY <1>2, <1>5
  <2> QED BY <1>1, <1>3, <1>4, <2>1, Constants
<1>6. ASSUME NEW x \in Task, new = {x}
      PROVE  IsFiniteSet(tasks') /\ Cardinality(tasks') <= Threads
  <2>1. IsFiniteSet(tasks') /\ Cardinality(tasks') <= Cardinality(tasks \ {t}) + 1
    <3>1. tasks' = (tasks \ {t}) \cup {x}
      BY <1>2, <1>6
    <3> DEFINE S == tasks \ {t}
    <3>2. IsFiniteSet(S)
      BY <1>4
    <3>3. /\ IsFiniteSet(S \cup {x})
          /\ Cardinality(S \cup {x}) = IF x \in S THEN Cardinality(S) ELSE Cardinality(S) + 1
      BY <3>2, FS_AddElement
    <3>4. Cardinality(S) \in Nat
      BY <1>4
    <3>5. Cardinality(S \cup {x}) <= Cardinality(S) + 1
      BY <3>3, <3>4
    <3> QED BY <3>1, <3>3, <3>5
  <2>2. Cardinality(tasks') \in Nat
    BY <2>1, FS_CardinalityType
  <2> QED BY <1>1, <1>4, <2>1, <2>2, Constants
<1> QED BY <1>3, <1>5, <1>6

-----------------------------------------------------------------------------
(* Every step preserves the types *)

LEMMA InitTypes == Init => UploadTypes
<1> SUFFICES ASSUME Init
             PROVE  UploadTypes
  OBVIOUS
<1>1. /\ <<>> \in Seq(Asked) /\ <<>> \in Seq(Reply \cup Data) /\ <<>> \in Seq(Request)
      /\ Len(<<>>) = 0 /\ 1 .. Len(<<>>) = {}
  BY EmptySeq
<1>2. StoreTypes
  BY DEF Init, StoreTypes
<1>3. LinkTypes
  BY <1>1, Constants DEF Init, LinkTypes
<1>4. PeerTypes
  BY Constants DEF Init, PeerTypes
<1>5. ServiceTypes
  BY Constants, FS_EmptySet DEF Init, ServiceTypes
<1>6. HistoryTypes
  BY <1>1 DEF Init, HistoryTypes
<1>7. RequestsAsk
  BY <1>1 DEF Init, RequestsAsk
<1> QED BY <1>2, <1>3, <1>4, <1>5, <1>6, <1>7 DEF UploadTypes

\* What the steps leave alone keeps its type.
LEMMA TypesStay ==
    ASSUME UploadTypes
    PROVE  /\ UNCHANGED store => StoreTypes'
           /\ UNCHANGED <<up, down, closed>> => LinkTypes'
           /\ UNCHANGED <<peer, known, misread, reqs>> => PeerTypes'
           /\ UNCHANGED <<handlers, reactor, last_request_upload, pTask, tasks>>
                 => ServiceTypes'
           /\ UNCHANGED history => HistoryTypes'
           /\ UNCHANGED <<up, reqs>>
                 /\ (job' # "ended" \/ UNCHANGED <<job, reactor, handlers>>) => RequestsAsk'
BY DEF UploadTypes, store, StoreTypes, LinkTypes, PeerTypes, ServiceTypes, history, HistoryTypes,
       RequestsAsk

LEMMA JobTypes ==
    ASSUME UploadTypes, NEW k \in Chunk, WriteChunk(k) \/ MarkChunk(k)
    PROVE  UploadTypes'
<1>1. StoreTypes'
  BY DEF UploadTypes, StoreTypes, WriteChunk, MarkChunk, MarkFrom
<1>2. UNCHANGED <<up, down, closed, peer, known, misread, reqs, reactor, handlers,
                  last_request_upload, pTask, tasks, history>>
  BY DEF WriteChunk, MarkChunk, MarkFrom, peers, service, handler
<1>3. job' # "ended"
  BY DEF WriteChunk, MarkChunk, MarkFrom
<1> QED BY <1>1, <1>2, <1>3, TypesStay DEF UploadTypes

\* A connection takes one message of a peer, or gives one up.
LEMMA PeerLink ==
    ASSUME UploadTypes, NEW c \in Conn, UNCHANGED <<down, closed>>,
           \/ \E x \in Asked : Send(c, x)
           \/ up[c] # <<>> /\ up' = [up EXCEPT ![c] = Tail(@)]
    PROVE  LinkTypes'
<1>1. up \in [Conn -> Seq(Asked)]
  BY DEF UploadTypes, LinkTypes
<1>2. up' \in [Conn -> Seq(Asked)]
  <2>1. ASSUME NEW x \in Asked, Send(c, x)
        PROVE  up' \in [Conn -> Seq(Asked)]
    <3>1. Append(up[c], x) \in Seq(Asked)
      BY <1>1, AppendFacts
    <3> QED BY <1>1, <2>1, <3>1 DEF Send
  <2>2. CASE up[c] # <<>> /\ up' = [up EXCEPT ![c] = Tail(@)]
    <3>1. Tail(up[c]) \in Seq(Asked)
      BY <1>1, <2>2, TailFacts
    <3> QED BY <1>1, <2>2, <3>1
  <2> QED BY <2>1, <2>2
<1> QED BY <1>2 DEF UploadTypes, LinkTypes

LEMMA ReceiveLink ==
    ASSUME UploadTypes, NEW c \in Conn, UNCHANGED <<up, closed>>, Receive(c)
    PROVE  LinkTypes'
<1>1. down \in [Conn -> Seq(Reply \cup Data)] /\ \A d \in Conn : Len(down[d]) <= Cap
  BY DEF UploadTypes, LinkTypes
<1>2. down[c] # <<>> /\ down' = [down EXCEPT ![c] = Tail(down[c])]
  BY <1>1 DEF Receive
<1>3. Tail(down[c]) \in Seq(Reply \cup Data) /\ Len(Tail(down[c])) = Len(down[c]) - 1
         /\ Len(down[c]) \in Nat
  BY <1>1, <1>2, TailFacts
<1>4. down' \in [Conn -> Seq(Reply \cup Data)]
  BY <1>1, <1>2, <1>3
<1>5. \A d \in Conn : Len(down'[d]) <= Cap
  <2> SUFFICES ASSUME NEW d \in Conn PROVE Len(down'[d]) <= Cap
    OBVIOUS
  <2>1. CASE d = c
    BY <1>1, <1>2, <1>3, <2>1, Constants
  <2>2. CASE d # c
    BY <1>1, <1>2, <2>2
  <2> QED BY <2>1, <2>2
<1> QED BY <1>4, <1>5 DEF UploadTypes, LinkTypes

LEMMA PeerStepTypes ==
    ASSUME UploadTypes, NEW c \in Conn, PeerStep(c) \/ PeerRequests(c) \/ PeerStops(c)
    PROVE  UploadTypes'
<1>1. /\ peer \in [Conn -> [at : {"idle", "shaking", "asked", "check", "receive", "gone"},
                            req : Request \cup {0}, got : 0 .. Size]]
      /\ \A d \in Conn : peer[d].at = "receive" => peer[d].got < Size
      /\ known \in [Conn -> SUBSET Chunk] /\ misread \subseteq Conn /\ reqs \in 0 .. MaxRequests
  BY DEF UploadTypes, PeerTypes
<1>2. UNCHANGED store /\ UNCHANGED history
      /\ UNCHANGED <<handlers, reactor, last_request_upload, pTask, tasks>>
  BY DEF PeerStep, PeerShakes, PeerRequests, PeerReadsReply, PeerChecks, PeerReceives,
         PeerStops, service, handler
<1>3. StoreTypes' /\ HistoryTypes' /\ ServiceTypes'
  BY <1>2, TypesStay
<1>4. \A at \in {"idle", "shaking", "asked", "check", "receive", "gone"},
         req \in Request \cup {0}, got \in 0 .. Size :
        PeerIs(c, at, req, got) /\ (at = "receive" => got < Size)
        => /\ peer' \in [Conn -> [at : {"idle", "shaking", "asked", "check", "receive", "gone"},
                                  req : Request \cup {0}, got : 0 .. Size]]
           /\ \A d \in Conn : peer'[d].at = "receive" => peer'[d].got < Size
  BY <1>1 DEF PeerIs
<1>5. 0 \in 0 .. Size /\ peer[c].req \in Request \cup {0} /\ peer[c].got \in 0 .. Size
  BY <1>1, Constants
<1>6. CASE PeerShakes(c)
  <2>1. [type |-> "shake", req |-> 0, chunk |-> None] \in Asked
    BY DEF Asked
  <2>2. LinkTypes'
    BY <1>6, <2>1, PeerLink DEF PeerShakes
  <2>3. PeerTypes'
    BY <1>1, <1>4, <1>5, <1>6 DEF PeerTypes, PeerShakes
  <2>4. RequestsAsk'
    <3>1. up' = [up EXCEPT ![c] = Append(up[c], [type |-> "shake", req |-> 0, chunk |-> None])]
          /\ reqs' = reqs /\ up \in [Conn -> Seq(Asked)]
      BY <1>6 DEF PeerShakes, Send, UploadTypes, LinkTypes
    <3>2. \A d \in Conn : \A i \in 1 .. Len(up'[d]) : up'[d][i].type = "upload" =>
              up'[d][i].req \in 1 .. reqs' /\ up'[d][i].chunk \in Chunk
      <4> SUFFICES ASSUME NEW d \in Conn, NEW i \in 1 .. Len(up'[d]), up'[d][i].type = "upload"
                   PROVE  up'[d][i].req \in 1 .. reqs' /\ up'[d][i].chunk \in Chunk
        OBVIOUS
      <4>1. i \in 1 .. Len(up[d]) /\ up'[d][i] = up[d][i]
        <5>1. CASE d # c
          BY <3>1, <5>1
        <5>2. CASE d = c
          BY <3>1, <5>2, <2>1, AppendFacts
        <5> QED BY <5>1, <5>2
      <4> QED BY <3>1, <4>1 DEF UploadTypes, RequestsAsk
    <3> QED BY <1>2, <1>6, <3>2 DEF UploadTypes, RequestsAsk, PeerShakes, store
  <2> QED BY <1>3, <2>2, <2>3, <2>4 DEF UploadTypes
<1>7. CASE PeerRequests(c)
  <2>1. PICK k \in known[c] : Send(c, [type |-> "upload", req |-> reqs', chunk |-> k])
    BY <1>7 DEF PeerRequests
  <2>2. k \in Chunk /\ reqs' = reqs + 1 /\ reqs' \in Request /\ reqs' \in 1 .. reqs'
        /\ reqs' \in 0 .. MaxRequests
    BY <1>1, <1>7, Constants DEF PeerRequests
  <2> DEFINE x == [type |-> "upload", req |-> reqs', chunk |-> k]
  <2>3. x \in Asked
    BY <2>2 DEF Asked
  <2>4. LinkTypes'
    BY <1>7, <2>1, <2>3, PeerLink DEF PeerRequests
  <2>5. PeerTypes'
    BY <1>1, <1>4, <1>5, <1>7, <2>2 DEF PeerTypes, PeerRequests
  <2>6. RequestsAsk'
    <3>1. up' = [up EXCEPT ![c] = Append(up[c], x)] /\ up \in [Conn -> Seq(Asked)]
      BY <2>1 DEF Send, UploadTypes, LinkTypes
    <3>0. x.req = reqs' /\ x.chunk = k
      OBVIOUS
    <3> HIDE DEF x
    <3>2. \A d \in Conn : \A i \in 1 .. Len(up'[d]) : up'[d][i].type = "upload" =>
              up'[d][i].req \in 1 .. reqs' /\ up'[d][i].chunk \in Chunk
      <4> SUFFICES ASSUME NEW d \in Conn, NEW i \in 1 .. Len(up'[d]), up'[d][i].type = "upload"
                   PROVE  up'[d][i].req \in 1 .. reqs' /\ up'[d][i].chunk \in Chunk
        OBVIOUS
      <4>1. \/ up'[d][i] = x
            \/ i \in 1 .. Len(up[d]) /\ up'[d][i] = up[d][i]
        <5>1. CASE d # c
          BY <3>1, <5>1
        <5>2. CASE d = c
          <6>1. up'[c] = Append(up[c], x) /\ up[c] \in Seq(Asked)
            BY <3>1
          <6>2. /\ Len(up[c]) \in Nat /\ Len(up'[c]) = Len(up[c]) + 1
                /\ \A n \in 1 .. Len(up[c]) + 1 :
                      up'[c][n] = IF n = Len(up[c]) + 1 THEN x ELSE up[c][n]
            BY <6>1, <2>3, AppendFacts
          <6> QED BY <5>2, <6>2
        <5> QED BY <5>1, <5>2
      <4>2. 1 .. reqs \subseteq 1 .. reqs'
        BY <1>1, <2>2
      <4>3. CASE up'[d][i] = x
        BY <2>2, <3>0, <4>3
      <4>4. CASE i \in 1 .. Len(up[d]) /\ up'[d][i] = up[d][i]
        BY <4>2, <4>4 DEF UploadTypes, RequestsAsk
      <4> QED BY <4>1, <4>3, <4>4
    <3> QED BY <1>2, <1>7, <3>2 DEF UploadTypes, RequestsAsk, PeerRequests, store
  <2> QED BY <1>3, <2>4, <2>5, <2>6 DEF UploadTypes
<1>8. CASE PeerReadsReply(c)
  <2>1. LinkTypes' /\ RequestsAsk'
    BY <1>2, <1>8, ReceiveLink, TypesStay DEF PeerReadsReply, store
  <2>2. PeerTypes'
    <3>1. down[c] # <<>> /\ down[c] \in Seq(Reply \cup Data) /\ Head(down[c]) \in Reply \cup Data
      BY <1>8, TailFacts DEF PeerReadsReply, Receive, UploadTypes, LinkTypes
    <3>2. Head(down[c]).bits \subseteq Chunk
      BY <3>1 DEF Reply, Data
    <3>3. known' \in [Conn -> SUBSET Chunk]
      BY <1>1, <1>8, <3>2 DEF PeerReadsReply
    <3>4. \E at \in {"idle", "check"} , req \in {0, peer[c].req} : PeerIs(c, at, req, 0)
      BY <1>8 DEF PeerReadsReply
    <3>5. peer' \in [Conn -> [at : {"idle", "shaking", "asked", "check", "receive", "gone"},
                              req : Request \cup {0}, got : 0 .. Size]]
          /\ \A d \in Conn : peer'[d].at = "receive" => peer'[d].got < Size
      BY <1>4, <1>5, <3>4
    <3> QED BY <1>1, <1>8, <3>3, <3>5 DEF PeerReadsReply, PeerTypes
  <2> QED BY <1>3, <2>1, <2>2 DEF UploadTypes
<1>9. CASE PeerChecks(c)
  <2>1. LinkTypes' /\ RequestsAsk'
    BY <1>2, <1>9, TypesStay DEF PeerChecks, store
  <2>2. CASE peer[c].got = Size
    BY <1>1, <1>3, <1>4, <1>5, <1>9, <2>1, <2>2 DEF PeerChecks, PeerTypes, UploadTypes
  <2>3. CASE peer[c].got # Size
    <3>1. peer[c].got < Size
      BY <1>5, <2>3, Constants
    <3> QED BY <1>1, <1>3, <1>4, <1>5, <1>9, <2>1, <2>3, <3>1 DEF PeerChecks, PeerTypes, UploadTypes
  <2> QED BY <2>2, <2>3
<1>10. CASE PeerReceives(c)
  <2>1. LinkTypes' /\ RequestsAsk'
    BY <1>2, <1>10, ReceiveLink, TypesStay DEF PeerReceives, store
  <2>2. peer[c].got + 1 \in 0 .. Size
    BY <1>1, <1>5, <1>10, Constants DEF PeerReceives
  <2>3. PeerTypes'
    BY <1>1, <1>4, <1>5, <1>10, <2>2 DEF PeerReceives, PeerTypes
  <2> QED BY <1>3, <2>1, <2>3 DEF UploadTypes
<1>11. CASE PeerStops(c)
  <2>1. LinkTypes' /\ RequestsAsk'
    BY <1>2, <1>11, TypesStay DEF PeerStops, store
  <2>2. PeerTypes'
    BY <1>1, <1>4, <1>5, <1>11 DEF PeerStops, PeerTypes
  <2> QED BY <1>3, <2>1, <2>2 DEF UploadTypes
<1> QED BY <1>6, <1>7, <1>8, <1>9, <1>10, <1>11 DEF PeerStep

LEMMA PeerLeavesTypes ==
    ASSUME UploadTypes, NEW c \in Conn, PeerLeaves(c)
    PROVE  UploadTypes'
<1>1. UNCHANGED store /\ UNCHANGED history
      /\ UNCHANGED <<handlers, reactor, last_request_upload, pTask, tasks>>
  BY DEF PeerLeaves, service, handler
<1>2. StoreTypes' /\ HistoryTypes' /\ ServiceTypes'
  BY <1>1, TypesStay
<1>3. /\ <<>> \in Seq(Asked) /\ <<>> \in Seq(Reply \cup Data) /\ Len(<<>>) = 0
      /\ 1 .. Len(<<>>) = {}
  BY EmptySeq
<1>4. /\ up' = [up EXCEPT ![c] = <<>>] /\ down' = [down EXCEPT ![c] = <<>>]
      /\ closed' = closed \cup {c} /\ UNCHANGED <<known, misread, reqs>>
      /\ peer' = [peer EXCEPT ![c] = [at |-> "gone", req |-> 0, got |-> 0]]
  BY DEF PeerLeaves, PeerIs
<1>5. LinkTypes'
  BY <1>3, <1>4, Constants DEF UploadTypes, LinkTypes
<1>6. PeerTypes'
  <2>1. peer' \in [Conn -> [at : {"idle", "shaking", "asked", "check", "receive", "gone"},
                            req : Request \cup {0}, got : 0 .. Size]]
    BY <1>4, Constants DEF UploadTypes, PeerTypes
  <2>2. \A d \in Conn : peer'[d].at = "receive" => peer'[d].got < Size
    BY <1>4 DEF UploadTypes, PeerTypes
  <2> QED BY <1>4, <2>1, <2>2 DEF UploadTypes, PeerTypes
<1>7. RequestsAsk'
  <2>1. \A d \in Conn : up'[d] = up[d] \/ up'[d] = <<>>
    BY <1>4 DEF UploadTypes, LinkTypes
  <2> QED BY <1>1, <1>3, <1>4, <2>1 DEF UploadTypes, RequestsAsk, store
<1> QED BY <1>2, <1>5, <1>6, <1>7 DEF UploadTypes

LEMMA ReactorTypes ==
    ASSUME UploadTypes, NEW c \in Conn,
           OnReadable(c) \/ HandlerGone(c) \/ SendReply \/ SendReplyFails \/ StartTask
    PROVE  UploadTypes'
<1>1. /\ handlers \subseteq Conn /\ reactor \in Handled \cup {None}
      /\ last_request_upload \in [Conn -> BOOLEAN]
      /\ pTask \in [Conn -> Pending \cup {None}]
      /\ tasks \subseteq Task /\ IsFiniteSet(tasks) /\ Cardinality(tasks) <= Threads
      /\ answered \subseteq Request /\ cut \subseteq Request /\ started \in Seq(Request)
      /\ up \in [Conn -> Seq(Asked)] /\ down \in [Conn -> Seq(Reply \cup Data)]
      /\ have \subseteq Chunk
  BY DEF UploadTypes, ServiceTypes, HistoryTypes, LinkTypes, StoreTypes
<1>2. UNCHANGED store /\ UNCHANGED <<peer, known, misread, reqs>> /\ closed' = closed
  BY DEF OnReadable, HandlerGone, SendReply, SendReplyFails, StartTask, StartThen, peers
<1>3. StoreTypes' /\ PeerTypes'
  BY <1>2, TypesStay
<1>4. reactor # None => /\ reactor \in Handled /\ reactor.conn \in Conn
                        /\ reactor.out \in Reply /\ reactor.at \in {"reply", "start"}
  BY <1>1 DEF Handled
<1>5. CASE OnReadable(c)
  <2> DEFINE msg == Head(up[c])
             out == IF msg.type = "upload" THEN UploadReply(msg) ELSE ShakeReply
             r == [conn |-> c, at |-> "reply", out |-> out]
  <2>1. up[c] \in Seq(Asked) /\ up[c] # <<>>
    BY <1>1, <1>5 DEF OnReadable
  <2>2. msg \in Asked /\ msg = up[c][1] /\ 1 \in 1 .. Len(up[c])
    BY <2>1, TailFacts
  <2>3. LinkTypes'
    BY <1>2, <1>5, PeerLink DEF OnReadable
  <2>4. msg.type = "upload" => msg.req \in Request /\ msg.chunk \in Chunk
    BY <2>2, Constants DEF UploadTypes, RequestsAsk, PeerTypes
  <2>5. out \in Reply
    <3> HIDE DEF msg
    <3>1. CASE msg.type = "upload"
      BY <2>4, <3>1 DEF UploadReply, Reply
    <3>2. CASE msg.type # "upload"
      BY <1>1, <3>2 DEF ShakeReply, Reply
    <3> QED BY <3>1, <3>2
  <2>6. out.type = "yes" => msg.type = "upload"
    BY DEF ShakeReply
  <2>7. reactor' = r /\ UNCHANGED <<handlers, tasks, answered, cut, started>>
        /\ last_request_upload' = [last_request_upload EXCEPT ![c] = msg.type = "upload"]
        /\ pTask' = [pTask EXCEPT ![c] = IF out.type = "yes"
                        THEN [req |-> msg.req, chunk |-> msg.chunk] ELSE pTask[c]]
    BY <1>1, <1>5 DEF OnReadable, history
  <2> HIDE DEF out, msg
  <2>8. r \in Handled /\ r.out = out
    BY <2>5 DEF Handled
  <2>13. out.type = "yes" => out.req \in Request
    BY <2>4, <2>6 DEF out, UploadReply
  <2> HIDE DEF r
  <2>9. pTask' \in [Conn -> Pending \cup {None}]
    <3>1. out.type = "yes" => [req |-> msg.req, chunk |-> msg.chunk] \in Pending
      BY <2>4, <2>6 DEF Pending
    <3> QED BY <1>1, <2>7, <3>1
  <2>10. last_request_upload' \in [Conn -> BOOLEAN]
    BY <1>1, <2>7
  <2>11. ServiceTypes' /\ HistoryTypes'
    BY <1>1, <2>7, <2>8, <2>9, <2>10, <2>13 DEF ServiceTypes, HistoryTypes
  <2>12. RequestsAsk'
    <3>1. up' = [up EXCEPT ![c] = Tail(up[c])]
      BY <1>1, <1>5 DEF OnReadable
    <3>2. job # "ended"
      BY <1>5 DEF OnReadable, UploadTypes, RequestsAsk
    <3>3. \A d \in Conn : \A i \in 1 .. Len(up'[d]) : up'[d][i].type = "upload" =>
              up'[d][i].req \in 1 .. reqs' /\ up'[d][i].chunk \in Chunk
      <4> SUFFICES ASSUME NEW d \in Conn, NEW i \in 1 .. Len(up'[d]), up'[d][i].type = "upload"
                   PROVE  up'[d][i].req \in 1 .. reqs' /\ up'[d][i].chunk \in Chunk
        OBVIOUS
      <4>1. \E k \in 1 .. Len(up[d]) : up'[d][i] = up[d][k]
        <5>1. CASE d # c
          BY <1>1, <3>1, <5>1
        <5>2. CASE d = c
          <6>1. up'[c] = Tail(up[c])
            BY <1>1, <3>1
          <6>2. i \in 1 .. Len(up[c]) - 1 /\ up'[c][i] = up[c][i + 1] /\ i + 1 \in 1 .. Len(up[c])
            BY <2>1, <5>2, <6>1, TailFacts
          <6> QED BY <5>2, <6>2
        <5> QED BY <5>1, <5>2
      <4> QED BY <1>2, <4>1 DEF UploadTypes, RequestsAsk
    <3> QED BY <1>2, <3>2, <3>3 DEF RequestsAsk, store
  <2> QED BY <1>3, <2>3, <2>11, <2>12 DEF UploadTypes
<1>6. CASE HandlerGone(c)
  <2>1. LinkTypes' /\ HistoryTypes'
    BY <1>2, <1>6, TypesStay DEF HandlerGone
  <2>2. ServiceTypes'
    BY <1>1, <1>6 DEF HandlerGone, ServiceTypes
  <2>3. RequestsAsk'
    BY <1>2, <1>6 DEF HandlerGone, UploadTypes, RequestsAsk, store
  <2> QED BY <1>3, <2>1, <2>2, <2>3 DEF UploadTypes
<1>7. CASE SendReply
  <2> DEFINE d == reactor.conn
  <2>1. reactor # None /\ reactor.at = "reply" /\ Room(d) > 0
        /\ down' = [down EXCEPT ![d] = Append(down[d], reactor.out)]
        /\ reactor' = (IF last_request_upload[d] THEN [reactor EXCEPT !.at = "start"] ELSE None)
        /\ answered' = (IF reactor.out.type = "yes" THEN answered \cup {reactor.out.req}
                                                    ELSE answered)
        /\ UNCHANGED <<up, handlers, last_request_upload, pTask, tasks, cut, started>>
    BY <1>1, <1>4, <1>7 DEF SendReply, handler
  <2>2. d \in Conn /\ reactor.out \in Reply /\ reactor \in Handled
    BY <1>4, <2>1
  <2>3. LinkTypes'
    <3>1. Append(down[d], reactor.out) \in Seq(Reply \cup Data)
          /\ Len(Append(down[d], reactor.out)) = Len(down[d]) + 1 /\ Len(down[d]) \in Nat
      BY <1>1, <2>2, AppendFacts
    <3>2. Len(down[d]) + 1 <= Cap
      BY <2>1, <3>1, Constants DEF Room
    <3> HIDE DEF d
    <3>3. down' \in [Conn -> Seq(Reply \cup Data)]
      BY <1>1, <2>1, <2>2, <3>1
    <3>4. \A e \in Conn : Len(down'[e]) <= Cap
      <4> SUFFICES ASSUME NEW e \in Conn PROVE Len(down'[e]) <= Cap
        OBVIOUS
      <4>1. CASE e = d
        BY <1>1, <2>1, <3>1, <3>2, <4>1
      <4>2. CASE e # d
        BY <1>1, <2>1, <4>2 DEF UploadTypes, LinkTypes
      <4> QED BY <4>1, <4>2
    <3> QED BY <1>1, <1>2, <2>1, <3>3, <3>4 DEF UploadTypes, LinkTypes
  <2>4. /\ reactor' \in Handled \cup {None}
        /\ reactor' # None /\ reactor'.out.type = "yes" => reactor'.out.req \in Request
    <3> DEFINE r == [reactor EXCEPT !.at = "start"]
    <3>1. r \in Handled /\ r.out = reactor.out
      BY <2>2 DEF Handled
    <3>2. reactor.out.type = "yes" => reactor.out.req \in Request
      BY <2>1 DEF UploadTypes, ServiceTypes
    <3> QED BY <2>1, <3>1, <3>2
  <2>5. answered' \subseteq Request
    <3>1. reactor.out.type = "yes" => reactor.out.req \in Request
      BY <2>1 DEF UploadTypes, ServiceTypes
    <3> QED BY <1>1, <2>1, <3>1
  <2>6. ServiceTypes' /\ HistoryTypes'
    BY <1>1, <2>1, <2>4, <2>5 DEF ServiceTypes, HistoryTypes
  <2>7. RequestsAsk'
    BY <1>2, <2>1 DEF UploadTypes, RequestsAsk, store
  <2> QED BY <1>3, <2>3, <2>6, <2>7 DEF UploadTypes
<1>8. CASE SendReplyFails
  <2>1. LinkTypes' /\ HistoryTypes'
    BY <1>2, <1>8, TypesStay DEF SendReplyFails
  <2>2. ServiceTypes'
    BY <1>1, <1>8 DEF SendReplyFails, ServiceTypes
  <2>3. RequestsAsk'
    BY <1>2, <1>8 DEF SendReplyFails, UploadTypes, RequestsAsk, store
  <2> QED BY <1>3, <2>1, <2>2, <2>3 DEF UploadTypes
<1>9. CASE StartTask
  <2> DEFINE d == reactor.conn
             t == pTask[d]
             new == [conn |-> d, req |-> t.req, chunk |-> t.chunk, at |-> "read", sent |-> 0]
  <2>1. /\ reactor # None /\ reactor' = None /\ UNCHANGED <<up, down, handlers,
              last_request_upload, answered>>
        /\ \/ UNCHANGED <<pTask, tasks, started, cut>>
           \/ /\ t # None /\ Cardinality(tasks) < Threads
              /\ tasks' = tasks \cup {new}
              /\ started' = Append(started, t.req)
              /\ pTask' = [pTask EXCEPT ![d] = Reset[d]]
              /\ UNCHANGED cut
           \/ t # None /\ cut' = cut \cup {t.req} /\ UNCHANGED <<pTask, tasks, started>>
    BY <1>9 DEF StartTask, StartThen
  <2>2. d \in Conn
    BY <1>4, <2>1
  <2>3. t # None => t \in Pending /\ t.req \in Request /\ t.chunk \in Chunk
    BY <1>1, <2>2 DEF Pending
  <2>4. Reset[d] = None
    BY <2>2 DEF Reset
  <2>5. t # None => new \in Task
    BY <2>2, <2>3, Constants DEF Task
  <2> HIDE DEF new, t
  <2>6. LinkTypes' /\ RequestsAsk'
    BY <1>2, <2>1 DEF UploadTypes, LinkTypes, RequestsAsk, store
  <2>7. tasks' \subseteq Task /\ IsFiniteSet(tasks') /\ Cardinality(tasks') <= Threads
    <3>1. CASE tasks' = tasks
      BY <1>1, <3>1
    <3>2. CASE t # None /\ Cardinality(tasks) < Threads /\ tasks' = tasks \cup {new}
      <4>1. IsFiniteSet(tasks')
            /\ Cardinality(tasks') = IF new \in tasks THEN Cardinality(tasks)
                                                     ELSE Cardinality(tasks) + 1
        BY <1>1, <3>2, FS_AddElement
      <4>2. Cardinality(tasks) \in Nat
        BY <1>1, FS_CardinalityType
      <4> QED BY <1>1, <2>5, <3>2, <4>1, <4>2, Constants
    <3> QED BY <2>1, <3>1, <3>2
  <2>8. pTask' \in [Conn -> Pending \cup {None}]
    BY <1>1, <2>1, <2>2, <2>4
  <2>9. ServiceTypes'
    BY <1>1, <2>1, <2>7, <2>8 DEF ServiceTypes
  <2>10. HistoryTypes'
    <3>1. t # None => Append(started, t.req) \in Seq(Request)
      BY <1>1, <2>3, AppendFacts
    <3> QED BY <1>1, <2>1, <2>3, <3>1 DEF HistoryTypes
  <2> QED BY <1>3, <2>6, <2>9, <2>10 DEF UploadTypes
<1> QED BY <1>5, <1>6, <1>7, <1>8, <1>9

\* What a task sends: units of its chunk, as many as there is room for.
LEMMA SendFacts ==
    ASSUME UploadTypes, NEW t \in tasks, t.conn \notin closed, NEW n \in Accepted(t)
    PROVE  /\ n \in Nat \ {0} /\ t.sent + n \in 0 .. Size
           /\ Len(down[t.conn]) + n <= Cap
           /\ Units(t, n) \in Seq(Data) /\ Len(Units(t, n)) = n
           /\ \A i \in 1 .. n : /\ Units(t, n)[i].type = "data"
                                /\ Units(t, n)[i].req = t.req
                                /\ Units(t, n)[i].unit = t.sent + i
                                /\ Units(t, n)[i].bits = {}
<1>1. t \in Task /\ t.conn \in Conn /\ t.sent \in 0 .. Size /\ t.req \in Request /\ t.chunk \in Chunk
  BY DEF UploadTypes, ServiceTypes, Task
<1>2. Len(down[t.conn]) \in Nat /\ Len(down[t.conn]) <= Cap
  BY <1>1, LenProperties DEF UploadTypes, LinkTypes
<1>3. \A a, b \in Int : Min({a, b}) \in Int /\ Min({a, b}) <= a /\ Min({a, b}) <= b
  <2> SUFFICES ASSUME NEW a \in Int, NEW b \in Int
               PROVE  Min({a, b}) \in Int /\ Min({a, b}) <= a /\ Min({a, b}) <= b
    OBVIOUS
  <2>1. \E x \in {a, b} : \A y \in {a, b} : x =< y
    <3>1. CASE a <= b
      BY <3>1
    <3>2. CASE b <= a
      BY <3>2
    <3> QED BY <3>1, <3>2
  <2>2. Min({a, b}) \in {a, b} /\ \A y \in {a, b} : Min({a, b}) =< y
    BY <2>1 DEF Min
  <2> QED BY <2>2
<1>4. Room(t.conn) \in Int /\ Room(t.conn) = Cap - Len(down[t.conn]) /\ Size - t.sent \in Int
  BY <1>1, <1>2, Constants DEF Room
<1>5. n \in 1 .. Min({Room(t.conn), Size - t.sent})
  BY DEF Accepted
<1>6. n \in Nat \ {0} /\ n <= Room(t.conn) /\ n <= Size - t.sent
  <2> DEFINE a == Room(t.conn)
             b == Size - t.sent
  <2>1. a \in Int /\ b \in Int
    BY <1>4
  <2>2. n \in 1 .. Min({a, b})
    BY <1>5
  <2> HIDE DEF a, b
  <2>3. Min({a, b}) \in Int /\ Min({a, b}) <= a /\ Min({a, b}) <= b
    BY <1>3, <2>1
  <2>4. n \in Nat \ {0} /\ n <= a /\ n <= b
    BY <2>1, <2>2, <2>3
  <2> QED BY <2>4 DEF a, b
<1>7. t.sent + n \in 0 .. Size /\ Len(down[t.conn]) + n <= Cap
  BY <1>1, <1>2, <1>4, <1>6, Constants
<1>8. \A i \in 1 .. n : [type |-> "data", req |-> t.req, bits |-> {}, chunk |-> t.chunk,
                         unit |-> t.sent + i] \in Data
  <2> SUFFICES ASSUME NEW i \in 1 .. n
               PROVE  t.sent + i \in 1 .. Size
    BY <1>1 DEF Data
  <2> QED BY <1>1, <1>6, <1>7, Constants
<1>9. Units(t, n) \in Seq(Data)
  BY <1>6, <1>8, IsASeq DEF Units
<1>10. Len(Units(t, n)) = n
  BY <1>6 DEF Units
<1> QED BY <1>6, <1>7, <1>9, <1>10 DEF Units

LEMMA TaskTypes ==
    ASSUME UploadTypes, NEW t \in tasks, TaskStep(t)
    PROVE  UploadTypes'
<1>1. /\ handlers \subseteq Conn /\ reactor \in Handled \cup {None}
      /\ reactor # None /\ reactor.out.type = "yes" => reactor.out.req \in Request
      /\ last_request_upload \in [Conn -> BOOLEAN]
      /\ pTask \in [Conn -> Pending \cup {None}]
      /\ answered \subseteq Request /\ cut \subseteq Request /\ started \in Seq(Request)
      /\ down \in [Conn -> Seq(Reply \cup Data)] /\ \A c \in Conn : Len(down[c]) <= Cap
  BY DEF UploadTypes, ServiceTypes, HistoryTypes, LinkTypes
<1>2. t \in Task /\ t.conn \in Conn /\ t.req \in Request
  BY DEF UploadTypes, ServiceTypes, Task
<1>3. ASSUME NEW new, Becomes(t, new), new = {} \/ \E x \in Task : new = {x},
             UNCHANGED <<handlers, reactor, last_request_upload, pTask>>
      PROVE  ServiceTypes'
  BY <1>1, <1>3, TasksChange DEF ServiceTypes
<1>4. \A a \in {"check", "send"} : \E x \in Task : [t EXCEPT !.at = a] = x
  BY <1>2 DEF Task
<1>5. CASE TaskReads(t)
  <2>1. StoreTypes' /\ LinkTypes' /\ PeerTypes' /\ HistoryTypes' /\ RequestsAsk'
    BY <1>5, TypesStay DEF TaskReads, store, peers, handler
  <2>2. ServiceTypes'
    <3>1. Becomes(t, {[t EXCEPT !.at = "check"]})
      BY <1>5 DEF TaskReads
    <3>2. UNCHANGED <<handlers, reactor, last_request_upload, pTask>>
      BY <1>5 DEF TaskReads, handler
    <3>3. [t EXCEPT !.at = "check"] \in Task
      BY <1>2 DEF Task
    <3> QED BY <1>3, <3>1, <3>2, <3>3
  <2> QED BY <2>1, <2>2 DEF UploadTypes
<1>6. CASE TaskChecks(t)
  <2>1. StoreTypes' /\ LinkTypes' /\ PeerTypes' /\ RequestsAsk'
    BY <1>6, TypesStay DEF TaskChecks, store, peers, handler
  <2>2. ServiceTypes'
    <3>1. Becomes(t, {[t EXCEPT !.at = "send"]}) \/ Becomes(t, {})
      BY <1>6 DEF TaskChecks
    <3>2. UNCHANGED <<handlers, reactor, last_request_upload, pTask>>
      BY <1>6 DEF TaskChecks, handler
    <3>3. [t EXCEPT !.at = "send"] \in Task
      BY <1>2 DEF Task
    <3> QED BY <1>3, <3>1, <3>2, <3>3
  <2>3. HistoryTypes'
    BY <1>1, <1>2, <1>6 DEF TaskChecks, HistoryTypes
  <2> QED BY <2>1, <2>2, <2>3 DEF UploadTypes
<1>7. CASE TaskSends(t)
  <2>1. PICK n \in Accepted(t) : SendsAs(t, n, t.sent + n)
    BY <1>7 DEF TaskSends
  <2>2. t.conn \notin closed
    BY <2>1 DEF SendsAs
  <2>3. /\ n \in Nat \ {0} /\ t.sent + n \in 0 .. Size
        /\ Len(down[t.conn]) + n <= Cap
        /\ Units(t, n) \in Seq(Data) /\ Len(Units(t, n)) = n
    BY <2>2, SendFacts
  <2>4. StoreTypes' /\ PeerTypes' /\ HistoryTypes' /\ RequestsAsk'
    BY <2>1, TypesStay DEF SendsAs, store, peers, handler
  <2>5. ServiceTypes'
    <3> DEFINE x == [t EXCEPT !.at = IF t.sent + n = Size THEN "end" ELSE "check",
                              !.sent = t.sent + n]
    <3>1. Becomes(t, {x}) /\ UNCHANGED <<handlers, reactor, last_request_upload, pTask>>
      BY <2>1 DEF SendsAs, handler
    <3>2. x \in Task
      BY <1>2, <2>3 DEF Task
    <3> QED BY <1>3, <3>1, <3>2
  <2>6. LinkTypes'
    <3> DEFINE c == t.conn
               s == down[c] \o Units(t, n)
    <3>1. down' = [down EXCEPT ![c] = s]
      BY <1>1, <1>2, <2>1 DEF SendsAs
    <3>2. s \in Seq(Reply \cup Data) /\ Len(s) = Len(down[c]) + n
      <4>1. Units(t, n) \in Seq(Reply \cup Data) /\ down[c] \in Seq(Reply \cup Data)
        BY <1>1, <1>2, <2>3, SeqMonotonic
      <4> HIDE DEF c
      <4>2. s \in Seq(Reply \cup Data) /\ Len(s) = Len(down[c]) + Len(Units(t, n))
        BY <4>1, Joined
      <4> QED BY <2>3, <4>2
    <3> HIDE DEF s
    <3>3. down' \in [Conn -> Seq(Reply \cup Data)] /\ \A d \in Conn : Len(down'[d]) <= Cap
      BY <1>1, <1>2, <2>3, <3>1, <3>2
    <3> QED BY <2>1, <3>3 DEF SendsAs, UploadTypes, LinkTypes
  <2> QED BY <2>4, <2>5, <2>6 DEF UploadTypes
<1>8. CASE TaskSendFails(t)
  <2>1. /\ UNCHANGED <<written, have, known, misread, reqs, last_request_upload, pTask,
                       answered, started>>
        /\ cut' = cut \cup {t.req}
    BY <1>8 DEF TaskSendFails
  <2>2. HistoryTypes'
    BY <1>1, <1>2, <2>1 DEF HistoryTypes
  <2>3. CASE Becomes(t, {}) /\ UNCHANGED <<job, up, down, closed, peer, reactor, handlers>>
    <3>1. StoreTypes' /\ LinkTypes' /\ PeerTypes' /\ RequestsAsk'
      BY <2>1, <2>3, TypesStay DEF store
    <3>2. ServiceTypes'
      BY <1>3, <2>1, <2>3
    <3> QED BY <2>2, <3>1, <3>2 DEF UploadTypes
  <2>4. CASE ProgramEnds
    <3>1. <<>> \in Seq(Asked) /\ <<>> \in Seq(Reply \cup Data) /\ Len(<<>>) = 0
          /\ 1 .. Len(<<>>) = {}
      BY EmptySeq
    <3>2. StoreTypes'
      BY <2>1, <2>4 DEF ProgramEnds, UploadTypes, StoreTypes
    <3>3. LinkTypes'
      BY <2>4, <3>1, Constants DEF ProgramEnds, LinkTypes
    <3>4. PeerTypes'
      BY <2>1, <2>4, Constants DEF ProgramEnds, UploadTypes, PeerTypes
    <3>5. ServiceTypes'
      BY <1>1, <2>1, <2>4, FS_EmptySet, Constants DEF ProgramEnds, ServiceTypes
    <3>6. RequestsAsk'
      BY <2>4, <3>1 DEF ProgramEnds, RequestsAsk
    <3> QED BY <2>2, <3>2, <3>3, <3>4, <3>5, <3>6 DEF UploadTypes
  <2> QED BY <1>8, <2>3, <2>4 DEF TaskSendFails
<1>9. CASE TaskEnds(t)
  <2>1. StoreTypes' /\ LinkTypes' /\ PeerTypes' /\ HistoryTypes' /\ RequestsAsk'
    BY <1>9, TypesStay DEF TaskEnds, store, peers, handler
  <2>2. ServiceTypes'
    BY <1>3, <1>9 DEF TaskEnds, handler
  <2> QED BY <2>1, <2>2 DEF UploadTypes
<1> QED BY <1>5, <1>6, <1>7, <1>8, <1>9 DEF TaskStep

LEMMA NextTypes ==
    ASSUME UploadTypes, [Next]_vars
    PROVE  UploadTypes'
<1>1. CASE UNCHANGED vars
  BY <1>1, TypesStay DEF vars, store, peers, handler, service, history, UploadTypes
<1>2. ASSUME NEW k \in Chunk, WriteChunk(k) \/ MarkChunk(k)
      PROVE  UploadTypes'
  BY <1>2, JobTypes
<1>3. CASE Command
  <2>1. StoreTypes'
    BY <1>3 DEF UploadTypes, StoreTypes, Command
  <2>2. UNCHANGED <<up, down, closed, peer, known, misread, reqs, reactor, handlers,
                    last_request_upload, pTask, tasks, history>> /\ job' # "ended"
    BY <1>3 DEF Command, peers, service, handler
  <2> QED BY <2>1, <2>2, TypesStay DEF UploadTypes
<1>4. ASSUME NEW c \in Conn, PeerStep(c) \/ PeerRequests(c) \/ PeerStops(c) \/ PeerLeaves(c)
      PROVE  UploadTypes'
  BY <1>4, PeerStepTypes, PeerLeavesTypes
<1>5. CASE ReactorStep
  <2>1. CASE SendReply \/ SendReplyFails \/ StartTask
    <3>1. reactor \in Handled
      BY <2>1 DEF SendReply, SendReplyFails, StartTask, StartThen, UploadTypes, ServiceTypes
    <3>2. reactor.conn \in Conn
      BY <3>1 DEF Handled
    <3> QED BY <2>1, <3>2, ReactorTypes
  <2>2. ASSUME NEW c \in Conn, OnReadable(c) \/ HandlerGone(c)
        PROVE  UploadTypes'
    BY <2>2, ReactorTypes
  <2> QED BY <1>5, <2>1, <2>2 DEF ReactorStep
<1>6. ASSUME NEW t \in tasks, TaskStep(t)
      PROVE  UploadTypes'
  BY <1>6, TaskTypes
<1> QED BY <1>1, <1>2, <1>3, <1>4, <1>5, <1>6 DEF Next

-----------------------------------------------------------------------------
(* Every step serves what is written *)

LEMMA InitOwned == Init => Owned
<1> SUFFICES ASSUME Init
             PROVE  Owned
  OBVIOUS
<1>1. 1 .. Len(<<>>) = {}
  OBVIOUS
<1> QED BY <1>1 DEF Init, Owned

\* What is written stays so.
LEMMA OwnedStays ==
    ASSUME UploadTypes, Owned, written \subseteq written',
           UNCHANGED <<known, down, up, pTask, reactor, tasks>>
    PROVE  Owned'
BY DEF Owned

LEMMA NextOwned ==
    ASSUME UploadTypes, Owned, [Next]_vars
    PROVE  Owned'
<1>1. CASE UNCHANGED vars
  BY <1>1, OwnedStays DEF vars, store, peers, handler, service
<1>2. ASSUME NEW k \in Chunk, WriteChunk(k) \/ MarkChunk(k)
      PROVE  Owned'
  BY <1>2, OwnedStays DEF WriteChunk, MarkChunk, MarkFrom, peers, service, handler
<1>3. CASE Command
  BY <1>3, OwnedStays DEF Command, peers, service, handler
<1>4. ASSUME NEW c \in Conn, PeerShakes(c) \/ PeerRequests(c)
      PROVE  Owned'
  <2>1. UNCHANGED <<written, known, down, pTask, reactor, tasks>>
    BY <1>4 DEF PeerShakes, PeerRequests, store, service, handler
  <2>2. up \in [Conn -> Seq(Asked)] /\ known[c] \subseteq Chunk /\ known[c] \subseteq written
    BY DEF UploadTypes, LinkTypes, PeerTypes, Owned
  <2>3. PICK x \in Asked : /\ up' = [up EXCEPT ![c] = Append(up[c], x)]
                           /\ x.type = "upload" => x.chunk \in written
    <3>1. CASE PeerShakes(c)
      <4>1. [type |-> "shake", req |-> 0, chunk |-> None] \in Asked
        BY DEF Asked
      <4> QED BY <2>2, <3>1, <4>1 DEF PeerShakes, Send
    <3>2. CASE PeerRequests(c)
      <4>1. PICK k \in known[c] : Send(c, [type |-> "upload", req |-> reqs', chunk |-> k])
        BY <3>2 DEF PeerRequests
      <4>2. reqs' \in Request
        BY <3>2, Constants DEF PeerRequests, UploadTypes, PeerTypes
      <4>3. [type |-> "upload", req |-> reqs', chunk |-> k] \in Asked
        BY <2>2, <4>2 DEF Asked
      <4> QED BY <2>2, <4>1, <4>3 DEF Send
    <3> QED BY <1>4, <3>1, <3>2
  <2>4. \A d \in Conn : \A i \in 1 .. Len(up'[d]) :
            up'[d][i].type = "upload" => up'[d][i].chunk \in written
    <3> SUFFICES ASSUME NEW d \in Conn, NEW i \in 1 .. Len(up'[d])
                 PROVE  up'[d][i].type = "upload" => up'[d][i].chunk \in written
      OBVIOUS
    <3>1. CASE d # c
      BY <2>2, <2>3, <3>1 DEF Owned
    <3>2. CASE d = c
      <4>1. up'[c] = Append(up[c], x) /\ up[c] \in Seq(Asked)
        BY <2>2, <2>3
      <4>2. CASE i = Len(up[c]) + 1
        BY <2>3, <3>2, <4>1, <4>2, AppendFacts
      <4>3. CASE i # Len(up[c]) + 1
        <5>1. i \in 1 .. Len(up[c]) /\ up'[c][i] = up[c][i]
          BY <3>2, <4>1, <4>3, AppendFacts
        <5> QED BY <3>2, <5>1 DEF Owned
      <4> QED BY <4>2, <4>3
    <3> QED BY <3>1, <3>2
  <2> QED BY <2>1, <2>4 DEF Owned
<1>5. ASSUME NEW c \in Conn, PeerReadsReply(c) \/ PeerReceives(c)
      PROVE  Owned'
  <2>1. UNCHANGED <<written, up, pTask, reactor, tasks>>
    BY <1>5 DEF PeerReadsReply, PeerReceives, store, service, handler
  <2>2. /\ down \in [Conn -> Seq(Reply \cup Data)] /\ down[c] # <<>>
        /\ down' = [down EXCEPT ![c] = Tail(down[c])]
    BY <1>5 DEF PeerReadsReply, PeerReceives, Receive, UploadTypes, LinkTypes
  <2>3. /\ Head(down[c]) = down[c][1] /\ 1 \in 1 .. Len(down[c])
        /\ Len(Tail(down[c])) = Len(down[c]) - 1
        /\ \A i \in 1 .. Len(down[c]) - 1 :
              Tail(down[c])[i] = down[c][i + 1] /\ i + 1 \in 1 .. Len(down[c])
    BY <2>2, TailFacts
  <2>4. \A d \in Conn : \A i \in 1 .. Len(down'[d]) : down'[d][i].bits \subseteq written
    <3> SUFFICES ASSUME NEW d \in Conn, NEW i \in 1 .. Len(down'[d])
                 PROVE  down'[d][i].bits \subseteq written
      OBVIOUS
    <3>1. CASE d # c
      BY <2>2, <3>1 DEF Owned
    <3>2. CASE d = c
      BY <2>2, <2>3, <3>2 DEF Owned
    <3> QED BY <3>1, <3>2
  <2>5. \A d \in Conn : known'[d] \subseteq written
    <3>1. known \in [Conn -> SUBSET Chunk]
      BY DEF UploadTypes, PeerTypes
    <3>2. Head(down[c]).bits \subseteq written
      BY <2>3 DEF Owned
    <3>3. known' = known \/ known' = [known EXCEPT ![c] = Head(down[c]).bits]
            \/ known' = [known EXCEPT ![c] = {}]
      BY <1>5 DEF PeerReadsReply, PeerReceives
    <3> QED BY <3>1, <3>2, <3>3 DEF Owned
  <2> QED BY <2>1, <2>4, <2>5 DEF Owned
<1>6. ASSUME NEW c \in Conn, PeerChecks(c) \/ PeerStops(c)
      PROVE  Owned'
  BY <1>6, OwnedStays DEF PeerChecks, PeerStops, store, service, handler
<1>7. ASSUME NEW c \in Conn, PeerLeaves(c)
      PROVE  Owned'
  <2>1. UNCHANGED <<written, known, pTask, reactor, tasks>>
        /\ up' = [up EXCEPT ![c] = <<>>] /\ down' = [down EXCEPT ![c] = <<>>]
    BY <1>7 DEF PeerLeaves, store, service, handler
  <2>2. \A d \in Conn : /\ up'[d] = up[d] \/ up'[d] = <<>>
                        /\ down'[d] = down[d] \/ down'[d] = <<>>
    BY <2>1 DEF UploadTypes, LinkTypes
  <2>3. 1 .. Len(<<>>) = {}
    OBVIOUS
  <2> QED BY <2>1, <2>2, <2>3 DEF Owned
<1>8. ASSUME NEW c \in Conn, OnReadable(c)
      PROVE  Owned'
  <2> DEFINE msg == Head(up[c])
             out == IF msg.type = "upload" THEN UploadReply(msg) ELSE ShakeReply
  <2>1. /\ UNCHANGED <<written, known, down, tasks>>
        /\ up[c] # <<>> /\ up' = [up EXCEPT ![c] = Tail(up[c])]
        /\ reactor' = [conn |-> c, at |-> "reply", out |-> out]
        /\ pTask' = [pTask EXCEPT ![c] = IF out.type = "yes"
                        THEN [req |-> msg.req, chunk |-> msg.chunk] ELSE pTask[c]]
    BY <1>8 DEF OnReadable, store, peers, UploadTypes, LinkTypes, ServiceTypes
  <2>2. up \in [Conn -> Seq(Asked)] /\ pTask \in [Conn -> Pending \cup {None}] /\ have \subseteq written
    BY DEF UploadTypes, LinkTypes, ServiceTypes, StoreTypes
  <2>3. /\ msg = up[c][1] /\ 1 \in 1 .. Len(up[c])
        /\ Len(Tail(up[c])) = Len(up[c]) - 1
        /\ \A i \in 1 .. Len(up[c]) - 1 :
              Tail(up[c])[i] = up[c][i + 1] /\ i + 1 \in 1 .. Len(up[c])
    BY <2>1, <2>2, TailFacts
  <2>4. msg.type = "upload" => msg.chunk \in written
    BY <2>3 DEF Owned
  <2> HIDE DEF msg
  <2>5. out.bits \subseteq written /\ (out.type = "yes" => msg.type = "upload")
    BY <2>2 DEF ShakeReply, UploadReply
  <2> HIDE DEF out
  <2>6. \A d \in Conn : \A i \in 1 .. Len(up'[d]) :
            up'[d][i].type = "upload" => up'[d][i].chunk \in written
    <3> SUFFICES ASSUME NEW d \in Conn, NEW i \in 1 .. Len(up'[d])
                 PROVE  up'[d][i].type = "upload" => up'[d][i].chunk \in written
      OBVIOUS
    <3>1. CASE d # c
      BY <2>1, <2>2, <3>1 DEF Owned
    <3>2. CASE d = c
      BY <2>1, <2>2, <2>3, <3>2 DEF Owned
    <3> QED BY <3>1, <3>2
  <2>7. \A d \in Conn : pTask'[d] # None => pTask'[d].chunk \in written
    BY <2>1, <2>2, <2>4, <2>5 DEF Owned
  <2> QED BY <2>1, <2>5, <2>6, <2>7 DEF Owned
<1>9. CASE SendReply
  <2> DEFINE c == reactor.conn
  <2>1. /\ UNCHANGED <<written, known, up, pTask, tasks>>
        /\ reactor # None /\ reactor \in Handled
        /\ down \in [Conn -> Seq(Reply \cup Data)]
    BY <1>9 DEF SendReply, store, peers, handler, UploadTypes, ServiceTypes, LinkTypes
  <2>2. c \in Conn /\ reactor.out \in Reply /\ reactor.out.bits \subseteq written
    BY <2>1 DEF Handled, Owned
  <2>3. reactor' # None => reactor'.out = reactor.out
    BY <1>9, <2>1 DEF SendReply, Handled
  <2>4. down' = [down EXCEPT ![c] = Append(down[c], reactor.out)]
    BY <1>9, <2>1, <2>2 DEF SendReply
  <2>5. \A d \in Conn : \A i \in 1 .. Len(down'[d]) : down'[d][i].bits \subseteq written
    <3> SUFFICES ASSUME NEW d \in Conn, NEW i \in 1 .. Len(down'[d])
                 PROVE  down'[d][i].bits \subseteq written
      OBVIOUS
    <3>1. CASE d # c
      BY <2>1, <2>4, <3>1 DEF Owned
    <3>2. CASE d = c
      <4>1. down'[c] = Append(down[c], reactor.out) /\ down[c] \in Seq(Reply \cup Data)
        BY <2>1, <2>2, <2>4
      <4>2. i \in 1 .. Len(down[c]) + 1
            /\ down'[c][i] = (IF i = Len(down[c]) + 1 THEN reactor.out ELSE down[c][i])
            /\ Len(down[c]) \in Nat
        BY <2>2, <3>2, <4>1, AppendFacts
      <4>3. i = Len(down[c]) + 1 \/ i \in 1 .. Len(down[c])
        BY <4>2
      <4> QED BY <2>2, <3>2, <4>2, <4>3 DEF Owned
    <3> QED BY <3>1, <3>2
  <2> QED BY <2>1, <2>2, <2>3, <2>5 DEF Owned
<1>10. CASE SendReplyFails
  <2>1. /\ UNCHANGED <<written, known, up, down, tasks>> /\ reactor' = None
        /\ pTask' = [pTask EXCEPT ![reactor.conn] = None]
    BY <1>10 DEF SendReplyFails, store, peers
  <2>2. \A c \in Conn : pTask'[c] # None => pTask[c] # None /\ pTask'[c] = pTask[c]
    BY <2>1 DEF UploadTypes, ServiceTypes
  <2> QED BY <2>1, <2>2 DEF Owned
<1>11. CASE StartTask
  <2> DEFINE c == reactor.conn
             t == pTask[c]
             new == [conn |-> c, req |-> t.req, chunk |-> t.chunk, at |-> "read", sent |-> 0]
  <2>1. /\ UNCHANGED <<written, known, up, down>> /\ reactor' = None
        /\ \/ UNCHANGED <<pTask, tasks>>
           \/ /\ t # None /\ tasks' = tasks \cup {new}
              /\ pTask' = [pTask EXCEPT ![c] = Reset[c]]
        /\ reactor \in Handled
    BY <1>11 DEF StartTask, StartThen, store, peers, UploadTypes, ServiceTypes
  <2>2. c \in Conn /\ Reset[c] = None
    BY <2>1 DEF Handled, Reset
  <2>3. t # None => new.chunk \in written
    BY <2>2 DEF Owned
  <2> HIDE DEF new, t, c
  <2>4. \A d \in Conn : pTask'[d] # None => pTask[d] # None /\ pTask'[d] = pTask[d]
    BY <2>1, <2>2 DEF UploadTypes, ServiceTypes
  <2>5. \A x \in tasks' : x.chunk \in written
    BY <2>1, <2>3 DEF Owned
  <2> QED BY <2>1, <2>4, <2>5 DEF Owned
<1>12. ASSUME NEW c \in Conn, HandlerGone(c)
       PROVE  Owned'
  BY <1>12, OwnedStays DEF HandlerGone, store, peers
<1>13. ASSUME NEW t \in tasks, TaskStep(t)
       PROVE  Owned'
  <2>1. t \in Task /\ t.conn \in Conn /\ t.chunk \in written
    BY DEF UploadTypes, ServiceTypes, Task, Owned
  <2>2. UNCHANGED <<written, known, pTask>> /\ (reactor' = reactor \/ reactor' = None)
    BY <1>13 DEF TaskStep, TaskReads, TaskChecks, TaskSends, SendsAs, TaskSendFails, ProgramEnds,
          TaskEnds, store, peers, handler
  <2>3. \A x \in tasks' : x.chunk \in written
    <3>0. ASSUME Becomes(t, {})
          PROVE  \A x \in tasks' : x.chunk \in written
      BY <3>0 DEF Becomes, Owned
    <3>1. ASSUME NEW y, Becomes(t, {y}), y.chunk = t.chunk
          PROVE  \A x \in tasks' : x.chunk \in written
      BY <2>1, <3>1 DEF Becomes, Owned
    <3>3. CASE TaskReads(t)
      <4> DEFINE y == [t EXCEPT !.at = "check"]
      <4>1. Becomes(t, {y})
        BY <3>3 DEF TaskReads
      <4>2. y.chunk = t.chunk
        BY <2>1 DEF Task
      <4> HIDE DEF y
      <4> QED BY <3>1, <4>1, <4>2
    <3>4. CASE TaskChecks(t)
      <4> DEFINE y == [t EXCEPT !.at = "send"]
      <4>1. Becomes(t, {y}) \/ Becomes(t, {})
        BY <3>4 DEF TaskChecks
      <4>2. y.chunk = t.chunk
        BY <2>1 DEF Task
      <4> HIDE DEF y
      <4> QED BY <3>0, <3>1, <4>1, <4>2
    <3>5. CASE TaskSends(t)
      <4>1. PICK n \in Accepted(t) : SendsAs(t, n, t.sent + n)
        BY <3>5 DEF TaskSends
      <4> DEFINE y == [t EXCEPT !.at = IF t.sent + n = Size THEN "end" ELSE "check",
                                !.sent = t.sent + n]
      <4>2. Becomes(t, {y})
        BY <4>1 DEF SendsAs
      <4>3. y.chunk = t.chunk
        BY <2>1 DEF Task
      <4> HIDE DEF y
      <4> QED BY <3>1, <4>2, <4>3
    <3>6. CASE TaskSendFails(t)
      <4>1. Becomes(t, {}) \/ tasks' = {}
        BY <3>6 DEF TaskSendFails, ProgramEnds
      <4> QED BY <3>0, <4>1
    <3>7. CASE TaskEnds(t)
      BY <3>0, <3>7 DEF TaskEnds
    <3> QED BY <1>13, <3>3, <3>4, <3>5, <3>6, <3>7 DEF TaskStep
  <2>4. \A c \in Conn : up'[c] = up[c] \/ up'[c] = <<>>
    BY <1>13 DEF TaskStep, TaskReads, TaskChecks, TaskSends, SendsAs, TaskSendFails, ProgramEnds,
          TaskEnds
  <2>5. \A c \in Conn : \A i \in 1 .. Len(down'[c]) : down'[c][i].bits \subseteq written
    <3>1. 1 .. Len(<<>>) = {}
      OBVIOUS
    <3>2. CASE TaskSends(t)
      <4>1. PICK n \in Accepted(t) : SendsAs(t, n, t.sent + n)
        BY <3>2 DEF TaskSends
      <4> DEFINE e == t.conn
                 u == Units(t, n)
                 s == down[e] \o u
      <4>2. e \notin closed /\ down \in [Conn -> Seq(Reply \cup Data)]
            /\ down' = [down EXCEPT ![e] = s]
        BY <2>1, <4>1 DEF SendsAs, UploadTypes, LinkTypes
      <4>3. u \in Seq(Data) /\ \A i \in 1 .. Len(u) : u[i].bits = {}
        BY <4>2, SendFacts
      <4> HIDE DEF u
      <4>4. /\ Len(down[e]) \in Nat /\ Len(u) \in Nat /\ Len(s) = Len(down[e]) + Len(u)
            /\ \A i \in 1 .. Len(down[e]) + Len(u) :
                  s[i] = IF i <= Len(down[e]) THEN down[e][i] ELSE u[i - Len(down[e])]
        <5>1. u \in Seq(Reply \cup Data) /\ down[e] \in Seq(Reply \cup Data)
          BY <2>1, <4>2, <4>3, SeqMonotonic
        <5> QED BY <5>1, ConcatProperties, LenProperties
      <4> HIDE DEF s
      <4> SUFFICES ASSUME NEW c \in Conn, NEW i \in 1 .. Len(down'[c])
                   PROVE  down'[c][i].bits \subseteq written
        OBVIOUS
      <4>5. CASE c # e
        BY <4>2, <4>5 DEF Owned
      <4>6. CASE c = e
        <5>1. down'[c] = s /\ i \in 1 .. Len(down[e]) + Len(u)
          BY <2>1, <4>2, <4>4, <4>6
        <5>2. CASE i <= Len(down[e])
          <6>1. i \in 1 .. Len(down[e]) /\ s[i] = down[e][i]
            BY <4>4, <5>1, <5>2
          <6> QED BY <4>6, <5>1, <6>1 DEF Owned
        <5>3. CASE ~ (i <= Len(down[e]))
          <6>1. i - Len(down[e]) \in 1 .. Len(u) /\ s[i] = u[i - Len(down[e])]
            BY <4>4, <5>1, <5>3
          <6> QED BY <4>3, <5>1, <6>1
        <5> QED BY <5>2, <5>3
      <4> QED BY <4>5, <4>6
    <3>3. CASE ~ TaskSends(t)
      <4>1. \A c \in Conn : down'[c] = down[c] \/ down'[c] = <<>>
        BY <1>13, <3>3 DEF TaskStep, TaskReads, TaskChecks, TaskSendFails, ProgramEnds, TaskEnds
      <4> QED BY <3>1, <4>1 DEF Owned
    <3> QED BY <3>2, <3>3
  <2>6. 1 .. Len(<<>>) = {}
    OBVIOUS
  <2>7. \A c \in Conn : \A i \in 1 .. Len(up'[c]) :
            up'[c][i].type = "upload" => up'[c][i].chunk \in written
    BY <2>4, <2>6 DEF Owned
  <2> QED BY <2>2, <2>3, <2>5, <2>7 DEF Owned
<1> QED BY <1>1, <1>2, <1>3, <1>4, <1>5, <1>6, <1>7, <1>8, <1>9, <1>10, <1>11, <1>12, <1>13
       DEF Next, PeerStep, ReactorStep

-----------------------------------------------------------------------------
(* Every step starts a request once at most *)

LEMMA InitOnce == Init => Once
<1> SUFFICES ASSUME Init
             PROVE  Once
  OBVIOUS
<1>1. 1 .. Len(<<>>) = {} /\ DOMAIN <<>> = {}
  OBVIOUS
<1>2. FreshRequests /\ PreparedTasks /\ StartedOld
  BY <1>1 DEF Init, FreshRequests, PreparedTasks, StartedOld
<1>3. StartedOnce
  BY <1>1 DEF Init, StartedOnce, IsInjective, Range
<1> QED BY <1>2, <1>3 DEF Once

LEMMA OnceStays ==
    ASSUME UploadTypes, Once, UNCHANGED <<up, started, pTask, answered, reactor, reqs>>,
           job = "ended" => job' = "ended"
    PROVE  Once'
<1>1. FreshRequests'
  BY DEF Once, FreshRequests
<1>2. PreparedTasks'
  BY DEF Once, PreparedTasks
<1>3. StartedOld' /\ StartedOnce'
  BY DEF Once, StartedOld, StartedOnce
<1> QED BY <1>1, <1>2, <1>3 DEF Once

\* Messages that leave a connection leave the others as fresh as they were.
LEMMA FreshShrinks ==
    ASSUME UploadTypes, FreshRequests, started' = started,
           \A d \in Conn : pTask'[d] # None => pTask'[d] = pTask[d],
           NEW off \in [Conn -> {0, 1}],
           \A d \in Conn : \A i \in 1 .. Len(up'[d]) :
              i + off[d] \in 1 .. Len(up[d]) /\ up'[d][i] = up[d][i + off[d]]
    PROVE  FreshRequests'
<1>1. \A c \in Conn : \A i \in 1 .. Len(up'[c]) : up'[c][i].type = "upload" =>
          /\ up'[c][i].req \notin Range(started')
          /\ \A d \in Conn : pTask'[d] # None => pTask'[d].req # up'[c][i].req
  BY DEF FreshRequests
<1>2. ASSUME NEW c \in Conn, NEW d \in Conn, NEW i \in 1 .. Len(up'[c]), NEW k \in 1 .. Len(up'[d]),
             up'[c][i].type = "upload", up'[d][k].type = "upload",
             up'[c][i].req = up'[d][k].req
      PROVE  c = d /\ i = k
  <2>0. /\ i + off[c] \in 1 .. Len(up[c]) /\ up[c][i + off[c]] = up'[c][i]
        /\ k + off[d] \in 1 .. Len(up[d]) /\ up[d][k + off[d]] = up'[d][k]
    OBVIOUS
  <2>1. c = d /\ i + off[c] = k + off[d]
    <3>1. up[c][i + off[c]].type = "upload" /\ up[d][k + off[d]].type = "upload"
          /\ up[c][i + off[c]].req = up[d][k + off[d]].req
      BY <1>2, <2>0
    <3> QED BY <2>0, <3>1 DEF FreshRequests
  <2>2. i \in Int /\ k \in Int /\ off[c] \in Int
    <3>1. \A e \in Conn : up[e] \in Seq(Asked) /\ Len(up[e]) \in Nat
      BY LenProperties DEF UploadTypes, LinkTypes
    <3>2. i + off[c] \in 1 .. Len(up[c])
      OBVIOUS
    <3> QED OBVIOUS
  <2> QED BY <2>1, <2>2
<1> QED BY <1>1, <1>2 DEF FreshRequests

\* A message more, asking for nothing or for something new.
LEMMA FreshGrows ==
    ASSUME UploadTypes, FreshRequests, PreparedTasks, StartedOld,
           UNCHANGED <<started, pTask>>, NEW c \in Conn, NEW x \in Asked, Send(c, x),
           x.type = "upload" => x.req = reqs + 1
    PROVE  FreshRequests'
<1>1. up \in [Conn -> Seq(Asked)] /\ reqs \in Nat /\ started \in Seq(Request)
  BY DEF UploadTypes, LinkTypes, PeerTypes, HistoryTypes
<1>2. up' = [up EXCEPT ![c] = Append(up[c], x)]
  BY <1>1 DEF Send
<1>3. /\ Len(up[c]) \in Nat /\ Len(up'[c]) = Len(up[c]) + 1
      /\ \A i \in 1 .. Len(up[c]) + 1 : up'[c][i] = IF i = Len(up[c]) + 1 THEN x ELSE up[c][i]
  BY <1>1, <1>2, AppendFacts
<1>4. reqs + 1 \notin 1 .. reqs
  BY <1>1
<1>5. reqs + 1 \notin Range(started)
  <2>1. \A i \in DOMAIN started : started[i] \in 1 .. reqs
    BY <1>1, LenProperties DEF StartedOld
  <2> QED BY <1>4, <2>1 DEF Range
<1>6. \A d \in Conn : pTask[d] # None => pTask[d].req # reqs + 1
  BY <1>4 DEF PreparedTasks
<1>7. \A d \in Conn : \A i \in 1 .. Len(up[d]) : up[d][i].type = "upload" => up[d][i].req # reqs + 1
  BY <1>4 DEF UploadTypes, RequestsAsk
<1>8. \A d \in Conn : \A i \in 1 .. Len(up'[d]) :
          \/ i \in 1 .. Len(up[d]) /\ up'[d][i] = up[d][i]
          \/ d = c /\ i = Len(up[c]) + 1 /\ up'[d][i] = x
  <2> SUFFICES ASSUME NEW d \in Conn, NEW i \in 1 .. Len(up'[d])
               PROVE  \/ i \in 1 .. Len(up[d]) /\ up'[d][i] = up[d][i]
                      \/ d = c /\ i = Len(up[c]) + 1 /\ up'[d][i] = x
    OBVIOUS
  <2>1. CASE d # c
    BY <1>1, <1>2, <2>1
  <2>2. CASE d = c
    BY <1>3, <2>2
  <2> QED BY <2>1, <2>2
<1>9. \A d \in Conn : \A i \in 1 .. Len(up'[d]) : up'[d][i].type = "upload" =>
          /\ up'[d][i].req \notin Range(started')
          /\ \A e \in Conn : pTask'[e] # None => pTask'[e].req # up'[d][i].req
  <2> SUFFICES ASSUME NEW d \in Conn, NEW i \in 1 .. Len(up'[d]), up'[d][i].type = "upload"
               PROVE  /\ up'[d][i].req \notin Range(started)
                      /\ \A e \in Conn : pTask[e] # None => pTask[e].req # up'[d][i].req
    OBVIOUS
  <2>1. CASE i \in 1 .. Len(up[d]) /\ up'[d][i] = up[d][i]
    BY <2>1 DEF FreshRequests
  <2>2. CASE up'[d][i] = x
    BY <1>5, <1>6, <2>2
  <2> QED BY <1>8, <2>1, <2>2
<1>10. ASSUME NEW d \in Conn, NEW e \in Conn, NEW i \in 1 .. Len(up'[d]), NEW k \in 1 .. Len(up'[e]),
             up'[d][i].type = "upload", up'[e][k].type = "upload",
             up'[d][i].req = up'[e][k].req
       PROVE  d = e /\ i = k
  <2>1. CASE i \in 1 .. Len(up[d]) /\ up'[d][i] = up[d][i]
    <3>1. up'[d][i].req # reqs + 1
      BY <1>7, <1>10, <2>1
    <3>2. k \in 1 .. Len(up[e]) /\ up'[e][k] = up[e][k]
      BY <1>8, <1>10, <3>1
    <3> QED BY <1>10, <2>1, <3>2 DEF FreshRequests
  <2>2. CASE d = c /\ i = Len(up[c]) + 1 /\ up'[d][i] = x
    <3>1. up'[e][k].req = reqs + 1
      BY <1>10, <2>2
    <3>2. e = c /\ k = Len(up[c]) + 1
      BY <1>7, <1>8, <1>10, <3>1
    <3> QED BY <2>2, <3>2
  <2> QED BY <1>8, <2>1, <2>2
<1> QED BY <1>9, <1>10 DEF FreshRequests

LEMMA PeerOnce ==
    ASSUME UploadTypes, Once, NEW c \in Conn,
           PeerStep(c) \/ PeerRequests(c) \/ PeerStops(c) \/ PeerLeaves(c)
    PROVE  Once'
<1>1. UNCHANGED <<started, pTask, answered, reactor, job>>
  BY DEF PeerStep, PeerShakes, PeerRequests, PeerReadsReply, PeerChecks, PeerReceives,
         PeerStops, PeerLeaves, service, handler, history, store
<1>2. reqs \in Nat
  BY DEF UploadTypes, PeerTypes
<1>3. CASE PeerShakes(c) \/ PeerRequests(c)
  <2>1. PICK x \in Asked : Send(c, x) /\ (x.type = "upload" => x.req = reqs + 1)
    <3>1. CASE PeerShakes(c)
      <4>1. [type |-> "shake", req |-> 0, chunk |-> None] \in Asked
        BY DEF Asked
      <4> QED BY <3>1, <4>1 DEF PeerShakes
    <3>2. CASE PeerRequests(c)
      <4>1. PICK k \in known[c] : Send(c, [type |-> "upload", req |-> reqs', chunk |-> k])
        BY <3>2 DEF PeerRequests
      <4>2. k \in Chunk /\ reqs' \in Request /\ reqs' = reqs + 1
        BY <3>2, Constants DEF PeerRequests, UploadTypes, PeerTypes
      <4>3. [type |-> "upload", req |-> reqs', chunk |-> k] \in Asked
        BY <4>2 DEF Asked
      <4> QED BY <4>1, <4>2, <4>3
    <3> QED BY <1>3, <3>1, <3>2
  <2>2. FreshRequests'
    BY <1>1, <2>1, FreshGrows DEF Once
  <2>3. 1 .. reqs \subseteq 1 .. reqs'
    BY <1>2, <1>3 DEF PeerShakes, PeerRequests
  <2>4. PreparedTasks' /\ StartedOld' /\ StartedOnce'
    BY <1>1, <2>3 DEF Once, PreparedTasks, StartedOld, StartedOnce
  <2> QED BY <2>2, <2>4 DEF Once
<1>4. CASE PeerReadsReply(c) \/ PeerChecks(c) \/ PeerReceives(c) \/ PeerStops(c)
  <2>1. UNCHANGED <<up, reqs>>
    BY <1>4 DEF PeerReadsReply, PeerChecks, PeerReceives, PeerStops
  <2> QED BY <1>1, <2>1, OnceStays
<1>5. CASE PeerLeaves(c)
  <2>1. reqs' = reqs /\ up' = [up EXCEPT ![c] = <<>>]
    BY <1>5 DEF PeerLeaves
  <2>2. FreshRequests'
    <3> DEFINE off == [d \in Conn |-> 0]
    <3>1. \A d \in Conn : up'[d] = up[d] \/ up'[d] = <<>>
      BY <2>1 DEF UploadTypes, LinkTypes
    <3>2. 1 .. Len(<<>>) = {}
      OBVIOUS
    <3>3. \A d \in Conn : Len(up[d]) \in Nat
      BY LenProperties DEF UploadTypes, LinkTypes
    <3>4. \A d \in Conn : \A i \in 1 .. Len(up'[d]) :
              i + off[d] \in 1 .. Len(up[d]) /\ up'[d][i] = up[d][i + off[d]]
      BY <3>1, <3>2, <3>3
    <3>5. off \in [Conn -> {0, 1}]
      OBVIOUS
    <3> HIDE DEF off
    <3> QED BY <1>1, <3>4, <3>5, FreshShrinks DEF Once
  <2>3. PreparedTasks' /\ StartedOld' /\ StartedOnce'
    BY <1>1, <2>1 DEF Once, PreparedTasks, StartedOld, StartedOnce
  <2> QED BY <2>2, <2>3 DEF Once
<1> QED BY <1>3, <1>4, <1>5 DEF PeerStep

LEMMA ReadableOnce ==
    ASSUME UploadTypes, Once, NEW c \in Conn, OnReadable(c)
    PROVE  Once'
<1> DEFINE msg == Head(up[c])
           out == IF msg.type = "upload" THEN UploadReply(msg) ELSE ShakeReply
           new == [req |-> msg.req, chunk |-> msg.chunk]
           off == [d \in Conn |-> IF d = c THEN 1 ELSE 0]
<1>1. /\ UNCHANGED <<started, answered, reqs, job>> /\ reactor = None
      /\ up[c] # <<>> /\ up' = [up EXCEPT ![c] = Tail(up[c])]
      /\ reactor' = [conn |-> c, at |-> "reply", out |-> out]
      /\ pTask' = [pTask EXCEPT ![c] = IF out.type = "yes" THEN new ELSE pTask[c]]
  BY DEF OnReadable, store, peers, history, UploadTypes, LinkTypes, ServiceTypes
<1>2. up \in [Conn -> Seq(Asked)] /\ pTask \in [Conn -> Pending \cup {None}]
      /\ up[c] \in Seq(Asked) /\ \A d \in Conn : Len(up[d]) \in Nat
  BY LenProperties DEF UploadTypes, LinkTypes, ServiceTypes
<1>3. /\ msg = up[c][1] /\ 1 \in 1 .. Len(up[c])
      /\ Len(Tail(up[c])) = Len(up[c]) - 1
      /\ \A i \in 1 .. Len(up[c]) - 1 :
            Tail(up[c])[i] = up[c][i + 1] /\ i + 1 \in 1 .. Len(up[c])
  BY <1>1, <1>2, TailFacts
<1> HIDE DEF msg
<1>4. out.type = "yes" => msg.type = "upload" /\ out.req = msg.req
  BY DEF ShakeReply, UploadReply
<1>5. new.req = msg.req /\ off \in [Conn -> {0, 1}]
  OBVIOUS
<1>6. \A d \in Conn : \A i \in 1 .. Len(up'[d]) :
          i + off[d] \in 1 .. Len(up[d]) /\ up'[d][i] = up[d][i + off[d]]
  <2> SUFFICES ASSUME NEW d \in Conn, NEW i \in 1 .. Len(up'[d])
               PROVE  i + off[d] \in 1 .. Len(up[d]) /\ up'[d][i] = up[d][i + off[d]]
    OBVIOUS
  <2>1. CASE d # c
    BY <1>1, <1>2, <2>1
  <2>2. CASE d = c
    BY <1>1, <1>2, <1>3, <2>2
  <2> QED BY <2>1, <2>2
<1>7. off[c] = 1 /\ \A d \in Conn : off[d] \in {0, 1}
  OBVIOUS
<1> HIDE DEF out, new, off
<1>8. StartedOld' /\ StartedOnce'
  BY <1>1 DEF Once, StartedOld, StartedOnce
<1>9. CASE out.type # "yes"
  <2>1. \A d \in Conn : pTask'[d] = pTask[d]
    BY <1>1, <1>2, <1>9
  <2>2. FreshRequests'
    BY <1>1, <1>5, <1>6, <2>1, FreshShrinks DEF Once
  <2>3. PreparedTasks'
    BY <1>1, <2>1 DEF Once, PreparedTasks
  <2> QED BY <1>8, <2>2, <2>3 DEF Once
<1>10. CASE out.type = "yes"
  <2>1. pTask'[c] = new /\ \A d \in Conn : d # c => pTask'[d] = pTask[d]
    BY <1>1, <1>2, <1>10
  <2>2. /\ msg.req \in 1 .. reqs /\ msg.req \notin Range(started)
        /\ \A d \in Conn : pTask[d] # None => pTask[d].req # msg.req
    BY <1>3, <1>4, <1>10 DEF UploadTypes, RequestsAsk, Once, FreshRequests
  <2>3. PreparedTasks'
    <3> SUFFICES ASSUME NEW d \in Conn, pTask'[d] # None
                 PROVE  /\ pTask'[d].req \in 1 .. reqs
                        /\ pTask'[d].req \notin Range(started)
                        /\ \A e \in Conn : pTask'[e] # None /\ pTask'[e].req = pTask'[d].req => d = e
                        /\ \/ pTask'[d].req \in answered
                           \/ job = "ended"
                           \/ /\ reactor' # None /\ reactor'.conn = d /\ reactor'.at = "reply"
                              /\ reactor'.out.type = "yes" /\ reactor'.out.req = pTask'[d].req
      BY <1>1 DEF PreparedTasks
    <3>1. CASE d = c
      <4>1. reactor' # None
        <5>1. out \in Reply
          <6>1. msg \in Asked
            BY <1>2, <1>3, ElementOfSeq
          <6>2. msg.req \in Request \cup {0}
            BY <6>1 DEF Asked
          <6> QED BY <1>10, <6>2 DEF out, UploadReply, ShakeReply, Reply
        <5>2. reactor' \in Handled
          BY <1>1, <5>1 DEF Handled
        <5> QED BY <5>2, Constants
      <4> QED BY <1>1, <1>4, <1>5, <1>10, <2>1, <2>2, <3>1, <4>1
    <3>2. CASE d # c
      <4>1. pTask'[d] = pTask[d] /\ pTask[d] # None
        BY <2>1, <3>2
      <4>2. \A e \in Conn : pTask'[e] # None /\ pTask'[e].req = pTask'[d].req => d = e
        BY <1>5, <2>1, <2>2, <4>1 DEF Once, PreparedTasks
      <4> QED BY <1>1, <4>1, <4>2 DEF Once, PreparedTasks
    <3> QED BY <3>1, <3>2
  <2>4. FreshRequests'
    <3>1. \A d \in Conn : \A i \in 1 .. Len(up'[d]) : up'[d][i].type = "upload" =>
              /\ up'[d][i].req \notin Range(started')
              /\ \A e \in Conn : pTask'[e] # None => pTask'[e].req # up'[d][i].req
      <4> SUFFICES ASSUME NEW d \in Conn, NEW i \in 1 .. Len(up'[d]), up'[d][i].type = "upload"
                   PROVE  /\ up'[d][i].req \notin Range(started)
                          /\ \A e \in Conn : pTask'[e] # None => pTask'[e].req # up'[d][i].req
        BY <1>1
      <4>1. up'[d][i].req \notin Range(started)
        BY <1>6 DEF Once, FreshRequests
      <4>2. i + off[d] \in 1 .. Len(up[d]) /\ up[d][i + off[d]] = up'[d][i]
        BY <1>6
      <4>3. ASSUME NEW e \in Conn, e # c, pTask'[e] # None
            PROVE  pTask'[e].req # up'[d][i].req
        BY <2>1, <4>2, <4>3 DEF Once, FreshRequests
      <4>4. new.req # up'[d][i].req
        <5> SUFFICES ASSUME new.req = up'[d][i].req
                     PROVE  FALSE
          OBVIOUS
        <5>1. up[c][1].type = "upload" /\ up[c][1].req = up[d][i + off[d]].req
              /\ up[d][i + off[d]].type = "upload"
          BY <1>3, <1>4, <1>5, <1>10, <4>2
        <5>2. d = c /\ i + off[d] = 1
          BY <1>3, <4>2, <5>1 DEF Once, FreshRequests
        <5>3. i \in 1 .. Len(up[c]) - 1
          BY <1>1, <1>2, <1>3, <5>2
        <5> QED BY <1>2, <1>7, <5>2, <5>3
      <4> QED BY <2>1, <4>1, <4>3, <4>4
    <3>2. ASSUME NEW d \in Conn, NEW e \in Conn, NEW i \in 1 .. Len(up'[d]), NEW k \in 1 .. Len(up'[e]),
                 up'[d][i].type = "upload", up'[e][k].type = "upload",
                 up'[d][i].req = up'[e][k].req
          PROVE  d = e /\ i = k
      <4>0. /\ i + off[d] \in 1 .. Len(up[d]) /\ up[d][i + off[d]] = up'[d][i]
            /\ k + off[e] \in 1 .. Len(up[e]) /\ up[e][k + off[e]] = up'[e][k]
        BY <1>6
      <4>1. d = e /\ i + off[d] = k + off[e]
        <5>1. up[d][i + off[d]].type = "upload" /\ up[e][k + off[e]].type = "upload"
              /\ up[d][i + off[d]].req = up[e][k + off[e]].req
          BY <3>2, <4>0
        <5> QED BY <4>0, <5>1 DEF Once, FreshRequests
      <4>2. i \in Int /\ k \in Int /\ off[d] \in Int
        BY <1>2, <1>6, <1>7
      <4> QED BY <4>1, <4>2
    <3> QED BY <3>1, <3>2 DEF FreshRequests
  <2> QED BY <1>8, <2>3, <2>4 DEF Once
<1> QED BY <1>9, <1>10

LEMMA SendReplyOnce ==
    ASSUME UploadTypes, Once, SendReply
    PROVE  Once'
<1>1. /\ UNCHANGED <<up, pTask, started, reqs, job>>
      /\ reactor # None /\ reactor.at = "reply" /\ reactor \in Handled
      /\ answered' = IF reactor.out.type = "yes" THEN answered \cup {reactor.out.req} ELSE answered
  BY DEF SendReply, store, peers, handler, UploadTypes, ServiceTypes
<1>2. answered \subseteq answered'
  BY <1>1
<1>3. FreshRequests' /\ StartedOld'
  BY <1>1 DEF Once, FreshRequests, StartedOld
<1>4. StartedOnce'
  BY <1>1, <1>2 DEF Once, StartedOnce
<1>5. PreparedTasks'
  BY <1>1, <1>2 DEF Once, PreparedTasks
<1> QED BY <1>3, <1>4, <1>5 DEF Once

LEMMA SendFailsOnce ==
    ASSUME UploadTypes, Once, SendReplyFails
    PROVE  Once'
<1>1. /\ UNCHANGED <<up, started, reqs, job, answered>>
      /\ reactor # None /\ reactor' = None
      /\ pTask' = [pTask EXCEPT ![reactor.conn] = None]
  BY DEF SendReplyFails, store, peers, history
<1>2. \A d \in Conn : pTask'[d] # None => pTask'[d] = pTask[d] /\ d # reactor.conn
  BY <1>1 DEF UploadTypes, ServiceTypes
<1>3. FreshRequests'
  BY <1>1, <1>2 DEF Once, FreshRequests
<1>4. PreparedTasks'
  <2> SUFFICES ASSUME NEW c \in Conn, pTask'[c] # None
               PROVE  /\ pTask'[c].req \in 1 .. reqs
                      /\ pTask'[c].req \notin Range(started)
                      /\ \A d \in Conn : pTask'[d] # None /\ pTask'[d].req = pTask'[c].req => c = d
                      /\ pTask'[c].req \in answered \/ job = "ended"
    BY <1>1 DEF PreparedTasks
  <2>1. pTask'[c] = pTask[c] /\ c # reactor.conn /\ pTask[c] # None
    BY <1>2
  <2>2. /\ pTask[c].req \in 1 .. reqs /\ pTask[c].req \notin Range(started)
        /\ pTask[c].req \in answered \/ job = "ended"
    BY <2>1 DEF Once, PreparedTasks
  <2>3. \A d \in Conn : pTask'[d] # None /\ pTask'[d].req = pTask'[c].req => c = d
    BY <1>2, <2>1 DEF Once, PreparedTasks
  <2> QED BY <2>1, <2>2, <2>3
<1>5. StartedOld' /\ StartedOnce'
  BY <1>1 DEF Once, StartedOld, StartedOnce
<1> QED BY <1>3, <1>4, <1>5 DEF Once

LEMMA StartOnce ==
    ASSUME UploadTypes, Once, StartTask
    PROVE  Once'
<1> DEFINE c == reactor.conn
           t == pTask[c]
<1>1. /\ UNCHANGED <<up, answered, reqs, job>>
      /\ reactor # None /\ reactor.at = "start" /\ reactor \in Handled /\ reactor' = None
      /\ \/ UNCHANGED <<pTask, started>>
         \/ /\ t # None /\ started' = Append(started, t.req)
            /\ pTask' = [pTask EXCEPT ![c] = Reset[c]]
  BY DEF StartTask, StartThen, store, peers, UploadTypes, ServiceTypes
<1>2. c \in Conn /\ Reset[c] = None
  BY <1>1 DEF Handled, Reset
<1>3. job # "ended"
  BY <1>1 DEF UploadTypes, RequestsAsk
<1>4. \A d \in Conn : pTask[d] # None => pTask[d].req \in answered
  BY <1>1, <1>3 DEF Once, PreparedTasks
<1> HIDE DEF c
<1>5. CASE UNCHANGED <<pTask, started>>
  <2>1. PreparedTasks'
    BY <1>1, <1>4, <1>5 DEF Once, PreparedTasks
  <2> QED BY <1>1, <1>5, <2>1 DEF Once, FreshRequests, StartedOld, StartedOnce
<1>6. CASE /\ t # None /\ started' = Append(started, t.req)
           /\ pTask' = [pTask EXCEPT ![c] = Reset[c]]
  <2>1. t.req \in Request /\ started \in Seq(Request) /\ t.req \in 1 .. reqs
        /\ t.req \notin Range(started) /\ t.req \in answered
    BY <1>2, <1>4, <1>6 DEF UploadTypes, ServiceTypes, HistoryTypes, Pending, Once, PreparedTasks
  <2> DEFINE q == t.req
  <2>2. /\ started' \in Seq(Request) /\ Len(started) \in Nat /\ Len(started') = Len(started) + 1
        /\ \A i \in 1 .. Len(started) + 1 :
              started'[i] = IF i = Len(started) + 1 THEN q ELSE started[i]
    BY <1>6, <2>1, AppendFacts
  <2>3. DOMAIN started = 1 .. Len(started) /\ DOMAIN started' = 1 .. Len(started) + 1
    BY <2>1, <2>2, LenProperties
  <2>4. \A d \in Conn : pTask'[d] # None => pTask'[d] = pTask[d] /\ d # c
    BY <1>2, <1>6 DEF UploadTypes, ServiceTypes
  <2>5. \A d \in Conn : pTask'[d] # None => pTask'[d].req # q
    BY <1>2, <1>6, <2>4 DEF Once, PreparedTasks
  <2> HIDE DEF q, t
  <2>6. \A i \in 1 .. Len(started) + 1 : i = Len(started) + 1 \/ i \in 1 .. Len(started)
    BY <2>2
  <2>7. \A x \in Range(started') : x \in Range(started) \/ x = q
    BY <2>2, <2>3, <2>6 DEF Range
  <2>8. q \in answered /\ q \notin Range(started) /\ q \in 1 .. reqs
    BY <2>1 DEF q
  <2>9. StartedOnce'
    <3>1. Range(started') \subseteq answered
      BY <2>7, <2>8 DEF Once, StartedOnce
    <3>2. \A i \in 1 .. Len(started) : started[i] \in Range(started)
      BY <2>3 DEF Range
    <3>3. IsInjective(started')
      <4> SUFFICES ASSUME NEW i \in 1 .. Len(started) + 1, NEW k \in 1 .. Len(started) + 1,
                          started'[i] = started'[k]
                   PROVE  i = k
        BY <2>3 DEF IsInjective
      <4>1. CASE i \in 1 .. Len(started) /\ k \in 1 .. Len(started)
        <5>1. started[i] = started[k]
          BY <2>2, <4>1
        <5> QED BY <2>3, <4>1, <5>1 DEF Once, StartedOnce, IsInjective
      <4>2. CASE ~ (i \in 1 .. Len(started) /\ k \in 1 .. Len(started))
        BY <2>2, <2>6, <2>8, <3>2, <4>2
      <4> QED BY <4>1, <4>2
    <3> QED BY <1>1, <3>1, <3>3 DEF StartedOnce
  <2>10. StartedOld'
    BY <1>1, <2>2, <2>6, <2>8 DEF Once, StartedOld
  <2>11. PreparedTasks'
    <3> SUFFICES ASSUME NEW d \in Conn, pTask'[d] # None
                 PROVE  /\ pTask'[d].req \in 1 .. reqs
                        /\ pTask'[d].req \notin Range(started')
                        /\ \A e \in Conn : pTask'[e] # None /\ pTask'[e].req = pTask'[d].req => d = e
                        /\ pTask'[d].req \in answered
      BY <1>1 DEF PreparedTasks
    <3>1. pTask'[d] = pTask[d] /\ pTask[d] # None /\ pTask'[d].req # q
      BY <2>4, <2>5
    <3>2. /\ pTask[d].req \in 1 .. reqs /\ pTask[d].req \notin Range(started)
          /\ pTask[d].req \in answered
      BY <1>4, <3>1 DEF Once, PreparedTasks
    <3>3. \A e \in Conn : pTask'[e] # None /\ pTask'[e].req = pTask'[d].req => d = e
      BY <2>4, <3>1 DEF Once, PreparedTasks
    <3> QED BY <2>7, <3>1, <3>2, <3>3
  <2>12. FreshRequests'
    <3>1. \A d \in Conn : \A i \in 1 .. Len(up[d]) : up[d][i].type = "upload" =>
              /\ up[d][i].req \notin Range(started')
              /\ \A e \in Conn : pTask'[e] # None => pTask'[e].req # up[d][i].req
      <4> SUFFICES ASSUME NEW d \in Conn, NEW i \in 1 .. Len(up[d]), up[d][i].type = "upload"
                   PROVE  /\ up[d][i].req \notin Range(started')
                          /\ \A e \in Conn : pTask'[e] # None => pTask'[e].req # up[d][i].req
        OBVIOUS
      <4>1. up[d][i].req \notin Range(started)
            /\ \A e \in Conn : pTask[e] # None => pTask[e].req # up[d][i].req
        BY DEF Once, FreshRequests
      <4>2. up[d][i].req # q
        BY <1>2, <1>6, <4>1 DEF q, t
      <4> QED BY <2>4, <2>7, <4>1, <4>2
    <3> QED BY <1>1, <3>1 DEF Once, FreshRequests
  <2> QED BY <2>9, <2>10, <2>11, <2>12 DEF Once
<1> QED BY <1>1, <1>5, <1>6

LEMMA NextOnce ==
    ASSUME UploadTypes, Once, [Next]_vars
    PROVE  Once'
<1>1. CASE UNCHANGED vars
  BY <1>1, OnceStays DEF vars, store, peers, handler, service, history
<1>2. ASSUME NEW k \in Chunk, WriteChunk(k) \/ MarkChunk(k)
      PROVE  Once'
  BY <1>2, OnceStays DEF WriteChunk, MarkChunk, MarkFrom, peers, service, handler, history
<1>3. CASE Command
  BY <1>3, OnceStays DEF Command, peers, service, handler, history
<1>4. ASSUME NEW c \in Conn, PeerStep(c) \/ PeerRequests(c) \/ PeerStops(c) \/ PeerLeaves(c)
      PROVE  Once'
  BY <1>4, PeerOnce
<1>5. CASE ReactorStep
  <2>1. ASSUME NEW c \in Conn, HandlerGone(c)
        PROVE  Once'
    BY <2>1, OnceStays DEF HandlerGone, store, peers, history
  <2> QED BY <1>5, <2>1, ReadableOnce, SendReplyOnce, SendFailsOnce, StartOnce DEF ReactorStep
<1>6. ASSUME NEW t \in tasks, TaskStep(t)
      PROVE  Once'
  <2>1. CASE ~ ProgramEnds
    <3>1. UNCHANGED <<up, started, pTask, answered, reactor, reqs, job>>
      BY <1>6, <2>1 DEF TaskStep, TaskReads, TaskChecks, TaskSends, SendsAs, TaskSendFails, TaskEnds,
            store, peers, handler, history
    <3> QED BY <3>1, OnceStays
  <2>2. CASE TaskSendFails(t) /\ ProgramEnds
    <3>1. /\ UNCHANGED <<started, pTask, answered, reqs>> /\ job' = "ended"
          /\ up' = [c \in Conn |-> <<>>]
      BY <2>2 DEF TaskSendFails, ProgramEnds
    <3>2. 1 .. Len(<<>>) = {}
      OBVIOUS
    <3>3. FreshRequests'
      BY <3>1, <3>2 DEF FreshRequests
    <3>4. PreparedTasks' /\ StartedOld' /\ StartedOnce'
      BY <3>1 DEF Once, PreparedTasks, StartedOld, StartedOnce
    <3> QED BY <3>3, <3>4 DEF Once
  <2>3. ProgramEnds => TaskSendFails(t) \/ UNCHANGED <<up, started, pTask, answered, reactor, reqs, job>>
    BY <1>6 DEF TaskStep, TaskReads, TaskChecks, TaskSends, SendsAs, TaskEnds,
            store, peers, handler, history
  <2> QED BY <2>1, <2>2, <2>3, OnceStays
<1> QED BY <1>1, <1>2, <1>3, <1>4, <1>5, <1>6 DEF Next

-----------------------------------------------------------------------------
(* Every step keeps one exchange at a time *)

\* A step of others: nothing happens to connection c.
SameLink(c) ==
    /\ up'[c] = up[c] /\ down'[c] = down[c] /\ peer'[c] = peer[c]
    /\ pTask'[c] = pTask[c] /\ last_request_upload'[c] = last_request_upload[c]
    /\ Active(c)' = Active(c)
    /\ cut \subseteq cut'
    /\ reactor' = reactor \/ (~ Handling(c) /\ ~ Handling(c)')

LEMMA FlowSame ==
    ASSUME NEW c \in Conn, NEW req, NEW m, Flow(c, req, m),
           pTask'[c] = pTask[c], Active(c)' = Active(c), cut \subseteq cut',
           reactor' = reactor \/ (~ Handling(c) /\ ~ Handling(c)')
    PROVE  Flow(c, req, m)'
<1>1. (Handling(c)' <=> Handling(c)) /\ (Handling(c) => reactor' = reactor)
  BY DEF Handling
<1>2. \A t \in tasks : Active(c) = {t} => t \in tasks'
  BY DEF Active
<1> HIDE DEF Handling, Active
<1> QED BY <1>1, <1>2 DEF Flow

LEMMA LinkSame ==
    ASSUME NEW c \in Conn, SameLink(c), Phase(c)
    PROVE  Phase(c)'
<1>1. /\ up'[c] = up[c] /\ down'[c] = down[c] /\ peer'[c] = peer[c]
      /\ pTask'[c] = pTask[c] /\ last_request_upload'[c] = last_request_upload[c]
      /\ Active(c)' = Active(c)
  BY DEF SameLink
<1>2. (Handling(c)' <=> Handling(c)) /\ (Handling(c) => reactor' = reactor)
  BY DEF SameLink, Handling
<1>3. \A req, m : Flow(c, req, m) => Flow(c, req, m)'
  BY FlowSame DEF SameLink
<1> HIDE DEF Handling, Active, Flow
<1>4. Silent(c) => Silent(c)'
  BY <1>1, <1>2 DEF Silent
<1>5. CASE Idle(c) \/ Sent(c)
  BY <1>1, <1>4, <1>5 DEF Idle, Sent, Phase
<1>6. CASE Processed(c) \/ Refused(c)
  BY <1>1, <1>2, <1>6 DEF Processed, Refused, Phase
<1>7. CASE Accepting(c)
  <2>1. Flow(c, peer[c].req, Len(down[c]) - 1)'
    BY <1>1, <1>3, <1>7 DEF Accepting
  <2> QED BY <1>1, <1>7, <2>1 DEF Accepting, Phase, InFlight
<1>8. CASE Receiving(c)
  <2>1. Flow(c, peer[c].req, peer[c].got + Len(down[c]))'
    BY <1>1, <1>3, <1>8 DEF Receiving
  <2> QED BY <1>1, <1>8, <2>1 DEF Receiving, Phase, InFlight
<1> QED BY <1>5, <1>6, <1>7, <1>8 DEF Phase

\* Only connection c is concerned.
LEMMA ExchangeStep ==
    ASSUME OneExchange, NEW c \in Conn,
           closed \subseteq closed', misread \subseteq misread',
           \A d \in Conn \ {c} : SameLink(d),
           c \in misread' \cup closed' \/ Phase(c)' \/ SameLink(c)
    PROVE  OneExchange'
<1> SUFFICES ASSUME NEW d \in Conn \ (misread' \cup closed')
             PROVE  Phase(d)'
  BY DEF OneExchange
<1>1. Phase(d)
  BY DEF OneExchange
<1>2. CASE SameLink(d)
  BY <1>1, <1>2, LinkSame
<1>3. CASE d = c /\ Phase(c)'
  BY <1>3
<1> QED BY <1>2, <1>3

\* Nothing happens to any connection.
LEMMA ExchangeStays ==
    ASSUME OneExchange, closed \subseteq closed', misread \subseteq misread',
           \A d \in Conn : SameLink(d)
    PROVE  OneExchange'
BY LinkSame DEF OneExchange

LEMMA InitExchange == Init => OneExchange
<1> SUFFICES ASSUME Init, NEW c \in Conn
             PROVE  Idle(c)
  BY DEF OneExchange, Phase
<1> QED BY DEF Init, Idle, Silent, Active, Handling

\* The units that are left when the first message has been read.
LEMMA InFlightTail ==
    ASSUME NEW S, NEW s \in Seq(S), s # <<>>, NEW req, NEW got \in Nat
    PROVE  /\ InFlight(s, 1, req, got) => InFlight(Tail(s), 0, req, got)
           /\ InFlight(s, 0, req, got) => InFlight(Tail(s), 0, req, got + 1)
<1>1. /\ Len(s) \in Nat \ {0} /\ Len(Tail(s)) = Len(s) - 1
      /\ \A i \in 1 .. Len(s) - 1 : Tail(s)[i] = s[i + 1] /\ i + 1 \in 1 .. Len(s)
  BY TailFacts
<1>2. ASSUME InFlight(s, 1, req, got)
      PROVE  InFlight(Tail(s), 0, req, got)
  <2> SUFFICES ASSUME NEW i \in 1 .. Len(s) - 1
               PROVE  /\ Tail(s)[i].type = "data" /\ Tail(s)[i].req = req
                      /\ Tail(s)[i].unit = got + i - 0
    BY <1>1 DEF InFlight
  <2>1. Tail(s)[i] = s[i + 1] /\ i + 1 \in 1 .. Len(s) /\ i + 1 > 1
    BY <1>1
  <2>2. s[i + 1].type = "data" /\ s[i + 1].req = req /\ s[i + 1].unit = got + (i + 1) - 1
    BY <1>2, <2>1 DEF InFlight
  <2>3. got + (i + 1) - 1 = got + i - 0
    BY <1>1
  <2> QED BY <2>1, <2>2, <2>3
<1>3. ASSUME InFlight(s, 0, req, got)
      PROVE  InFlight(Tail(s), 0, req, got + 1)
  <2> SUFFICES ASSUME NEW i \in 1 .. Len(s) - 1
               PROVE  /\ Tail(s)[i].type = "data" /\ Tail(s)[i].req = req
                      /\ Tail(s)[i].unit = got + 1 + i - 0
    BY <1>1 DEF InFlight
  <2>1. Tail(s)[i] = s[i + 1] /\ i + 1 \in 1 .. Len(s) /\ i + 1 > 0
    BY <1>1
  <2>2. s[i + 1].type = "data" /\ s[i + 1].req = req /\ s[i + 1].unit = got + (i + 1) - 0
    BY <1>3, <2>1 DEF InFlight
  <2>3. got + (i + 1) - 0 = got + 1 + i - 0
    BY <1>1
  <2> QED BY <2>1, <2>2, <2>3
<1> QED BY <1>2, <1>3

\* Units that follow on those in flight.
LEMMA InFlightGrows ==
    ASSUME NEW S, NEW s \in Seq(S), NEW u \in Seq(S), NEW skip \in {0, 1}, NEW req,
           NEW got \in Nat, skip <= Len(s), InFlight(s, skip, req, got),
           \A i \in 1 .. Len(u) : /\ u[i].type = "data" /\ u[i].req = req
                                  /\ u[i].unit = got + Len(s) - skip + i
    PROVE  InFlight(s \o u, skip, req, got)
<1>1. /\ Len(s) \in Nat /\ Len(u) \in Nat /\ Len(s \o u) = Len(s) + Len(u)
      /\ \A i \in 1 .. Len(s) + Len(u) :
            (s \o u)[i] = IF i <= Len(s) THEN s[i] ELSE u[i - Len(s)]
  BY ConcatProperties, LenProperties
<1> SUFFICES ASSUME NEW i \in 1 .. Len(s) + Len(u), i > skip
             PROVE  /\ (s \o u)[i].type = "data" /\ (s \o u)[i].req = req
                    /\ (s \o u)[i].unit = got + i - skip
  BY <1>1 DEF InFlight
<1>2. CASE i <= Len(s)
  <2>1. i \in 1 .. Len(s) /\ (s \o u)[i] = s[i]
    BY <1>1, <1>2
  <2> QED BY <2>1 DEF InFlight
<1>3. CASE ~ (i <= Len(s))
  <2> DEFINE k == i - Len(s)
  <2>1. k \in 1 .. Len(u) /\ (s \o u)[i] = u[k]
    BY <1>1, <1>3
  <2>2. got + Len(s) - skip + k = got + i - skip
    BY <1>1
  <2> QED BY <2>1, <2>2
<1> QED BY <1>2, <1>3

\* What a peer does on its connection, as far as the phases go.
LEMMA PeerFrame ==
    ASSUME UploadTypes, NEW c \in Conn,
           PeerStep(c) \/ PeerRequests(c) \/ PeerStops(c) \/ PeerLeaves(c)
    PROVE  /\ UNCHANGED <<reactor, pTask, tasks, cut, last_request_upload>>
           /\ closed \subseteq closed' /\ misread \subseteq misread'
           /\ \A d \in Conn \ {c} : SameLink(d)
<1>1. /\ UNCHANGED <<reactor, pTask, tasks, cut, last_request_upload>>
      /\ closed \subseteq closed' /\ misread \subseteq misread'
  BY DEF PeerStep, PeerShakes, PeerRequests, PeerReadsReply, PeerChecks, PeerReceives,
         PeerStops, PeerLeaves, service, handler, history
<1>2. up \in [Conn -> Seq(Asked)] /\ down \in [Conn -> Seq(Reply \cup Data)]
      /\ DOMAIN peer = Conn
  BY DEF UploadTypes, LinkTypes, PeerTypes
<1>3. \A d \in Conn \ {c} : up'[d] = up[d] /\ down'[d] = down[d] /\ peer'[d] = peer[d]
  <2>1. CASE PeerShakes(c)
    BY <1>2, <2>1 DEF PeerShakes, PeerIs, Send
  <2>2. CASE PeerRequests(c)
    <3>1. PICK k \in known[c] : Send(c, [type |-> "upload", req |-> reqs', chunk |-> k])
      BY <2>2 DEF PeerRequests
    <3> QED BY <1>2, <2>2, <3>1 DEF PeerRequests, PeerIs, Send
  <2>3. CASE PeerReadsReply(c)
    BY <1>2, <2>3 DEF PeerReadsReply, PeerIs, Receive
  <2>4. CASE PeerChecks(c)
    BY <1>2, <2>4 DEF PeerChecks, PeerIs
  <2>5. CASE PeerReceives(c)
    BY <1>2, <2>5 DEF PeerReceives, PeerIs, Receive
  <2>6. CASE PeerStops(c)
    BY <1>2, <2>6 DEF PeerStops, PeerIs
  <2>7. CASE PeerLeaves(c)
    BY <1>2, <2>7 DEF PeerLeaves, PeerIs
  <2> QED BY <2>1, <2>2, <2>3, <2>4, <2>5, <2>6, <2>7 DEF PeerStep
<1>4. \A d \in Conn : Active(d)' = Active(d)
  BY <1>1 DEF Active
<1> HIDE DEF Active
<1> QED BY <1>1, <1>3, <1>4 DEF SameLink

\* Who is idle says nothing, and is told nothing.
LEMMA IdlePhase ==
    ASSUME NEW c \in Conn, Phase(c), peer[c].at = "idle"
    PROVE  Idle(c)
BY DEF Phase, Sent, Processed, Refused, Accepting, Receiving

LEMMA PeerAsksExchange ==
    ASSUME UploadTypes, OneExchange, NEW c \in Conn, PeerShakes(c) \/ PeerRequests(c)
    PROVE  OneExchange'
<1>1. /\ UNCHANGED <<reactor, pTask, tasks, cut, last_request_upload>>
      /\ closed \subseteq closed' /\ misread \subseteq misread'
      /\ \A d \in Conn \ {c} : SameLink(d)
  BY PeerFrame DEF PeerStep
<1>2. up \in [Conn -> Seq(Asked)] /\ DOMAIN peer = Conn
  BY DEF UploadTypes, LinkTypes, PeerTypes
<1>3. SUFFICES ASSUME c \notin misread' \cup closed'
               PROVE  Phase(c)'
  BY <1>1, ExchangeStep
<1>4. Phase(c)
  BY <1>1, <1>3 DEF OneExchange
<1>5. Idle(c)
  <2>1. peer[c].at = "idle"
    BY DEF PeerShakes, PeerRequests
  <2> QED BY <1>4, <2>1, IdlePhase
<1>6. \E x \in Asked : /\ up' = [up EXCEPT ![c] = Append(up[c], x)] /\ down' = down
                       /\ peer'[c].at \in {"shaking", "asked"}
                       /\ x.type = IF peer'[c].at = "asked" THEN "upload" ELSE "shake"
                       /\ x.req = peer'[c].req
  <2>1. CASE PeerShakes(c)
    <3> DEFINE x == [type |-> "shake", req |-> 0, chunk |-> None]
    <3>1. x \in Asked
      BY DEF Asked
    <3>2. up' = [up EXCEPT ![c] = Append(up[c], x)] /\ down' = down
          /\ peer'[c] = [at |-> "shaking", req |-> 0, got |-> 0]
      BY <1>2, <2>1 DEF PeerShakes, Send, PeerIs
    <3>3. x.type = "shake" /\ x.req = 0
      OBVIOUS
    <3>4. peer'[c].at = "shaking" /\ peer'[c].req = 0
      BY <3>2
    <3>5. x.type = (IF peer'[c].at = "asked" THEN "upload" ELSE "shake") /\ x.req = peer'[c].req
      BY <3>3, <3>4
    <3> HIDE DEF x
    <3> QED BY <3>1, <3>2, <3>4, <3>5
  <2>2. CASE PeerRequests(c)
    <3>1. PICK k \in known[c] : Send(c, [type |-> "upload", req |-> reqs', chunk |-> k])
      BY <2>2 DEF PeerRequests
    <3> DEFINE x == [type |-> "upload", req |-> reqs', chunk |-> k]
    <3>2. k \in Chunk /\ reqs' \in Request
      BY <2>2, Constants DEF PeerRequests, UploadTypes, PeerTypes
    <3>3. x \in Asked
      BY <3>2 DEF Asked
    <3>4. up' = [up EXCEPT ![c] = Append(up[c], x)] /\ down' = down
          /\ peer'[c] = [at |-> "asked", req |-> reqs', got |-> 0]
      BY <1>2, <2>2, <3>1 DEF PeerRequests, Send, PeerIs
    <3>5. x.type = "upload" /\ x.req = reqs'
      OBVIOUS
    <3>6. peer'[c].at = "asked" /\ peer'[c].req = reqs'
      BY <3>4
    <3>7. x.type = (IF peer'[c].at = "asked" THEN "upload" ELSE "shake") /\ x.req = peer'[c].req
      BY <3>5, <3>6
    <3> HIDE DEF x
    <3> QED BY <3>3, <3>4, <3>6, <3>7
  <2> QED BY <2>1, <2>2
<1>7. PICK x \in Asked : /\ up' = [up EXCEPT ![c] = Append(up[c], x)] /\ down' = down
                         /\ peer'[c].at \in {"shaking", "asked"}
                         /\ x.type = IF peer'[c].at = "asked" THEN "upload" ELSE "shake"
                         /\ x.req = peer'[c].req
  BY <1>6
<1>8. up[c] = <<>> /\ Silent(c)
  BY <1>5 DEF Idle
<1>9. Len(up'[c]) = 1 /\ up'[c][1] = x
  <2>1. up'[c] = Append(<<>>, x) /\ <<>> \in Seq(Asked) /\ Len(<<>>) = 0
    BY <1>2, <1>7, <1>8
  <2> QED BY <2>1, AppendFacts
<1>10. Silent(c)'
  BY <1>1, <1>7, <1>8 DEF Silent, Active, Handling
<1> QED BY <1>7, <1>9, <1>10 DEF Sent, Phase

LEMMA PeerHearsExchange ==
    ASSUME UploadTypes, OneExchange, NEW c \in Conn,
           PeerReadsReply(c) \/ PeerChecks(c) \/ PeerReceives(c)
    PROVE  OneExchange'
<1>1. /\ UNCHANGED <<reactor, pTask, tasks, cut, last_request_upload>>
      /\ closed \subseteq closed' /\ misread \subseteq misread'
      /\ \A d \in Conn \ {c} : SameLink(d)
  BY PeerFrame DEF PeerStep
<1>2. /\ down \in [Conn -> Seq(Reply \cup Data)] /\ DOMAIN peer = Conn
      /\ down[c] \in Seq(Reply \cup Data)
      /\ peer[c].got \in 0 .. Size /\ Size \in Nat \ {0}
      /\ up' = up
  BY Constants DEF UploadTypes, LinkTypes, PeerTypes, PeerReadsReply, PeerChecks, PeerReceives
<1>3. SUFFICES ASSUME c \notin misread' \cup closed'
               PROVE  Phase(c)'
  BY <1>1, ExchangeStep
<1>4. Phase(c)
  BY <1>1, <1>3 DEF OneExchange
<1>5. (Handling(c)' <=> Handling(c)) /\ Active(c)' = Active(c)
  BY <1>1 DEF Handling, Active
<1>6. \A req, m : Flow(c, req, m) => Flow(c, req, m)'
  BY <1>1, <1>5, FlowSame
<1> HIDE DEF Handling, Active, Flow
<1>7. CASE PeerReadsReply(c)
  <2> DEFINE msg == Head(down[c])
  <2>1. /\ down[c] # <<>> /\ down'[c] = Tail(down[c])
        /\ \/ /\ peer[c].at = "shaking"
              /\ peer'[c] = [at |-> "idle", req |-> 0, got |-> 0]
           \/ /\ peer[c].at = "asked"
              /\ peer'[c] = IF msg.type = "yes" THEN [at |-> "check", req |-> peer[c].req, got |-> 0]
                                                ELSE [at |-> "idle", req |-> 0, got |-> 0]
    BY <1>2, <1>7 DEF PeerReadsReply, Receive, PeerIs
  <2>2. /\ Len(down[c]) \in Nat \ {0} /\ Len(Tail(down[c])) = Len(down[c]) - 1
        /\ Tail(down[c]) \in Seq(Reply \cup Data) /\ msg = down[c][1]
    BY <1>2, <2>1, TailFacts
  <2> HIDE DEF msg
  <2>3. Refused(c) \/ Accepting(c)
    BY <1>4, <2>1 DEF Phase, Idle, Sent, Silent, Processed, Receiving
  <2>4. CASE Refused(c)
    <3>1. peer'[c].at = "idle"
      BY <2>1, <2>2, <2>4 DEF Refused
    <3>2. down'[c] = <<>>
      <4>1. Len(Tail(down[c])) = 0
        BY <2>2, <2>4 DEF Refused
      <4>2. Tail(down[c]) # <<>> => Len(Tail(down[c])) \in Nat \ {0}
        BY <2>2, EmptySeq
      <4> QED BY <2>1, <4>1, <4>2
    <3> QED BY <1>1, <1>2, <1>5, <2>4, <3>1, <3>2 DEF Refused, Idle, Silent, Phase
  <2>5. CASE Accepting(c)
    <3>1. peer'[c] = [at |-> "check", req |-> peer[c].req, got |-> 0]
      BY <2>1, <2>2, <2>5 DEF Accepting
    <3>2. InFlight(Tail(down[c]), 0, peer[c].req, 0)
      BY <1>2, <2>1, <2>5, InFlightTail DEF Accepting
    <3>3. PICK req, m : req = peer[c].req /\ m = Len(down[c]) - 1
      OBVIOUS
    <3>4. Flow(c, req, m)'
      BY <1>6, <2>5, <3>3 DEF Accepting
    <3>5. peer'[c].req = req /\ peer'[c].at = "check" /\ peer'[c].got + Len(down'[c]) = m
      BY <2>1, <2>2, <3>1, <3>3
    <3>6. InFlight(down[c], 0, peer[c].req, peer[c].got)'
      BY <2>1, <3>1, <3>2 DEF InFlight
    <3> QED BY <1>2, <2>5, <3>4, <3>5, <3>6 DEF Accepting, Receiving, Phase
  <2> QED BY <2>3, <2>4, <2>5
<1>8. CASE PeerChecks(c)
  <2>1. Receiving(c)
    BY <1>4, <1>8 DEF PeerChecks, Phase, Idle, Sent, Processed, Refused, Accepting
  <2>2. down' = down /\ Len(down[c]) \in Nat
    BY <1>2, <1>8, LenProperties DEF PeerChecks
  <2>3. CASE peer[c].got = Size
    <3>1. peer'[c].at = "idle"
      BY <1>2, <1>8, <2>3 DEF PeerChecks, PeerIs
    <3>2. PICK m : m = peer[c].got + Len(down[c])
      OBVIOUS
    <3>3. ~ Handling(c) /\ pTask[c] = None /\ m = Size /\ Active(c) = {}
      BY <1>2, <2>1, <2>2, <2>3, <3>2 DEF Receiving, Flow
    <3>4. down[c] = <<>>
      <4>1. Len(down[c]) = 0
        BY <1>2, <2>2, <2>3, <3>2, <3>3
      <4> QED BY <1>2, <4>1, EmptySeq
    <3> QED BY <1>1, <1>2, <1>5, <2>1, <2>2, <3>1, <3>3, <3>4 DEF Receiving, Idle, Silent, Phase
  <2>4. CASE peer[c].got # Size
    <3>1. peer'[c] = [at |-> "receive", req |-> peer[c].req, got |-> peer[c].got]
      BY <1>2, <1>8, <2>4 DEF PeerChecks, PeerIs
    <3>2. PICK req, m : req = peer[c].req /\ m = peer[c].got + Len(down[c])
      OBVIOUS
    <3>3. Flow(c, req, m)'
      BY <1>6, <2>1, <3>2 DEF Receiving
    <3>4. peer'[c].req = req /\ peer'[c].at = "receive" /\ peer'[c].got + Len(down'[c]) = m
      BY <2>2, <3>1, <3>2
    <3>5. InFlight(down[c], 0, peer[c].req, peer[c].got)'
      BY <2>1, <2>2, <3>1 DEF InFlight, Receiving
    <3> QED BY <1>2, <2>1, <3>3, <3>4, <3>5 DEF Receiving, Phase
  <2> QED BY <2>3, <2>4
<1>9. CASE PeerReceives(c)
  <2>1. Receiving(c)
    BY <1>4, <1>9 DEF PeerReceives, Phase, Idle, Sent, Processed, Refused, Accepting
  <2>2. /\ down[c] # <<>> /\ down'[c] = Tail(down[c])
        /\ peer'[c] = [at |-> "check", req |-> peer[c].req, got |-> peer[c].got + 1]
    BY <1>2, <1>9 DEF PeerReceives, Receive, PeerIs
  <2>3. Len(down[c]) \in Nat \ {0} /\ Len(Tail(down[c])) = Len(down[c]) - 1
    BY <1>2, <2>2, TailFacts
  <2>4. InFlight(Tail(down[c]), 0, peer[c].req, peer[c].got + 1)
    BY <1>2, <2>1, <2>2, InFlightTail DEF Receiving
  <2>5. PICK req, m : req = peer[c].req /\ m = peer[c].got + Len(down[c])
    OBVIOUS
  <2>6. Flow(c, req, m)'
    BY <1>6, <2>1, <2>5 DEF Receiving
  <2>7. peer'[c].req = req /\ peer'[c].at = "check" /\ peer'[c].got + Len(down'[c]) = m
    BY <1>2, <2>2, <2>3, <2>5
  <2>8. InFlight(down[c], 0, peer[c].req, peer[c].got)'
    BY <2>2, <2>4 DEF InFlight
  <2> QED BY <1>2, <2>1, <2>6, <2>7, <2>8 DEF Receiving, Phase
<1> QED BY <1>7, <1>8, <1>9

LEMMA ReadableExchange ==
    ASSUME UploadTypes, OneExchange, NEW c \in Conn, OnReadable(c)
    PROVE  OneExchange'
<1> DEFINE msg == Head(up[c])
           upload == msg.type = "upload"
           out == IF upload THEN UploadReply(msg) ELSE ShakeReply
           new == [req |-> msg.req, chunk |-> msg.chunk]
           r == [conn |-> c, at |-> "reply", out |-> out]
<1>1. /\ UNCHANGED <<down, peer, tasks, cut, closed, misread>> /\ reactor = None
      /\ up[c] # <<>> /\ up' = [up EXCEPT ![c] = Tail(up[c])]
      /\ reactor' = r
      /\ last_request_upload' = [last_request_upload EXCEPT ![c] = upload]
      /\ pTask' = [pTask EXCEPT ![c] = IF out.type = "yes" THEN new ELSE pTask[c]]
  BY DEF OnReadable, peers, history, UploadTypes, LinkTypes, ServiceTypes
<1>2. /\ up \in [Conn -> Seq(Asked)] /\ up[c] \in Seq(Asked) /\ have \subseteq Chunk
      /\ pTask \in [Conn -> Pending \cup {None}]
      /\ last_request_upload \in [Conn -> BOOLEAN]
  BY DEF UploadTypes, LinkTypes, ServiceTypes, StoreTypes
<1>3. /\ msg = up[c][1] /\ msg \in Asked /\ 1 \in 1 .. Len(up[c])
      /\ Tail(up[c]) \in Seq(Asked) /\ Len(Tail(up[c])) = Len(up[c]) - 1
  BY <1>1, <1>2, TailFacts
<1>4. upload => msg.req \in Request /\ msg.chunk \in Chunk
  BY <1>3, Constants DEF UploadTypes, RequestsAsk, PeerTypes
<1> HIDE DEF msg
<1>5. /\ out \in Reply
      /\ upload => out.req = msg.req /\ out.type \in {"yes", "no"}
      /\ ~ upload => out.type = "shake"
  <2>1. CASE upload
    <3>1. out = UploadReply(msg)
      BY <2>1
    <3> QED BY <1>4, <2>1, <3>1 DEF UploadReply, Reply
  <2>2. CASE ~ upload
    <3>1. out = ShakeReply
      BY <2>2
    <3> QED BY <1>2, <2>2, <3>1 DEF ShakeReply, Reply
  <2> QED BY <2>1, <2>2
<1> HIDE DEF out
<1>6. r \in Handled /\ r # None /\ r.conn = c /\ r.at = "reply" /\ r.out = out
  <2>1. r \in Handled
    BY <1>5 DEF Handled
  <2> QED BY <2>1, Constants
<1>7. upload => new # None /\ new.req = msg.req
  <2>1. upload => new \in Pending
    BY <1>4 DEF Pending
  <2> QED BY <2>1, Constants
<1> HIDE DEF new, r
<1>8. \A d \in Conn \ {c} : SameLink(d)
  <2> SUFFICES ASSUME NEW d \in Conn, d # c
               PROVE  SameLink(d)
    OBVIOUS
  <2>1. up'[d] = up[d] /\ pTask'[d] = pTask[d] /\ last_request_upload'[d] = last_request_upload[d]
    BY <1>1, <1>2
  <2>2. ~ Handling(d) /\ ~ Handling(d)' /\ Active(d)' = Active(d)
    BY <1>1, <1>6 DEF Handling, Active
  <2> QED BY <1>1, <2>1, <2>2 DEF SameLink
<1>9. SUFFICES ASSUME c \notin misread' \cup closed'
               PROVE  Phase(c)'
  BY <1>1, <1>8, ExchangeStep
<1>10. Sent(c)
  <2>1. Phase(c)
    BY <1>1, <1>9 DEF OneExchange
  <2> QED BY <1>1, <2>1 DEF Phase, Idle, Processed, Refused, Accepting, Receiving
<1>11. up'[c] = <<>>
  <2>1. Len(Tail(up[c])) = 0
    BY <1>3, <1>10 DEF Sent
  <2>2. Tail(up[c]) # <<>> => Len(Tail(up[c])) \in Nat \ {0}
    BY <1>3, EmptySeq
  <2> QED BY <1>1, <1>2, <2>1, <2>2
<1>12. down[c] = <<>> /\ Active(c) = {} /\ pTask[c] = None
  BY <1>10 DEF Sent, Silent
<1>13. Handling(c)' /\ reactor'.at = "reply" /\ reactor'.out = out /\ Active(c)' = Active(c)
  BY <1>1, <1>6 DEF Handling, Active
<1>14. last_request_upload'[c] = upload
       /\ pTask'[c] = IF out.type = "yes" THEN new ELSE None
  BY <1>1, <1>2, <1>12
<1>15. msg.req = peer[c].req /\ (upload <=> peer[c].at = "asked")
       /\ peer[c].at \in {"shaking", "asked"}
  BY <1>3, <1>10 DEF Sent
<1> HIDE DEF Handling, Active, upload
<1>16. CASE upload
  BY <1>1, <1>5, <1>7, <1>11, <1>12, <1>13, <1>14, <1>15, <1>16 DEF Processed, Phase
<1>17. CASE ~ upload
  BY <1>1, <1>5, <1>11, <1>12, <1>13, <1>14, <1>15, <1>17 DEF Processed, Phase
<1> QED BY <1>16, <1>17

LEMMA SendReplyExchange ==
    ASSUME UploadTypes, OneExchange, NEW c \in Conn, SendReply, reactor.conn = c
    PROVE  OneExchange'
<1> DEFINE r == [reactor EXCEPT !.at = "start"]
<1>1. /\ UNCHANGED <<up, peer, pTask, last_request_upload, tasks, cut, closed, misread>>
      /\ reactor # None /\ reactor.at = "reply" /\ reactor \in Handled
      /\ down \in [Conn -> Seq(Reply \cup Data)]
      /\ reactor' = IF last_request_upload[c] THEN r ELSE None
  BY DEF SendReply, peers, handler, UploadTypes, ServiceTypes, LinkTypes
<1>2. c \in Conn /\ reactor.out \in Reply
  BY <1>1 DEF Handled
<1>3. r \in Handled /\ r # None /\ r.conn = c /\ r.at = "start" /\ r.out = reactor.out
  <2>1. r \in Handled
    BY <1>1 DEF Handled
  <2> QED BY <1>1, <2>1, Constants DEF Handled
<1>4. down' = [down EXCEPT ![c] = Append(down[c], reactor.out)]
  BY <1>1, <1>2 DEF SendReply
<1> HIDE DEF r
<1>5. \A d \in Conn \ {c} : SameLink(d)
  <2> SUFFICES ASSUME NEW d \in Conn, d # c
               PROVE  SameLink(d)
    OBVIOUS
  <2>1. down'[d] = down[d] /\ Active(d)' = Active(d)
    BY <1>1, <1>4 DEF Active
  <2>2. ~ Handling(d) /\ ~ Handling(d)'
    BY <1>1, <1>3 DEF Handling
  <2> QED BY <1>1, <2>1, <2>2 DEF SameLink
<1>6. SUFFICES ASSUME c \notin misread' \cup closed'
               PROVE  Phase(c)'
  BY <1>1, <1>5, ExchangeStep
<1>7. Processed(c)
  <2>1. Phase(c)
    BY <1>1, <1>6 DEF OneExchange
  <2>2. Handling(c) /\ reactor.at = "reply"
    BY <1>1 DEF Handling
  <2> QED BY <2>1, <2>2 DEF Phase, Idle, Sent, Silent, Refused, Accepting, Receiving, Flow
<1>8. Len(down'[c]) = 1 /\ down'[c][1] = reactor.out
  <2>1. down[c] = <<>> /\ <<>> \in Seq(Reply) /\ Len(<<>>) = 0
    BY <1>7 DEF Processed
  <2>2. down'[c] = Append(<<>>, reactor.out)
    BY <1>1, <1>4, <2>1
  <2> QED BY <1>2, <2>1, <2>2, AppendFacts
<1>9. Active(c)' = {} /\ pTask'[c] = pTask[c] /\ up'[c] = <<>> /\ peer'[c] = peer[c]
  BY <1>1, <1>7 DEF Active, Processed
<1>10. Handling(c)' => reactor'.at = "start"
  BY <1>1, <1>3 DEF Handling
<1>11. CASE reactor.out.type # "yes"
  BY <1>7, <1>8, <1>9, <1>10, <1>11 DEF Processed, Refused, Phase
<1>12. CASE reactor.out.type = "yes"
  <2>1. /\ peer[c].at = "asked" /\ last_request_upload[c]
        /\ pTask[c] # None /\ pTask[c].req = peer[c].req
    BY <1>7, <1>12 DEF Processed
  <2>2. Handling(c)' /\ reactor'.at = "start"
    BY <1>1, <1>3, <2>1 DEF Handling
  <2>3. InFlight(down[c], 1, peer[c].req, 0)'
    BY <1>8 DEF InFlight
  <2>4. PICK req, m : req = peer[c].req /\ m = 0
    OBVIOUS
  <2>5. Flow(c, req, m)'
    BY <1>9, <2>1, <2>2, <2>4 DEF Flow
  <2>6. peer'[c].req = req /\ Len(down'[c]) - 1 = m
    BY <1>8, <1>9, <2>4
  <2> QED BY <1>8, <1>9, <1>12, <2>1, <2>3, <2>5, <2>6 DEF Accepting, Phase
<1> QED BY <1>11, <1>12

LEMMA SendFailsExchange ==
    ASSUME UploadTypes, OneExchange, NEW c \in Conn, SendReplyFails, reactor.conn = c
    PROVE  OneExchange'
<1>1. /\ UNCHANGED <<up, down, peer, last_request_upload, tasks, cut, closed, misread>>
      /\ reactor # None /\ c \in closed /\ reactor' = None
      /\ pTask' = [pTask EXCEPT ![c] = None]
      /\ pTask \in [Conn -> Pending \cup {None}]
  BY DEF SendReplyFails, peers, history, UploadTypes, ServiceTypes
<1>2. \A d \in Conn \ {c} : SameLink(d)
  <2> SUFFICES ASSUME NEW d \in Conn, d # c
               PROVE  SameLink(d)
    OBVIOUS
  <2>1. ~ Handling(d) /\ ~ Handling(d)' /\ Active(d)' = Active(d) /\ pTask'[d] = pTask[d]
    BY <1>1 DEF Handling, Active
  <2> QED BY <1>1, <2>1 DEF SameLink
<1> QED BY <1>1, <1>2, ExchangeStep

LEMMA StartExchange ==
    ASSUME UploadTypes, OneExchange, NEW c \in Conn, StartTask, reactor.conn = c
    PROVE  OneExchange'
<1> DEFINE t == pTask[c]
           new == [conn |-> c, req |-> t.req, chunk |-> t.chunk, at |-> "read", sent |-> 0]
<1>1. /\ UNCHANGED <<up, down, peer, last_request_upload, closed, misread>>
      /\ reactor # None /\ reactor.at = "start" /\ reactor' = None
      /\ pTask \in [Conn -> Pending \cup {None}]
      /\ \/ t = None /\ UNCHANGED <<pTask, tasks, cut>>
         \/ /\ t # None /\ tasks' = tasks \cup {new} /\ cut' = cut
            /\ pTask' = [pTask EXCEPT ![c] = Reset[c]]
         \/ t # None /\ cut' = cut \cup {t.req} /\ UNCHANGED <<pTask, tasks>>
  BY DEF StartTask, StartThen, peers, UploadTypes, ServiceTypes
<1>2. Reset[c] = None
  BY DEF Reset
<1>3. new.conn = c /\ new.at = "read" /\ new.req = t.req /\ new.sent = 0
  OBVIOUS
<1> HIDE DEF new
<1>4. Handling(c) /\ ~ Handling(c)'
  BY <1>1 DEF Handling
<1>5. \A d \in Conn \ {c} : SameLink(d)
  <2> SUFFICES ASSUME NEW d \in Conn, d # c
               PROVE  SameLink(d)
    OBVIOUS
  <2>1. ~ Handling(d) /\ ~ Handling(d)'
    BY <1>1 DEF Handling
  <2>2. pTask'[d] = pTask[d] /\ cut \subseteq cut'
    BY <1>1
  <2>3. Active(d)' = Active(d)
    BY <1>1, <1>3 DEF Active
  <2> QED BY <1>1, <2>1, <2>2, <2>3 DEF SameLink
<1>6. SUFFICES ASSUME c \notin misread' \cup closed'
               PROVE  Phase(c)'
  BY <1>1, <1>5, ExchangeStep
<1>7. Phase(c)
  BY <1>1, <1>6 DEF OneExchange
<1>8. CASE t = None
  <2>1. Idle(c) \/ Sent(c) \/ Refused(c)
    BY <1>1, <1>4, <1>7, <1>8 DEF Phase, Processed, Accepting, Receiving, Flow
  <2>2. Active(c)' = Active(c) /\ pTask' = pTask
    BY <1>1, <1>8 DEF Active
  <2> HIDE DEF Active, Handling
  <2> QED BY <1>1, <1>4, <2>1, <2>2 DEF Idle, Sent, Refused, Silent, Phase
<1>9. CASE t # None
  <2>1. Accepting(c) \/ Receiving(c)
    BY <1>1, <1>4, <1>7, <1>9 DEF Phase, Idle, Sent, Refused, Silent, Processed
  <2>2. ASSUME NEW req, NEW m, Flow(c, req, m)
        PROVE  Flow(c, req, m)'
    <3>1. t.req = req /\ m = 0 /\ Active(c) = {}
      BY <1>4, <2>2 DEF Flow
    <3>2. 0 < Size
      BY Constants
    <3>3. CASE tasks' = tasks \cup {new} /\ pTask' = [pTask EXCEPT ![c] = Reset[c]]
      <4>1. Active(c)' = {new}
        BY <1>3, <3>1, <3>3 DEF Active
      <4>2. pTask'[c] = None
        BY <1>1, <1>2, <3>3
      <4>3. new \in tasks'
        BY <3>3
      <4> HIDE DEF Active, Handling
      <4> QED BY <1>3, <1>4, <3>1, <3>2, <4>1, <4>2, <4>3 DEF Flow
    <3>4. CASE cut' = cut \cup {t.req} /\ UNCHANGED <<pTask, tasks>>
      <4>1. Active(c)' = {} /\ req \in cut'
        BY <3>1, <3>4 DEF Active
      <4> HIDE DEF Active, Handling
      <4> QED BY <1>4, <3>1, <3>2, <4>1 DEF Flow
    <3> QED BY <1>1, <1>9, <3>3, <3>4
  <2> HIDE DEF Flow
  <2>3. CASE Accepting(c)
    <3>1. PICK req, m : req = peer[c].req /\ m = Len(down[c]) - 1
      OBVIOUS
    <3>2. Flow(c, req, m)'
      BY <2>2, <2>3, <3>1 DEF Accepting
    <3> QED BY <1>1, <2>3, <3>1, <3>2 DEF Accepting, InFlight, Phase
  <2>4. CASE Receiving(c)
    <3>1. PICK req, m : req = peer[c].req /\ m = peer[c].got + Len(down[c])
      OBVIOUS
    <3>2. Flow(c, req, m)'
      BY <2>2, <2>4, <3>1 DEF Receiving
    <3> QED BY <1>1, <2>4, <3>1, <3>2 DEF Receiving, InFlight, Phase
  <2> QED BY <2>1, <2>3, <2>4
<1> QED BY <1>8, <1>9

-----------------------------------------------------------------------------
(* The tasks *)

\* One task changes, or goes: the others are as active as they were.
LEMMA ActiveChanges ==
    ASSUME NEW t \in tasks, NEW new, Becomes(t, new), \A x \in new : x.conn = t.conn,
           NEW c \in Conn
    PROVE  /\ c # t.conn => Active(c)' = Active(c)
           /\ c = t.conn => Active(c)' = (Active(c) \ {t}) \cup {x \in new : x.at # "end"}
BY DEF Active, Becomes

LEMMA ActivePhase ==
    ASSUME UploadTypes, NEW t \in tasks, NEW c \in Conn, t.conn = c, t.at # "end", Phase(c)
    PROVE  \E req, m :
              /\ Flow(c, req, m) /\ ~ Handling(c) /\ pTask[c] = None /\ m < Size
              /\ Active(c) = {t} /\ t.req = req /\ t.sent = m
              /\ \/ Accepting(c) /\ req = peer[c].req /\ m = Len(down[c]) - 1
                 \/ Receiving(c) /\ req = peer[c].req /\ m = peer[c].got + Len(down[c])
<1>1. t \in Active(c)
  BY DEF Active
<1> HIDE DEF Active, Handling
<1>2. Accepting(c) \/ Receiving(c)
  BY <1>1 DEF Phase, Idle, Sent, Silent, Processed, Refused
<1>3. \A req, m : Flow(c, req, m) =>
          /\ ~ Handling(c) /\ pTask[c] = None /\ m < Size
          /\ Active(c) = {t} /\ t.req = req /\ t.sent = m
  BY <1>1 DEF Flow
<1> HIDE DEF Flow
<1>4. CASE Accepting(c)
  <2>1. PICK req, m : req = peer[c].req /\ m = Len(down[c]) - 1
    OBVIOUS
  <2> QED BY <1>3, <1>4, <2>1 DEF Accepting
<1>5. CASE Receiving(c)
  <2>1. PICK req, m : req = peer[c].req /\ m = peer[c].got + Len(down[c])
    OBVIOUS
  <2> QED BY <1>3, <1>5, <2>1 DEF Receiving
<1> QED BY <1>2, <1>4, <1>5

\* The phase of a connection after its task has moved without sending.
LEMMA PhaseMoves ==
    ASSUME UploadTypes, NEW t \in tasks, NEW c \in Conn, t.conn = c, t.at # "end", Phase(c),
           up'[c] = up[c], down'[c] = down[c], peer'[c] = peer[c],
           \A req, m : /\ Flow(c, req, m) /\ ~ Handling(c) /\ pTask[c] = None /\ m < Size
                       /\ Active(c) = {t} /\ t.req = req /\ t.sent = m
                       => Flow(c, req, m)'
    PROVE  Phase(c)'
<1> HIDE DEF Active, Handling, Flow
<1>1. PICK req, m :
          /\ Flow(c, req, m)'
          /\ \/ Accepting(c) /\ req = peer[c].req /\ m = Len(down[c]) - 1
             \/ Receiving(c) /\ req = peer[c].req /\ m = peer[c].got + Len(down[c])
  BY ActivePhase
<1>2. CASE Accepting(c) /\ req = peer[c].req /\ m = Len(down[c]) - 1
  BY <1>1, <1>2 DEF Accepting, InFlight, Phase
<1>3. CASE Receiving(c) /\ req = peer[c].req /\ m = peer[c].got + Len(down[c])
  BY <1>1, <1>3 DEF Receiving, InFlight, Phase
<1> QED BY <1>1, <1>2, <1>3

LEMMA TaskMovesExchange ==
    ASSUME UploadTypes, OneExchange, NEW t \in tasks, t.at # "end",
           NEW x, Becomes(t, {x}), x.conn = t.conn, x.req = t.req, x.sent = t.sent, x.at # "end",
           UNCHANGED <<up, down, peer, pTask, last_request_upload, reactor, cut, closed, misread>>
    PROVE  OneExchange'
<1>1. PICK c \in Conn : c = t.conn
  BY DEF UploadTypes, ServiceTypes, Task
<1>2. \A d \in Conn \ {c} : SameLink(d)
  BY <1>1, ActiveChanges DEF SameLink
<1>3. SUFFICES ASSUME c \notin misread' \cup closed'
               PROVE  Phase(c)'
  BY <1>2, ExchangeStep
<1>4. Phase(c)
  BY <1>3 DEF OneExchange
<1>5. ASSUME NEW req, NEW m, ~ Handling(c) /\ pTask[c] = None /\ m < Size,
             Active(c) = {t} /\ t.req = req /\ t.sent = m
      PROVE  Flow(c, req, m)'
  <2>1. Active(c)' = {x}
    <3>1. Active(c)' = (Active(c) \ {t}) \cup {y \in {x} : y.at # "end"}
      BY <1>1, ActiveChanges
    <3> HIDE DEF Active
    <3> QED BY <1>5, <3>1
  <2>2. x \in tasks' /\ ~ Handling(c)'
    BY <1>5 DEF Becomes, Handling
  <2> HIDE DEF Active, Handling
  <2> QED BY <1>5, <2>1, <2>2 DEF Flow
<1> HIDE DEF Flow, Active, Handling
<1> QED BY <1>1, <1>4, <1>5, PhaseMoves

LEMMA TaskCutExchange ==
    ASSUME UploadTypes, OneExchange, NEW t \in tasks, t.at # "end", Becomes(t, {}),
           cut' = cut \cup {t.req},
           UNCHANGED <<up, down, peer, pTask, last_request_upload, reactor, closed, misread>>
    PROVE  OneExchange'
<1>1. PICK c \in Conn : c = t.conn
  BY DEF UploadTypes, ServiceTypes, Task
<1>2. \A d \in Conn \ {c} : SameLink(d)
  BY <1>1, ActiveChanges DEF SameLink
<1>3. SUFFICES ASSUME c \notin misread' \cup closed'
               PROVE  Phase(c)'
  BY <1>2, ExchangeStep
<1>4. Phase(c)
  BY <1>3 DEF OneExchange
<1>5. ASSUME NEW req, NEW m, ~ Handling(c) /\ pTask[c] = None /\ m < Size,
             Active(c) = {t} /\ t.req = req /\ t.sent = m
      PROVE  Flow(c, req, m)'
  <2>1. Active(c)' = {}
    <3>1. Active(c)' = (Active(c) \ {t}) \cup {y \in {} : y.at # "end"}
      BY <1>1, ActiveChanges
    <3> HIDE DEF Active
    <3> QED BY <1>5, <3>1
  <2>2. req \in cut' /\ ~ Handling(c)'
    BY <1>5 DEF Handling
  <2> HIDE DEF Active, Handling
  <2> QED BY <1>5, <2>1, <2>2 DEF Flow
<1> HIDE DEF Flow, Active, Handling
<1> QED BY <1>1, <1>4, <1>5, PhaseMoves

LEMMA TaskSendsExchange ==
    ASSUME UploadTypes, OneExchange, NEW t \in tasks, TaskSends(t)
    PROVE  OneExchange'
<1>1. PICK c \in Conn : c = t.conn
  BY DEF UploadTypes, ServiceTypes, Task
<1>2. PICK n \in Accepted(t) : SendsAs(t, n, t.sent + n)
  BY DEF TaskSends
<1> DEFINE u == Units(t, n)
           x == [t EXCEPT !.at = IF t.sent + n = Size THEN "end" ELSE "check",
                          !.sent = t.sent + n]
<1>3. /\ t.at = "send" /\ t.conn \notin closed /\ Becomes(t, {x})
      /\ UNCHANGED <<up, peer, pTask, last_request_upload, reactor, cut, closed, misread>>
      /\ down \in [Conn -> Seq(Reply \cup Data)]
      /\ down' = [down EXCEPT ![c] = down[c] \o u]
  BY <1>1, <1>2 DEF SendsAs, peers, handler, history, UploadTypes, LinkTypes
<1>4. /\ n \in Nat \ {0} /\ t.sent + n \in 0 .. Size /\ u \in Seq(Data) /\ Len(u) = n
      /\ \A i \in 1 .. n : /\ u[i].type = "data" /\ u[i].req = t.req
                           /\ u[i].unit = t.sent + i
  BY <1>2, <1>3, SendFacts
<1>5. /\ x.conn = c /\ x.req = t.req /\ x.sent = t.sent + n
      /\ x.at = IF t.sent + n = Size THEN "end" ELSE "check"
  <2>1. t \in Task
    BY DEF UploadTypes, ServiceTypes
  <2> QED BY <1>1, <2>1 DEF Task
<1> HIDE DEF u, x
<1>6. \A d \in Conn \ {c} : SameLink(d)
  <2> SUFFICES ASSUME NEW d \in Conn, d # c
               PROVE  SameLink(d)
    OBVIOUS
  <2>1. Active(d)' = Active(d)
    BY <1>1, <1>3, <1>5, ActiveChanges
  <2> HIDE DEF Active
  <2> QED BY <1>3, <2>1 DEF SameLink
<1>7. SUFFICES ASSUME c \notin misread' \cup closed'
               PROVE  Phase(c)'
  BY <1>3, <1>6, ExchangeStep
<1>8. Phase(c)
  BY <1>3, <1>7 DEF OneExchange
<1> HIDE DEF Active, Handling, Flow
<1>9. PICK req, m :
          /\ Flow(c, req, m) /\ ~ Handling(c) /\ pTask[c] = None /\ m < Size
          /\ Active(c) = {t} /\ t.req = req /\ t.sent = m
          /\ \/ Accepting(c) /\ req = peer[c].req /\ m = Len(down[c]) - 1
             \/ Receiving(c) /\ req = peer[c].req /\ m = peer[c].got + Len(down[c])
  BY <1>1, <1>3, <1>8, ActivePhase
<1>10. m \in 0 .. Size /\ Size \in Nat
  <2>1. t \in Task
    BY DEF UploadTypes, ServiceTypes
  <2>2. t.sent \in 0 .. Size
    BY <2>1 DEF Task
  <2> QED BY <1>9, <2>2, Constants
<1>11. ~ Handling(c)' /\ pTask'[c] = None
  BY <1>3, <1>9 DEF Handling
<1>12. Active(c)' = {y \in {x} : y.at # "end"}
  <2>1. Active(c)' = (Active(c) \ {t}) \cup {y \in {x} : y.at # "end"}
    BY <1>1, <1>3, <1>5, ActiveChanges
  <2> QED BY <1>9, <2>1
<1>13. PICK k : k = m + n
  OBVIOUS
<1>14. Flow(c, req, k)'
  <2>1. CASE k = Size
    <3>1. Active(c)' = {}
      BY <1>5, <1>9, <1>12, <1>13, <2>1
    <3> QED BY <1>11, <2>1, <3>1 DEF Flow
  <2>2. CASE k # Size
    <3>1. Active(c)' = {x}
      BY <1>5, <1>9, <1>12, <1>13, <2>2
    <3>2. x \in tasks' /\ k < Size /\ x.req = req /\ x.sent = k
      BY <1>3, <1>4, <1>5, <1>9, <1>10, <1>13, <2>2 DEF Becomes
    <3> QED BY <1>11, <3>1, <3>2 DEF Flow
  <2> QED BY <2>1, <2>2
<1>15. /\ down'[c] = down[c] \o u /\ u \in Seq(Reply \cup Data) /\ down[c] \in Seq(Reply \cup Data)
       /\ Len(down[c]) \in Nat /\ Len(down'[c]) = Len(down[c]) + n
       /\ \A i \in 1 .. Len(down[c]) : down'[c][i] = down[c][i]
  <2>1. u \in Seq(Reply \cup Data) /\ down[c] \in Seq(Reply \cup Data)
    BY <1>3, <1>4, SeqMonotonic
  <2>2. /\ Len(down[c] \o u) = Len(down[c]) + Len(u)
        /\ Len(down[c]) \in Nat
        /\ \A i \in 1 .. Len(down[c]) + Len(u) :
              (down[c] \o u)[i] = IF i <= Len(down[c]) THEN down[c][i] ELSE u[i - Len(down[c])]
    BY <2>1, ConcatProperties, LenProperties
  <2>3. \A i \in 1 .. Len(down[c]) : i \in 1 .. Len(down[c]) + n /\ i <= Len(down[c])
    BY <1>4, <2>2
  <2> QED BY <1>3, <1>4, <2>1, <2>2, <2>3
<1>16. CASE Accepting(c) /\ req = peer[c].req /\ m = Len(down[c]) - 1
  <2>1. InFlight(down[c] \o u, 1, req, 0)
    <3>1. \A i \in 1 .. Len(u) : /\ u[i].type = "data" /\ u[i].req = req
                                 /\ u[i].unit = 0 + Len(down[c]) - 1 + i
      <4> SUFFICES ASSUME NEW i \in 1 .. Len(u)
                   PROVE  /\ u[i].type = "data" /\ u[i].req = req
                          /\ u[i].unit = 0 + Len(down[c]) - 1 + i
        OBVIOUS
      <4>1. u[i].type = "data" /\ u[i].req = t.req /\ u[i].unit = t.sent + i
        BY <1>4
      <4>2. t.sent = Len(down[c]) - 1 /\ t.req = req
        BY <1>9, <1>16
      <4>3. i \in Nat
        BY <1>4
      <4>4. (Len(down[c]) - 1) + i = 0 + Len(down[c]) - 1 + i
        BY <1>15, <4>3
      <4> QED BY <4>1, <4>2, <4>4
    <3>2. Len(down[c]) > 0 /\ InFlight(down[c], 1, req, 0)
      BY <1>16 DEF Accepting
    <3>3. 1 <= Len(down[c]) /\ 1 \in {0, 1} /\ 0 \in Nat
      BY <1>15, <3>2
    <3> HIDE DEF InFlight
    <3> QED BY <1>15, <3>1, <3>2, <3>3, InFlightGrows
  <2>2. 1 \in 1 .. Len(down[c]) /\ Len(down'[c]) > 0 /\ Len(down'[c]) - 1 = k
    <3>1. Len(down[c]) > 0
      BY <1>16 DEF Accepting
    <3>2. PICK l \in Nat : l = Len(down[c])
      BY <1>15
    <3>3. PICK h : h = Len(down'[c])
      OBVIOUS
    <3>4. l > 0 /\ h = l + n /\ k = (l - 1) + n /\ n \in Nat
      BY <1>4, <1>13, <1>15, <1>16, <3>1, <3>2, <3>3
    <3>5. 1 \in 1 .. l /\ h > 0 /\ h - 1 = k
      BY <3>2, <3>4
    <3> QED BY <3>2, <3>3, <3>5
  <2>3. down'[c][1].type = "yes"
    BY <1>15, <1>16, <2>2 DEF Accepting
  <2>4. InFlight(down[c], 1, peer[c].req, 0)'
    BY <1>3, <1>15, <1>16, <2>1 DEF InFlight
  <2> QED BY <1>3, <1>14, <1>16, <2>2, <2>3, <2>4 DEF Accepting, Phase
<1>17. CASE Receiving(c) /\ req = peer[c].req /\ m = peer[c].got + Len(down[c])
  <2>1. peer[c].got \in Nat
    BY DEF UploadTypes, PeerTypes
  <2>2. InFlight(down[c] \o u, 0, req, peer[c].got)
    <3>1. \A i \in 1 .. Len(u) : /\ u[i].type = "data" /\ u[i].req = req
                                 /\ u[i].unit = peer[c].got + Len(down[c]) - 0 + i
      <4> SUFFICES ASSUME NEW i \in 1 .. Len(u)
                   PROVE  /\ u[i].type = "data" /\ u[i].req = req
                          /\ u[i].unit = peer[c].got + Len(down[c]) - 0 + i
        OBVIOUS
      <4>1. u[i].type = "data" /\ u[i].req = t.req /\ u[i].unit = t.sent + i
        BY <1>4
      <4>2. t.sent = peer[c].got + Len(down[c]) /\ t.req = req
        BY <1>9, <1>17
      <4>3. i \in Nat
        BY <1>4
      <4>4. (peer[c].got + Len(down[c])) + i = peer[c].got + Len(down[c]) - 0 + i
        BY <1>15, <2>1, <4>3
      <4> QED BY <4>1, <4>2, <4>4
    <3>2. InFlight(down[c], 0, req, peer[c].got) /\ 0 <= Len(down[c])
      BY <1>15, <1>17 DEF Receiving
    <3> QED BY <1>15, <2>1, <3>1, <3>2, InFlightGrows
  <2>3. peer[c].got + Len(down'[c]) = k
    BY <1>4, <1>13, <1>15, <1>17, <2>1
  <2>4. InFlight(down[c], 0, peer[c].req, peer[c].got)'
    BY <1>3, <1>15, <1>17, <2>2 DEF InFlight
  <2> QED BY <1>3, <1>14, <1>17, <2>3, <2>4 DEF Receiving, Phase
<1> QED BY <1>9, <1>16, <1>17

LEMMA TaskExchange ==
    ASSUME UploadTypes, OneExchange, NEW t \in tasks, TaskStep(t)
    PROVE  OneExchange'
<1>1. t \in Task
  BY DEF UploadTypes, ServiceTypes
<1>2. CASE TaskReads(t)
  <2> DEFINE x == [t EXCEPT !.at = "check"]
  <2>1. Becomes(t, {x}) /\ t.at # "end"
        /\ UNCHANGED <<up, down, peer, pTask, last_request_upload, reactor, cut, closed, misread>>
    BY <1>2 DEF TaskReads, peers, handler, history
  <2>2. x.conn = t.conn /\ x.req = t.req /\ x.sent = t.sent /\ x.at # "end"
    BY <1>1 DEF Task
  <2> HIDE DEF x
  <2> QED BY <2>1, <2>2, TaskMovesExchange
<1>3. CASE TaskChecks(t)
  <2> DEFINE x == [t EXCEPT !.at = "send"]
  <2>1. /\ t.at # "end"
        /\ UNCHANGED <<up, down, peer, pTask, last_request_upload, reactor, closed, misread>>
        /\ \/ Becomes(t, {x}) /\ UNCHANGED cut
           \/ Becomes(t, {}) /\ cut' = cut \cup {t.req}
    BY <1>3 DEF TaskChecks, peers, handler, history
  <2>2. x.conn = t.conn /\ x.req = t.req /\ x.sent = t.sent /\ x.at # "end"
    BY <1>1 DEF Task
  <2> HIDE DEF x
  <2> QED BY <2>1, <2>2, TaskMovesExchange, TaskCutExchange
<1>4. CASE TaskSends(t)
  BY <1>4, TaskSendsExchange
<1>5. CASE TaskSendFails(t)
  <2>1. CASE Becomes(t, {}) /\ UNCHANGED <<job, up, down, closed, peer, reactor, handlers>>
    <3>1. t.at # "end" /\ cut' = cut \cup {t.req}
          /\ UNCHANGED <<pTask, last_request_upload, misread>>
      BY <1>5 DEF TaskSendFails
    <3> QED BY <2>1, <3>1, TaskCutExchange
  <2>2. CASE ProgramEnds
    BY <2>2 DEF ProgramEnds, OneExchange
  <2> QED BY <1>5, <2>1, <2>2 DEF TaskSendFails
<1>6. CASE TaskEnds(t)
  <2>1. /\ t.at = "end" /\ tasks' = tasks \ {t}
        /\ UNCHANGED <<up, down, peer, pTask, last_request_upload, reactor, cut, closed, misread>>
    BY <1>6 DEF TaskEnds, Becomes, peers, handler, history
  <2>2. \A c \in Conn : Active(c)' = Active(c)
    BY <2>1 DEF Active
  <2> HIDE DEF Active
  <2>3. \A c \in Conn : SameLink(c)
    BY <2>1, <2>2 DEF SameLink
  <2> QED BY <2>1, <2>3, ExchangeStays
<1> QED BY <1>2, <1>3, <1>4, <1>5, <1>6 DEF TaskStep

LEMMA NextExchange ==
    ASSUME UploadTypes, OneExchange, [Next]_vars
    PROVE  OneExchange'
<1>0. ASSUME UNCHANGED <<up, down, peer, pTask, last_request_upload, reactor, tasks, cut,
                         closed, misread>>
      PROVE  OneExchange'
  <2>1. \A c \in Conn : Active(c)' = Active(c)
    BY <1>0 DEF Active
  <2> HIDE DEF Active
  <2>2. \A c \in Conn : SameLink(c)
    BY <1>0, <2>1 DEF SameLink
  <2> QED BY <1>0, <2>2, ExchangeStays
<1>1. CASE UNCHANGED vars
  BY <1>0, <1>1 DEF vars, store, peers, handler, service, history
<1>2. ASSUME NEW k \in Chunk, WriteChunk(k) \/ MarkChunk(k)
      PROVE  OneExchange'
  BY <1>0, <1>2 DEF WriteChunk, MarkChunk, MarkFrom, peers, service, handler, history
<1>3. CASE Command
  BY <1>0, <1>3 DEF Command, peers, service, handler, history
<1>4. ASSUME NEW c \in Conn, PeerStep(c) \/ PeerRequests(c) \/ PeerStops(c) \/ PeerLeaves(c)
      PROVE  OneExchange'
  <2>1. CASE PeerStops(c) \/ PeerLeaves(c)
    <3>1. c \in misread' \cup closed'
      BY <2>1 DEF PeerStops, PeerLeaves
    <3> QED BY <1>4, <3>1, PeerFrame, ExchangeStep
  <2> QED BY <1>4, <2>1, PeerAsksExchange, PeerHearsExchange DEF PeerStep
<1>5. CASE ReactorStep
  <2>1. ASSUME NEW c \in Conn, HandlerGone(c)
        PROVE  OneExchange'
    BY <1>0, <2>1 DEF HandlerGone, peers, history
  <2>2. CASE SendReply \/ SendReplyFails \/ StartTask
    <3>1. reactor \in Handled
      BY <2>2 DEF SendReply, SendReplyFails, StartTask, StartThen, UploadTypes, ServiceTypes
    <3>2. PICK c \in Conn : reactor.conn = c
      BY <3>1 DEF Handled
    <3> QED BY <2>2, <3>2, SendReplyExchange, SendFailsExchange, StartExchange
  <2> QED BY <1>5, <2>1, <2>2, ReadableExchange DEF ReactorStep
<1>6. ASSUME NEW t \in tasks, TaskStep(t)
      PROVE  OneExchange'
  BY <1>6, TaskExchange
<1> QED BY <1>1, <1>2, <1>3, <1>4, <1>5, <1>6 DEF Next

-----------------------------------------------------------------------------
(* What the project's runs check, for all connections, chunks and bounds *)

UploadInv == UploadTypes /\ Owned /\ Once /\ OneExchange

THEOREM UploadInvariant == Spec => []UploadInv
<1>1. Init => UploadInv
  BY InitTypes, InitOwned, InitOnce, InitExchange DEF UploadInv
<1>2. UploadInv /\ [Next]_vars => UploadInv'
  BY NextTypes, NextOwned, NextOnce, NextExchange DEF UploadInv
<1> QED BY <1>1, <1>2, PTL DEF Spec

\* All variables keep their types, no connection holds more than there is room
\* for, and no more tasks run than there are threads.
THEOREM TypeCorrect == Spec => []TypeOK
<1>1. ASSUME UploadTypes
      PROVE  TypeOK
  <2>1. \A c \in Conn : Range(up[c]) \subseteq Asked
    BY <1>1, RangeOfSeq DEF UploadTypes, LinkTypes
  <2>2. \A c \in Conn : Len(down[c]) <= Cap
    BY <1>1 DEF UploadTypes, LinkTypes
  <2>3. \A t \in tasks : t \in Task
    BY <1>1 DEF UploadTypes, ServiceTypes
  <2> QED BY <1>1, <2>1, <2>2, <2>3 DEF TypeOK, UploadTypes, StoreTypes, LinkTypes, PeerTypes,
            ServiceTypes, HistoryTypes, Asked, Pending, Task
<1>2. UploadInv => TypeOK
  BY <1>1 DEF UploadInv
<1> QED BY <1>2, UploadInvariant, PTL

\* A chunk is only read from the file when its bytes are there.
THEOREM OwnedServed == Spec => []ServedOwned
<1>1. UploadInv => ServedOwned
  BY DEF UploadInv, Owned, ServedOwned
<1> QED BY <1>1, UploadInvariant, PTL

\* A request is served at most once and only if it was accepted.
THEOREM ServedOnce == Spec => []StartedOnce
<1>1. UploadInv => StartedOnce
  BY DEF UploadInv, Once
<1> QED BY <1>1, UploadInvariant, PTL

\* A peer that receives a chunk gets its units in order, with nothing between.
THEOREM ChunksInOrder == Spec => []NoGap
<1>1. ASSUME UploadTypes, OneExchange, NEW c \in Conn \ (misread \cup closed),
             peer[c].at \in {"check", "receive"}
      PROVE  LET p == peer[c]
                 n == Len(down[c])
             IN  /\ \A i \in 1 .. n : /\ down[c][i].type = "data"
                                      /\ down[c][i].req = p.req
                                      /\ down[c][i].unit = p.got + i
                 /\ \/ p.got + n = Size
                    \/ p.req \in cut
                    \/ \E t \in tasks : t.req = p.req /\ t.conn = c /\ t.sent = p.got + n
                    \/ reactor # None /\ reactor.conn = c /\ reactor.at = "start"
                          /\ pTask[c] # None /\ pTask[c].req = p.req
  <2> DEFINE p == peer[c]
             n == Len(down[c])
  <2>1. Receiving(c)
    BY <1>1 DEF OneExchange, Phase, Idle, Sent, Processed, Refused, Accepting
  <2>2. n \in Nat /\ p.got \in Nat
    BY <1>1, LenProperties DEF UploadTypes, LinkTypes, PeerTypes
  <2>3. \A i \in 1 .. n : /\ down[c][i].type = "data" /\ down[c][i].req = p.req
                          /\ down[c][i].unit = p.got + i
    BY <2>1, <2>2 DEF Receiving, InFlight
  <2>4. \/ p.got + n = Size
        \/ p.req \in cut
        \/ \E t \in tasks : t.req = p.req /\ t.conn = c /\ t.sent = p.got + n
        \/ reactor # None /\ reactor.conn = c /\ reactor.at = "start"
              /\ pTask[c] # None /\ pTask[c].req = p.req
    BY <2>1 DEF Receiving, Flow, Active, Handling
  <2> QED BY <2>3, <2>4
<1>2. UploadInv => NoGap
  BY <1>1 DEF UploadInv, NoGap
<1> QED BY <1>2, UploadInvariant, PTL

=============================================================================
