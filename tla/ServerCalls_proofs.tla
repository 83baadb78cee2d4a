------------------------ MODULE ServerCalls_proofs --------------------------
(***************************************************************************)
(* Theorems about the calls to the two servers, for any threads and any    *)
(* number of calls, lost connections and short receives: the mutex and the *)
(* one request at a time it allows make sure that a call to the tracker    *)
(* never takes the reply to another.  And about the progress that some of  *)
(* these calls report, for any jobs, sizes, periods and failures: no byte  *)
(* is counted twice, and what the tracker is told is never more than what  *)
(* we have and never goes back.                                            *)
(***************************************************************************)
EXTENDS ServerCalls, Progress, SequenceTheorems, TLAPS

Request == [call : Call, kind : Kind]

Outcome == [call : Call, kind : Kind, result : {"ok", "error", "thrown"},
            reply : Call \cup {0}, refused : BOOLEAN]

\* The types, by what changes together.
ConnTypes ==
    /\ sock \in [Server -> {"null", "open", "closed"}]
    /\ asked \in [Server -> Seq(Request)]
    /\ stream \in [Server -> Seq(Reply)]

CallerTypes ==
    /\ pc \in [Caller -> {"idle", "lock", "get", "take", "send", "receive"}]
    /\ call \in [Caller -> Call \cup {0}]
    /\ kind \in [Caller -> Kind]
    /\ \A t \in Caller : pc[t] # "idle" => call[t] \in Call

Bounds == calls \in 0 .. MaxCalls /\ faults \in 0 .. MaxFaults /\ shorts \in 0 .. MaxShort

\* A thread that uses the connection to the tracker.
AtTracker(t) == pc[t] \in {"take", "send", "receive"} /\ kind[t] # "resource"

\* Only the owner of the mutex does, and the owner does nothing else; a
\* thread that waits for the mutex calls the tracker, one that gets the other
\* socket calls the resource server.
LockHeld ==
    /\ lock \in Caller \cup {None}
    /\ \A t \in Caller : AtTracker(t) <=> lock = t
    /\ \A t \in Caller : (pc[t] = "lock" => kind[t] # "resource")
                         /\ (pc[t] = "get" => kind[t] = "resource")

\* Until a reply comes in pieces, what is on its way to the tracker or from
\* it is the request of the owner of the mutex, or the whole reply to it.
OneRequest ==
    shorts = 0 =>
        \/ asked["tracker"] = <<>> /\ stream["tracker"] = <<>>
        \/ /\ lock # None /\ pc[lock] = "receive"
           /\ \/ /\ Len(asked["tracker"]) = 1 /\ stream["tracker"] = <<>>
                 /\ asked["tracker"][1].call = call[lock]
              \/ /\ Len(stream["tracker"]) = 1 /\ asked["tracker"] = <<>>
                 /\ stream["tracker"][1].call = call[lock]
                 /\ stream["tracker"][1].part = "whole"

\* Nothing comes from a connection that is lost.
LostIsEmpty == \A s \in Server : sock[s] # "open" => asked[s] = <<>> /\ stream[s] = <<>>

CallsInv ==
    /\ ConnTypes /\ CallerTypes /\ Bounds /\ results \subseteq Outcome
    /\ LockHeld /\ OneRequest /\ LostIsEmpty /\ ReplyBelongs /\ RefusalSeen

LEMMA InvTypes == CallsInv => TypeOK
<1> SUFFICES ASSUME CallsInv PROVE TypeOK
  OBVIOUS
<1>1. lock # None => pc[lock] \in {"take", "send", "receive"} /\ kind[lock] # "resource"
  BY DEF CallsInv, LockHeld, AtTracker
<1>2. None \notin Caller
  BY CallsAssumption
<1> QED BY <1>1, <1>2 DEF CallsInv, ConnTypes, CallerTypes, Bounds, LockHeld, TypeOK, Request, Outcome

-----------------------------------------------------------------------------
LEMMA InitHolds == Init => CallsInv
<1> SUFFICES ASSUME Init PROVE CallsInv
  OBVIOUS
<1>1. ConnTypes
  BY EmptySeq DEF Init, ConnTypes
<1>2. CallerTypes /\ Bounds
  BY CallsAssumption DEF Init, CallerTypes, Bounds, Kind
<1>3. LockHeld
  BY CallsAssumption DEF Init, LockHeld, AtTracker
<1>4. OneRequest /\ LostIsEmpty /\ ReplyBelongs /\ RefusalSeen /\ results \subseteq Outcome
  BY DEF Init, OneRequest, LostIsEmpty, ReplyBelongs, RefusalSeen, Server
<1> QED BY <1>1, <1>2, <1>3, <1>4 DEF CallsInv

\* A call returns: what its thread and the mutex are then, when the outcome
\* it adds is one that may be.
LEMMA ReturnKeeps ==
    ASSUME CallsInv, NEW t \in Caller,
           NEW result \in {"ok", "error", "thrown"}, NEW reply \in Call \cup {0},
           NEW refused \in BOOLEAN,
           pc[t] # "idle",
           Return(t, result, reply, refused),
           shorts' = 0 => shorts = 0,
           shorts' = 0 /\ kind[t] # "resource" => reply \in {0, call[t]},
           kind[t] = "query" /\ refused => result # "ok"
    PROVE  /\ CallerTypes' /\ LockHeld' /\ results' \subseteq Outcome
           /\ ReplyBelongs' /\ RefusalSeen'
<1> DEFINE o == [call |-> call[t], kind |-> kind[t], result |-> result, reply |-> reply,
                 refused |-> refused]
<1>1. /\ results' = results \cup {o} /\ call' = call /\ kind' = kind
      /\ pc' = [pc EXCEPT ![t] = "idle"]
      /\ lock' = IF lock = t THEN None ELSE lock
  BY DEF Return, ReturnWith, Goto
<1>2. CallerTypes'
  BY <1>1 DEF CallsInv, CallerTypes
<1>3. o \in Outcome /\ o.kind = kind[t] /\ o.call = call[t] /\ o.reply = reply /\ o.refused = refused
        /\ o.result = result
  BY DEF CallsInv, CallerTypes, Outcome
<1> HIDE DEF o
<1>4. results' \subseteq Outcome
  BY <1>1, <1>3 DEF CallsInv
<1>5. LockHeld'
  <2>1. pc \in [Caller -> {"idle", "lock", "get", "take", "send", "receive"}] /\ None \notin Caller
    BY CallsAssumption DEF CallsInv, CallerTypes
  <2>2. \A u \in Caller : AtTracker(u)' <=> (AtTracker(u) /\ u # t)
    BY <1>1, <2>1 DEF AtTracker
  <2> QED BY <1>1, <2>1, <2>2 DEF CallsInv, LockHeld
<1>6. ReplyBelongs' /\ RefusalSeen'
  BY <1>1, <1>3 DEF CallsInv, ReplyBelongs, RefusalSeen
<1> QED BY <1>2, <1>4, <1>5, <1>6

\* It returns without having looked at a reply.
LEMMA FailsKeeps ==
    ASSUME CallsInv, NEW t \in Caller, NEW how \in SUBSET {"ok", "error", "thrown"},
           pc[t] # "idle", Fails(t, how), shorts' = 0 => shorts = 0
    PROVE  /\ CallerTypes' /\ LockHeld' /\ results' \subseteq Outcome
           /\ ReplyBelongs' /\ RefusalSeen'
<1> PICK r \in how : Return(t, r, 0, FALSE)
  BY DEF Fails
<1> QED BY ReturnKeeps

\* The connections stay as they are.
LEMMA ConnsStay ==
    ASSUME CallsInv, UNCHANGED conns
    PROVE  ConnTypes' /\ LostIsEmpty'
BY DEF CallsInv, ConnTypes, LostIsEmpty, conns

\* And the owner of the mutex still waits for the same reply, or nothing is
\* on its way.
LEMMA RequestStays ==
    ASSUME CallsInv,
           asked'["tracker"] = asked["tracker"], stream'["tracker"] = stream["tracker"],
           shorts' = shorts,
           \/ asked["tracker"] = <<>> /\ stream["tracker"] = <<>>
           \/ lock # None /\ pc[lock] # "receive"
           \/ lock' = lock /\ lock # None /\ pc'[lock] = pc[lock] /\ call'[lock] = call[lock]
           \/ lock = None
    PROVE  OneRequest'
BY DEF CallsInv, OneRequest

\* How a thread that has not returned leaves the results.
LEMMA ResultsStay ==
    ASSUME CallsInv, results' = results, shorts' = shorts
    PROVE  results' \subseteq Outcome /\ ReplyBelongs' /\ RefusalSeen'
BY DEF CallsInv, ReplyBelongs, RefusalSeen

-----------------------------------------------------------------------------
LEMMA BeginStep ==
    ASSUME CallsInv, NEW t \in Caller, CallTracker(t) \/ CallResource(t)
    PROVE  CallsInv'
<1>1. PICK k \in Kind, l \in {"lock", "get", "take"} :
        Begin(t, k, l) /\ (l = "lock" <=> k # "resource")
  BY DEF CallTracker, CallResource, Kind
<1>2. /\ pc[t] = "idle" /\ calls < MaxCalls /\ calls' = calls + 1
      /\ call' = [call EXCEPT ![t] = calls + 1] /\ kind' = [kind EXCEPT ![t] = k]
      /\ pc' = [pc EXCEPT ![t] = l]
      /\ UNCHANGED <<conns, lock, results, faults, shorts>>
  BY <1>1 DEF Begin, Goto
<1>3. /\ pc \in [Caller -> {"idle", "lock", "get", "take", "send", "receive"}]
      /\ call \in [Caller -> Call \cup {0}] /\ kind \in [Caller -> Kind] /\ None \notin Caller
  BY CallsAssumption DEF CallsInv, CallerTypes
<1>4. calls + 1 \in Call /\ calls' \in 0 .. MaxCalls
  BY <1>2, CallsAssumption DEF CallsInv, Bounds, Call
<1>5. CallerTypes' /\ Bounds'
  BY <1>2, <1>3, <1>4 DEF CallsInv, CallerTypes, Bounds
<1>6. ConnTypes' /\ LostIsEmpty'
  BY <1>2, ConnsStay
<1>7. ~ AtTracker(t) /\ ~ AtTracker(t)'
  BY <1>1, <1>2, <1>3 DEF AtTracker
<1>8. LockHeld'
  <2>1. \A u \in Caller : AtTracker(u)' <=> AtTracker(u)
    BY <1>2, <1>3, <1>7 DEF AtTracker
  <2> QED BY <1>1, <1>2, <1>3, <2>1 DEF CallsInv, LockHeld
<1>9. OneRequest'
  <2>1. lock # t
    BY <1>7 DEF CallsInv, LockHeld
  <2> QED BY <1>2, <1>3, <2>1, RequestStays DEF conns, CallsInv, LockHeld
<1>10. results' \subseteq Outcome /\ ReplyBelongs' /\ RefusalSeen'
  BY <1>2, ResultsStay
<1> QED BY <1>5, <1>6, <1>8, <1>9, <1>10 DEF CallsInv

LEMMA LockStep ==
    ASSUME CallsInv, NEW t \in Caller, LockTracker(t)
    PROVE  CallsInv'
<1>1. /\ pc[t] = "lock" /\ lock = None /\ lock' = t
      /\ pc' = [pc EXCEPT ![t] = "take"]
      /\ UNCHANGED <<conns, call, kind, results, calls, faults, shorts>>
  BY DEF LockTracker, Goto
<1>2. /\ pc \in [Caller -> {"idle", "lock", "get", "take", "send", "receive"}] /\ None \notin Caller
  BY CallsAssumption DEF CallsInv, CallerTypes
<1>3. CallerTypes' /\ Bounds'
  BY <1>1, <1>2 DEF CallsInv, CallerTypes, Bounds
<1>4. LockHeld'
  <2>1. \A u \in Caller : AtTracker(u)' <=> u = t
    BY <1>1, <1>2 DEF CallsInv, LockHeld, AtTracker
  <2> QED BY <1>1, <1>2, <2>1 DEF CallsInv, LockHeld
<1>5. OneRequest'
  BY <1>1, RequestStays DEF conns
<1> QED BY <1>1, <1>3, <1>4, <1>5, ConnsStay, ResultsStay DEF CallsInv

\* A thread that goes on to use its socket.
LEMMA MovesOn ==
    ASSUME CallsInv, NEW t \in Caller, NEW l \in {"send", "receive"},
           pc[t] \in {"get", "take", "send"},
           pc' = [pc EXCEPT ![t] = l],
           UNCHANGED <<lock, call, kind, results, shorts>>
    PROVE  CallerTypes' /\ LockHeld' /\ results' \subseteq Outcome
           /\ ReplyBelongs' /\ RefusalSeen'
<1>1. pc \in [Caller -> {"idle", "lock", "get", "take", "send", "receive"}]
  BY DEF CallsInv, CallerTypes
<1>2. CallerTypes'
  BY <1>1 DEF CallsInv, CallerTypes
<1>3. LockHeld'
  <2>1. \A u \in Caller : AtTracker(u)' <=> AtTracker(u)
    BY <1>1 DEF CallsInv, LockHeld, AtTracker
  <2> QED BY <1>1, <2>1 DEF CallsInv, LockHeld
<1> QED BY <1>2, <1>3, ResultsStay

\* A thread finds its socket, or none, or makes one.
LEMMA SockStep ==
    ASSUME CallsInv, NEW t \in Caller, TakeSock(t) \/ GetResourceServerSock(t)
    PROVE  CallsInv'
<1>1. /\ pc[t] \in {"take", "get"} /\ asked' = asked /\ stream' = stream /\ shorts' = shorts
      /\ calls' = calls
      /\ sock' = sock \/ (sock["resource"] = "null" /\ sock' = [sock EXCEPT !["resource"] = "open"])
      /\ faults' = faults \/ (faults < MaxFaults /\ faults' = faults + 1)
  BY DEF TakeSock, GetResourceServerSock, conns, Fails, Return, ReturnWith
<1>2. \/ pc' = [pc EXCEPT ![t] = "send"] /\ UNCHANGED <<lock, call, kind, results>>
      \/ \E how \in SUBSET {"ok", "error", "thrown"} : Fails(t, how)
  <2>1. ASSUME NEW how \in SUBSET {"ok", "error", "thrown"}, Fails(t, how)
        PROVE  \E h \in SUBSET {"ok", "error", "thrown"} : Fails(t, h)
    BY <2>1
  <2>2. CASE TakeSock(t)
    <3>1. CASE kind[t] = "resource"
      BY <2>1, <2>2, <3>1 DEF TakeSock, Goto
    <3>2. CASE kind[t] # "resource"
      BY <2>1, <2>2, <3>2 DEF TakeSock, Goto
    <3> QED BY <3>1, <3>2
  <2>3. CASE GetResourceServerSock(t)
    BY <2>1, <2>3 DEF GetResourceServerSock, Goto
  <2> QED BY <2>2, <2>3
<1>3. CallerTypes' /\ LockHeld' /\ results' \subseteq Outcome /\ ReplyBelongs' /\ RefusalSeen'
  <2>1. CASE pc' = [pc EXCEPT ![t] = "send"] /\ UNCHANGED <<lock, call, kind, results>>
    BY <1>1, <2>1, MovesOn
  <2>2. CASE \E how \in SUBSET {"ok", "error", "thrown"} : Fails(t, how)
    BY <1>1, <2>2, FailsKeeps
  <2> QED BY <1>2, <2>1, <2>2
<1>4. Bounds'
  <2>1. MaxFaults \in Nat
    BY CallsAssumption
  <2> QED BY <1>1, <2>1 DEF CallsInv, Bounds
<1>5. ConnTypes' /\ LostIsEmpty'
  BY <1>1 DEF CallsInv, ConnTypes, LostIsEmpty, Server
<1>6. OneRequest'
  <2>1. CASE lock = t
    <3>1. None # t
      BY CallsAssumption
    <3> QED BY <1>1, <2>1, <3>1, RequestStays
  <2>2. CASE lock # t
    <3>1. lock' = lock /\ call' = call
      BY <1>2, <2>2 DEF Fails, Return, ReturnWith
    <3>2. \A u \in Caller \ {t} : pc'[u] = pc[u]
      BY <1>2 DEF Fails, Return, ReturnWith, Goto, CallsInv, CallerTypes
    <3> QED BY <1>1, <2>2, <3>1, <3>2, RequestStays DEF CallsInv, LockHeld
  <2> QED BY <2>1, <2>2
<1> QED BY <1>3, <1>4, <1>5, <1>6 DEF CallsInv

\* A request is sent: the only one on its way to the tracker.
LEMMA SendStep ==
    ASSUME CallsInv, NEW t \in Caller, SendRequest(t)
    PROVE  CallsInv'
<1> DEFINE s == ToServer(kind[t])
           m == [call |-> call[t], kind |-> kind[t]]
<1>1. /\ pc[t] = "send" /\ sock' = sock /\ stream' = stream
      /\ UNCHANGED <<calls, faults, shorts>>
  BY DEF SendRequest, Fails, Return, ReturnWith
<1>2. \/ /\ asked' = [asked EXCEPT ![s] = IF sock[s] = "open" THEN Append(@, m) ELSE @]
         /\ pc' = [pc EXCEPT ![t] = "receive"]
         /\ UNCHANGED <<lock, call, kind, results>>
      \/ asked' = asked /\ Fails(t, {"error", "thrown"})
  BY DEF SendRequest, Goto
<1>3. /\ s \in Server /\ (s = "tracker" <=> kind[t] # "resource")
      /\ m \in Request /\ m.call = call[t]
  BY <1>1 DEF CallsInv, CallerTypes, ToServer, Server, Request
<1> HIDE DEF s, m
<1>4. /\ asked \in [Server -> Seq(Request)] /\ Append(asked[s], m) \in Seq(Request)
      /\ asked[s] = <<>> => Len(Append(asked[s], m)) = 1 /\ Append(asked[s], m)[1] = m
  BY <1>3, AppendProperties DEF CallsInv, ConnTypes
<1>5. CallerTypes' /\ Bounds' /\ LockHeld' /\ results' \subseteq Outcome /\ ReplyBelongs' /\ RefusalSeen'
  <2>1. Bounds'
    BY <1>1 DEF CallsInv, Bounds
  <2> QED BY <1>1, <1>2, <2>1, MovesOn, FailsKeeps
<1>6. ConnTypes' /\ LostIsEmpty'
  <2>1. asked' \in [Server -> Seq(Request)]
    BY <1>2, <1>4
  <2>2. \A z \in Server : sock[z] # "open" => asked'[z] = asked[z]
    BY <1>2, <1>3, <1>4
  <2> QED BY <1>1, <2>1, <2>2 DEF CallsInv, ConnTypes, LostIsEmpty
<1>7. OneRequest'
  <2>1. "tracker" \in Server
    BY DEF Server
  <2>2. CASE lock = t
    <3>1. t # None /\ AtTracker(t) /\ pc[t] # "receive"
      BY <1>1, <2>2, CallsAssumption DEF CallsInv, LockHeld
    <3>2. s = "tracker"
      BY <1>3, <3>1 DEF AtTracker
    <3>3. CASE asked' = asked
      BY <1>1, <2>2, <3>1, <3>3, RequestStays
    <3>4. CASE asked' # asked
      <4>1. asked'["tracker"] = Append(asked[s], m) /\ lock' = t /\ pc'[t] = "receive" /\ call' = call
        BY <1>2, <1>4, <2>1, <2>2, <3>2, <3>4 DEF CallsInv, CallerTypes
      <4> QED BY <1>1, <1>3, <1>4, <2>2, <3>1, <3>2, <4>1 DEF CallsInv, OneRequest
    <3> QED BY <3>3, <3>4
  <2>3. CASE lock # t
    <3>1. s # "tracker"
      BY <1>1, <1>3, <2>3 DEF CallsInv, LockHeld, AtTracker
    <3>2. asked'["tracker"] = asked["tracker"]
      BY <1>2, <1>4, <2>1, <3>1
    <3>3. lock' = lock /\ call' = call
      BY <1>2, <2>3 DEF Fails, Return, ReturnWith
    <3>4. \A u \in Caller \ {t} : pc'[u] = pc[u]
      BY <1>2 DEF Fails, Return, ReturnWith, Goto, CallsInv, CallerTypes
    <3> QED BY <1>1, <2>3, <3>2, <3>3, <3>4, RequestStays DEF CallsInv, LockHeld
  <2> QED BY <2>2, <2>3
<1> QED BY <1>5, <1>6, <1>7 DEF CallsInv

\* A whole reply is received: with the mutex, the reply to this call.
LEMMA ReplyStep ==
    ASSUME CallsInv, NEW t \in Caller, ReceiveReply(t)
    PROVE  CallsInv'
<1> DEFINE s == ToServer(kind[t])
           head == Head(stream[s])
<1>1. /\ pc[t] = "receive" /\ stream[s] # <<>>
      /\ Return(t, Judge(kind[t], head), head.call, head.refused)
      /\ stream' = [stream EXCEPT ![s] = Tail(@)]
      /\ UNCHANGED <<sock, asked, faults, shorts>>
  BY DEF ReceiveReply
<1>2. s \in Server /\ (s = "tracker" <=> kind[t] # "resource")
  BY DEF CallsInv, CallerTypes, ToServer, Server
<1>3. stream \in [Server -> Seq(Reply)]
  BY DEF CallsInv, ConnTypes
<1> HIDE DEF s
<1>4. /\ head \in Reply /\ Tail(stream[s]) \in Seq(Reply) /\ head = stream[s][1]
      /\ Len(stream[s]) = 1 => Tail(stream[s]) = <<>>
  BY <1>1, <1>2, <1>3, HeadTailProperties, EmptySeq
<1> HIDE DEF head
<1>5. head.call \in Call /\ head.refused \in BOOLEAN
  BY <1>4 DEF Reply
<1>6. shorts = 0 /\ kind[t] # "resource" =>
        /\ lock = t /\ Len(stream["tracker"]) = 1 /\ asked["tracker"] = <<>>
        /\ head.call = call[t]
  BY <1>1, <1>2, <1>4 DEF CallsInv, LockHeld, AtTracker, OneRequest
<1>7. /\ Judge(kind[t], head) \in {"ok", "error", "thrown"}
      /\ kind[t] = "query" /\ head.refused => Judge(kind[t], head) # "ok"
  BY DEF Judge
<1>8. CallerTypes' /\ LockHeld' /\ results' \subseteq Outcome /\ ReplyBelongs' /\ RefusalSeen'
  BY <1>1, <1>5, <1>6, <1>7, ReturnKeeps
<1>9. Bounds' /\ calls' = calls
  BY <1>1 DEF CallsInv, Bounds, Return, ReturnWith
<1>10. ConnTypes' /\ LostIsEmpty'
  BY <1>1, <1>2, <1>3, <1>4 DEF CallsInv, ConnTypes, LostIsEmpty
<1>11. OneRequest'
  <2>1. "tracker" \in Server
    BY DEF Server
  <2>2. CASE kind[t] # "resource"
    BY <1>1, <1>2, <1>3, <1>4, <1>6, <2>1, <2>2 DEF OneRequest
  <2>3. CASE kind[t] = "resource"
    <3>1. stream'["tracker"] = stream["tracker"] /\ lock # t
      BY <1>1, <1>2, <1>3, <2>1, <2>3 DEF CallsInv, LockHeld, AtTracker
    <3>2. /\ lock' = lock /\ call' = call /\ \A u \in Caller \ {t} : pc'[u] = pc[u]
      BY <1>1, <3>1 DEF Return, ReturnWith, Goto, CallsInv, CallerTypes
    <3> QED BY <1>1, <3>1, <3>2, RequestStays DEF CallsInv, LockHeld
  <2> QED BY <2>2, <2>3
<1> QED BY <1>8, <1>9, <1>10, <1>11 DEF CallsInv

\* The connection is lost, or a reply does not come whole.
LEMMA ReceiveFailsStep ==
    ASSUME CallsInv, NEW t \in Caller,
           ReceiveShort(t) \/ ReceiveGarbage(t) \/ ReceiveClosed(t)
    PROVE  CallsInv'
<1>1. /\ pc[t] = "receive" /\ UNCHANGED <<sock, asked, faults, calls>>
      /\ shorts' = shorts \/ (shorts < MaxShort /\ shorts' = shorts + 1)
      /\ \E how \in SUBSET {"ok", "error", "thrown"} : Fails(t, how)
  <2>1. /\ {"error"} \in SUBSET {"ok", "error", "thrown"}
        /\ {"error", "thrown"} \in SUBSET {"ok", "error", "thrown"}
    OBVIOUS
  <2>2. \E how \in SUBSET {"ok", "error", "thrown"} : Fails(t, how)
    BY <2>1 DEF ReceiveShort, ReceiveGarbage, ReceiveClosed
  <2> QED BY <2>2 DEF ReceiveShort, ReceiveGarbage, ReceiveClosed, conns, Fails, Return, ReturnWith
<1>2. shorts \in 0 .. MaxShort /\ MaxShort \in Nat
  BY CallsAssumption DEF CallsInv, Bounds
<1>3. CallerTypes' /\ LockHeld' /\ results' \subseteq Outcome /\ ReplyBelongs' /\ RefusalSeen'
  <2>1. shorts' = 0 => shorts = 0
    BY <1>1, <1>2
  <2> QED BY <1>1, <2>1, FailsKeeps
<1>4. Bounds'
  BY <1>1, <1>2 DEF CallsInv, Bounds
<1>5. stream \in [Server -> Seq(Reply)] /\ "tracker" \in Server
  BY DEF CallsInv, ConnTypes, Server
<1>6. /\ stream' \in [Server -> Seq(Reply)]
      /\ \A z \in Server : stream[z] = <<>> => stream'[z] = <<>>
  <2>1. CASE ReceiveShort(t)
    <3> DEFINE f == stream["tracker"]
               n == [f EXCEPT ![1].part = "rest"]
    <3>1. f # <<>> /\ f \in Seq(Reply) /\ stream' = [stream EXCEPT !["tracker"] = n]
      BY <1>5, <2>1 DEF ReceiveShort
    <3>2. 1 \in 1 .. Len(f) /\ f[1] \in Reply
      BY <3>1, ElementOfSeq, LenProperties, EmptySeq
    <3>3. [f[1] EXCEPT !.part = "rest"] \in Reply
      BY <3>2 DEF Reply
    <3>4. n \in Seq(Reply)
      BY <3>1, <3>2, <3>3, ExceptSeq
    <3> HIDE DEF n
    <3> QED BY <1>5, <3>1, <3>4
  <2>2. CASE ReceiveGarbage(t)
    <3>1. stream["tracker"] # <<>> /\ Tail(stream["tracker"]) \in Seq(Reply)
      BY <1>5, <2>2, HeadTailProperties DEF ReceiveGarbage
    <3> QED BY <1>5, <2>2, <3>1 DEF ReceiveGarbage
  <2>3. CASE ReceiveClosed(t)
    BY <1>5, <2>3 DEF ReceiveClosed, conns
  <2> QED BY <2>1, <2>2, <2>3
<1>7. ConnTypes' /\ LostIsEmpty'
  BY <1>1, <1>6 DEF CallsInv, ConnTypes, LostIsEmpty
<1>8. OneRequest'
  <2>1. CASE shorts' # 0
    BY <2>1 DEF OneRequest
  <2>2. CASE shorts' = 0
    <3>1. shorts = 0 /\ ~ ReceiveShort(t)
      BY <1>1, <1>2, <2>2 DEF ReceiveShort
    <3>2. ~ ReceiveGarbage(t)
      <4>1. stream["tracker"] # <<>> => stream["tracker"][1].part = "whole"
        BY <3>1 DEF CallsInv, OneRequest
      <4>2. stream["tracker"] # <<>> => Head(stream["tracker"]) = stream["tracker"][1]
        BY <1>5
      <4> QED BY <4>1, <4>2 DEF ReceiveGarbage
    <3>3. ReceiveClosed(t)
      BY <3>1, <3>2
    <3>4. stream' = stream /\ sock[ToServer(kind[t])] = "closed"
      BY <3>3 DEF ReceiveClosed, conns
    <3>5. CASE kind[t] # "resource"
      BY <1>1, <1>5, <3>4, <3>5, RequestStays DEF ToServer, CallsInv, LostIsEmpty, OneRequest
    <3>6. CASE kind[t] = "resource"
      <4>1. lock # t
        BY <3>6 DEF CallsInv, LockHeld, AtTracker
      <4>2. /\ lock' = lock /\ call' = call /\ \A u \in Caller \ {t} : pc'[u] = pc[u]
        BY <1>1, <4>1 DEF Fails, Return, ReturnWith, Goto, CallsInv, CallerTypes
      <4> QED BY <1>1, <2>2, <3>1, <3>4, <4>1, <4>2, RequestStays DEF CallsInv, LockHeld
    <3> QED BY <3>5, <3>6
  <2> QED BY <2>1, <2>2
<1> QED BY <1>3, <1>4, <1>7, <1>8 DEF CallsInv

-----------------------------------------------------------------------------
(* The servers and the network *)

LEMMA AnswerStep ==
    ASSUME CallsInv, NEW s \in Server, Answer(s)
    PROVE  CallsInv'
<1> PICK no \in BOOLEAN :
        stream' = [stream EXCEPT ![s] = Append(@,
                     [call |-> Head(asked[s]).call, kind |-> Head(asked[s]).kind,
                      refused |-> no, part |-> "whole"])]
  BY DEF Answer
<1> DEFINE head == Head(asked[s])
           m == [call |-> head.call, kind |-> head.kind, refused |-> no, part |-> "whole"]
<1>1. /\ sock[s] = "open" /\ asked[s] # <<>>
      /\ asked' = [asked EXCEPT ![s] = Tail(@)]
      /\ UNCHANGED <<sock, lock, callers, results, calls, faults, shorts>>
  BY DEF Answer
<1>2. asked \in [Server -> Seq(Request)] /\ stream \in [Server -> Seq(Reply)] /\ "tracker" \in Server
  BY DEF CallsInv, ConnTypes, Server
<1>3. /\ head \in Request /\ head = asked[s][1] /\ Tail(asked[s]) \in Seq(Request)
      /\ Len(asked[s]) = 1 => Tail(asked[s]) = <<>>
  BY <1>1, <1>2, HeadTailProperties, EmptySeq
<1>4. m \in Reply /\ m.call = head.call /\ m.part = "whole"
  BY <1>3 DEF Request, Reply
<1>5. stream' = [stream EXCEPT ![s] = Append(stream[s], m)]
  OBVIOUS
<1> HIDE DEF m, head
<1>6. /\ Append(stream[s], m) \in Seq(Reply)
      /\ stream[s] = <<>> => Len(Append(stream[s], m)) = 1 /\ Append(stream[s], m)[1] = m
  BY <1>2, <1>4, AppendProperties
<1>7. ConnTypes' /\ LostIsEmpty'
  <2>1. asked' \in [Server -> Seq(Request)] /\ stream' \in [Server -> Seq(Reply)]
    BY <1>1, <1>2, <1>3, <1>5, <1>6
  <2>2. \A z \in Server : sock[z] # "open" => z # s /\ asked'[z] = asked[z] /\ stream'[z] = stream[z]
    BY <1>1, <1>2, <1>5
  <2> QED BY <1>1, <2>1, <2>2 DEF CallsInv, ConnTypes, LostIsEmpty
<1>8. OneRequest'
  <2>1. CASE s = "tracker"
    <3> SUFFICES ASSUME shorts = 0 PROVE OneRequest'
      BY <1>1 DEF OneRequest
    <3>1. /\ lock # None /\ pc[lock] = "receive" /\ Len(asked[s]) = 1 /\ stream[s] = <<>>
          /\ head.call = call[lock]
      BY <1>1, <1>3, <2>1 DEF CallsInv, OneRequest
    <3>2. asked'[s] = <<>> /\ stream'[s] = Append(stream[s], m)
      BY <1>1, <1>2, <1>3, <1>5, <3>1
    <3>3. lock' = lock /\ pc' = pc /\ call' = call
      BY <1>1 DEF callers
    <3> QED BY <1>4, <1>6, <2>1, <3>1, <3>2, <3>3 DEF OneRequest
  <2>2. CASE s # "tracker"
    <3>1. asked'["tracker"] = asked["tracker"] /\ stream'["tracker"] = stream["tracker"]
      BY <1>1, <1>2, <1>5, <2>2
    <3> QED BY <1>1, <3>1, RequestStays DEF callers
  <2> QED BY <2>1, <2>2
<1>9. CallerTypes' /\ Bounds' /\ LockHeld'
  BY <1>1 DEF CallsInv, CallerTypes, Bounds, LockHeld, AtTracker, callers
<1> QED BY <1>1, <1>7, <1>8, <1>9, ResultsStay DEF CallsInv

LEMMA DisconnectStep ==
    ASSUME CallsInv, NEW s \in Server, Disconnect(s)
    PROVE  CallsInv'
<1>1. /\ sock' = [sock EXCEPT ![s] = "closed"]
      /\ asked' = [asked EXCEPT ![s] = <<>>] /\ stream' = [stream EXCEPT ![s] = <<>>]
      /\ faults < MaxFaults /\ faults' = faults + 1
      /\ UNCHANGED <<lock, callers, results, calls, shorts>>
  BY DEF Disconnect
<1>2. /\ sock \in [Server -> {"null", "open", "closed"}]
      /\ asked \in [Server -> Seq(Request)] /\ stream \in [Server -> Seq(Reply)]
  BY DEF CallsInv, ConnTypes
<1>3. ConnTypes'
  BY <1>1, <1>2, EmptySeq DEF ConnTypes
<1>4. LostIsEmpty'
  BY <1>1, <1>2 DEF CallsInv, LostIsEmpty
<1>5. Bounds'
  BY <1>1, CallsAssumption DEF CallsInv, Bounds
<1>6. OneRequest'
  <2>1. "tracker" \in Server
    BY DEF Server
  <2>2. CASE s = "tracker"
    BY <1>1, <1>2, <2>2 DEF OneRequest
  <2>3. CASE s # "tracker"
    BY <1>1, <1>2, <2>1, <2>3, RequestStays DEF callers
  <2> QED BY <2>2, <2>3
<1>7. CallerTypes' /\ LockHeld'
  BY <1>1 DEF CallsInv, CallerTypes, LockHeld, AtTracker, callers
<1> QED BY <1>1, <1>3, <1>4, <1>5, <1>6, <1>7, ResultsStay DEF CallsInv

-----------------------------------------------------------------------------
LEMMA StepHolds == CallsInv /\ [Next]_vars => CallsInv'
<1> SUFFICES ASSUME CallsInv, [Next]_vars PROVE CallsInv'
  OBVIOUS
<1>1. CASE Next
  <2>1. ASSUME NEW t \in Caller, CallTracker(t) \/ CallResource(t) \/ Proceed(t)
        PROVE  CallsInv'
    BY <2>1, BeginStep, LockStep, SockStep, SendStep, ReplyStep, ReceiveFailsStep DEF Proceed
  <2>2. ASSUME NEW s \in Server, Answer(s) \/ Disconnect(s)
        PROVE  CallsInv'
    BY <2>2, AnswerStep, DisconnectStep
  <2> QED BY <1>1, <2>1, <2>2 DEF Next
<1>2. CASE UNCHANGED vars
  <2> USE <1>2 DEF vars, callers, conns
  <2>1. ConnTypes' /\ LostIsEmpty' /\ CallerTypes' /\ Bounds' /\ LockHeld'
    BY DEF CallsInv, ConnTypes, LostIsEmpty, CallerTypes, Bounds, LockHeld, AtTracker
  <2>2. OneRequest'
    BY DEF CallsInv, OneRequest
  <2> QED BY <2>1, <2>2, ResultsStay DEF CallsInv
<1> QED BY <1>1, <1>2

LEMMA Invariant == Spec => []CallsInv
BY InitHolds, StepHolds, PTL DEF Spec

\* Connections, callers and results keep their types; the mutex is held by a
\* thread that uses the connection to the tracker, or by none.
THEOREM TypeCorrect == Spec => []TypeOK
BY InvTypes, Invariant, PTL

\* A call to the tracker takes no other call's reply for its own, however
\* many threads call and whatever has failed before, until the first reply
\* that does not come whole.
THEOREM RepliesBelong == Spec => []ReplyBelongs
<1>1. CallsInv => ReplyBelongs
  BY DEF CallsInv
<1> QED BY <1>1, Invariant, PTL

\* A query the tracker refuses does not succeed.
THEOREM RefusalsSeen == Spec => []RefusalSeen
<1>1. CallsInv => RefusalSeen
  BY DEF CallsInv
<1> QED BY <1>1, Invariant, PTL

-----------------------------------------------------------------------------
(* Percentages *)

\* Division is monotone.
LEMMA DivMonotone ==
    ASSUME NEW s \in Nat \ {0}, NEW a \in Nat, NEW b \in Nat, a <= b
    PROVE  a \div s \in Nat /\ b \div s \in Nat /\ a \div s <= b \div s
<1>1. a \div s \in Nat /\ b \div s \in Nat
  OBVIOUS
<1>2. a < s * (a \div s) + s /\ s * (a \div s) <= a /\ s * (b \div s) <= b /\ b < s * (b \div s) + s
  OBVIOUS
<1>3. ASSUME (a \div s) >= (b \div s) + 1
      PROVE  FALSE
  <2>1. s * (a \div s) >= s * ((b \div s) + 1)
    BY <1>1, <1>3
  <2>2. s * ((b \div s) + 1) = s * (b \div s) + s
    BY <1>1
  <2> QED BY <1>1, <1>2, <2>1, <2>2
<1> QED BY <1>1, <1>3

\* The percentage of a job is one, and grows with its chunks.
LEMMA PercentageGrows ==
    \A m, n \in 0 .. Size :
        m <= n => /\ Percentage(m) \in 0 .. 100 /\ Percentage(n) \in 0 .. 100
                  /\ Percentage(m) <= Percentage(n)
<1>1. Size \in Nat \ {0}
  BY ProgressAssumption
<1>2. (Size * 100) \div Size = 100
  BY <1>1
<1>3. \A m, n \in 0 .. Size : m <= n => (m * 100) \div Size \in Nat
            /\ (n * 100) \div Size \in Nat /\ (m * 100) \div Size <= (n * 100) \div Size
  BY <1>1, DivMonotone
<1> HIDE DEF Percentage
<1>4. \A n \in 0 .. Size : (n * 100) \div Size <= 100
  BY <1>1, <1>2, <1>3
<1> QED BY <1>3, <1>4 DEF Percentage

LEMMA ZeroPercent == Percentage(0) \in 0 .. 100
<1>1. 0 \in 0 .. Size
  BY ProgressAssumption
<1> QED BY <1>1, PercentageGrows

\* What is no more than the percentage of a job stays so.
LEMMA NoMoreThan ==
    ASSUME \A j \in Job : /\ Percentage(bits[j]) \in 0 .. 100 /\ Percentage(bits'[j]) \in 0 .. 100
                          /\ Percentage(bits[j]) <= Percentage(bits'[j])
    PROVE  \A j \in Job, n \in Int : n <= Percentage(bits[j]) => n <= Percentage(bits'[j])
<1> SUFFICES ASSUME NEW j \in Job, NEW n \in Int, n <= Percentage(bits[j])
             PROVE  n <= Percentage(bits'[j])
  OBVIOUS
<1>1. Percentage(bits[j]) \in Int /\ Percentage(bits'[j]) \in Int
  OBVIOUS
<1> QED BY <1>1

-----------------------------------------------------------------------------
(* The invariant *)

\* What a job has and what it receives are chunks of its file.
WithinSize == \A j \in Job : bits[j] + received[j] <= Size

\* Reports of one job in a sequence, and in two that are sent one after the
\* other, do not go back.
Sorted(s) == \A i, k \in 1 .. Len(s) :
                i < k /\ s[i].job = s[k].job => s[i].percentage <= s[k].percentage

Behind(s, t) == \A i \in 1 .. Len(s), k \in 1 .. Len(t) :
                   s[i].job = t[k].job => s[i].percentage <= t[k].percentage

\* All reports of a sequence are at least what the tracker knows.
News(s) == \A i \in 1 .. Len(s) : tracker[s[i].job] <= s[i].percentage

\* A sequence tells no more than what there is.
Truthful(s) == \A i \in 1 .. Len(s) : s[i].percentage <= Percentage(bits[s[i].job])

AllTruthful ==
    /\ \A j \in Job : tracker[j] <= Percentage(bits[j]) /\ percent[j] <= Percentage(bits[j])
    /\ Truthful(batch) /\ Truthful(list) /\ Truthful(sending)

\* The reports wait in the order in which they were made, and the report
\* thread has none in hand but while it sends.
InOrder ==
    /\ rpc # "send" => sending = <<>>
    /\ Sorted(batch) /\ Sorted(list) /\ Sorted(sending)
    /\ Behind(sending, list) /\ Behind(list, batch) /\ Behind(sending, batch)
    /\ News(batch) /\ News(list) /\ News(sending)

ProgressInv == ProgressTypeOK /\ WithinSize /\ CountedOnce /\ AllTruthful /\ InOrder

\* Truthful sequences are those of ReportsTruthful.
LEMMA TruthfulReports == ProgressTypeOK /\ AllTruthful => ReportsTruthful
<1> SUFFICES ASSUME ProgressTypeOK, AllTruthful, NEW j \in Job,
                    NEW r \in Range(batch \o list \o sending), r.job = j
             PROVE  r.percentage <= Percentage(bits[j])
  BY DEF AllTruthful, ReportsTruthful
<1>1. batch \in Seq(Report) /\ list \in Seq(Report) /\ sending \in Seq(Report)
  BY DEF ProgressTypeOK
<1>2. Range(batch \o list \o sending) = Range(batch) \cup Range(list) \cup Range(sending)
  <2>1. batch \o list \in Seq(Report)
    BY <1>1
  <2>2. Range((batch \o list) \o sending) = Range(batch \o list) \cup Range(sending)
    BY <1>1, <2>1, RangeConcatenation
  <2>3. Range(batch \o list) = Range(batch) \cup Range(list)
    BY <1>1, RangeConcatenation
  <2> QED BY <2>2, <2>3
<1>3. \A s \in Seq(Report) : r \in Range(s) => \E i \in 1 .. Len(s) : s[i] = r
  BY RangeOfSeq DEF Range
<1> QED BY <1>1, <1>2, <1>3 DEF AllTruthful, Truthful

LEMMA ReportFields == \A r \in Report : r.job \in Job /\ r.percentage \in Int
BY DEF Report

\* It stays so when the bitmaps grow.
LEMMA StillTruthful ==
    ASSUME ProgressTypeOK, AllTruthful,
           UNCHANGED <<percent, batch, list, sending, tracker>>,
           \A j \in Job : /\ Percentage(bits[j]) \in 0 .. 100 /\ Percentage(bits'[j]) \in 0 .. 100
                          /\ Percentage(bits[j]) <= Percentage(bits'[j])
    PROVE  AllTruthful'
<1>1. \A s \in Seq(Report) : Truthful(s) => Truthful(s)'
  <2> SUFFICES ASSUME NEW s \in Seq(Report), Truthful(s), NEW i \in 1 .. Len(s)
               PROVE  s[i].percentage <= Percentage(bits'[s[i].job])
    BY DEF Truthful
  <2>1. s[i] \in Report
    BY ElementOfSeq
  <2>3. s[i].job \in Job /\ s[i].percentage \in Int
    BY <2>1, ReportFields
  <2>2. s[i].percentage <= Percentage(bits[s[i].job])
    BY DEF Truthful
  <2> QED BY <2>2, <2>3, NoMoreThan
<1>2. \A j \in Job : tracker[j] \in Int /\ percent[j] \in Int
  <2>1. tracker \in [Job -> 0 .. 100] /\ percent \in [Job -> 0 .. 100]
    BY DEF ProgressTypeOK
  <2> QED BY <2>1
<1>3. batch \in Seq(Report) /\ list \in Seq(Report) /\ sending \in Seq(Report)
  BY DEF ProgressTypeOK
<1>4. \A j \in Job : tracker'[j] <= Percentage(bits'[j]) /\ percent'[j] <= Percentage(bits'[j])
  <2>1. \A j \in Job : tracker[j] <= Percentage(bits[j]) /\ percent[j] <= Percentage(bits[j])
    BY DEF AllTruthful
  <2> QED BY <1>2, <2>1, NoMoreThan
<1>5. Truthful(batch)' /\ Truthful(list)' /\ Truthful(sending)'
  BY <1>1, <1>3 DEF AllTruthful, Truthful
<1> QED BY <1>4, <1>5 DEF AllTruthful

-----------------------------------------------------------------------------
LEMMA ProgressInitHolds == ProgressInit => ProgressInv
<1> SUFFICES ASSUME ProgressInit PROVE ProgressInv
  OBVIOUS
<1>1. ProgressTypeOK
  BY ProgressAssumption DEF ProgressInit, ProgressTypeOK
<1>2. WithinSize
  BY ProgressAssumption DEF ProgressInit, WithinSize
<1>3. CountedOnce
  BY ProgressAssumption DEF ProgressInit, CountedOnce
<1>4. AllTruthful
  <2>1. Percentage(0) \in 0 .. 100
    BY ZeroPercent
  <2>2. \A j \in Job : tracker[j] = 0 /\ percent[j] = 0 /\ bits[j] = 0
    BY DEF ProgressInit
  <2>3. \A j \in Job : tracker[j] <= Percentage(bits[j]) /\ percent[j] <= Percentage(bits[j])
    BY <2>1, <2>2
  <2> QED BY <2>3 DEF ProgressInit, AllTruthful, Truthful
<1>5. InOrder
  BY DEF ProgressInit, InOrder, Sorted, Behind, News
<1> QED BY <1>1, <1>2, <1>3, <1>4, <1>5 DEF ProgressInv

\* The steps of the job and its tasks.
LEMMA JobSteps ==
    ASSUME ProgressInv, NEW j \in Job, JobStep(j)
    PROVE  ProgressInv' /\ tracker' = tracker
<1> USE DEF counters, collector, reporter
<1>1. UNCHANGED <<totals, wait, percent, todo, at, seen, batch, list, rpc, sending, tracker>>
  BY DEF JobStep, StartRun, Receive, ChunkDone, ChunkFails, FinishRun
<1>2. bits \in [Job -> 0 .. Size] /\ received \in [Job -> 0 .. Size] /\ bits[j] + received[j] <= Size
  BY DEF ProgressInv, ProgressTypeOK, WithinSize
<1>3. second \in [Job -> Nat] /\ ever \in [Job -> Nat] /\ totals \in [Job -> Nat]
  BY DEF ProgressInv, ProgressTypeOK
<1>4. running' \in SUBSET Job /\ failures' \in 0 .. MaxFailures
  <2>1. running \in SUBSET Job /\ failures \in 0 .. MaxFailures /\ MaxFailures \in Nat
    BY ProgressAssumption DEF ProgressInv, ProgressTypeOK
  <2> QED BY <2>1 DEF JobStep, StartRun, Receive, ChunkDone, ChunkFails, FinishRun
<1>5. /\ bits' \in [Job -> 0 .. Size] /\ received' \in [Job -> 0 .. Size]
      /\ \A k \in Job : bits[k] <= bits'[k]
      /\ bits'[j] + received'[j] <= Size
      /\ \A k \in Job \ {j} : bits'[k] = bits[k] /\ received'[k] = received[k]
  <2>1. Size \in Nat
    BY ProgressAssumption
  <2>2. CASE StartRun(j) \/ FinishRun(j)
    BY <1>2, <2>1, <2>2 DEF StartRun, FinishRun
  <2>3. CASE Receive(j)
    BY <1>2, <2>1, <2>3 DEF Receive
  <2>4. CASE ChunkDone(j)
    BY <1>2, <2>1, <2>4 DEF ChunkDone
  <2>5. CASE ChunkFails(j)
    BY <1>2, <2>1, <2>5 DEF ChunkFails
  <2> QED BY <2>2, <2>3, <2>4, <2>5 DEF JobStep
<1>6. WithinSize'
  BY <1>5 DEF WithinSize, ProgressInv
<1>7. /\ second' \in [Job -> Nat] /\ ever' \in [Job -> Nat]
      /\ \A k \in Job : second'[k] >= second[k] /\ second'[k] - second[k] = ever'[k] - ever[k]
  BY <1>3 DEF JobStep, StartRun, Receive, ChunkDone, ChunkFails, FinishRun
<1>8. ProgressTypeOK'
  BY <1>1, <1>4, <1>5, <1>7 DEF ProgressInv, ProgressTypeOK
<1>9. CountedOnce'
  <2> SUFFICES ASSUME NEW k \in Job
               PROVE  totals[k] + second'[k] <= ever'[k] /\ (at = k => seen <= second'[k])
    BY <1>1 DEF CountedOnce
  <2>1. totals[k] + second[k] <= ever[k] /\ (at = k => seen <= second[k]) /\ seen \in Nat
    BY DEF ProgressInv, CountedOnce, ProgressTypeOK
  <2> QED BY <1>3, <1>7, <2>1
<1>10. \A k \in Job : Percentage(bits[k]) \in 0 .. 100 /\ Percentage(bits'[k]) \in 0 .. 100
                        /\ Percentage(bits[k]) <= Percentage(bits'[k])
  BY <1>2, <1>5, PercentageGrows
<1>11. AllTruthful'
  BY <1>1, <1>10, StillTruthful DEF ProgressInv
<1>12. InOrder'
  BY <1>1 DEF ProgressInv, InOrder, Sorted, Behind, News
<1> QED BY <1>1, <1>6, <1>8, <1>9, <1>11, <1>12 DEF ProgressInv

-----------------------------------------------------------------------------
(* The collector *)

\* Nothing of the reports or the jobs moves: what is said of them stays.
LEMMA ReportsStay ==
    ASSUME AllTruthful, InOrder,
           UNCHANGED <<bits, percent, batch, list, sending, rpc, tracker>>
    PROVE  AllTruthful' /\ InOrder'
BY DEF AllTruthful, Truthful, InOrder, Sorted, Behind, News

LEMMA CountSteps ==
    ASSUME ProgressInv, Tick \/ \E j \in Job : CountBytes(j)
    PROVE  ProgressInv' /\ tracker' = tracker
<1>1. UNCHANGED <<running, bits, received, ever, wait, percent, batch, list, rpc, sending, tracker, failures>>
  BY DEF Tick, CountBytes, AddSecond, work, counters, reporter
<1>2. second \in [Job -> Nat] /\ totals \in [Job -> Nat] /\ ever \in [Job -> Nat] /\ seen \in Nat
  BY DEF ProgressInv, ProgressTypeOK
<1>3. /\ todo' \in SUBSET Job /\ at' \in Job \cup {NoJob} /\ seen' \in Nat
      /\ second' \in [Job -> Nat] /\ totals' \in [Job -> Nat]
  <2>1. todo \in SUBSET Job /\ at \in Job \cup {NoJob}
    BY DEF ProgressInv, ProgressTypeOK
  <2> QED BY <1>2, <2>1 DEF Tick, CountBytes, AddSecond, counters
<1>4. ProgressTypeOK' /\ WithinSize'
  BY <1>1, <1>3 DEF ProgressInv, ProgressTypeOK, WithinSize
<1>5. CountedOnce'
  <2>1. NoJob \notin Job
    BY ProgressAssumption
  <2>2. \A k \in Job : totals[k] + second[k] <= ever[k] /\ (at = k => seen <= second[k])
    BY DEF ProgressInv, CountedOnce
  <2>3. CASE Tick
    BY <1>1, <2>2, <2>3 DEF Tick, CountedOnce, counters
  <2>4. ASSUME NEW j \in Job, CountBytes(j)
        PROVE  CountedOnce'
    <3>1. at' = NoJob /\ at = j
      BY <2>4 DEF CountBytes, AddSecond
    <3>2. \A k \in Job : totals'[k] + second'[k] <= ever[k]
      BY <1>2, <2>2, <2>4, <3>1 DEF CountBytes, AddSecond
    <3> QED BY <1>1, <2>1, <3>1, <3>2 DEF CountedOnce
  <2> QED BY <2>3, <2>4
<1>6. AllTruthful' /\ InOrder'
  BY <1>1, ReportsStay DEF ProgressInv
<1> QED BY <1>1, <1>4, <1>5, <1>6 DEF ProgressInv

\* A report put behind a sequence, none of which tells more of its job.
LEMMA AppendReport ==
    ASSUME NEW s \in Seq(Report), NEW r \in Report,
           \A i \in 1 .. Len(s) : s[i].job = r.job => s[i].percentage <= r.percentage,
           Sorted(s)
    PROVE  Sorted(Append(s, r))
<1>1. /\ Len(Append(s, r)) = Len(s) + 1 /\ Len(s) \in Nat
      /\ \A i \in 1 .. Len(s) : Append(s, r)[i] = s[i]
      /\ Append(s, r)[Len(s) + 1] = r
  BY AppendProperties, LenProperties
<1> SUFFICES ASSUME NEW i \in 1 .. Len(s) + 1, NEW k \in 1 .. Len(s) + 1, i < k,
                    Append(s, r)[i].job = Append(s, r)[k].job
             PROVE  Append(s, r)[i].percentage <= Append(s, r)[k].percentage
  BY <1>1 DEF Sorted
<1>2. i \in 1 .. Len(s) /\ Append(s, r)[i] = s[i]
  BY <1>1
<1>3. CASE k \in 1 .. Len(s)
  BY <1>1, <1>2, <1>3 DEF Sorted
<1>4. CASE k = Len(s) + 1
  BY <1>1, <1>2, <1>4
<1> QED BY <1>1, <1>3, <1>4

LEMMA VisitStep ==
    ASSUME ProgressInv, NEW j \in Job, VisitJob(j)
    PROVE  ProgressInv' /\ tracker' = tracker
<1> DEFINE p == Percentage(bits[j])
           r == [job |-> j, percentage |-> p]
<1>1. /\ UNCHANGED <<running, bits, received, ever, second, totals, list, rpc, sending, tracker, failures>>
      /\ at' = j /\ todo' = todo \ {j} /\ seen' = second[j]
      /\ percent' = [percent EXCEPT ![j] = p]
  BY DEF VisitJob, VisitThen, work, reporter
<1>2. p \in 0 .. 100
  <2>1. bits[j] \in 0 .. Size
    BY DEF ProgressInv, ProgressTypeOK
  <2> QED BY <2>1, PercentageGrows
<1>3. batch' = batch \/ batch' = Append(batch, r)
  <2>1. percent \in [Job -> 0 .. 100]
    BY DEF ProgressInv, ProgressTypeOK
  <2>2. percent'[j] = p
    BY <1>1, <2>1
  <2> QED BY <2>2 DEF VisitJob, VisitThen
<1>4. /\ batch \in Seq(Report) /\ list \in Seq(Report) /\ sending \in Seq(Report)
      /\ r \in Report /\ r.job = j /\ r.percentage = p
  BY <1>2 DEF ProgressInv, ProgressTypeOK, Report
<1> HIDE DEF r, p
<1>5. wait' \in [Job -> -1 .. report_period]
  <2>1. wait \in [Job -> -1 .. report_period] /\ report_period \in Nat
    BY ProgressAssumption DEF ProgressInv, ProgressTypeOK
  <2> QED BY <2>1 DEF VisitJob, VisitThen
<1>6. batch' \in Seq(Report)
  <2>1. batch \in Seq(Report) /\ r \in Report
    BY <1>4
  <2>2. Append(batch, r) \in Seq(Report)
    BY <2>1, AppendProperties
  <2> QED BY <1>3, <2>1, <2>2
<1>7. ProgressTypeOK' /\ WithinSize'
  <2>1. /\ percent \in [Job -> 0 .. 100] /\ todo \in SUBSET Job /\ second \in [Job -> Nat]
    BY DEF ProgressInv, ProgressTypeOK
  <2>2. /\ percent' \in [Job -> 0 .. 100] /\ todo' \in SUBSET Job /\ seen' \in Nat /\ at' \in Job
    BY <1>1, <1>2, <2>1
  <2> QED BY <1>1, <1>5, <1>6, <2>2 DEF ProgressInv, ProgressTypeOK, WithinSize
<1>8. CountedOnce'
  <2>1. \A k \in Job : totals[k] + second[k] <= ever[k] /\ second[k] \in Nat
    BY DEF ProgressInv, CountedOnce, ProgressTypeOK
  <2> QED BY <1>1, <2>1 DEF CountedOnce
<1> DEFINE News2(s) == \A i \in 1 .. Len(s) : s[i].job = j => s[i].percentage <= p
<1>9. News2(batch) /\ News2(list) /\ News2(sending) /\ tracker[j] <= p
  BY DEF ProgressInv, AllTruthful, Truthful, p
<1>10. /\ Len(Append(batch, r)) = Len(batch) + 1 /\ Len(batch) \in Nat
       /\ \A i \in 1 .. Len(batch) : Append(batch, r)[i] = batch[i]
       /\ Append(batch, r)[Len(batch) + 1] = r
  BY <1>4, AppendProperties, LenProperties
<1>11. AllTruthful'
  <2>1. \A k \in Job : percent'[k] <= Percentage(bits[k])
    <3>1. percent \in [Job -> 0 .. 100]
      BY DEF ProgressInv, ProgressTypeOK
    <3>2. \A k \in Job : percent[k] <= Percentage(bits[k])
      BY DEF ProgressInv, AllTruthful
    <3>3. p <= p
      BY <1>2
    <3> QED BY <1>1, <3>1, <3>2, <3>3 DEF p
  <2>2. Truthful(Append(batch, r))
    <3>1. /\ \A i \in 1 .. Len(batch) : batch[i].percentage <= Percentage(bits[batch[i].job])
          /\ r.percentage <= Percentage(bits[r.job])
      <4>1. p <= p
        BY <1>2
      <4> QED BY <1>4, <4>1 DEF ProgressInv, AllTruthful, Truthful, p
    <3> QED BY <1>10, <3>1 DEF Truthful
  <2>3. Truthful(batch')
    BY <1>3, <2>2 DEF ProgressInv, AllTruthful
  <2> QED BY <1>1, <2>1, <2>3 DEF ProgressInv, AllTruthful, Truthful
<1>12. InOrder'
  <2>1. Sorted(batch')
    BY <1>3, <1>4, <1>9, AppendReport DEF ProgressInv, InOrder
  <2>2. Behind(list, batch') /\ Behind(sending, batch') /\ News(batch')
    <3>1. CASE batch' = Append(batch, r)
      BY <1>4, <1>9, <1>10, <3>1 DEF ProgressInv, InOrder, Behind, News
    <3> QED BY <1>3, <3>1 DEF ProgressInv, InOrder
  <2>3. /\ rpc # "send" => sending = <<>>
        /\ Sorted(list) /\ Sorted(sending) /\ Behind(sending, list) /\ News(list) /\ News(sending)
    BY DEF ProgressInv, InOrder
  <2>4. News(batch)' /\ News(list)' /\ News(sending)'
    BY <1>1, <2>2, <2>3 DEF News
  <2>5. Sorted(batch)' /\ Behind(list, batch)' /\ Behind(sending, batch)'
    BY <1>1, <2>1, <2>2 DEF Sorted, Behind
  <2> QED BY <1>1, <2>3, <2>4, <2>5 DEF InOrder, Sorted, Behind
<1> QED BY <1>1, <1>7, <1>8, <1>11, <1>12 DEF ProgressInv

LEMMA PublishStep ==
    ASSUME ProgressInv, PublishReports
    PROVE  ProgressInv' /\ tracker' = tracker
<1>1. /\ UNCHANGED <<running, bits, received, ever, second, totals, wait, percent, todo, at,
                     seen, sending, tracker, failures>>
      /\ list' = batch /\ batch' = <<>>
      /\ rpc' = rpc \/ (rpc = "waiting" /\ rpc' = "test")
  BY DEF PublishReports, PublishAs, work, counters
<1>2. ProgressTypeOK' /\ WithinSize' /\ CountedOnce'
  <2>1. batch' \in Seq(Report) /\ list' \in Seq(Report)
    BY <1>1 DEF ProgressInv, ProgressTypeOK
  <2>2. rpc' \in {"test", "toWait", "waiting", "take", "send"}
    BY <1>1 DEF ProgressInv, ProgressTypeOK
  <2>3. ProgressTypeOK'
    BY <1>1, <2>1, <2>2 DEF ProgressInv, ProgressTypeOK
  <2> QED BY <1>1, <2>3 DEF ProgressInv, WithinSize, CountedOnce
<1>3. AllTruthful'
  BY <1>1 DEF ProgressInv, AllTruthful, Truthful
<1>4. InOrder'
  <2>1. /\ rpc # "send" => sending = <<>>
        /\ Sorted(batch) /\ Sorted(sending) /\ Behind(sending, batch) /\ News(batch) /\ News(sending)
    BY DEF ProgressInv, InOrder
  <2>2. News(batch)' /\ News(list)' /\ News(sending)'
    BY <1>1, <2>1 DEF News
  <2>3. Behind(list, batch)' /\ Behind(sending, batch)' /\ Sorted(batch)'
    BY <1>1 DEF Behind, Sorted
  <2> QED BY <1>1, <2>1, <2>2, <2>3 DEF InOrder, Sorted, Behind
<1> QED BY <1>1, <1>2, <1>3, <1>4 DEF ProgressInv

-----------------------------------------------------------------------------
(* The report thread *)

\* Its steps but the sending of a report.
LEMMA ThreadSteps ==
    ASSUME ProgressInv, TestList \/ Sleep \/ TakeList \/ AllSent
    PROVE  ProgressInv' /\ tracker' = tracker
<1>1. UNCHANGED <<running, bits, received, ever, second, totals, wait, percent, todo, at, seen,
                  batch, tracker, failures>>
  BY DEF TestList, Sleep, TakeList, AllSent, work, counters, collector
<1>2. rpc' \in {"test", "toWait", "waiting", "take", "send"}
  BY DEF TestList, Sleep, TakeList, AllSent
<1>3. \/ list' = list /\ sending' = sending /\ (rpc' # "send" => sending = <<>>)
      \/ list' = <<>> /\ sending' = list /\ rpc' = "send"
  BY DEF TestList, Sleep, TakeList, AllSent, ProgressInv, InOrder
<1>4. ProgressTypeOK' /\ WithinSize' /\ CountedOnce'
  <2>1. list' \in Seq(Report) /\ sending' \in Seq(Report)
    <3>1. list \in Seq(Report) /\ sending \in Seq(Report) /\ <<>> \in Seq(Report)
      BY EmptySeq DEF ProgressInv, ProgressTypeOK
    <3> QED BY <1>3, <3>1
  <2>2. ProgressTypeOK'
    BY <1>1, <1>2, <2>1 DEF ProgressInv, ProgressTypeOK
  <2> QED BY <1>1, <2>2 DEF ProgressInv, WithinSize, CountedOnce
<1>5. AllTruthful'
  BY <1>1, <1>3 DEF ProgressInv, AllTruthful, Truthful
<1>6. InOrder'
  <2>1. /\ Sorted(batch) /\ Sorted(list) /\ Sorted(sending)
        /\ Behind(sending, list) /\ Behind(list, batch) /\ Behind(sending, batch)
        /\ News(batch) /\ News(list) /\ News(sending)
    BY DEF ProgressInv, InOrder
  <2>2. News(batch)' /\ News(list)' /\ News(sending)'
    BY <1>1, <1>3, <2>1 DEF News
  <2>3. Behind(sending, list)' /\ Behind(list, batch)' /\ Behind(sending, batch)'
    BY <1>1, <1>3, <2>1 DEF Behind
  <2>4. Sorted(batch)' /\ Sorted(list)' /\ Sorted(sending)'
    BY <1>1, <1>3, <2>1 DEF Sorted
  <2> QED BY <1>3, <2>2, <2>3, <2>4 DEF InOrder
<1> QED BY <1>1, <1>4, <1>5, <1>6 DEF ProgressInv

\* A report is sent, and what the tracker knows does not go back.
LEMMA SendReportStep ==
    ASSUME ProgressInv, SendReport
    PROVE  ProgressInv' /\ \A j \in Job : tracker'[j] >= tracker[j]
<1> DEFINE r == Head(sending)
<1>1. /\ UNCHANGED <<running, bits, received, ever, second, totals, wait, percent, todo, at,
                     seen, batch, list, rpc>>
      /\ rpc = "send" /\ sending # <<>> /\ sending' = Tail(sending)
  BY DEF SendReport, SendAs, work, counters, collector
<1>0. tracker \in [Job -> 0 .. 100] /\ \A j \in Job : tracker[j] \in Int
  <2>1. tracker \in [Job -> 0 .. 100]
    BY DEF ProgressInv, ProgressTypeOK
  <2> QED BY <2>1
<1>2. batch \in Seq(Report) /\ list \in Seq(Report) /\ sending \in Seq(Report)
  BY DEF ProgressInv, ProgressTypeOK
<1>3. /\ Tail(sending) \in Seq(Report) /\ Len(Tail(sending)) = Len(sending) - 1
      /\ Len(sending) \in Nat \ {0}
      /\ \A i \in 1 .. Len(Tail(sending)) : Tail(sending)[i] = sending[i + 1]
      /\ r = sending[1] /\ r \in Report
  BY <1>1, <1>2, HeadTailProperties, LenProperties
<1>4. r.job \in Job /\ r.percentage \in 0 .. 100
  BY <1>3 DEF Report
<1> HIDE DEF r
<1>5. tracker' = tracker \/ tracker' = [tracker EXCEPT ![r.job] = r.percentage]
  <2>1. r.percentage + 0 = r.percentage
    BY <1>4
  <2> QED BY <2>1 DEF SendReport, SendAs, r
<1>6. failures' \in 0 .. MaxFailures
  <2>1. failures \in 0 .. MaxFailures /\ MaxFailures \in Nat
    BY ProgressAssumption DEF ProgressInv, ProgressTypeOK
  <2> QED BY <2>1 DEF SendReport, SendAs
<1>7. tracker' \in [Job -> 0 .. 100]
  BY <1>0, <1>4, <1>5
<1>8. ProgressTypeOK' /\ WithinSize' /\ CountedOnce'
  BY <1>1, <1>3, <1>6, <1>7 DEF ProgressInv, ProgressTypeOK, WithinSize, CountedOnce
<1>9. /\ Sorted(batch) /\ Sorted(list) /\ Sorted(sending)
      /\ Behind(sending, list) /\ Behind(list, batch) /\ Behind(sending, batch)
      /\ News(batch) /\ News(list) /\ News(sending)
  BY DEF ProgressInv, InOrder
<1>10. /\ r.percentage >= tracker[r.job]
       /\ r.percentage <= Percentage(bits[r.job])
       /\ \A i \in 1 .. Len(Tail(sending)) :
             Tail(sending)[i].job = r.job => r.percentage <= Tail(sending)[i].percentage
       /\ \A i \in 1 .. Len(list) : list[i].job = r.job => r.percentage <= list[i].percentage
       /\ \A i \in 1 .. Len(batch) : batch[i].job = r.job => r.percentage <= batch[i].percentage
  <2>1. 1 \in 1 .. Len(sending)
    BY <1>3
  <2>2. tracker[r.job] \in Int
    BY <1>0, <1>4
  <2>3. /\ r.percentage >= tracker[r.job]
        /\ \A i \in 1 .. Len(list) : list[i].job = r.job => r.percentage <= list[i].percentage
        /\ \A i \in 1 .. Len(batch) : batch[i].job = r.job => r.percentage <= batch[i].percentage
    BY <1>3, <1>4, <1>9, <2>1, <2>2 DEF Behind, News
  <2>4. r.percentage <= Percentage(bits[r.job])
    BY <1>3, <2>1 DEF ProgressInv, AllTruthful, Truthful
  <2>5. \A i \in 1 .. Len(Tail(sending)) :
             Tail(sending)[i].job = r.job => r.percentage <= Tail(sending)[i].percentage
    BY <1>3, <1>9, <2>1 DEF Sorted
  <2> QED BY <2>3, <2>4, <2>5
<1>11. \A j \in Job : tracker'[j] >= tracker[j]
  BY <1>0, <1>4, <1>5, <1>10
<1>12. AllTruthful'
  <2>1. \A j \in Job : tracker'[j] <= Percentage(bits[j])
    BY <1>0, <1>4, <1>5, <1>10 DEF ProgressInv, AllTruthful
  <2>2. Truthful(batch) /\ Truthful(list) /\ Truthful(sending)
    BY DEF ProgressInv, AllTruthful
  <2>3. Truthful(Tail(sending))
    BY <1>3, <2>2 DEF Truthful
  <2> QED BY <1>1, <2>1, <2>2, <2>3 DEF ProgressInv, AllTruthful, Truthful
<1>13. InOrder'
  <2>1. News(Tail(sending)) /\ Sorted(Tail(sending)) /\ Behind(Tail(sending), list) /\ Behind(Tail(sending), batch)
    <3>1. /\ Len(Tail(sending)) = Len(sending) - 1 /\ Len(sending) \in Nat
          /\ \A i \in 1 .. Len(Tail(sending)) :
                i + 1 \in 1 .. Len(sending) /\ Tail(sending)[i] = sending[i + 1]
      BY <1>3
    <3>2. News(Tail(sending))
      BY <1>9, <3>1 DEF News
    <3>3. Sorted(Tail(sending))
      <4> SUFFICES ASSUME NEW i \in 1 .. Len(Tail(sending)), NEW k \in 1 .. Len(Tail(sending)), i < k,
                          Tail(sending)[i].job = Tail(sending)[k].job
                   PROVE  Tail(sending)[i].percentage <= Tail(sending)[k].percentage
        BY DEF Sorted
      <4>1. i + 1 < k + 1
        BY <3>1
      <4>2. sending[i + 1].percentage <= sending[k + 1].percentage
        BY <1>9, <3>1, <4>1 DEF Sorted
      <4> QED BY <3>1, <4>2
    <3>4. Behind(Tail(sending), list) /\ Behind(Tail(sending), batch)
      BY <1>9, <3>1 DEF Behind
    <3> QED BY <3>2, <3>3, <3>4
  <2>2. \A s \in {batch, list, Tail(sending)} : \A i \in 1 .. Len(s) : s[i].job \in Job
    BY <1>2, <1>3, ElementOfSeq, ReportFields
  <2>3. \A s \in {batch, list, Tail(sending)} : News(s)'
    BY <1>0, <1>4, <1>5, <1>9, <1>10, <2>1, <2>2 DEF News
  <2>4. News(batch)' /\ News(list)' /\ News(sending)'
    BY <1>1, <2>3 DEF News
  <2> QED BY <1>1, <1>9, <2>1, <2>4 DEF InOrder, Sorted, Behind
<1> QED BY <1>8, <1>11, <1>12, <1>13 DEF ProgressInv

-----------------------------------------------------------------------------
LEMMA ProgressStepHolds ==
    ProgressInv /\ [ProgressNext]_progressVars => ProgressInv' /\ \A j \in Job : tracker'[j] >= tracker[j]
<1> SUFFICES ASSUME ProgressInv, [ProgressNext]_progressVars
             PROVE  ProgressInv' /\ \A j \in Job : tracker'[j] >= tracker[j]
  OBVIOUS
<1>1. \A j \in Job : tracker[j] >= tracker[j]
  <2>1. tracker \in [Job -> 0 .. 100]
    BY DEF ProgressInv, ProgressTypeOK
  <2> QED BY <2>1
<1>2. ASSUME NEW j \in Job, JobStep(j)
      PROVE  ProgressInv' /\ tracker' = tracker
  BY <1>2, JobSteps
<1>3. CASE Collect
  <2>1. CASE Tick \/ \E j \in Job : CountBytes(j)
    BY <1>1, <2>1, CountSteps
  <2>2. CASE \E j \in Job : VisitJob(j)
    BY <1>1, <2>2, VisitStep
  <2>3. CASE PublishReports
    BY <1>1, <2>3, PublishStep
  <2> QED BY <1>3, <2>1, <2>2, <2>3 DEF Collect
<1>4. CASE ReportStep
  BY <1>1, <1>4, ThreadSteps, SendReportStep DEF ReportStep
<1>5. CASE UNCHANGED progressVars
  <2> USE <1>5 DEF progressVars, work, counters, collector, reporter
  <2>1. ProgressTypeOK'
    BY DEF ProgressInv, ProgressTypeOK
  <2>2. WithinSize' /\ CountedOnce'
    BY DEF ProgressInv, WithinSize, CountedOnce
  <2>3. AllTruthful' /\ InOrder'
    BY ReportsStay DEF ProgressInv
  <2> QED BY <1>1, <2>1, <2>2, <2>3 DEF ProgressInv
<1> QED BY <1>1, <1>2, <1>3, <1>4, <1>5 DEF ProgressNext

LEMMA ProgressInvariant == ProgressSpec => []ProgressInv
<1>1. ProgressInv /\ [ProgressNext]_progressVars => ProgressInv'
  BY ProgressStepHolds
<1> QED BY ProgressInitHolds, <1>1, PTL DEF ProgressSpec

\* The variables keep their types: in particular no percentage exceeds 100
\* and no bitmap gets more chunks than the file has.
THEOREM ProgressTypeCorrect == ProgressSpec => []ProgressTypeOK
<1>1. ProgressInv => ProgressTypeOK
  BY DEF ProgressInv
<1> QED BY <1>1, ProgressInvariant, PTL

\* The bytes that tasks and collector add to and clear without a lock are
\* never counted twice.
THEOREM BytesCountedOnce == ProgressSpec => []CountedOnce
<1>1. ProgressInv => CountedOnce
  BY DEF ProgressInv
<1> QED BY <1>1, ProgressInvariant, PTL

\* Neither the tracker nor a peer is ever told that we have more than we have.
THEOREM NeverTooMuch == ProgressSpec => []ReportsTruthful
<1>1. ProgressInv => ReportsTruthful
  BY TruthfulReports DEF ProgressInv
<1> QED BY <1>1, ProgressInvariant, PTL

\* What the tracker knows of a job only grows.
THEOREM TrackerGrows == ProgressSpec => TrackerMonotone
<1>1. ProgressInv /\ [ProgressNext]_progressVars => [\A j \in Job : tracker'[j] >= tracker[j]]_progressVars
  BY ProgressStepHolds
<1> QED BY <1>1, ProgressInvariant, PTL DEF ProgressSpec, TrackerMonotone
=============================================================================
