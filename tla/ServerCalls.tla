----------------------------- MODULE ServerCalls -----------------------------
(***************************************************************************)
(* The calls of CoolClient to its two servers.  Each server has one        *)
(* connection that all threads share: calls to the tracker (publish,       *)
(* report, query) are made under tracker_sock_mutex_, calls to the         *)
(* resource server (search, count, upload) under no mutex.                 *)
(*                                                                         *)
(* Messages are abstracted to the call they belong to, the type of the     *)
(* reply, and whether it refuses the request.  `part` says whether a reply *)
(* in the stream is whole or has been received in part.                    *)
(***************************************************************************)
EXTENDS Naturals, Sequences, SequencesExt

CONSTANTS
    Caller,          \* the threads that call
    ResourceCallers, \* those that call the resource server
    UI,              \* the one that searches; the others publish
    MaxCalls,        \* bound on the calls
    MaxFaults,       \* bound on connections lost or refused
    MaxShort,        \* bound on receives that return less than asked for
    None             \* nobody holds tracker_sock_mutex_

ASSUME CallsAssumption ==
    /\ ResourceCallers \subseteq Caller
    /\ MaxCalls \in Nat /\ MaxFaults \in Nat /\ MaxShort \in Nat
    /\ None \notin Caller

Server == {"tracker", "resource"}

Call == 1 .. MaxCalls

\* The reply types: QueryPeerReply, MessageReply, Reply.
Kind == {"query", "message", "resource"}

VARIABLES
    sock,    \* Server -> NULL, a socket, or a socket the peer has closed
    asked,   \* Server -> requests on their way or at the server
    stream,  \* Server -> replies on their way or in the buffer of the socket
    lock,    \* the owner of tracker_sock_mutex_
    pc, call, kind, \* of each caller: where it is, the number of its call, its type
    results, \* history: what each call returned, and on which reply
    calls, faults, shorts

conns == <<sock, asked, stream>>
callers == <<pc, call, kind>>
vars == <<conns, lock, callers, results, calls, faults, shorts>>

ToServer(k) == IF k = "resource" THEN "resource" ELSE "tracker"

Init ==
    /\ sock \in [Server -> {"null", "open"}]
    /\ asked = [s \in Server |-> <<>>]
    /\ stream = [s \in Server |-> <<>>]
    /\ lock = None
    /\ pc = [t \in Caller |-> "idle"]
    /\ call = [t \in Caller |-> 0]
    /\ kind = [t \in Caller |-> "message"]
    /\ results = {}
    /\ calls = 0 /\ faults = 0 /\ shorts = 0

Goto(t, l) == pc' = [pc EXCEPT ![t] = l]

\* The call returns (ERROR_OK or an error code) or ends with an exception;
\* the scoped lock is released in each case.
\* (Faulty variant, to validate CallsEnd: it is kept by a call that
\* throws.)
ReturnWith(t, result, reply, refused, next) ==
    /\ results' = results \cup {[call |-> call[t], kind |-> kind[t],
                    result |-> result, reply |-> reply, refused |-> refused]}
    /\ Goto(t, "idle")
    /\ lock' = next
    /\ UNCHANGED <<call, kind, calls>>

Return_keeps(t, result, reply, refused) ==
    ReturnWith(t, result, reply, refused,
               IF lock = t /\ result # "thrown" THEN None ELSE lock)

Return(t, result, reply, refused) ==
    ReturnWith(t, result, reply, refused, IF lock = t THEN None ELSE lock)

\* It returns without having looked at a reply.
Fails(t, how) == \E r \in how : Return(t, r, 0, FALSE)

-----------------------------------------------------------------------------
(* The calls *)

Begin(t, k, l) ==
    /\ pc[t] = "idle"
    /\ calls < MaxCalls
    /\ calls' = calls + 1
    /\ call' = [call EXCEPT ![t] = calls + 1]
    /\ kind' = [kind EXCEPT ![t] = k]
    /\ Goto(t, l)
    /\ UNCHANGED <<conns, lock, results, faults, shorts>>

\* RequestClients, or PublishResourceToTracker and ReportProgress.
CallTracker(t) == \E k \in {"query", "message"} : Begin(t, k, "lock")

\* SearchResource and SearchResourceCount go through GetResourceServerSock,
\* PublishResource and DownloadTorrent take the socket as it is.
CallResource(t) ==
    t \in ResourceCallers /\ Begin(t, "resource", IF t = UI THEN "get" ELSE "take")

\* (Faulty variant, to validate ReplyBelongs: no lock is taken.)
LockTracker_not(t) ==
    /\ pc[t] = "lock"
    /\ Goto(t, "take")
    /\ UNCHANGED <<conns, lock, call, kind, results, calls, faults, shorts>>

LockTracker(t) ==
    /\ pc[t] = "lock"
    /\ lock = None
    /\ lock' = t
    /\ Goto(t, "take")
    /\ UNCHANGED <<conns, call, kind, results, calls, faults, shorts>>

\* get_tracker_sock and get_resource_server_sock: with NULL a tracker call
\* returns an error; PublishResource asserts.
TakeSock(t) ==
    /\ pc[t] = "take"
    /\ \/ /\ sock[ToServer(kind[t])] # "null"
          /\ Goto(t, "send")
          /\ UNCHANGED <<lock, call, kind, results, calls>>
       \/ /\ sock[ToServer(kind[t])] = "null"
          /\ Fails(t, {IF kind[t] = "resource" THEN "thrown" ELSE "error"})
    /\ UNCHANGED <<conns, faults, shorts>>

\* GetResourceServerSock: a socket that is there is taken, closed or not.
\* When there is none it connects, and then tests the NULL pointer it still
\* holds: the exception ends the search, though the connection is made.
GetResourceServerSock(t) ==
    /\ pc[t] = "get"
    /\ \/ /\ sock["resource"] # "null"
          /\ Goto(t, "send")
          /\ UNCHANGED <<conns, lock, call, kind, results, calls, faults>>
       \/ /\ sock["resource"] = "null"
          /\ sock' = [sock EXCEPT !["resource"] = "open"]
          /\ Fails(t, {"thrown"})
          /\ UNCHANGED <<asked, stream, faults>>
       \/ /\ sock["resource"] = "null"
          /\ faults < MaxFaults /\ faults' = faults + 1
          /\ Fails(t, {"error"})
          /\ UNCHANGED conns
    /\ UNCHANGED shorts

\* Sending on a closed socket fails at once or with the receive after it.
SendRequest(t) ==
    LET s == ToServer(kind[t])
    IN  /\ pc[t] = "send"
        /\ \/ /\ asked' = [asked EXCEPT ![s] =
                             IF sock[s] = "open"
                             THEN Append(@, [call |-> call[t], kind |-> kind[t]])
                             ELSE @]
              /\ Goto(t, "receive")
              /\ UNCHANGED <<lock, call, kind, results, calls>>
           \/ /\ sock[s] = "closed"
              /\ Fails(t, {"error", "thrown"})
              /\ UNCHANGED asked
        /\ UNCHANGED <<sock, stream, faults, shorts>>

\* What handle_reply_message and its caller make of a whole reply.  On a reply
\* of another type or one that refuses the request it goes to err: with ret
\* still ERROR_OK.  RequestClients looks for itself: a refusal is an error
\* there, a NULL reply an exception.
Judge(k, reply) ==
    IF k # "query" THEN "ok"
    ELSE IF reply.kind # "query" THEN "thrown"
    ELSE IF reply.refused THEN "error" ELSE "ok"

\* receiveFrom (or connent) gets the whole reply at the head of the stream,
\* whichever call that answers.
ReceiveReply(t) ==
    LET s == ToServer(kind[t])
    IN  /\ pc[t] = "receive"
        /\ stream[s] # <<>>
        /\ Head(stream[s]).part = "whole"
        /\ Return(t, Judge(kind[t], Head(stream[s])), Head(stream[s]).call,
                  Head(stream[s]).refused)
        /\ stream' = [stream EXCEPT ![s] = Tail(@)]
        /\ UNCHANGED <<sock, asked, faults, shorts>>

\* NetPack receives the header and the payload with one receiveBytes each: one
\* that returns less is an error, and the rest stays in the stream.  (connent
\* loops until it has everything.)
ReceiveShort(t) ==
    /\ pc[t] = "receive" /\ kind[t] # "resource"
    /\ stream["tracker"] # <<>>
    /\ shorts < MaxShort /\ shorts' = shorts + 1
    /\ stream' = [stream EXCEPT !["tracker"][1].part = "rest"]
    /\ Fails(t, {"error"})
    /\ UNCHANGED <<sock, asked, faults>>

\* The rest of a reply is read as a header: the assertion on its length or
\* the parser fails, with all of it read or not.
ReceiveGarbage(t) ==
    /\ pc[t] = "receive" /\ kind[t] # "resource"
    /\ stream["tracker"] # <<>>
    /\ Head(stream["tracker"]).part = "rest"
    /\ \E left \in {stream["tracker"], Tail(stream["tracker"])} :
          stream' = [stream EXCEPT !["tracker"] = left]
    /\ Fails(t, {"error", "thrown"})
    /\ UNCHANGED <<sock, asked, faults, shorts>>

ReceiveClosed(t) ==
    /\ pc[t] = "receive"
    /\ sock[ToServer(kind[t])] = "closed"
    /\ Fails(t, {"error", "thrown"})
    /\ UNCHANGED <<conns, faults, shorts>>

-----------------------------------------------------------------------------
(* The servers (external) and the network *)

\* A reply to the oldest request, of the type that goes with it.
Answer(s) ==
    /\ sock[s] = "open"
    /\ asked[s] # <<>>
    /\ asked' = [asked EXCEPT ![s] = Tail(@)]
    /\ \E no \in (IF s = "tracker" THEN BOOLEAN ELSE {FALSE}) :
          stream' = [stream EXCEPT ![s] = Append(@,
                       [call |-> Head(asked[s]).call, kind |-> Head(asked[s]).kind,
                        refused |-> no, part |-> "whole"])]
    /\ UNCHANGED <<sock, lock, callers, results, calls, faults, shorts>>

Disconnect(s) ==
    /\ sock[s] = "open"
    /\ faults < MaxFaults /\ faults' = faults + 1
    /\ sock' = [sock EXCEPT ![s] = "closed"]
    /\ asked' = [asked EXCEPT ![s] = <<>>]
    /\ stream' = [stream EXCEPT ![s] = <<>>]
    /\ UNCHANGED <<lock, callers, results, calls, shorts>>

-----------------------------------------------------------------------------
Proceed(t) ==
    \/ LockTracker(t) \/ TakeSock(t) \/ GetResourceServerSock(t)
    \/ SendRequest(t) \/ ReceiveReply(t) \/ ReceiveShort(t)
    \/ ReceiveGarbage(t) \/ ReceiveClosed(t)

Next ==
    \/ \E t \in Caller : CallTracker(t) \/ CallResource(t) \/ Proceed(t)
    \/ \E s \in Server : Answer(s) \/ Disconnect(s)

Spec == Init /\ [][Next]_vars

\* The threads run, the mutex is given to each thread that waits for it again
\* and again, and a server answers what it receives.  No call has a timeout.
FairSpec == Spec /\ (\A t \in Caller : SF_vars(Proceed(t)))
                 /\ (\A s \in Server : WF_vars(Answer(s)))

-----------------------------------------------------------------------------
(* Properties *)

Reply == [call : Call, kind : Kind, refused : BOOLEAN, part : {"whole", "rest"}]

TypeOK ==
    /\ sock \in [Server -> {"null", "open", "closed"}]
    /\ asked \in [Server -> Seq([call : Call, kind : Kind])]
    /\ stream \in [Server -> Seq(Reply)]
    /\ lock \in Caller \cup {None}
    /\ lock # None => pc[lock] \in {"take", "send", "receive"} /\ kind[lock] # "resource"
    /\ pc \in [Caller -> {"idle", "lock", "get", "take", "send", "receive"}]
    /\ call \in [Caller -> Call \cup {0}]
    /\ kind \in [Caller -> Kind]
    /\ results \subseteq [call : Call, kind : Kind, result : {"ok", "error", "thrown"},
                          reply : Call \cup {0}, refused : BOOLEAN]
    /\ calls \in 0 .. MaxCalls /\ faults \in 0 .. MaxFaults /\ shorts \in 0 .. MaxShort

\* A call to the tracker never takes the reply to another call for its own,
\* whatever threads call at the same time and whatever calls have failed
\* before, as long as no reply has come in pieces (the next call then starts
\* in the middle of the last one's reply).
ReplyBelongs ==
    shorts = 0 => \A r \in results : r.kind # "resource" => r.reply \in {0, r.call}

\* A query that the tracker refuses is not taken for one that found nobody.
RefusalSeen == \A r \in results : r.kind = "query" /\ r.refused => r.result # "ok"

\* No call waits for ever: the mutex is released however a call ends, and
\* nobody waits for a reply that was not asked for or was taken by another.
CallsEnd == \A t \in Caller : pc[t] # "idle" ~> pc[t] = "idle"

-----------------------------------------------------------------------------
(* Statements of the code that do not hold *)

\* "Add get Total Count of records of this search": the count is the answer to
\* this search, also while a torrent is being published.
CountOfThisSearch == \A r \in results : r.kind = "resource" => r.reply \in {0, r.call}

\* "test if sock has not been closed ... if closed, reconnect"
ClosedIsReconnected ==
    [][\A t \in Caller : (pc[t] = "get" /\ pc'[t] = "send") => sock'["resource"] = "open"]_vars

\* "Invalid message return code": a call that the tracker refuses fails.
RefusedFails == \A r \in results : r.refused => r.result # "ok"

\* poco_assert( headerLength > 0 && headerLength < 1000 ), on the connection
\* to the tracker.
HeaderComes ==
    \A t \in Caller : pc[t] = "receive" /\ kind[t] # "resource" /\ stream["tracker"] # <<>>
                        => Head(stream["tracker"]).part = "whole"

=============================================================================
