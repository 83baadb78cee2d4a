------------------------------ MODULE NetPack ------------------------------
(***************************************************************************)
(* One connection of the program and the messages it carries, from the     *)
(* call that builds a request to the caller that uses the reply.           *)
(*                                                                         *)
(* NetPack (src/CoolClient/src/netpack.cc) puts a header length and a      *)
(* header before every message for peers and the tracker; connent          *)
(* (resource_conn.cpp) puts a length before those for the resource server. *)
(* A receive may return less than was asked for: connent goes on, NetPack  *)
(* asks once.  The peer at the other end is this program again             *)
(* (client_connection_handler.cc); tracker and resource server answer      *)
(* anything their replies can say.                                         *)
(*                                                                         *)
(* A failed receive, assertion or dereference ends the connection here;    *)
(* what becomes of the threads then is in DownloadJob, UploadSide and      *)
(* ServerCalls.                                                            *)
(***************************************************************************)
EXTENDS Messages, Bitmaps

CONSTANTS
  Servers,    \* kinds of servers to connect to: "peer", "tracker", "resource"
  FileSize,   \* chunks of the file the calls are about
  MaxCalls    \* bound: calls over the connection

ASSUME NetPackAssumption ==
  /\ Servers \subseteq {"peer", "tracker", "resource"}
  /\ FileSize \in Nat \ {0}
  /\ MaxCalls \in Nat

Ends == {"caller", "server"}
Other(e) == IF e = "caller" THEN "server" ELSE "caller"

VARIABLES
  server,    \* the kind of server this connection leads to
  incoming,  \* the stream on its way to each end
  step,      \* what each end does: see Steps
  want,      \* the length each end still waits for
  content,   \* what each end has received of it: a header, or a reply in pieces
  said,      \* the message each end sent last
  heard,     \* what each end made of the message it received last, if any
  calls,     \* number of calls made
  mine,      \* the caller's bitmap of the file
  owners,    \* the peer's bitmap of it
  shares,    \* the peer has a job with the file
  filed,     \* the bitmap the caller keeps for the peer (FileOwnerInfo)
  shown,     \* history: the bitmaps the peer has answered handshakes with
  whole      \* history: every receive of NetPack returned all it asked for

netpackVars == <<server, incoming, step, want, content, said, heard, calls, mine, owners,
                 shares, filed, shown, whole>>
link == <<server, calls>>
bitmaps == <<mine, owners, shares, filed, shown>>

Steps == {"idle",                          \* the caller between two calls
          "length", "header", "payload",   \* NetPack::receiveFrom
          "conn_length", "conn_content",   \* connent
          "answer", "use",                 \* a message is there
          "broken"}

---------------------------------------------------------------------------
(* The requests the program builds.                                        *)
TheFile == "file"
Me == "me"
Owner == "owner"
Pack(payloadType, type, msg) ==
  [payloadType |-> payloadType, name |-> type.name, msg |-> msg]
NoPack == [payloadType |-> 0, name |-> "", msg |-> <<>>]

PAYLOAD_LOGIN == 10000
PAYLOAD_LOGOUT == 10001
PAYLOAD_REQUEST_PEER == 10002
PAYLOAD_REPORT_PROGRESS == 10003
PAYLOAD_PUBLISH_RESOURCE == 10004
PAYLOAD_MESSAGE_REPLY == 20001
PAYLOAD_REQUEST_PEER_REPLAY == 20002
PAYLOAD_SHAKE_HAND == 30001
PAYLOAD_UPLOAD_REQUEST == 30002
PAYLOAD_UPLOAD_REPLY == 40001
ERROR_OK == 0
ERROR_UNKNOWN == 1

(* Percentages are what the status collector has written, any number.      *)
percentage_map == 50

convert_bitmap_to_transport_format(bitmap, info) ==
  [f \in DOMAIN info \cup {"FileBitCount", "FileBit"} |->
     CASE f = "FileBitCount" -> bitmap.size
       [] f = "FileBit" -> to_block_range(bitmap)
       [] f \notin {"FileBitCount", "FileBit"} -> info[f]]

\* (Faulty variant, to validate FiledWasShown: the bitmap keeps the size of its
\* blocks.)
conver_unsized(info) == from_block_range(info.FileBit)

conver_transport_format_bitmap(info) ==
  resize(from_block_range(info.FileBit), info.FileBitCount)

\* (Faulty variant, to validate InStep: the size of the bitmap is not set.)
NotHere_unsized(fileid) ==
  [FileId |-> fileid, HasFile |-> 0, Percentage |-> 0, FileBit |-> <<>>]

(* What HandleShakeHand says of a file nobody here downloads.              *)
NotHere(fileid) ==
  [FileId |-> fileid, HasFile |-> 0, Percentage |-> 0, FileBit |-> <<>>, FileBitCount |-> 0]
Here(fileid, bitmap) ==
  convert_bitmap_to_transport_format(bitmap,
    [FileId |-> fileid, HasFile |-> 1, Percentage |-> percentage_map])

ShakeHandRequest(bitmap) ==
  Pack(PAYLOAD_SHAKE_HAND, ShakeHand, [ClientId |-> Me, Info |-> Here(TheFile, bitmap)])
UploadRequests ==
  {Pack(PAYLOAD_UPLOAD_REQUEST, UploadRequest,
        [ClientId |-> Me, FileId |-> TheFile, ChunkNumber |-> chunk]) :
     chunk \in 0 .. FileSize - 1}

LoginTracker ==
  Pack(PAYLOAD_LOGIN, Login, [ClientId |-> Me, MessagePort |-> 9025])
LogoutTracker == Pack(PAYLOAD_LOGOUT, Logout, [ClientId |-> Me])
PublishResourceToTracker ==
  Pack(PAYLOAD_PUBLISH_RESOURCE, PublishResource, [ClientId |-> Me, FileId |-> TheFile])
ReportProgressToTracker ==
  Pack(PAYLOAD_REPORT_PROGRESS, ReportProgress,
       [ClientId |-> Me, FileId |-> TheFile, Percentage |-> percentage_map])
RequestClients(clientids) ==
  Pack(PAYLOAD_REQUEST_PEER, QueryPeer,
       [FileId |-> TheFile, Percentage |-> percentage_map, NeedCount |-> 20,
        OwnedClients |-> clientids])

(* The five questions to the resource server (their num), and their data.  *)
Search == Pack(0, Ask, [num |-> 1, key |-> "word", type |-> 1, counta |-> 0, countb |-> 1])
SearchCount == Pack(0, Ask, [num |-> 5, key |-> "word", type |-> 1])
Check == Pack(0, Ask, [num |-> 2, fileid |-> 7])
Download == Pack(0, Ask, [num |-> 3, fileid |-> 7])
Upload ==
  Pack(0, Ask, [num |-> 4, seed |-> "torrent", type |-> 1, key |-> "name",
                brief |-> "about", size |-> 9])

Requests ==
  CASE server = "peer" -> {ShakeHandRequest(mine)} \cup UploadRequests
    [] server = "tracker" ->
         {LoginTracker, LogoutTracker, PublishResourceToTracker, ReportProgressToTracker}
           \cup {RequestClients(ids) : ids \in {<<>>, <<Owner>>}}
    [] server = "resource" -> {Search, SearchCount, Check, Download, Upload}

---------------------------------------------------------------------------
(* Sending.  The header says how long the message is; before it goes its   *)
(* own length, an integer of four bytes that never arrives changed.        *)
TypeNamed(name) == CHOOSE type \in MessageTypes : type.name = name

LengthBytes(n) == [byte \in 1 .. 4 |-> <<"int32", byte, n>>]
IsLength(tokens) ==
  Len(tokens) = 4 /\ \A i \in 1 .. 4 : tokens[i][1] = "int32" /\ tokens[i][2] = i

HeaderOf(pack) ==
  [payloadType |-> pack.payloadType,
   payloadLength |-> ByteSize(TypeNamed(pack.name), pack.msg),
   messageName |-> pack.name]

sendBy(pack) ==
  LET header == Encode(NetPackHeader, HeaderOf(pack))
  IN  LengthBytes(Len(header)) \o header \o Encode(TypeNamed(pack.name), pack.msg)

connentSends(pack) ==
  LET body == Encode(TypeNamed(pack.name), pack.msg) IN LengthBytes(Len(body)) \o body

Stream(pack) == IF server = "resource" THEN connentSends(pack) ELSE sendBy(pack)

Say(e, pack) ==
  /\ said' = [said EXCEPT ![e] = pack]
  /\ incoming' = [incoming EXCEPT ![Other(e)] = @ \o Stream(pack)]

FirstStep == IF server = "resource" THEN "conn_length" ELSE "length"

Goes(e, where, length, read) ==
  /\ step' = [step EXCEPT ![e] = where]
  /\ want' = [want EXCEPT ![e] = length]
  /\ content' = [content EXCEPT ![e] = read]
Breaks(e) == Goes(e, "broken", 0, <<>>)

(* A call of the program: it sends its request and waits for the reply.    *)
Call ==
  /\ step["caller"] = "idle"
  /\ calls < MaxCalls
  /\ calls' = calls + 1
  /\ \E pack \in Requests : Say("caller", pack)
  /\ Goes("caller", FirstStep, 4, <<>>)
  /\ heard' = [e \in Ends |-> <<>>]
  /\ UNCHANGED <<server, bitmaps, whole>>

---------------------------------------------------------------------------
(* Receiving with NetPack.  receiveBytes waits for something to arrive and *)
(* returns at least one token and at most what was asked for.              *)
Received(e, k) == SubSeq(incoming[e], 1, k)
receiveBytes(e, k) ==
  /\ k <= Len(incoming[e])
  /\ k = 0 => want[e] = 0
  /\ incoming' = [incoming EXCEPT ![e] = SubSeq(@, k + 1, Len(@))]
  /\ whole' = (whole /\ k = want[e])

receiveHeaderLength(e) ==
  /\ step[e] = "length"
  /\ \E k \in 1 .. want[e] :
       /\ receiveBytes(e, k)
       /\ IF IsLength(Received(e, k)) /\ Received(e, k)[1][3] \in 1 .. 999
            THEN Goes(e, "header", Received(e, k)[1][3], <<>>)
            ELSE Breaks(e)
  /\ UNCHANGED <<link, bitmaps, said, heard>>

(* The header is parsed from what has come of it; the rest is then still   *)
(* on its way.                                                             *)
receiveHeader(e) ==
  /\ step[e] = "header"
  /\ \E k \in 1 .. want[e] :
       LET read == Parse(NetPackHeader, Received(e, k))
       IN  /\ receiveBytes(e, k)
           /\ IF read.ok
                THEN Goes(e, "payload", Get(NetPackHeader, read.msg, "payloadLength"), read.msg)
                ELSE Breaks(e)
  /\ UNCHANGED <<link, bitmaps, said, heard>>

(* The message of the type the header names, or NULL.                      *)
message(header, payload) ==
  LET name == Get(NetPackHeader, header, "messageName")
      known == \E type \in MessageTypes : type.name = name
      read == Parse(TypeNamed(name), payload)
      typed == [NoPack EXCEPT !.payloadType = Get(NetPackHeader, header, "payloadType")]
  IN  IF known /\ read.ok
        THEN [ok |-> TRUE, pack |-> [typed EXCEPT !.name = name, !.msg = read.msg]]
        ELSE [ok |-> FALSE, pack |-> typed]

Hears(e, what) ==
  /\ heard' = [heard EXCEPT ![e] = <<what>>]
  /\ Goes(e, IF e = "caller" THEN "use" ELSE "answer", 0, <<>>)

\* (Faulty variant, to validate NothingInvented: a payload is taken as it comes.)
receivePayload_unchecked(e) ==
  /\ step[e] = "payload"
  /\ \E k \in 0 .. want[e] :
       /\ receiveBytes(e, k)
       /\ Hears(e, message(content[e], Received(e, k)))
  /\ UNCHANGED <<link, bitmaps, said>>

receivePayload(e) ==
  /\ step[e] = "payload"
  /\ \E k \in 0 .. want[e] :
       /\ receiveBytes(e, k)
       /\ IF k = want[e]
            THEN Hears(e, message(content[e], Received(e, k)))
            ELSE Breaks(e) /\ UNCHANGED heard
  /\ UNCHANGED <<link, bitmaps, said>>

---------------------------------------------------------------------------
(* Receiving with connent: it asks again for what is missing, of the       *)
(* length and of the reply, for which it takes all there is.               *)
ConnLength(e) ==
  /\ step[e] = "conn_length"
  /\ \E k \in 1 .. want[e] :
       LET length == content[e] \o Received(e, k)
       IN  /\ receiveBytes(e, k)
           /\ IF Len(length) < 4 THEN Goes(e, "conn_length", want[e] - k, length)
              ELSE IF IsLength(length) THEN Goes(e, "conn_content", length[1][3], <<>>)
              ELSE Breaks(e)
  /\ UNCHANGED <<link, bitmaps, said, heard>>

ConnContent(e) ==
  /\ step[e] = "conn_content"
  /\ \E k \in 1 .. Len(incoming[e]) :
       LET receive == content[e] \o Received(e, k)
           type == IF e = "caller" THEN Reply ELSE Ask
           read == Parse(type, receive)
       IN  /\ receiveBytes(e, k)
           /\ IF k = want[e]
                THEN Hears(e, [ok |-> read.ok, pack |-> Pack(0, type, read.msg)])
                ELSE Goes(e, "conn_content", want[e] - k, receive) /\ UNCHANGED heard
  /\ UNCHANGED <<link, bitmaps, said>>

---------------------------------------------------------------------------
(* The answer of a peer: ClientConnectionHandler::Process.  A request that *)
(* could not be parsed, or is of another class than its payload type says, *)
(* is answered all the same: a handshake with an empty message.  Callers   *)
(* send peers no other payload types.                                      *)
Cast(e, type) == heard[e][1].ok /\ heard[e][1].pack.name = type.name

HandleShakeHand ==
  IF ~Cast("server", ShakeHand) THEN New(ShakeHand)
  ELSE LET fileid == heard["server"][1].pack.msg.Info.FileId
       IN  [ClientId |-> Owner, Info |-> IF shares THEN Here(fileid, owners) ELSE NotHere(fileid)]

HandleUploadRequest ==
  [ReturnCode |-> IF Cast("server", UploadRequest) /\ shares THEN ERROR_OK ELSE ERROR_UNKNOWN]

Process ==
  CASE heard["server"][1].pack.payloadType = PAYLOAD_SHAKE_HAND ->
         Pack(PAYLOAD_SHAKE_HAND, ShakeHand, HandleShakeHand)
    [] heard["server"][1].pack.payloadType = PAYLOAD_UPLOAD_REQUEST ->
         Pack(PAYLOAD_UPLOAD_REPLY, UploadReply, HandleUploadRequest)

PeerAnswers ==
  /\ server = "peer"
  /\ step["server"] = "answer"
  /\ Say("server", Process)
  /\ shown' = IF Cast("server", ShakeHand) /\ shares THEN shown \cup {owners} ELSE shown
  /\ Goes("server", FirstStep, 4, <<>>)
  /\ UNCHANGED <<link, mine, owners, shares, filed, heard, whole>>

(* Tracker and resource server answer what they understand with anything   *)
(* their replies can say.                                                  *)
OnePeer ==
  [Client |-> [ClientId |-> Owner, Ip |-> "ip", MessagePort |-> 9025],
   Percentage |-> percentage_map]
OneInfo == [filename |-> "name", time |-> "now", fileid |-> 7, size |-> 9, type |-> 1]

TrackerReplies(request) ==
  IF request.name = QueryPeer.name
    THEN {Pack(PAYLOAD_REQUEST_PEER_REPLAY, QueryPeerReply,
               [ReturnCode |-> code, FileId |-> TheFile, Count |-> Len(peers), Info |-> peers]) :
            code \in {ERROR_OK, ERROR_UNKNOWN}, peers \in {<<>>, <<OnePeer, OnePeer>>}}
    ELSE {Pack(PAYLOAD_MESSAGE_REPLY, MessageReply, msg) :
            msg \in {[ReturnCode |-> ERROR_OK], [ReturnCode |-> ERROR_UNKNOWN, Message |-> "why"]}}

ResourceReplies(request) ==
  {Pack(0, Reply, [num |-> request.msg.num, flag |-> flag, info |-> <<>>]) : flag \in {0, 1}}
    \cup {Pack(0, Reply, [num |-> request.msg.num, flag |-> 1, info |-> <<OneInfo>>]),
          Pack(0, Reply, [num |-> request.msg.num, flag |-> 1, info |-> <<>>, count |-> 3,
                          brief |-> "about", seed |-> "torrent"])}

Replies ==
  IF server = "tracker" THEN TrackerReplies(heard["server"][1].pack)
  ELSE ResourceReplies(heard["server"][1].pack)

ServerAnswers ==
  /\ server # "peer"
  /\ step["server"] = "answer"
  /\ heard["server"][1].ok
  /\ \E reply \in Replies : Say("server", reply)
  /\ Goes("server", FirstStep, 4, <<>>)
  /\ UNCHANGED <<link, bitmaps, heard, whole>>

---------------------------------------------------------------------------
(* The caller uses the reply.  A NULL message is dereferenced after a      *)
(* handshake and after a query for peers, fails a download task, and is    *)
(* taken for a success by the other calls to the tracker, which go on.     *)
NoBitmap == Bitmap(0, {})

UseShakeHand ==
  /\ step["caller"] = "use"
  /\ said["caller"].name = ShakeHand.name
  /\ IF Cast("caller", ShakeHand)
       THEN LET info == heard["caller"][1].pack.msg.Info
            IN  /\ Goes("caller", "idle", 0, <<>>)
                /\ filed' = IF info.HasFile = 0 THEN NoBitmap
                            ELSE conver_transport_format_bitmap(info)
       ELSE Breaks("caller") /\ UNCHANGED filed
  /\ UNCHANGED <<link, mine, owners, shares, shown, incoming, said, heard, whole>>

NullHurts ==
  \/ said["caller"].name = UploadRequest.name /\ ~Cast("caller", UploadReply)
  \/ said["caller"].name = QueryPeer.name /\ ~Cast("caller", QueryPeerReply)

UseReply ==
  /\ step["caller"] = "use"
  /\ said["caller"].name # ShakeHand.name
  /\ IF NullHurts THEN Breaks("caller") ELSE Goes("caller", "idle", 0, <<>>)
  /\ UNCHANGED <<link, bitmaps, incoming, said, heard, whole>>

---------------------------------------------------------------------------
(* Meanwhile the peer downloads the file too, or removes its job.          *)
OwnerDownloads ==
  /\ shares
  /\ \E chunk \in 0 .. FileSize - 1 \ owners.ones :
       owners' = [owners EXCEPT !.ones = @ \cup {chunk}]
  /\ UNCHANGED <<link, mine, shares, filed, shown, incoming, step, want, content, said,
                 heard, whole>>

OwnerRemovesJob ==
  /\ shares
  /\ shares' = FALSE
  /\ UNCHANGED <<link, mine, owners, filed, shown, incoming, step, want, content, said,
                 heard, whole>>

NetPackInit ==
  /\ server \in Servers
  /\ incoming = [e \in Ends |-> <<>>]
  /\ step = [e \in Ends |-> IF e = "caller" THEN "idle" ELSE FirstStep]
  /\ want = [e \in Ends |-> IF e = "caller" THEN 0 ELSE 4]
  /\ content = [e \in Ends |-> <<>>]
  /\ said = [e \in Ends |-> NoPack]
  /\ heard = [e \in Ends |-> <<>>]
  /\ calls = 0
  /\ mine \in Bitmaps(FileSize)
  /\ owners \in Bitmaps(FileSize)
  /\ shares = (server = "peer")
  /\ server # "peer" => mine.ones = {} /\ owners.ones = {}
  /\ filed = NoBitmap
  /\ shown = {}
  /\ whole = TRUE

Receive(e) ==
  \/ receiveHeaderLength(e)
  \/ receiveHeader(e)
  \/ receivePayload(e)
  \/ ConnLength(e)
  \/ ConnContent(e)

NetPackNext ==
  \/ Call
  \/ \E e \in Ends : Receive(e)
  \/ PeerAnswers
  \/ ServerAnswers
  \/ UseShakeHand
  \/ UseReply
  \/ OwnerDownloads
  \/ OwnerRemovesJob

NetPackSpec == NetPackInit /\ [][NetPackNext]_netpackVars

---------------------------------------------------------------------------
(* As long as every receive of NetPack returns what it asked for, each end *)
(* gets every message the other builds, with its type and all its fields:  *)
(* no request or reply of the program lacks a required field, the lengths  *)
(* announced are those of what follows, and nothing is left over between   *)
(* two calls.  On the connection to the resource server this holds however *)
(* the bytes arrive.                                                       *)
InStep ==
  whole \/ server = "resource" =>
    /\ \A e \in Ends : step[e] # "broken"
    /\ \A e \in Ends : heard[e] # <<>> =>
         heard[e][1] = [ok |-> TRUE, pack |-> said[Other(e)]]
    /\ step["caller"] = "idle" => incoming["caller"] = <<>> /\ incoming["server"] = <<>>

(* However the bytes arrive, a receiver takes nothing for a message that   *)
(* has not been sent: what is parsed of a header or a message that came in *)
(* pieces ends in an error or in no message at all, on the same call and   *)
(* on the ones that follow it over the connection.                         *)
NothingInvented ==
  \A e \in Ends : heard[e] # <<>> /\ heard[e][1].ok => heard[e][1].pack = said[Other(e)]

(* The bitmap the caller keeps for a peer, which chooses what is asked of  *)
(* it, is one the peer has shown, of the size of the file, and claims no   *)
(* chunk the peer does not have, through both conversions to blocks.       *)
FiledWasShown ==
  filed # NoBitmap =>
    /\ filed \in shown
    /\ filed.size = FileSize
    /\ filed.ones \subseteq owners.ones
=============================================================================
