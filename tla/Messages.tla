------------------------------ MODULE Messages ------------------------------
(***************************************************************************)
(* The messages of the program, as tables for the codec of module Wire.    *)
(* Every message has three definitions:                                    *)
(*   XFields  its accessors in the .pb.h file: the fields, their kinds and *)
(*            the defaults they answer when they are not set;              *)
(*   XWire    its code in the .pb.cc file, from MergePartialFromCodedStream*)
(*            over SerializeWithCachedSizes and ByteSize to IsInitialized: *)
(*            the fields in the order of their numbers (which are 1, 2,    *)
(*            3, ... in every message) and those that are required;        *)
(*   X        the class with its full name.                                *)
(* Booleans, percentages and sizes are numbers here.                       *)
(***************************************************************************)
EXTENDS Wire

---------------------------------------------------------------------------
(* netpack_header.proto: what NetPack puts before every message.           *)
NetPackHeaderFields ==
  [payloadType |-> Number(0), payloadLength |-> Number(0),
   messageName |-> Text]
NetPackHeaderWire ==
  [order |-> <<"payloadType", "payloadLength", "messageName">>,
   required |-> {}]
NetPackHeader == Message("NetPackHeader", NetPackHeaderFields, NetPackHeaderWire)


---------------------------------------------------------------------------
(* client.proto: what peers say to each other.                             *)
ClientFileInfoFields ==
  [FileId |-> Text, HasFile |-> Number(0), Percentage |-> Number(0),
   FileBit |-> Repeated(Number(0)), FileBitCount |-> Number(0)]
ClientFileInfoWire ==
  [order |-> <<"FileId", "HasFile", "Percentage", "FileBit",
             "FileBitCount">>,
   required |-> {"FileId", "HasFile", "Percentage", "FileBitCount"}]
ClientFileInfo == Message("ClientProto.FileInfo", ClientFileInfoFields, ClientFileInfoWire)

ShakeHandFields ==
  [ClientId |-> Text, Info |-> Nested(ClientFileInfo)]
ShakeHandWire ==
  [order |-> <<"ClientId", "Info">>,
   required |-> {"ClientId", "Info"}]
ShakeHand == Message("ClientProto.ShakeHand", ShakeHandFields, ShakeHandWire)

UploadRequestFields ==
  [ClientId |-> Text, FileId |-> Text, ChunkNumber |-> Number(0)]
UploadRequestWire ==
  [order |-> <<"ClientId", "FileId", "ChunkNumber">>,
   required |-> {"ClientId", "FileId", "ChunkNumber"}]
UploadRequest == Message("ClientProto.UploadRequest", UploadRequestFields, UploadRequestWire)

UploadReplyFields ==
  [ReturnCode |-> Number(0)]
UploadReplyWire ==
  [order |-> <<"ReturnCode">>,
   required |-> {"ReturnCode"}]
UploadReply == Message("ClientProto.UploadReply", UploadReplyFields, UploadReplyWire)


---------------------------------------------------------------------------
(* tracker.proto: requests to the tracker and its replies.                 *)
PeerFields ==
  [ClientId |-> Text, Ip |-> Text, MessagePort |-> Number(0)]
PeerWire ==
  [order |-> <<"ClientId", "Ip", "MessagePort">>,
   required |-> {"ClientId", "Ip", "MessagePort"}]
Peer == Message("TrackerProto.Peer", PeerFields, PeerWire)

PeerFileInfoFields ==
  [Client |-> Nested(Peer), Percentage |-> Number(0)]
PeerFileInfoWire ==
  [order |-> <<"Client", "Percentage">>,
   required |-> {"Client", "Percentage"}]
PeerFileInfo == Message("TrackerProto.PeerFileInfo", PeerFileInfoFields, PeerFileInfoWire)

QueryPeerFields ==
  [FileId |-> Text, Percentage |-> Number(0), NeedCount |-> Number(20),
   OwnedClients |-> Repeated(Text)]
QueryPeerWire ==
  [order |-> <<"FileId", "Percentage", "NeedCount", "OwnedClients">>,
   required |-> {"FileId", "Percentage"}]
QueryPeer == Message("TrackerProto.QueryPeer", QueryPeerFields, QueryPeerWire)

QueryPeerReplyFields ==
  [ReturnCode |-> Number(0), FileId |-> Text, Count |-> Number(0),
   Info |-> Repeated(Nested(PeerFileInfo))]
QueryPeerReplyWire ==
  [order |-> <<"ReturnCode", "FileId", "Count", "Info">>,
   required |-> {"ReturnCode", "FileId", "Count"}]
QueryPeerReply == Message("TrackerProto.QueryPeerReply", QueryPeerReplyFields, QueryPeerReplyWire)

LoginFields ==
  [ClientId |-> Text, LoginIp |-> Text, MessagePort |-> Number(9025)]
LoginWire ==
  [order |-> <<"ClientId", "LoginIp", "MessagePort">>,
   required |-> {"ClientId"}]
Login == Message("TrackerProto.Login", LoginFields, LoginWire)

LogoutFields ==
  [ClientId |-> Text]
LogoutWire ==
  [order |-> <<"ClientId">>,
   required |-> {"ClientId"}]
Logout == Message("TrackerProto.Logout", LogoutFields, LogoutWire)

ReportProgressFields ==
  [ClientId |-> Text, FileId |-> Text, Percentage |-> Number(0)]
ReportProgressWire ==
  [order |-> <<"ClientId", "FileId", "Percentage">>,
   required |-> {"ClientId", "FileId", "Percentage"}]
ReportProgress == Message("TrackerProto.ReportProgress", ReportProgressFields, ReportProgressWire)

PublishResourceFields ==
  [ClientId |-> Text, FileId |-> Text]
PublishResourceWire ==
  [order |-> <<"ClientId", "FileId">>,
   required |-> {"ClientId", "FileId"}]
PublishResource == Message("TrackerProto.PublishResource", PublishResourceFields, PublishResourceWire)

MessageReplyFields ==
  [ReturnCode |-> Number(0), Message |-> Text]
MessageReplyWire ==
  [order |-> <<"ReturnCode", "Message">>,
   required |-> {"ReturnCode"}]
MessageReply == Message("TrackerProto.MessageReply", MessageReplyFields, MessageReplyWire)


---------------------------------------------------------------------------
(* resource.proto: requests to the resource server and its replies.        *)
AskFields ==
  [num |-> Number(0), type |-> Number(0), key |-> Text,
   counta |-> Number(0), countb |-> Number(0), fileid |-> Number(0),
   seed |-> Text, brief |-> Text, size |-> Number(0)]
AskWire ==
  [order |-> <<"num", "type", "key", "counta", "countb", "fileid", "seed",
             "brief", "size">>,
   required |-> {"num"}]
Ask == Message("Ask", AskFields, AskWire)

InfoFields ==
  [filename |-> Text, time |-> Text, fileid |-> Number(0),
   size |-> Number(0), type |-> Number(0)]
InfoWire ==
  [order |-> <<"filename", "time", "fileid", "size", "type">>,
   required |-> {"filename", "time", "fileid", "size", "type"}]
Info == Message("Info", InfoFields, InfoWire)

ReplyFields ==
  [num |-> Number(0), flag |-> Number(0), info |-> Repeated(Nested(Info)),
   count |-> Number(0), brief |-> Text, seed |-> Text]
ReplyWire ==
  [order |-> <<"num", "flag", "info", "count", "brief", "seed">>,
   required |-> {"num", "flag"}]
Reply == Message("Reply", ReplyFields, ReplyWire)


---------------------------------------------------------------------------
(* torrent.proto: what a torrent file holds.                               *)
ChunkFields ==
  [CheckSum |-> Text, Size |-> Number(0)]
ChunkWire ==
  [order |-> <<"CheckSum", "Size">>,
   required |-> {"CheckSum", "Size"}]
Chunk == Message("Torrent.Chunk", ChunkFields, ChunkWire)

FileFields ==
  [CheckSum |-> Text, RelativePath |-> Text, Filename |-> Text,
   Size |-> Number(0), Chunk |-> Repeated(Nested(Chunk))]
FileWire ==
  [order |-> <<"CheckSum", "RelativePath", "Filename", "Size", "Chunk">>,
   required |-> {"CheckSum", "RelativePath", "Filename", "Size"}]
File == Message("Torrent.File", FileFields, FileWire)

TorrentFields ==
  [TorrentId |-> Text, Type |-> Number(0), TotalSize |-> Number(0),
   CreateBy |-> Text, CreateTime |-> Text, TrackerAddress |-> Text,
   File |-> Repeated(Nested(File)), Introduction |-> Text]
TorrentWire ==
  [order |-> <<"TorrentId", "Type", "TotalSize", "CreateBy", "CreateTime",
             "TrackerAddress", "File", "Introduction">>,
   required |-> {"TorrentId", "Type", "TotalSize", "CreateBy",
                "CreateTime", "TrackerAddress"}]
Torrent == Message("Torrent.Torrent", TorrentFields, TorrentWire)


---------------------------------------------------------------------------
(* job_history.proto: what the history of the jobs holds.                  *)
HistoryFileInfoFields ==
  [Fileid |-> Text, RelativePath |-> Text, Filename |-> Text,
   FileBit |-> Repeated(Number(0)), FileBitCount |-> Number(0)]
HistoryFileInfoWire ==
  [order |-> <<"Fileid", "RelativePath", "Filename", "FileBit",
             "FileBitCount">>,
   required |-> {"Fileid", "RelativePath", "Filename", "FileBitCount"}]
HistoryFileInfo == Message("JobHistory.FileInfo", HistoryFileInfoFields, HistoryFileInfoWire)

JobHistoryInfoFields ==
  [TorrentPath |-> Text, LocalTopPath |-> Text,
   File |-> Repeated(Nested(HistoryFileInfo)), UploadTotal |-> Number(0),
   DownloadTotal |-> Number(0)]
JobHistoryInfoWire ==
  [order |-> <<"TorrentPath", "LocalTopPath", "File", "UploadTotal",
             "DownloadTotal">>,
   required |-> {"TorrentPath", "LocalTopPath", "UploadTotal",
                "DownloadTotal"}]
JobHistoryInfo == Message("JobHistory.JobHistoryInfo", JobHistoryInfoFields, JobHistoryInfoWire)

HistoryFields ==
  [JobInfo |-> Repeated(Nested(JobHistoryInfo))]
HistoryWire ==
  [order |-> <<"JobInfo">>,
   required |-> {}]
History == Message("JobHistory.History", HistoryFields, HistoryWire)

(* The types NetPack::message finds by name.                               *)
MessageTypes ==
  {NetPackHeader, ClientFileInfo, ShakeHand, UploadRequest, UploadReply, Peer,
   PeerFileInfo, QueryPeer, QueryPeerReply, Login, Logout, ReportProgress,
   PublishResource, MessageReply, Ask, Info, Reply, Chunk, File, Torrent,
   HistoryFileInfo, JobHistoryInfo, History}
=============================================================================
