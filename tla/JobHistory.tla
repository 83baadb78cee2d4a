----------------------------- MODULE JobHistory -----------------------------
(***************************************************************************)
(* What survives the program: the history of the jobs and the torrent      *)
(* files it refers to (src/CoolClient/src/client.cc: initialize,           *)
(* uninitialize, SaveJobHistory, ReloadJobHistory, ReloadOneJob,           *)
(* ParseTorrent, MakeTorrent, DownloadTorrent).                            *)
(*                                                                         *)
(* The jobs are saved once, when the program ends, over the history that   *)
(* was there; a torrent is kept under the name of what it was made of, so  *)
(* that another torrent of that name replaces it, also under a job that    *)
(* needs it.  The program may be killed between any two steps.             *)
(***************************************************************************)
EXTENDS Messages, Bitmaps

CONSTANTS
  TorrentFiles,  \* torrent id -> sequence of [CheckSum, Filename, chunks]
  Paths,         \* names of torrent files
  JobThreads,    \* threads for the jobs: the capacity of jobThreads_
  MaxCommands,   \* bound: torrents written, jobs added and removed
  MaxCrashes     \* bound: times the program is killed

TorrentIds == DOMAIN TorrentFiles
FilesOf(id) == ToSet(TorrentFiles[id])
AllFiles == UNION {FilesOf(id) : id \in TorrentIds}
FileIds == {file.CheckSum : file \in AllFiles}

(* A checksum stands for one content, and the chunks of every torrent are  *)
(* of one size (coolclientproxy.cpp:362).                                  *)
ASSUME JobHistoryAssumption ==
  /\ \A id \in TorrentIds :
       TorrentFiles[id] \in Seq([CheckSum : STRING, Filename : STRING, chunks : Nat])
  /\ \A file, other \in AllFiles : file.CheckSum = other.CheckSum => file.chunks = other.chunks
  /\ JobThreads \in Nat \ {0}
  /\ MaxCommands \in Nat
  /\ MaxCrashes \in Nat

VARIABLES
  pc,         \* "down", "reloading", "up", "saving", "hung", or why the start failed
  history,    \* the history file
  torrents,   \* the torrent files there are: name -> content
  written,    \* the chunks on disk: directory (one per torrent) -> file -> chunks
  jobs,       \* jobs_, in the order of their handles
  reloading,  \* the entries of the history still to be reloaded
  making,     \* the name a torrent is being made for, and its id, if any
  commands,   \* number of commands so far
  crashes,    \* number of crashes so far
  built,      \* history: the entries of the last save
  saved,      \* history: the jobs when they were last saved
  orderly,    \* history: the last save was neither killed nor thrown out of
  failed      \* history: the last program that ended its start failed to start

vars == <<pc, history, torrents, written, jobs, reloading, making, commands, crashes,
          built, saved, orderly, failed>>
disk == <<history, torrents, written>>
ghosts == <<built, saved, orderly, failed>>

(* One map over another.                                                   *)
Over(map, other) ==
  [key \in DOMAIN map \cup DOMAIN other |-> IF key \in DOMAIN map THEN map[key] ELSE other[key]]

NotMaking == <<>>
StartFailed == {"duplicate", "no_thread"}

---------------------------------------------------------------------------
(* A torrent, as MakeTorrent writes it.                                    *)
ChunkMsg == [CheckSum |-> "digest", Size |-> 1]
FileMsg(file) ==
  [CheckSum |-> file.CheckSum, RelativePath |-> "", Filename |-> file.Filename,
   Size |-> file.chunks, Chunk |-> [c \in 1 .. file.chunks |-> ChunkMsg]]
TorrentMsg(id) ==
  [TorrentId |-> id, Type |-> 1, TotalSize |-> 1, CreateBy |-> "me", CreateTime |-> "now",
   TrackerAddress |-> "tracker",
   File |-> [i \in DOMAIN TorrentFiles[id] |-> FileMsg(TorrentFiles[id][i])]]

Written(id) == Encode(Torrent, TorrentMsg(id))
Nothing == <<>>

(* ParseTorrent: the torrent under a name, if there is one.                *)
ParseTorrent(path) ==
  IF path \in DOMAIN torrents THEN Parse(Torrent, torrents[path]) ELSE Cut

HasThisTorrent(id) == \E i \in DOMAIN jobs : jobs[i].torrent.TorrentId = id

(* JobInfo::JobInfo: a bitmap of zeros for every file that is needed.      *)
JobInfo(torrent, path, top, needs) ==
  LET needed == {i \in DOMAIN torrent.File : torrent.File[i].Filename \in needs}
      chunks(fileid) ==
        Max({Len(torrent.File[i].Chunk) : i \in {j \in needed : torrent.File[j].CheckSum = fileid}})
  IN  [torrent |-> torrent, path |-> path, top |-> top,
       bitmap_map |-> [fileid \in {torrent.File[i].CheckSum : i \in needed} |->
                         Bitmap(chunks(fileid), {})]]

---------------------------------------------------------------------------
(* Saving.  Every file of the torrent is saved, and a file that was not    *)
(* selected has no bitmap: SaveJobHistory then throws.                     *)
CanSave == \A i \in DOMAIN jobs :
             \A f \in DOMAIN jobs[i].torrent.File :
               jobs[i].torrent.File[f].CheckSum \in DOMAIN jobs[i].bitmap_map

SavedFile(job, file) ==
  LET bitmap == job.bitmap_map[file.CheckSum]
  IN  [Fileid |-> file.CheckSum, RelativePath |-> file.RelativePath,
       Filename |-> file.Filename, FileBit |-> to_block_range(bitmap),
       FileBitCount |-> bitmap.size]
SavedJob(job) ==
  [TorrentPath |-> job.path, LocalTopPath |-> job.top, UploadTotal |-> 0, DownloadTotal |-> 0,
   File |-> [f \in DOMAIN job.torrent.File |-> SavedFile(job, job.torrent.File[f])]]
Entries == [i \in DOMAIN jobs |-> SavedJob(jobs[i])]

\* (Faulty variant, to validate OnlyWhatWasSaved: the file is opened to append.)
Opened_appending(stream) == stream

(* Opening the file to write it empties it.                                *)
Opened(stream) == Nothing

SaveOpens ==
  /\ pc' = "saving"
  /\ history' = Opened(history)
  /\ orderly' = FALSE
  /\ UNCHANGED <<torrents, written, jobs, reloading, making, commands, crashes, built, saved>>

(* The user ends the program.                                              *)
Quit ==
  /\ pc = "up"
  /\ SaveOpens
  /\ UNCHANGED failed

\* (Faulty variant, to validate FailsOnce: a program that could not start
\* leaves the history as it is.)
InitFails_unsaved ==
  /\ pc \in StartFailed
  /\ pc' = "down"
  /\ jobs' = <<>>
  /\ failed' = TRUE
  /\ UNCHANGED <<disk, reloading, making, commands, crashes, built, saved, orderly>>

(* After an exception in initialize, main returns at once and uninitialize *)
(* saves what has been reloaded so far.                                    *)
InitFails ==
  /\ pc \in StartFailed
  /\ SaveOpens
  /\ failed' = TRUE

ProgramEnds ==
  /\ pc' = "down"
  /\ jobs' = <<>>
  /\ making' = NotMaking
  /\ UNCHANGED <<torrents, written, commands>>

SaveJobHistory ==
  /\ pc = "saving"
  /\ CanSave
  /\ ProgramEnds
  /\ history' = history \o Encode(History, [JobInfo |-> Entries])
  /\ built' = Entries
  /\ saved' = jobs
  /\ orderly' = TRUE
  /\ UNCHANGED <<reloading, crashes, failed>>

(* The exception leaves uninitialize before exiting_ is set, for which the *)
(* user interface waits for ever: the user kills the program.              *)
SaveThrows ==
  /\ pc = "saving"
  /\ ~CanSave
  /\ pc' = "hung"
  /\ UNCHANGED <<disk, jobs, reloading, making, commands, crashes, ghosts>>

Kill ==
  /\ pc = "hung"
  /\ ProgramEnds
  /\ UNCHANGED <<history, reloading, crashes, ghosts>>

(* The program is killed: what was being written may be there in part.     *)
Crash ==
  /\ pc # "down"
  /\ crashes < MaxCrashes
  /\ crashes' = crashes + 1
  /\ ProgramEnds
  /\ reloading' = <<>>
  /\ IF pc = "saving" /\ CanSave
       THEN LET stream == Encode(History, [JobInfo |-> Entries])
            IN  /\ \E n \in 0 .. Len(stream) : history' = history \o SubSeq(stream, 1, n)
                /\ built' = Entries
                /\ UNCHANGED <<saved, orderly, failed>>
       ELSE UNCHANGED <<history, ghosts>>

---------------------------------------------------------------------------
(* Reloading.                                                              *)
Start ==
  /\ pc = "down"
  /\ pc' = "reloading"
  /\ LET read == Parse(History, history)
     IN  reloading' = IF read.ok THEN read.msg.JobInfo ELSE <<>>
  /\ UNCHANGED <<disk, jobs, making, commands, crashes, ghosts>>

\* (Faulty variant, to validate OwnJobsComeBack: the bitmap keeps the size of
\* its blocks.)
reloaded_bitmap_unsized(file) == from_block_range(file.FileBit)

reloaded_bitmap(file) == resize(from_block_range(file.FileBit), file.FileBitCount)

ReloadedJob(torrent, entry) ==
  LET info == JobInfo(torrent, entry.TorrentPath, entry.LocalTopPath,
                      {file.Filename : file \in ToSet(entry.File)})
      saved_bitmaps ==
        [fileid \in {file.Fileid : file \in ToSet(entry.File)} |->
           reloaded_bitmap(CHOOSE file \in ToSet(entry.File) : file.Fileid = fileid)]
  IN  [info EXCEPT !.bitmap_map = Over(saved_bitmaps, @)]

(* An entry whose torrent cannot be read is skipped.  Two entries that now *)
(* lead to the same torrent fail an assertion, and a job for which there   *)
(* is no thread left, those before it still running, an exception: either  *)
(* ends initialize.                                                        *)
ReloadOneJob ==
  /\ pc = "reloading"
  /\ reloading # <<>>
  /\ LET entry == Head(reloading)
         torrent == ParseTorrent(entry.TorrentPath)
     IN  CASE ~torrent.ok ->
                reloading' = Tail(reloading) /\ UNCHANGED <<pc, jobs>>
           [] torrent.ok /\ HasThisTorrent(torrent.msg.TorrentId) ->
                pc' = "duplicate" /\ reloading' = <<>> /\ UNCHANGED jobs
           [] torrent.ok /\ ~HasThisTorrent(torrent.msg.TorrentId) ->
                /\ jobs' = Append(jobs, ReloadedJob(torrent.msg, entry))
                /\ \/ reloading' = Tail(reloading) /\ UNCHANGED pc
                   \/ /\ Len(jobs) >= JobThreads
                      /\ pc' = "no_thread" /\ reloading' = <<>>
  /\ UNCHANGED <<disk, making, commands, crashes, ghosts>>

ReloadEnds ==
  /\ pc = "reloading"
  /\ reloading = <<>>
  /\ pc' = "up"
  /\ failed' = FALSE
  /\ UNCHANGED <<disk, jobs, reloading, making, commands, crashes, built, saved, orderly>>

---------------------------------------------------------------------------
(* Torrents and jobs while the program runs.                               *)
Commands ==
  /\ pc = "up"
  /\ commands < MaxCommands
  /\ commands' = commands + 1
  /\ UNCHANGED <<pc, history, reloading, crashes, ghosts>>

Write(path, content) == torrents' = Over([name \in {path} |-> content], torrents)

(* MakeTorrent empties the file of that name first and writes it when all  *)
(* files have been read, or removes it when the user stops.                *)
MakeBegins(path, id) ==
  /\ Commands
  /\ making = NotMaking
  /\ making' = <<path, id>>
  /\ Write(path, Nothing)
  /\ UNCHANGED <<written, jobs>>

(* MakeTorrentRunnable adds the job of a torrent it has made; all its      *)
(* chunks are there.                                                       *)
MakeEnds ==
  /\ pc = "up"
  /\ making # NotMaking
  /\ making' = NotMaking
  /\ LET path == making[1]
         id == making[2]
         info == JobInfo(TorrentMsg(id), path, id, {file.Filename : file \in FilesOf(id)})
         All(bitmap) == Bitmap(bitmap.size, 0 .. bitmap.size - 1)
         full == [fileid \in DOMAIN info.bitmap_map |-> All(info.bitmap_map[fileid])]
     IN  /\ Write(path, Written(id))
         /\ IF HasThisTorrent(id)
              THEN UNCHANGED <<jobs, written>>
              ELSE /\ jobs' = Append(jobs, [info EXCEPT !.bitmap_map = full])
                   /\ written' = [written EXCEPT ![id] =
                        [fileid \in FileIds |-> IF fileid \in DOMAIN full
                                                  THEN full[fileid].ones ELSE @[fileid]]]
  /\ UNCHANGED <<pc, history, reloading, commands, crashes, ghosts>>

MakeStopped ==
  /\ pc = "up"
  /\ making # NotMaking
  /\ making' = NotMaking
  /\ torrents' = [path \in DOMAIN torrents \ {making[1]} |-> torrents[path]]
  /\ UNCHANGED <<pc, history, written, jobs, reloading, commands, crashes, ghosts>>

(* The torrent of a resource is stored under the name of the resource.     *)
DownloadTorrent(path, id) ==
  /\ Commands
  /\ Write(path, Written(id))
  /\ UNCHANGED <<written, jobs, making>>

(* The user selects a torrent and some of its files; what is in their      *)
(* directory already stays there.                                          *)
AddNewDownloadJob(path) ==
  LET torrent == ParseTorrent(path)
      id == torrent.msg.TorrentId
  IN  /\ Commands
      /\ torrent.ok
      /\ ~HasThisTorrent(id)
      /\ \E needs \in SUBSET {file.Filename : file \in FilesOf(id)} :
           jobs' = Append(jobs, JobInfo(torrent.msg, path, id, needs))
      /\ UNCHANGED <<torrents, written, making>>

RemoveJob(i) ==
  /\ Commands
  /\ jobs' = RemoveAt(jobs, i)
  /\ UNCHANGED <<torrents, written, making>>

(* A chunk that has been received is written before it is marked, also     *)
(* while the history is being saved, or could not be.                      *)
WriteChunk(i, fileid, chunk) ==
  /\ pc \in {"up", "saving", "hung"}
  /\ chunk \notin written[jobs[i].top][fileid]
  /\ written' = [written EXCEPT ![jobs[i].top][fileid] = @ \cup {chunk}]
  /\ UNCHANGED <<pc, history, torrents, jobs, reloading, making, commands, crashes, ghosts>>

Mark(i, fileid, chunk) ==
  /\ pc \in {"up", "saving", "hung"}
  /\ chunk \notin jobs[i].bitmap_map[fileid].ones
  /\ jobs' = [jobs EXCEPT ![i].bitmap_map[fileid].ones = @ \cup {chunk}]
  /\ UNCHANGED <<pc, disk, reloading, making, commands, crashes, ghosts>>

\* (Faulty variant, to validate ClaimsOwned: a chunk is marked when it has been
\* received.)
MarkChunk_early(i, fileid, chunk) == Mark(i, fileid, chunk)

MarkChunk(i, fileid, chunk) ==
  /\ chunk \in written[jobs[i].top][fileid]
  /\ Mark(i, fileid, chunk)

ChunkArrives ==
  \E i \in DOMAIN jobs :
    \E fileid \in DOMAIN jobs[i].bitmap_map :
      \E chunk \in 0 .. jobs[i].bitmap_map[fileid].size - 1 :
        WriteChunk(i, fileid, chunk) \/ MarkChunk(i, fileid, chunk)

Init ==
  /\ pc = "down"
  /\ history = Nothing
  /\ torrents = <<>>
  /\ written = [id \in TorrentIds |-> [fileid \in FileIds |-> {}]]
  /\ jobs = <<>>
  /\ reloading = <<>>
  /\ making = NotMaking
  /\ commands = 0
  /\ crashes = 0
  /\ built = <<>>
  /\ saved = <<>>
  /\ orderly = TRUE
  /\ failed = FALSE

User ==
  \/ Quit
  \/ \E path \in Paths, id \in TorrentIds : MakeBegins(path, id) \/ DownloadTorrent(path, id)
  \/ MakeStopped
  \/ \E path \in DOMAIN torrents : AddNewDownloadJob(path)
  \/ \E i \in DOMAIN jobs : RemoveJob(i)

Next ==
  \/ Start
  \/ ReloadOneJob
  \/ ReloadEnds
  \/ InitFails
  \/ SaveJobHistory
  \/ SaveThrows
  \/ Kill
  \/ MakeEnds
  \/ ChunkArrives
  \/ User
  \/ Crash

Spec == Init /\ [][Next]_vars

---------------------------------------------------------------------------
(* What can be read of the history is what was saved last, entry by entry  *)
(* from the first: a program killed while it saves may lose jobs, but it   *)
(* leaves no entry in part and none of an earlier time.                    *)
OnlyWhatWasSaved ==
  LET read == Parse(History, history)
  IN  read.ok => IsPrefix(read.msg.JobInfo, built)

(* After an orderly end, a job whose torrent file is still its own comes   *)
(* back with its directory and every bit of the bitmaps of its files,      *)
(* whatever has become of the other torrents, unless the program fails to  *)
(* start.                                                                  *)
OwnTorrent(job) == ParseTorrent(job.path) = Read(job.torrent)
SameJob(j, k) ==
  /\ j.torrent = k.torrent /\ j.path = k.path /\ j.top = k.top
  /\ \A f \in DOMAIN j.torrent.File :
       LET fileid == j.torrent.File[f].CheckSum
       IN  j.bitmap_map[fileid] = k.bitmap_map[fileid]

OwnJobsComeBack ==
  pc = "reloading" /\ reloading = <<>> /\ orderly =>
    \A i \in DOMAIN saved :
      OwnTorrent(saved[i]) => \E k \in DOMAIN jobs : SameJob(saved[i], jobs[k])

(* No bitmap claims a chunk that is not on disk, across restarts, crashes  *)
(* and torrents that have replaced others: what is claimed is offered to   *)
(* peers and never downloaded again.                                       *)
ClaimsOwned ==
  \A i \in DOMAIN jobs : \A fileid \in DOMAIN jobs[i].bitmap_map :
    jobs[i].bitmap_map[fileid].ones \subseteq written[jobs[i].top][fileid]

(* Two entries of the history that lead to one torrent end a start once:   *)
(* what the failed program saves is short of the second, and the next one  *)
(* starts, even when that save was cut short.                              *)
FailsOnce == pc = "duplicate" => ~failed
=============================================================================
