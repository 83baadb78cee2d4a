----------------------------- MODULE MakeTorrent -----------------------------
(***************************************************************************)
(* Making torrents: the threads started by                                 *)
(* CoolClientProxy::MakeTorrentAndPublish (MakeTorrentRunnable,            *)
(* CoolClient::MakeTorrent, Verification), which share one stop flag, one  *)
(* progress display and one digest engine behind one mutex.                *)
(*                                                                         *)
(* Checksums are abstracted to what they are the checksum of: the engine   *)
(* holds the chunks that were fed to it since it was last reset.           *)
(***************************************************************************)
EXTENDS TorrentChunks, FiniteSets, SequencesExt

CONSTANTS
    Maker,      \* the threads, each started once
    Sizes,      \* Maker -> the sizes of the files it finds
    C,          \* chunk_size, 1 << 21 in the code
    MaxSkips,   \* bound on failures: a file or the whole path cannot be read
    MaxStops,   \* bound on the times the user stops
    None        \* nobody holds Verification::mutex_

ASSUME MakeTorrentAssumption ==
    /\ C \in Nat \ {0}
    /\ \A m \in Maker : Sizes[m] \in Seq(Nat)
    /\ MaxSkips \in Nat /\ MaxStops \in Nat
    /\ None \notin Maker

VARIABLES
    at,       \* Maker -> where it is
    file,     \* Maker -> the file it works on
    offset,   \* Maker -> where in the file
    reads,    \* Maker -> the chunks of the file read so far: offset and size
    pTorrent, \* Maker -> the files of *pTorrent
    steps,    \* Maker -> current_count_ of its progress object
    total,    \* Maker -> total_count_ of its progress object
    onDisk,   \* the makers whose torrent file exists
    engine,   \* file_engine_: the chunks <<maker, file, offset>> fed to it
    holder,   \* the owner of Verification::mutex_
    stop,     \* stop_making_torrent
    display,  \* current_count and total_count of the proxy
    doomed,   \* history: makers stopped by the user with files left to read
              \* whose stop no new maker has cleared since
    skips, stops

local == <<at, file, offset, reads, pTorrent, steps, total>>
makeVars == <<local, onDisk, engine, holder, stop, display, doomed, skips, stops>>

PC == {"new", "begin", "file", "chunk", "stopped", "publish",
       "published", "gone"}

MakeInit ==
    /\ at = [m \in Maker |-> "new"]
    /\ file = [m \in Maker |-> 1]
    /\ offset = [m \in Maker |-> 0]
    /\ reads = [m \in Maker |-> <<>>]
    /\ pTorrent = [m \in Maker |-> <<>>]
    /\ steps = [m \in Maker |-> 0]
    /\ total = [m \in Maker |-> 0]
    /\ onDisk = {}
    /\ engine = <<>>
    /\ holder = None
    /\ stop = FALSE
    /\ display = <<0, 0>>
    /\ doomed = {}
    /\ skips = 0 /\ stops = 0

GoesTo(m, l) == at' = [at EXCEPT ![m] = l]

FileSize(m) == Sizes[m][file[m]]

FileLeft(m) == file[m] <= Len(Sizes[m])

-----------------------------------------------------------------------------
(* The user interface *)

\* A new maker clears the stop flag and the display, whoever uses them.
MakeTorrentAndPublish(m) ==
    /\ at[m] = "new"
    /\ stop' = FALSE
    /\ display' = <<0, 0>>
    /\ doomed' = {}
    /\ GoesTo(m, "begin")
    /\ UNCHANGED <<file, offset, reads, pTorrent, steps, total, onDisk, engine,
                   holder, skips, stops>>

StopMakingTorrent ==
    /\ stops < MaxStops
    /\ stops' = stops + 1
    /\ stop' = TRUE
    /\ display' = <<-1, 0>>
    /\ doomed' = doomed \cup {m \in Maker :
                    at[m] \in {"begin", "file", "chunk"} /\ FileLeft(m)}
    /\ UNCHANGED <<local, onDisk, engine, holder, skips>>

-----------------------------------------------------------------------------
(* MakeTorrentRunnable::run *)

\* MakeTorrent up to its loop: the torrent file is opened, the files are
\* listed and their chunks counted.
Begin(m) ==
    /\ at[m] = "begin"
    /\ onDisk' = onDisk \cup {m}
    /\ total' = [total EXCEPT ![m] = FoldSeq(+, 0,
                    [i \in DOMAIN Sizes[m] |-> get_file_chunk_count(Sizes[m][i], C)])]
    /\ GoesTo(m, "file")
    /\ UNCHANGED <<file, offset, reads, pTorrent, steps, engine, holder, stop,
                   display, doomed, skips, stops>>

\* The path does not exist or the torrent file cannot be opened.  run() tests
\* for ERROR_VERIFY_STOPPED_BY_CLIENT only, and goes on with an empty torrent.
BeginFails(m) ==
    /\ at[m] = "begin"
    /\ skips < MaxSkips
    /\ skips' = skips + 1
    /\ GoesTo(m, "publish")
    /\ UNCHANGED <<file, offset, reads, pTorrent, steps, total, onDisk, engine,
                   holder, stop, display, doomed, stops>>

\* The mutex is taken for the whole file, and the engine reset.
\* (Faulty variant, to validate DigestOfFile: the engine is not reset.)
OpenWith(m, contents) ==
    /\ at[m] = "file"
    /\ FileLeft(m)
    /\ holder = None
    /\ holder' = m
    /\ engine' = contents
    /\ offset' = [offset EXCEPT ![m] = 0]
    /\ reads' = [reads EXCEPT ![m] = <<>>]
    /\ GoesTo(m, "chunk")
    /\ UNCHANGED <<file, pTorrent, steps, total, onDisk, stop, display, doomed,
                   skips, stops>>

OpenFile_continues(m) == OpenWith(m, engine)

OpenFile(m) == OpenWith(m, <<>>)

\* A chunk is read, fed to the engine and counted, the display refreshed; then
\* the callback says whether to go on, after the last chunk of a file too.
\* (Faulty variant, to validate StopHeeded: it always says yes.)
ChunkRead(m) ==
    /\ at[m] = "chunk"
    /\ reads' = [reads EXCEPT ![m] = Append(@,
                    [offset |-> offset[m],
                     size |-> ReadSize(offset[m], FileSize(m), C)])]
    /\ engine' = Append(engine, <<m, file[m], offset[m]>>)
    /\ steps' = [steps EXCEPT ![m] = @ + 1]
    /\ display' = <<IF stop THEN -1 ELSE steps'[m], total[m]>>
    /\ UNCHANGED <<total, onDisk, stop, doomed, skips, stops>>

NextChunk(m) ==
    /\ MoreAfter(offset[m], FileSize(m), C)
    /\ offset' = [offset EXCEPT ![m] = @ + C]
    /\ UNCHANGED <<at, file, pTorrent, holder>>

\* The file is complete: the mutex is released, and the file is described in
\* the torrent.
RecordFile(m) ==
    /\ ~ MoreAfter(offset[m], FileSize(m), C)
    /\ holder' = None
    /\ pTorrent' = [pTorrent EXCEPT ![m] = Append(@,
                     [file |-> file[m], size |-> FileSize(m),
                      checksum |-> engine', reads |-> reads'[m],
                      chunks |-> ChunkSizes(Len(reads'[m]), FileSize(m), C)])]
    /\ file' = [file EXCEPT ![m] = @ + 1]
    /\ GoesTo(m, "file")
    /\ UNCHANGED offset

StopReading(m) ==
    /\ holder' = None
    /\ GoesTo(m, "stopped")
    /\ UNCHANGED <<file, offset, pTorrent>>

ReadChunk_deaf(m) == ChunkRead(m) /\ (NextChunk(m) \/ RecordFile(m))

ReadChunk(m) ==
    /\ ChunkRead(m)
    /\ \/ stop /\ StopReading(m)
       \/ ~ stop /\ (NextChunk(m) \/ RecordFile(m))

\* The file cannot be read: the exception releases the mutex and is logged,
\* and the torrent is made without the file.
SkipFile(m) ==
    /\ at[m] = "chunk"
    /\ skips < MaxSkips
    /\ skips' = skips + 1
    /\ holder' = None
    /\ file' = [file EXCEPT ![m] = @ + 1]
    /\ GoesTo(m, "file")
    /\ UNCHANGED <<offset, reads, pTorrent, steps, total, onDisk, engine, stop,
                   display, doomed, stops>>

\* After the loop: the torrent is written, or its file removed.
\* (Faulty variant, to validate StopEnds: the file stays.)
Save(m) ==
    /\ at[m] = "file"
    /\ ~ FileLeft(m)
    /\ GoesTo(m, "publish")
    /\ UNCHANGED <<file, offset, reads, pTorrent, steps, total, onDisk, engine,
                   holder, stop, display, doomed, skips, stops>>

RemoveFrom(m, disk) ==
    /\ at[m] = "stopped"
    /\ onDisk' = disk
    /\ GoesTo(m, "gone")
    /\ UNCHANGED <<file, offset, reads, pTorrent, steps, total, engine, holder,
                   stop, display, doomed, skips, stops>>

RemoveTorrent_keeps(m) == RemoveFrom(m, onDisk)

RemoveTorrent(m) == RemoveFrom(m, onDisk \ {m})

\* PublishResource, AddNewUploadJob and StartJob, whatever they return; the
\* assertion on the socket of the resource server may end the thread.
Publish(m) ==
    /\ at[m] = "publish"
    /\ \E l \in {"published", "gone"} : GoesTo(m, l)
    /\ UNCHANGED <<file, offset, reads, pTorrent, steps, total, onDisk, engine,
                   holder, stop, display, doomed, skips, stops>>

-----------------------------------------------------------------------------
MakerStep(m) ==
    \/ Begin(m) \/ BeginFails(m) \/ OpenFile(m) \/ ReadChunk(m) \/ SkipFile(m) \/ Save(m)
    \/ RemoveTorrent(m) \/ Publish(m)

MakeNext ==
    \/ \E m \in Maker : MakeTorrentAndPublish(m) \/ MakerStep(m)
    \/ StopMakingTorrent

MakeSpec == MakeInit /\ [][MakeNext]_makeVars

\* The threads run; a thread that waits for Verification::mutex_ gets it in
\* the end, as its holders release it again and again.
MakeFairSpec == MakeSpec /\ \A m \in Maker : SF_makeVars(MakerStep(m))

-----------------------------------------------------------------------------
(* Properties *)

MakeTypeOK ==
    /\ at \in [Maker -> PC]
    /\ \A m \in Maker : file[m] \in 1 .. Len(Sizes[m]) + 1
    /\ offset \in [Maker -> Nat]
    /\ \A m \in Maker : reads[m] \in Seq([offset : Nat, size : Nat])
    /\ steps \in [Maker -> Nat] /\ total \in [Maker -> Nat]
    /\ onDisk \in SUBSET Maker
    /\ holder \in Maker \cup {None}
    /\ (holder # None <=> \E m \in Maker : at[m] = "chunk")
    /\ stop \in BOOLEAN
    /\ display \in Int \X Int
    /\ doomed \in SUBSET Maker
    /\ skips \in 0 .. MaxSkips /\ stops \in 0 .. MaxStops

\* The checksum of a file in a torrent is that of all its chunks, in order,
\* and of nothing else, although all makers use one engine and may leave it
\* in the middle of a file.
DigestOfFile ==
    \A m \in Maker : \A r \in Range(pTorrent[m]) :
        r.checksum = [k \in 1 .. Len(r.reads) |-> <<m, r.file, r.reads[k].offset>>]

\* A downloader that computes the offset of a chunk from the torrent (the
\* size of the first chunk times the position) gets the offset at which the
\* maker read it, and the chunks read are the whole file, none of them empty
\* unless the file is.
OffsetsMatch ==
    \A m \in Maker : \A r \in Range(pTorrent[m]) :
        /\ \A k \in 1 .. Len(r.reads) :
              /\ chunk_offset(r.chunks, k - 1) = r.reads[k].offset
              /\ r.size > 0 => r.reads[k].size > 0
              /\ r.reads[k].offset + r.reads[k].size =
                    IF k = Len(r.reads) THEN r.size ELSE r.reads[k + 1].offset
        /\ r.size % C # 0 =>
              \A k \in 1 .. Len(r.reads) : chunk_size(r.chunks, k - 1) = r.reads[k].size

\* What the display counts: a chunk more than announced for every empty file,
\* and as many as announced for the others once all files have been read.
ProgressCounts ==
    \A m \in Maker :
        LET empty == Cardinality({i \in DOMAIN Sizes[m] : Sizes[m][i] = 0})
        IN  /\ at[m] \notin {"new", "begin"} => steps[m] <= total[m] + empty
            /\ at[m] \in {"publish", "published"} /\ skips = 0
                  => steps[m] = total[m] + empty

\* A maker that the user stops while it still has a file to read publishes
\* nothing, unless that file cannot be read or a new maker is started before
\* it has seen the stop: the flag is one for all.
StopHeeded ==
    skips = 0 => \A m \in doomed : at[m] \notin {"publish", "published"}

\* It ends, and its torrent file with it.
StopEnds ==
    \A m \in Maker :
        m \in doomed ~> \/ at[m] = "gone" /\ m \notin onDisk
                       \/ m \notin doomed \/ skips > 0

-----------------------------------------------------------------------------
(* A statement of the code that does not hold *)

\* poco_assert( chunk_size > 0 ) in HandleUploadRequest, for the chunks of
\* files that are not empty.
UploadSizePositive ==
    \A m \in Maker : \A r \in Range(pTorrent[m]) :
        r.size > 0 => \A k \in 1 .. Len(r.chunks) : chunk_size(r.chunks, k - 1) > 0

=============================================================================
