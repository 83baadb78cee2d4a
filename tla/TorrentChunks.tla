---------------------------- MODULE TorrentChunks ----------------------------
(***************************************************************************)
(* How a file is cut into chunks: by the thread that makes a torrent       *)
(* (Verification::get_file_and_chunk_checksum_list and                     *)
(* CoolClient::MakeTorrent), and by those that look the chunks up in the   *)
(* torrent (TorrentFileInfo).  Sizes and offsets are in bytes, chunk       *)
(* positions count from 0.                                                 *)
(***************************************************************************)
EXTENDS Integers, Sequences

\* Verification::get_file_chunk_count: the ceiling of size / C, computed with
\* doubles (exact for the sizes of files).
get_file_chunk_count(size, C) == (size + C - 1) \div C

\* The loop of get_file_and_chunk_checksum_list reads C bytes at offset as
\* long as this holds; what is left, full chunk or not, is read after it.
\* (Faulty variant, to validate OffsetsMatch: <= leaves an empty chunk.)
MoreAfter_le(offset, size, C) == offset + C <= size

MoreAfter(offset, size, C) == offset + C < size

\* The bytes of the chunk read at offset.
ReadSize(offset, size, C) ==
    IF MoreAfter(offset, size, C) THEN C ELSE size - offset

\* MakeTorrent: the sizes it writes into the torrent for count chunks.
last_chunk_size(size, C) == size % C

ChunkSizes(count, size, C) ==
    [k \in 1 .. count |-> IF k = count THEN last_chunk_size(size, C) ELSE C]

\* TorrentFileInfo, on the sequence of chunk sizes of a file.
chunk_offset(sizes, pos) ==
    IF pos >= Len(sizes) THEN 0 ELSE sizes[1] * pos

chunk_size(sizes, pos) ==
    IF pos >= Len(sizes) THEN -1 ELSE sizes[pos + 1]

=============================================================================
