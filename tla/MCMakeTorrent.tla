--------------------------- MODULE MCMakeTorrent ---------------------------
EXTENDS MakeTorrent, TLC

CONSTANTS m1, m2

\* Chunks of 2: an empty file, one smaller than a chunk, one of exactly one
\* and of two chunks, one with a remainder.
AllKinds == m1 :> <<0, 5, 1>> @@ m2 :> <<4, 2, 3>>
Exact == m1 :> <<3, 4>>
=============================================================================
