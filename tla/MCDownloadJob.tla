--------------------------- MODULE MCDownloadJob ---------------------------
EXTENDS DownloadJob, TLC

CONSTANTS c1, c2, f1, f2

\* One file of two chunks, or two files of one chunk each.
OneFile == f1 :> 2
TwoFiles == f1 :> 1 @@ f2 :> 1

\* c1 has the whole torrent, c2 all but the first chunk of f1.
SeedAndPart == c1 :> Chunk @@ c2 :> Chunk \ {<<f1, 0>>}
Seeds == c1 :> Chunk @@ c2 :> Chunk

SomeViews == {{c2}, {c1, c2}}
FullView == {Client}

NewJob == {{}}
AnyStart == SUBSET Chunk

NoCopies == {}
AllCopied == File
=============================================================================
