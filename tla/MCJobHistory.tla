---------------------------- MODULE MCJobHistory ----------------------------
EXTENDS JobHistory

\* Two torrents that share a file name and a file: one of two files whose
\* bitmaps do not fill their blocks, and one that holds the same file twice.
MCTorrentFiles ==
  [t1 |-> <<[CheckSum |-> "f1", Filename |-> "a", chunks |-> 1],
            [CheckSum |-> "f2", Filename |-> "b", chunks |-> 1]>>,
   t2 |-> <<[CheckSum |-> "f2", Filename |-> "a", chunks |-> 1],
            [CheckSum |-> "f2", Filename |-> "c", chunks |-> 1]>>]

MCPaths == Permutations(Paths)
=============================================================================
