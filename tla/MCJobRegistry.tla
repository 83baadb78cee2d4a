--------------------------- MODULE MCJobRegistry ---------------------------
EXTENDS JobRegistry, TLC

CONSTANTS t1, t2, ui, maker

Symmetry == Permutations({t1, t2})
=============================================================================
