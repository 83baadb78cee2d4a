------------------------------ MODULE MCProxy ------------------------------
EXTENDS Proxy, TLC

CONSTANTS t1, t2, ui

Symmetry == Permutations({t1, t2})

\* The same keywords with two types.
MCQuery == {<<"song", 1>>, <<"song", 2>>}
=============================================================================
