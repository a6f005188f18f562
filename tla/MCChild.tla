------------------------------ MODULE MCChild ------------------------------
\* Child for TLC: connections are interchangeable, as all of them wait for
\* their answers or none does in what is checked with more than one.
EXTENDS Child, TLC

Symmetry == Permutations(Conn)
=============================================================================
