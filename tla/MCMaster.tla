------------------------------ MODULE MCMaster ------------------------------
\* Master for TLC: children, logins and connections of a kind that behave
\* alike are interchangeable.
EXTENDS Master, TLC

Symmetry == Permutations(Kid) \cup Permutations(Login)
              \cup Permutations(Web) \cup Permutations(Conn \ Web)
=============================================================================
