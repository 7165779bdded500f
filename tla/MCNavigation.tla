---------------------------- MODULE MCNavigation ----------------------------
\* Model values and symmetry for checking Navigation with TLC.
EXTENDS Navigation

CONSTANTS a1, a2, a3, a4, a5

\* The deepest column has five screens, and a request made there brings none.
MCIds == {a1, a2, a3, a4, a5}

\* Object addresses are interchangeable.
Addresses == Permutations(MCIds)

AllKinds == Kinds
NoKinds == {}

=============================================================================
