------------------------ MODULE MCRevocationRegistry ------------------------
(* Small instances of RevocationRegistry for TLC.                          *)
EXTENDS RevocationRegistry, TLC

CONSTANTS p1, p2, p3, c1, c2

\* Capability ids are interchangeable.
CapSymmetry == Permutations(Caps)
=============================================================================
