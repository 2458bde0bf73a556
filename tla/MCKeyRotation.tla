--------------------------- MODULE MCKeyRotation ----------------------------
(* Small instances of KeyRotation for TLC.                                 *)
EXTENDS KeyRotation

CONSTANTS k1, k2, alice

\* A kid of alice, and one without a DID.
DidOfKids == [kid \in {k1, k2} |-> IF kid = k2 THEN NoDid ELSE alice]
=============================================================================
