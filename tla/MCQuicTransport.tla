-------------------------- MODULE MCQuicTransport ---------------------------
(* A small instance of QuicTransport for TLC.                              *)
EXTENDS QuicTransport

CONSTANTS c1, c2

\* The first client sends two messages of different lengths, the second none.
TwoAndNone == [c \in {c1, c2} |-> IF c = c1 THEN <<<<7>>, <<8, 8>>>> ELSE <<>>]
=============================================================================
