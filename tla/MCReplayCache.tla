--------------------------- MODULE MCReplayCache ----------------------------
(* Small instances of ReplayCache for TLC.                                 *)
EXTENDS ReplayCache

CONSTANTS p1, p2, t1, t2, t3, k1, k2

\* Two threads of one process and one thread of another.
ThreadsOfTwo == [t \in {t1, t2, t3} |-> IF t = t3 THEN p2 ELSE p1]
OneEach      == [t \in {t1, t2} |-> IF t = t1 THEN p1 ELSE p2]

\* One key that is sent again with a timestamp two windows later.
OneKey  == {[key |-> k1, ts |-> 0], [key |-> k1, ts |-> 2]}

\* Two messages with windows that overlap.
TwoKeys == {[key |-> k1, ts |-> 0], [key |-> k2, ts |-> 1]}
=============================================================================
