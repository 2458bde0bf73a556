------------------------- MODULE MCAuthorizeAction --------------------------
(* Small instances of AuthorizeAction for TLC.                             *)
EXTENDS AuthorizeAction

CONSTANTS p1, p2, t1, t2, c1, k1, k2, alice

OneEach == [t \in {t1, t2} |-> IF t = t1 THEN p1 ELSE p2]

\* One capability of alice to add, for one call, until the clock is 2.
OneCall == {
  [cap |-> c1, subject |-> alice, actions |-> {"add"}, expires |-> 2,
   max_calls |-> 1, max_payload_bytes |-> 1, allow_delegation |-> FALSE]}

Add(k, time) ==
  [key |-> k, ts |-> time, sender |-> alice, cap |-> c1, action |-> "add",
   bytes |-> 1, delegate_to |-> FALSE]

\* Two calls that pass every test, and one that fails the last one.
Mixed == {Add(k1, 0), Add(k2, 1), [Add(k2, 1) EXCEPT !.delegate_to = TRUE]}
=============================================================================
