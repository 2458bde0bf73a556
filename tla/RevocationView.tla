--------------------------- MODULE RevocationView ---------------------------
(***************************************************************************)
(* What the revocation registry of SIFR promises: a set of revoked         *)
(* capabilities that only grows, and verifiers that each answer from a     *)
(* view of it.  A view may lag until it is refreshed, but it holds nothing *)
(* that is not revoked and forgets nothing while its verifier runs.        *)
(***************************************************************************)
CONSTANTS
  Procs,    \* the verifier processes
  Caps      \* the capability ids

VARIABLES
  revoked,  \* the capabilities revoked for good
  view      \* what each process answers from

Init == revoked = {} /\ view = [p \in Procs |-> {}]

\* A capability is revoked; nobody needs to have noticed.
Revoke(c) ==
  /\ revoked' = revoked \cup {c}
  /\ UNCHANGED view

\* A process learns of revocations: its own, or those of a reload.
Learn(p) ==
  /\ \E more \in SUBSET revoked : view' = [view EXCEPT ![p] = @ \cup more]
  /\ UNCHANGED revoked

\* Its own revocation is durable and known to the process in one step.
RevokeHere(p, c) ==
  /\ revoked' = revoked \cup {c}
  /\ view' = [view EXCEPT ![p] = @ \cup {c}]

\* A process that dies forgets its view.
Die(p) ==
  /\ view' = [view EXCEPT ![p] = {}]
  /\ UNCHANGED revoked

Next ==
  \/ \E c \in Caps : Revoke(c)
  \/ \E p \in Procs : Learn(p) \/ Die(p)
  \/ \E p \in Procs, c \in Caps : RevokeHere(p, c)

Spec == Init /\ [][Next]_<<revoked, view>>
=============================================================================
