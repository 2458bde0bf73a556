----------------------------- MODULE ReplayGate -----------------------------
(***************************************************************************)
(* What the replay protection of SIFR promises, with no cache, no lock, no *)
(* table and no thread: a log of admitted messages in which a key          *)
(* (sender_id, session_id, message_id) comes back only once the window of  *)
(* its earlier admission is over.                                          *)
(*                                                                         *)
(* The gate is stated twice over the same cache: for the SQLite table that *)
(* all processes share (it never forgets), and for the memory of one       *)
(* process (it forgets when the process restarts: Volatile).               *)
(***************************************************************************)
EXTENDS Naturals, Sequences

CONSTANTS
  Messages,   \* the messages, as records with the fields key and ts
  Window,     \* the sliding window, in clock units
  Volatile    \* TRUE for a gate that is emptied by a restart

VARIABLES
  clock,      \* the host's clock
  admissions  \* the admitted messages, each with the time of its admission

gateVars == <<clock, admissions>>

Admission(m, time) == [key |-> m.key, ts |-> m.ts, at |-> time]

Admissions == [key : {m.key : m \in Messages}, ts : Nat, at : Nat]

Records(a, e) == a.key = e.key /\ a.ts = e.ts

\* The window of an admitted (or recorded) message: until when a duplicate
\* of it could still pass the freshness test of the code.
Live(e, time) == time <= e.ts + Window

Init == clock = 0 /\ admissions = <<>>

Admit(m) ==
  /\ m.ts <= clock + Window
  /\ \A i \in DOMAIN admissions : admissions[i].key = m.key => ~Live(admissions[i], clock)
  /\ admissions' = Append(admissions, Admission(m, clock))
  /\ UNCHANGED clock

Forget == Volatile /\ admissions' = <<>> /\ UNCHANGED clock

Tick == clock' = clock + 1 /\ UNCHANGED admissions

Next == Tick \/ Forget \/ \E m \in Messages : Admit(m)

Spec == Init /\ [][Next]_gateVars

-----------------------------------------------------------------------------
\* Of two admissions of one key in a log, the later one came after the window
\* of the earlier one had closed.
AtMostOncePerWindow(log) ==
  \A i, j \in DOMAIN log :
    i < j /\ log[i].key = log[j].key => ~Live(log[i], log[j].at)

OncePerWindow == AtMostOncePerWindow(admissions)
=============================================================================
