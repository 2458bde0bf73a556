----------------------------- MODULE MCAuditLog -----------------------------
(* A small instance of AuditLog for TLC.                                   *)
EXTENDS AuditLog

\* A diamond: d descends from a on two ways.
Diamond == [c \in {"a", "b", "c", "d"} |->
  CASE c = "a" -> <<>> [] c \in {"b", "c"} -> <<"a">> [] OTHER -> <<"b", "c">>]
=============================================================================
