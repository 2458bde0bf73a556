----------------------------- MODULE WasmRunner -----------------------------
(***************************************************************************)
(* sifr/wasm_runner.py: WasmToolRunner.execute on the calculator module    *)
(* (wasm/calculator/calculator.wat), and the reference in Python.          *)
(***************************************************************************)
EXTENDS Integers

CONSTANTS
  Half,      \* half the number of the module's integers: 2^63 for i64
  NotInt,    \* a float or a bool: a number, but not one for the module
  NotNumber, \* an argument that is missing or no number
  NoResult   \* the call raises

ASSUME RunnerAssumption ==
  /\ Half \in Nat \ {0}
  /\ {NotInt, NotNumber, NoResult} \cap Int = {}
  /\ NotInt # NotNumber /\ NoResult \notin {NotInt, NotNumber}

\* The integers of the module.
ToolInts == -Half .. (Half - 1)

\* Mutation: the integers of Python.
Unwrapped(n) == n

\* i64.add
Wrap(n) == ((n + Half) % (2 * Half)) - Half

\* A call with the default fuel, which is enough for add: a result or an
\* exception.
Execute(action, a, b) ==
  IF action = "tool.calculator.add" /\ {a, b} \cap {NotInt, NotNumber} = {}
  THEN Wrap(a + b) ELSE NoResult

\* last_invocation_evidence: written by a successful call only.
EvidenceAfter(evidence, a, b, result) ==
  IF result = NoResult THEN evidence ELSE [args |-> <<a, b>>, result |-> result]

\* PythonCalculatorReference: floats and bools are added as well; such a sum
\* is a number that is not followed further.
Reference(action, a, b) ==
  IF action # "tool.calculator.add" \/ NotNumber \in {a, b} THEN NoResult
  ELSE IF NotInt \in {a, b} THEN NotInt ELSE a + b
=============================================================================
