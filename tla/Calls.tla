------------------------------- MODULE Calls -------------------------------
(***************************************************************************)
(* One call of a function that keeps no state between calls: the input is  *)
(* chosen first, the next step returns what the code computes from it.     *)
(* The modules of the pure algorithms share these two variables.           *)
(***************************************************************************)
EXTENDS Integers, Sequences

VARIABLES
  call,                \* [of |-> the function, in |-> its input]
  answer               \* <<>> until it returns, then <<its result>>

callVars == <<call, answer>>

Called(f, inputs) == \E i \in inputs : call = [of |-> f, in |-> i]
CallInit == answer = <<>>

Return(f, value) ==
  /\ call.of = f /\ answer = <<>>
  /\ answer' = <<value>>
  /\ UNCHANGED call

\* The result of f is at hand.
Returned(f) == call.of = f /\ answer # <<>>
Result == answer[1]
=============================================================================
