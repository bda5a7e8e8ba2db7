------------------------------- MODULE MCFees -------------------------------
(***************************************************************************)
(* Small instances of the fee guard.                                       *)
(***************************************************************************)
EXTENDS FeeGuard

Number(n) == [text |-> "int", n |-> n]

Text(t) == [text |-> t, n |-> 0]

\* 0 and -1 are limits an operator might mean as none
SomeRaws == {Text("unset"), Text("empty"), Text("unlimited"),
             Number(0), Number(-1), Number(1), Number(9)}

=============================================================================
