---------------------------- MODULE MCRebaseline ----------------------------
(***************************************************************************)
(* Three receipts, so that a wide row has wide rows on either side.        *)
(***************************************************************************)
EXTENDS Rebaseline

CONSTANTS r1, r2, r3

Symmetry == Permutations(Receipts)

=============================================================================
