---------------------------- MODULE ReceiptOracle ----------------------------
(***************************************************************************)
(* What the signer needs from its chain reads: has this receipt been       *)
(* collected?  A question is answered with what is true at the moment of   *)
(* the answer, or not at all.  "Failures are unavailability, never false"  *)
(* (the docstring of escrow_signer/chainio.py).                            *)
(***************************************************************************)
CONSTANTS Receipts, NoReceipt

VARIABLES
    used,   \* the receipts the escrow has paid out
    asked,  \* the receipt of the current or last question
    answer  \* the answer to it, once there is one

ovars == <<used, asked, answer>>

Pending == asked # NoReceipt /\ answer = "none"

Truth(r) == IF r \in used THEN "used" ELSE "unused"

OInit == used = {} /\ asked = NoReceipt /\ answer = "none"

Question(r) ==
    /\ ~Pending
    /\ asked' = r /\ answer' = "none"
    /\ UNCHANGED used

Reply ==
    /\ Pending
    /\ answer' \in {Truth(asked), "unavailable"}
    /\ UNCHANGED <<used, asked>>

\* somebody's debit is included
Collects(r) == used' = used \cup {r} /\ UNCHANGED <<asked, answer>>

\* the asking process dies
Forgets == asked' = NoReceipt /\ answer' = "none" /\ UNCHANGED used

ONext ==
    \/ \E r \in Receipts : Question(r) \/ Collects(r)
    \/ Reply
    \/ Forgets

\* whatever is answered is right
OSafe == OInit /\ [][ONext]_ovars

\* and an answer comes
OSpec == OSafe /\ WF_ovars(Reply)

=============================================================================
