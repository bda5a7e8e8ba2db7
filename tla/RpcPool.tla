------------------------------- MODULE RpcPool -------------------------------
(***************************************************************************)
(* The signer's own view of the chain: one question, "has this receipt     *)
(* been collected?", put to a list of endpoints (escrow_signer/chainio.py).*)
(*                                                                         *)
(* A step is one HTTP exchange with one endpoint.  Outages rotate to the   *)
(* next endpoint, reverts do not, and which question is asked depends on   *)
(* whether the escrow is remembered as a V1 one.  Blocks are built between *)
(* any two exchanges.                                                      *)
(***************************************************************************)
EXTENDS Naturals

CONSTANTS
    Receipts,   \* receipts of debits, asked about with their channel
    Labels,     \* rows without a channel (the sweeps): never a receipt of the escrow
    NoReceipt,
    Endpoints,  \* how many RPC URLs are configured
    Worlds,     \* what is considered: the escrow's version (1 or 2), the endpoints that always
                \* answer, and honestly, and what another one may do instead
    MaxSpurious \* spurious reverts within one question

ASSUME PoolConstants ==
    /\ Endpoints \in Nat \ {0}
    /\ Worlds \subseteq [version : {1, 2}, working : SUBSET (1..Endpoints),
                         faults : SUBSET {"failed", "revert", "empty"}]
    /\ MaxSpurious \in Nat
    /\ Receipts \cap Labels = {} /\ NoReceipt \notin Receipts \cup Labels

VARIABLES
    world,      \* the escrow's version and the endpoints, once and for all
    used,       \* receipts it has paid out
    asked,      \* the receipt of the current or last question
    answer,     \* what receipt_used returned or raised
    call,       \* the eth_call in progress
    url,        \* the endpoint it is tried on
    v1_escrows, \* the pool remembers the escrow as V1
    spurious    \* history: spurious reverts seen by this question

vars == <<world, used, asked, answer, call, url, v1_escrows, spurious>>

TypeOK ==
    /\ world \in Worlds
    /\ used \subseteq Receipts
    /\ asked \in Receipts \cup Labels \cup {NoReceipt}
    /\ answer \in {"none", "used", "unused", "unavailable"}
    /\ call \in {"none", "isReceiptUsed", "SETTLE_WINDOW", "usedReceipts"}
    /\ url \in 1..Endpoints
    /\ v1_escrows \in BOOLEAN
    /\ spurious \in 0..MaxSpurious

Init ==
    /\ world \in Worlds
    /\ used = {}
    /\ asked = NoReceipt /\ answer = "none"
    /\ call = "none" /\ url = 1
    /\ v1_escrows = FALSE
    /\ spurious = 0

-----------------------------------------------------------------------------
(***************************************************************************)
(* What an endpoint says: a nonzero or a zero word, no bytes at all, a     *)
(* revert, or nothing that is an answer (timeout, HTTP error, method error,*)
(* a body without a result).                                               *)
(***************************************************************************)

Word(b) == IF b THEN "nonzero" ELSE "zero"

\* V2 keeps receipts per channel: the V1 question answers "unused" for every one
Honest ==
    CASE call = "isReceiptUsed" -> IF world.version = 2 THEN Word(asked \in used) ELSE "revert"
      [] call = "SETTLE_WINDOW" -> IF world.version = 2 THEN "nonzero" ELSE "revert"
      [] call = "usedReceipts"  -> Word(world.version = 1 /\ asked \in used)

Says == {Honest} \cup (IF url \in world.working THEN {} ELSE world.faults)

\* the exchange with the endpoint at hand ends in said
Exchange(said) ==
    /\ call # "none"
    /\ said \in Says
    /\ IF said = "revert" /\ Honest # "revert"
       THEN spurious < MaxSpurious /\ spurious' = spurious + 1
       ELSE UNCHANGED spurious

Ask(question) == call' = question /\ url' = 1 /\ UNCHANGED answer

Return(result) == answer' = result /\ call' = "none" /\ url' = 1

\* Mutant: the V1 question is asked whatever the version.
AsksTheV1Question(r) ==
    /\ call = "none"
    /\ asked' = r /\ answer' = "none"
    /\ call' = "usedReceipts"
    /\ url' = 1
    /\ spurious' = 0
    /\ UNCHANGED <<world, used, v1_escrows>>

\* a process asks about one receipt at a time, under the signing lock; without a
\* channel, or with a V1 escrow remembered, it is the V1 question
receipt_used(r) ==
    /\ call = "none"
    /\ asked' = r /\ answer' = "none"
    /\ call' = IF r \in Labels \/ v1_escrows THEN "usedReceipts" ELSE "isReceiptUsed"
    /\ url' = 1
    /\ spurious' = 0
    /\ UNCHANGED <<world, used, v1_escrows>>

\* Mutant: the first endpoint's failure ends the call.
FailsAtOnce ==
    /\ Exchange("failed")
    /\ Return("unavailable")
    /\ UNCHANGED <<world, used, asked, v1_escrows>>

\* Mutant: one endpoint too many is tried.
RotatesPastTheEnd ==
    /\ Exchange("failed")
    /\ IF url <= Endpoints
       THEN url' = url + 1 /\ UNCHANGED <<call, answer>>
       ELSE Return("unavailable")
    /\ UNCHANGED <<world, used, asked, v1_escrows>>

\* call_method: try the next endpoint, and raise RpcUnavailable after the last
Rotates ==
    /\ Exchange("failed")
    /\ IF url < Endpoints
       THEN url' = url + 1 /\ UNCHANGED <<call, answer>>
       ELSE Return("unavailable")
    /\ UNCHANGED <<world, used, asked, v1_escrows>>

\* Mutant: one revert is enough to call the escrow a V1 one.
OneRevertIsV1 ==
    /\ Exchange("revert")
    /\ IF call = "isReceiptUsed"
       THEN Ask("usedReceipts") /\ v1_escrows' = TRUE
       ELSE Return("unavailable") /\ UNCHANGED v1_escrows
    /\ UNCHANGED <<world, used, asked>>

\* Reverted: V1 needs two of them, and the V1 question's own revert propagates
Reverts ==
    /\ Exchange("revert")
    /\ \/ call = "isReceiptUsed" /\ Ask("SETTLE_WINDOW") /\ UNCHANGED v1_escrows
       \/ call = "SETTLE_WINDOW" /\ Ask("usedReceipts") /\ v1_escrows' = TRUE
       \/ call = "usedReceipts" /\ Return("unavailable") /\ UNCHANGED v1_escrows
    /\ UNCHANGED <<world, used, asked>>

\* bytes came back; SETTLE_WINDOW answering at all means the escrow is V2
Answers ==
    /\ \E said \in {"nonzero", "zero", "empty"} :
        /\ Exchange(said)
        /\ Return(
            IF call = "SETTLE_WINDOW" \/ (call = "isReceiptUsed" /\ said = "empty")
            THEN "unavailable"
            ELSE IF said = "nonzero" THEN "used" ELSE "unused")
    /\ UNCHANGED <<world, used, asked, v1_escrows>>

\* a debit of this receipt is included
Collected(r) ==
    /\ used' = used \cup {r}
    /\ UNCHANGED <<world, asked, answer, call, url, v1_escrows, spurious>>

\* the process restarts with a new pool
Restart ==
    /\ asked' = NoReceipt /\ answer' = "none"
    /\ call' = "none" /\ url' = 1
    /\ v1_escrows' = FALSE /\ spurious' = 0
    /\ UNCHANGED <<world, used>>

call_method == Rotates \/ Reverts \/ Answers

Next ==
    \/ \E r \in Receipts \cup Labels : receipt_used(r)
    \/ call_method
    \/ \E r \in Receipts : Collected(r)
    \/ Restart

\* every exchange ends, by the timeout if not by an answer
Spec == Init /\ [][Next]_vars /\ WF_vars(call_method)

-----------------------------------------------------------------------------

Oracle == INSTANCE ReceiptOracle WITH Receipts <- Receipts \cup Labels

\* receipt_used answers with the truth of the moment or is unavailable, and it
\* always ends, whichever version the escrow has: an outage never becomes
\* "unused", and spurious reverts of different questions do not add up to a V1
\* escrow in the pool's memory.
RefinesOracle == Oracle!OSpec

\* With one endpoint that works, and others that only fail, every question is
\* answered: call_method gets to it whatever the order of the list.
OneEndpointIsEnough ==
    (world.working # {} /\ world.faults = {"failed"}) => answer # "unavailable"

=============================================================================
