----------------------------- MODULE SignerProofs -----------------------------
(***************************************************************************)
(* The signing process implements the abstract caller of the ledger        *)
(* (LedgerSpec), so everything module LedgerProofs shows of the books      *)
(* holds of the process, and its records are complete: what a node knows,  *)
(* the books know; what an answer names, the key signed.  Then what        *)
(* becomes of what the process has reserved.                               *)
(*                                                                         *)
(* The debit: it is collected at most once, by one transaction, and its    *)
(* budget is given back only when no block can collect it any more.  This  *)
(* rests on what the signer takes for granted of its surroundings          *)
(* (policy.py releases a row on a rejection, on a failed receipt and past  *)
(* the deadline), which the theorems name as their hypotheses.  The runs   *)
(* stale_revert and sweep_twice show what is lost without them.            *)
(*                                                                         *)
(* The nonce: every nonce a serving process has handed out and the chain   *)
(* still waits for is held by a live row or was carried by a transaction   *)
(* the key signed, so that only a signed transaction which the nodes       *)
(* rejected can leave a hole.  That theorem is for a host whose            *)
(* clock is never stepped back.  A write that finds the clock behind       *)
(* raises between two of the steps that keep the allocator and the rows    *)
(* together; the ledger is halted then.                                    *)
(***************************************************************************)
EXTENDS PolicySigner, LedgerProofs, OrderLemmas

-----------------------------------------------------------------------------
(***************************************************************************)
(* The inductive invariant.                                                *)
(***************************************************************************)

Looping == {"rec_used", "rec_receipts"}

Holding == {"reserve_audit", "simulate", "sign"}

Sending == {"send", "accepted", "rejected"}

\* The request at hand: what handle or sweep_proceeds carries from step to step.
OpInv ==
    /\ pc \in {"preflight", "reserve"} \cup Holding \cup Sending =>
           op.key \in Keys /\ op.amount \in AmountsFor(op.key)
    /\ pc = "reserve" => op.fee \in Fees
    /\ pc = "settle" => op.key \in Sweeps /\ op.amount = 0

\* The loops of _reconcile and of the settling sweep run over live rows only.
RecInv ==
    /\ pc \notin Looping \cup {"settle"} => rec = NoRec
    /\ rec.todo \subseteq unresolved
    /\ pc = "rec_receipts" => rec.todo # {}
    /\ pc \in Looping => rec.back \in {"boot", "replay"}
    /\ rec.back = "replay" =>
           /\ op.key \in Debits /\ op.amount \in Amounts
           /\ spend[op.key].amount = op.amount
    /\ pc = "settle" => rec.back = "sweep" /\ rec.todo \subseteq Sweeps

\* The row the process is working on is in the state its step expects.
RowInv ==
    /\ pc \in Holding =>
           spend[op.key].state = "reserved" /\ spend[op.key].amount = op.amount
    /\ pc \in Sending =>
           /\ spend[op.key].state = "signed" /\ spend[op.key].amount = op.amount
           /\ \E a \in attempts : a.tx = spend[op.key].tx

ProcessInv == OpInv /\ RecInv /\ RowInv

\* A row that names a transaction names one the key signed for it.
RowsNameOurs ==
    \A k \in Keys :
        /\ spend[k].tx # NoTx =>
               /\ spend[k].tx \in signatures
               /\ spend[k].tx.key = k
               /\ spend[k].tx.amount = spend[k].amount
        /\ spend[k].state \in {"signed", "broadcast"} =>
               spend[k].tx # NoTx /\ spend[k].tx.nonce = spend[k].nonce
        /\ spend[k].state = "mined" /\ k \in GasOnly => spend[k].tx # NoTx

\* An attempt is a transaction the key signed, for the amount of its row.
AttemptsAreOurs ==
    \A a \in attempts :
        /\ a.tx \in signatures
        /\ Exists(a.tx.key)
        /\ a.tx.amount = spend[a.tx.key].amount

\* No nonce passes the bound the model puts on the allocator.
NoncesBounded ==
    /\ nextNonce <= MaxNonce
    /\ chainNonce <= MaxNonce
    /\ \A a \in attempts : a.tx.nonce < MaxNonce

BooksInv ==
    /\ NonceOwnership
    /\ GasOnlyInv
    /\ RowsNameOurs
    /\ AttemptsAreOurs
    /\ KnownTxRecorded
    /\ NoncesBounded
    /\ wall \in 0..MaxTime

\* The inductive invariant of the signing process.
SignerInv == TypeOK /\ ProcessInv /\ BooksInv /\ AnswerIsOurs

-----------------------------------------------------------------------------
(***************************************************************************)
(* What a step does to the books, the signatures and the chain.  There are *)
(* more actions than there are such effects.                               *)
(***************************************************************************)

Leaves == UNCHANGED <<books, signatures, chain>>

\* the audit table, the clock guard or the operator's halt: no row changes
Notes == (Audit \/ ClearHalt) /\ UNCHANGED <<signatures, chain>>

Takes(k) ==
    /\ pc = "reserve" /\ k = op.key
    /\ Reserve(k, op.amount, op.fee)
    /\ UNCHANGED <<signatures, chain>>

SignsRow(k) ==
    /\ pc = "sign" /\ k = op.key
    /\ MarkSigned(k) \/ TornMarkSigned(k)
    /\ Signs
    /\ UNCHANGED chain

Broadcasts(k) ==
    /\ pc = "accepted" /\ k = op.key
    /\ MarkBroadcast(k)
    /\ UNCHANGED <<signatures, chain>>

\* collected, as the chain's own record of used receipts says
MinesUsed(k) ==
    /\ pc = "rec_used"
    /\ spend[k].state \in Live /\ receipt_used(k)
    /\ MarkMined(k, NoTx, 0)
    /\ UNCHANGED <<signatures, chain>>

\* collected, as the receipt of one of its attempts says
MinesReceipt(k) ==
    /\ pc \in {"rec_receipts", "settle"}
    /\ spend[k].state \in Live
    /\ \E a \in attempts_for(k) :
           HasReceipt(a.tx, TRUE) /\ \E fee \in 1..a.tx.fee : MarkMined(k, a.tx, fee)
    /\ UNCHANGED <<signatures, chain>>

\* why a row may be released
Cause(k) ==
    \/ \E a \in attempts_for(k) : HasReceipt(a.tx, FALSE)
    \/ pc = "rec_receipts" /\ k = FirstRow /\ (NeverSigned(k) \/ PastDeadline(k))
    \/ pc \in {"simulate", "sign", "rejected"} /\ k = op.key
    \/ k \in Sweeps

Releases(k) ==
    /\ spend[k].state \in Live
    /\ Cause(k)
    /\ MarkDead(k) \/ (TornMarkDead(k) /\ pc' = "down")
    /\ UNCHANGED <<signatures, chain>>

SetsNext ==
    /\ pc = "boot_nonce"
    /\ \E pending \in PendingCounts : SetNextNonce(BootNext(pending))
    /\ UNCHANGED <<signatures, chain>>

Delivers ==
    /\ pc = "send"
    /\ Deliver(spend[op.key].tx)
    /\ UNCHANGED <<books, signatures, chainNonce, landed>>

Includes == Include /\ UNCHANGED <<books, signatures>>

RowEffect(k) ==
    Takes(k) \/ SignsRow(k) \/ Broadcasts(k) \/ MinesUsed(k) \/ MinesReceipt(k) \/ Releases(k)

Effect ==
    /\ UNCHANGED <<wall, blockTime>>
    /\ Leaves \/ Notes \/ (\E k \in Keys : RowEffect(k)) \/ SetsNext \/ Delivers \/ Includes

\* A loop with rows left looks at one of them.
LEMMA FirstRowLeft ==
    ASSUME TypeOK, rec.todo # {}
    PROVE  FirstRow \in rec.todo
<1> DEFINE seqOf == [k \in rec.todo |-> spend[k].seq]
<1>1. \A k \in rec.todo : seqOf[k] \in Nat /\ seqOf[k] = spend[k].seq
  BY DEF TypeOK, LTypeOK, Row
<1> HIDE DEF seqOf
<1>2. PICK k \in rec.todo : \A j \in rec.todo : seqOf[k] <= seqOf[j]
  BY <1>1, FirstByRank
<1>3. \A j \in rec.todo : spend[k].seq <= spend[j].seq
  BY <1>1, <1>2
<1> QED BY <1>3 DEF FirstRow

\* A row with attempts left to ask about has a first one.
LEMMA FirstAttemptLeft ==
    ASSUME TypeOK, NEW k, Unread(k) # {}
    PROVE  FirstAttempt(k) \in attempts_for(k) /\ FirstAttempt(k) \notin rec.absent
<1> DEFINE seqOf == [a \in Unread(k) |-> a.seq]
<1>1. \A a \in Unread(k) : seqOf[a] \in Nat /\ seqOf[a] = a.seq
  BY DEF TypeOK, LTypeOK, Unread, attempts_for
<1> HIDE DEF seqOf
<1>2. PICK a \in Unread(k) : \A b \in Unread(k) : seqOf[a] <= seqOf[b]
  BY <1>1, FirstByRank
<1>3. \A b \in Unread(k) : a.seq <= b.seq
  BY <1>1, <1>2
<1>4. FirstAttempt(k) \in Unread(k)
  BY <1>3 DEF FirstAttempt
<1> QED BY <1>4 DEF Unread

\* The first row of a loop is live.
LEMMA FirstRowLive ==
    ASSUME SignerInv, rec.todo # {}
    PROVE  /\ FirstRow \in Keys
           /\ spend[FirstRow].state \in Live
           /\ pc = "settle" => FirstRow \in Sweeps
BY FirstRowLeft DEF SignerInv, ProcessInv, RecInv, unresolved

\* A released row of one of the two loops is released for a cause.
LEMMA LoopReleases ==
    ASSUME SignerInv, pc \in {"rec_receipts", "settle"}, rec.todo # {},
           MarkDead(FirstRow) \/ (TornMarkDead(FirstRow) /\ pc' = "down"),
           \/ Unread(FirstRow) # {} /\ HasReceipt(FirstAttempt(FirstRow).tx, FALSE)
           \/ pc = "settle"
           \/ NeverSigned(FirstRow) \/ PastDeadline(FirstRow),
           UNCHANGED <<signatures, chain>>
    PROVE  \E k \in Keys : RowEffect(k)
<1>1. Cause(FirstRow)
  <2>1. CASE Unread(FirstRow) # {} /\ HasReceipt(FirstAttempt(FirstRow).tx, FALSE)
    <3>1. FirstAttempt(FirstRow) \in attempts_for(FirstRow)
      BY <2>1, FirstAttemptLeft DEF SignerInv
    <3> QED BY <2>1, <3>1 DEF Cause
  <2>2. CASE pc = "settle"
    BY <2>2, FirstRowLive DEF Cause
  <2>3. CASE pc = "rec_receipts" /\ (NeverSigned(FirstRow) \/ PastDeadline(FirstRow))
    BY <2>3 DEF Cause
  <2> QED BY <2>1, <2>2, <2>3
<1> QED BY <1>1, FirstRowLive DEF RowEffect, Releases

\* The receipt of an attempt decides its row, in either loop.
LEMMA LoopMines ==
    ASSUME SignerInv, pc \in {"rec_receipts", "settle"}, rec.todo # {}, Unread(FirstRow) # {},
           HasReceipt(FirstAttempt(FirstRow).tx, TRUE),
           \E fee \in 1..FirstAttempt(FirstRow).tx.fee :
               MarkMined(FirstRow, FirstAttempt(FirstRow).tx, fee),
           UNCHANGED <<signatures, chain>>
    PROVE  \E k \in Keys : RowEffect(k)
<1>1. FirstAttempt(FirstRow) \in attempts_for(FirstRow)
  BY FirstAttemptLeft DEF SignerInv
<1>2. MinesReceipt(FirstRow)
  BY <1>1, FirstRowLive DEF MinesReceipt
<1> QED BY <1>2, FirstRowLive DEF RowEffect

\* Every step of the thread that reconciles has one of the effects.
LEMMA ReconcileEffect ==
    ASSUME SignerInv, Reconciles, UNCHANGED <<wall, blockTime>>
    PROVE  Effect
<1>1. CASE RecUsed
  <2>1. PICK used \in Reads(receipt_used(FirstRow)) :
            IF used
            THEN MarkMined(FirstRow, NoTx, 0) /\ AfterWrite("rec_used")
            ELSE Goto("rec_receipts") /\ UNCHANGED <<books, ready, op, rec>>
    BY <1>1 DEF RecUsed
  <2>2. CASE used
    <3>1. receipt_used(FirstRow)
      BY <2>2, Zenon DEF Reads
    <3>2. MinesUsed(FirstRow)
      BY <1>1, <2>1, <2>2, <3>1, FirstRowLive DEF MinesUsed, RecUsed
    <3> QED BY <1>1, <3>2, FirstRowLive DEF Effect, RowEffect, RecUsed
  <2>3. CASE ~used
    BY <1>1, <2>1, <2>3 DEF RecUsed, Effect, Leaves
  <2> QED BY <2>2, <2>3
<1>2. CASE RecReceipt
  <2>1. rec.todo # {} /\ pc = "rec_receipts" /\ Unread(FirstRow) # {}
    BY <1>2 DEF RecReceipt, SignerInv, ProcessInv, RecInv
  <2>2. CASE /\ HasReceipt(FirstAttempt(FirstRow).tx, TRUE)
             /\ \E fee \in 1..FirstAttempt(FirstRow).tx.fee :
                    MarkMined(FirstRow, FirstAttempt(FirstRow).tx, fee)
    BY <1>2, <2>1, <2>2, LoopMines DEF RecReceipt, Effect
  <2>3. CASE HasReceipt(FirstAttempt(FirstRow).tx, FALSE) /\ MarkDead(FirstRow)
    BY <1>2, <2>1, <2>3, LoopReleases DEF RecReceipt, Effect
  <2>4. CASE UNCHANGED books
    BY <1>2, <2>4 DEF RecReceipt, Effect, Leaves
  <2> QED BY <1>2, <2>2, <2>3, <2>4 DEF RecReceipt
<1>3. CASE RecClassify
  <2>1. rec.todo # {} /\ pc = "rec_receipts"
    BY <1>3 DEF RecClassify, SignerInv, ProcessInv, RecInv
  <2>2. CASE NeverSigned(FirstRow) \/ PastDeadline(FirstRow)
    BY <1>3, <2>1, <2>2, LoopReleases DEF RecClassify, Effect
  <2>3. CASE ~(NeverSigned(FirstRow) \/ PastDeadline(FirstRow))
    BY <1>3, <2>3 DEF RecClassify, Effect, Leaves
  <2> QED BY <2>2, <2>3
<1>4. CASE RecDone \/ RecRpcDown
  BY <1>4 DEF RecDone, RecRpcDown, Effect, Leaves
<1> QED BY <1>1, <1>2, <1>3, <1>4 DEF Reconciles

\* Every step of the thread that holds the signing lock has one of the effects.
LEMMA WorkEffect ==
    ASSUME SignerInv, Works, UNCHANGED <<wall, blockTime>>
    PROVE  Effect
<1>a. pc \in {"reserve"} \cup Holding \cup Sending => op.key \in Keys
  BY DEF SignerInv, ProcessInv, OpInv
<1>b. pc \in Holding \cup Sending => spend[op.key].state \in Live
  BY DEF SignerInv, ProcessInv, RowInv, Live
<1>1. CASE Preflight \/ SettleStops \/ Settled
  BY <1>1 DEF Preflight, SettleStops, Settled, Effect, Leaves
<1>2. CASE ReserveRow
  BY <1>2, <1>a DEF ReserveRow, Effect, RowEffect, Takes
<1>3. CASE ReserveRefused
  <2>1. CASE ClockSane
    <3>1. halted' = halted
      BY <1>3, <2>1 DEF ReserveRefused, SignerInv, TypeOK, LTypeOK
    <3> QED BY <1>3, <3>1 DEF ReserveRefused, Effect, Leaves, books
  <2>2. CASE ~ClockSane
    BY <1>3, <2>2 DEF ReserveRefused, Effect, Notes, Audit, Tick
  <2> QED BY <2>1, <2>2
<1>4. CASE ReserveAudit \/ Respond
  BY <1>4 DEF ReserveAudit, Respond, Effect, Notes
<1>5. CASE Simulate
  <2>1. CASE UNCHANGED books
    BY <1>5, <2>1 DEF Simulate, Effect, Leaves
  <2>2. CASE MarkDead(op.key)
    BY <1>5, <1>a, <1>b, <2>2 DEF Simulate, Effect, RowEffect, Releases, Cause, Holding
  <2> QED BY <1>5, <2>1, <2>2 DEF Simulate
<1>6. CASE Sign
  BY <1>6, <1>a DEF Sign, Effect, RowEffect, SignsRow, Holding
<1>7. CASE SigningFailed
  BY <1>7, <1>a, <1>b DEF SigningFailed, Effect, RowEffect, Releases, Cause, Holding
<1>8. CASE Send
  <2>1. CASE Undelivered
    BY <1>8, <2>1 DEF Send, Undelivered, Effect, Leaves, chain
  <2>2. CASE Deliver(spend[op.key].tx)
    BY <1>8, <2>2 DEF Send, Effect, Delivers
  <2> QED BY <1>8, <2>1, <2>2 DEF Send
<1>9. CASE Accepted
  BY <1>9, <1>a DEF Accepted, Effect, RowEffect, Broadcasts, Sending
<1>10. CASE Rejected
  BY <1>10, <1>a, <1>b DEF Rejected, Effect, RowEffect, Releases, Cause, Sending
<1>11. CASE SettleReceipt
  <2>2. CASE /\ HasReceipt(FirstAttempt(FirstRow).tx, TRUE)
             /\ \E fee \in 1..FirstAttempt(FirstRow).tx.fee :
                    MarkMined(FirstRow, FirstAttempt(FirstRow).tx, fee)
    BY <1>11, <2>2, LoopMines DEF SettleReceipt, Effect
  <2>3. CASE HasReceipt(FirstAttempt(FirstRow).tx, FALSE) /\ MarkDead(FirstRow)
    BY <1>11, <2>3, LoopReleases DEF SettleReceipt, Effect
  <2>4. CASE UNCHANGED books
    BY <1>11, <2>4 DEF SettleReceipt, Effect, Leaves
  <2> QED BY <1>11, <2>2, <2>3, <2>4 DEF SettleReceipt
<1>12. CASE SettleGiveUp
  BY <1>12, LoopReleases DEF SettleGiveUp, Effect
<1> QED
  BY <1>1, <1>2, <1>3, <1>4, <1>5, <1>6, <1>7, <1>8, <1>9, <1>10, <1>11, <1>12 DEF Works

\* A process that dies leaves the books alone, or a method of them half done.
LEMMA CrashEffect ==
    ASSUME SignerInv, Crash
    PROVE  Effect
<1>1. UNCHANGED <<wall, blockTime, chain>> /\ pc' = "down"
  BY DEF Crash, Exit
<1>2. CASE UNCHANGED <<books, signatures>>
  BY <1>1, <1>2 DEF Effect, Leaves
<1>3. CASE pc = "sign" /\ Signs /\ TornMarkSigned(op.key)
  BY <1>1, <1>3 DEF Effect, RowEffect, SignsRow, SignerInv, ProcessInv, OpInv, Holding
<1>4. ASSUME NEW k \in Keys, Releasing(k), TornMarkDead(k), UNCHANGED signatures
      PROVE  Effect
  <2>1. CASE pc \in {"simulate", "sign", "rejected"} /\ k = op.key
    <3>1. spend[k].state \in Live
      BY <2>1 DEF SignerInv, ProcessInv, RowInv, Holding, Sending, Live
    <3> QED BY <1>1, <1>4, <2>1, <3>1 DEF Effect, RowEffect, Releases, Cause
  <2>2. CASE /\ pc \in {"rec_receipts", "settle"}
             /\ rec.todo # {}
             /\ k = FirstRow
    BY <1>1, <1>4, <2>2, LoopReleases DEF Effect, Releasing
  <2> QED BY <1>4, <2>1, <2>2 DEF Releasing
<1> QED BY <1>2, <1>3, <1>4 DEF Crash

\* Every step of the process, of the chain or of a client has one of the
\* effects, or moves the clock.
LEMMA StepEffect ==
    ASSUME SignerInv, Next
    PROVE  Effect \/ TimePasses \/ ClockStepsBack
<1>1. CASE Steps /\ UNCHANGED <<wall, blockTime, crashes, clockSteps>>
  <2>1. CASE Boots
    <3>1. CASE Boot \/ BootIdentity \/ BootRpcDown
      BY <1>1, <3>1 DEF Boot, BootIdentity, BootRpcDown, Effect, Leaves
    <3>2. CASE BootNonce
      BY <1>1, <3>2 DEF BootNonce, Effect, SetsNext
    <3>3. CASE BootAudit
      BY <1>1, <3>3 DEF BootAudit, Effect, Notes
    <3> QED BY <2>1, <3>1, <3>2, <3>3 DEF Boots
  <2>2. CASE Reconciles
    BY <1>1, <2>2, ReconcileEffect
  <2>3. CASE Asked
    BY <1>1, <2>3 DEF Asked, RequestDebit, RequestExpire, StartSweep, Effect, Leaves
  <2>4. CASE Works
    BY <1>1, <2>4, WorkEffect
  <2>5. CASE AuditOnly \/ OperatorClearsHalt
    BY <1>1, <2>5 DEF AuditOnly, OperatorClearsHalt, Effect, Notes
  <2>6. CASE BlockIncludes
    BY <1>1, <2>6 DEF BlockIncludes, Effect, Includes
  <2> QED BY <1>1, <2>1, <2>2, <2>3, <2>4, <2>5, <2>6 DEF Steps
<1>2. CASE Crash
  BY <1>2, CrashEffect
<1> QED BY <1>1, <1>2 DEF Next

-----------------------------------------------------------------------------
(***************************************************************************)
(* The books of the process are the books of LedgerSpec.                   *)
(***************************************************************************)

\* The nonce boot starts from is past the node's count and past every live row.
LEMMA BootNextBounds ==
    ASSUME SignerInv, NEW pending \in PendingCounts
    PROVE  /\ BootNext(pending) \in 0..MaxNonce
           /\ pending <= BootNext(pending)
           /\ \A k \in unresolved : spend[k].nonce < BootNext(pending)
           /\ \/ BootNext(pending) = pending
              \/ \E k \in unresolved : BootNext(pending) = spend[k].nonce + 1
<1> DEFINE S == {pending} \cup {spend[k].nonce + 1 : k \in unresolved}
<1>a. MaxNonce \in Nat /\ nextNonce \in Nat /\ nextNonce <= MaxNonce
  BY BoundsType DEF SignerInv, TypeOK, LTypeOK, BooksInv, NoncesBounded
<1>1. pending \in Nat /\ pending <= MaxNonce
  <2>1. chainNonce \in Nat /\ chainNonce <= MaxNonce
    BY DEF SignerInv, TypeOK, ChainTypeOK, BooksInv, NoncesBounded
  <2>2. ASSUME NEW t \in pool PROVE t.nonce + 1 \in Nat /\ t.nonce + 1 <= MaxNonce
    <3>1. PICK a \in attempts : a.tx = t
      BY DEF SignerInv, BooksInv, KnownTxRecorded, Known
    <3>2. t.nonce \in Nat
      BY DEF SignerInv, TypeOK, ChainTypeOK, Tx
    <3> QED BY <1>a, <3>1, <3>2 DEF SignerInv, BooksInv, NoncesBounded
  <2> QED BY <2>1, <2>2 DEF PendingCounts
<1>2. ASSUME NEW k \in unresolved
      PROVE  /\ spend[k].nonce \in Nat /\ spend[k].nonce + 1 \in Nat
             /\ spend[k].nonce + 1 <= MaxNonce
  <2>1. spend[k].nonce \in Nat
    BY DEF unresolved, SignerInv, TypeOK, LTypeOK, Row
  <2>2. spend[k].nonce < nextNonce
    BY DEF SignerInv, BooksInv, NonceOwnership
  <2> QED BY <1>a, <2>1, <2>2
<1>3. S \in SUBSET Nat /\ S # {} /\ \A s \in S : s <= MaxNonce
  <2>1. \A s \in S : s \in Nat /\ s <= MaxNonce
    BY <1>1, <1>2
  <2>2. pending \in S
    OBVIOUS
  <2> HIDE DEF S
  <2> QED BY <2>1, <2>2
<1>4. BootNext(pending) = Max(S)
  BY DEF BootNext
<1>5. pending \in S /\ \A k \in unresolved : spend[k].nonce + 1 \in S
  OBVIOUS
<1>6. \A s \in S : s = pending \/ \E k \in unresolved : s = spend[k].nonce + 1
  OBVIOUS
<1> HIDE DEF S
<1>7. Max(S) \in S /\ \A s \in S : s <= Max(S)
  BY <1>a, <1>3, MaxIsGreatest
<1>8. BootNext(pending) \in Nat /\ BootNext(pending) <= MaxNonce
  BY <1>3, <1>4, <1>7
<1>9. \A k \in unresolved : spend[k].nonce + 1 <= BootNext(pending)
  BY <1>4, <1>5, <1>7
<1>10. pending <= BootNext(pending)
  BY <1>4, <1>5, <1>7
<1>11. \A k \in unresolved : spend[k].nonce < BootNext(pending)
  BY <1>2, <1>8, <1>9
<1>12. BootNext(pending) \in 0..MaxNonce
  BY <1>a, <1>8
<1> QED BY <1>4, <1>6, <1>7, <1>10, <1>11, <1>12

\* What a step does to a row is what LedgerSpec lets its caller do.
LEMMA EffectRefines ==
    ASSUME SignerInv, Effect
    PROVE  [LNext]_lvars
<1>a. UNCHANGED wall
  BY DEF Effect
<1>1. CASE Leaves
  BY <1>1, <1>a DEF Leaves, lvars
<1>2. CASE Notes
  BY <1>2, <1>a DEF Notes, LNext, LBooks
<1>3. ASSUME NEW k \in Keys, RowEffect(k) PROVE LNext
  <2>1. CASE Takes(k)
    BY <1>a, <2>1 DEF Takes, LNext, LBooks, LReserve, SignerInv, ProcessInv, OpInv
  <2>2. CASE SignsRow(k)
    BY <1>a, <2>2 DEF SignsRow, LNext, LBooks, LSign, SignerInv, ProcessInv, RowInv, Holding
  <2>3. CASE Broadcasts(k)
    BY <1>a, <2>3 DEF Broadcasts, LNext, LBooks, LBroadcast, SignerInv, ProcessInv, RowInv, Sending
  <2>4. CASE MinesUsed(k)
    BY <1>a, <2>4 DEF MinesUsed, LNext, LBooks, LMine
  <2>5. CASE MinesReceipt(k)
    BY <1>a, <2>5 DEF MinesReceipt, LNext, LBooks, LMine
  <2>6. CASE Releases(k)
    BY <1>a, <2>6 DEF Releases, LNext, LBooks, LRelease
  <2> QED BY <1>3, <2>1, <2>2, <2>3, <2>4, <2>5, <2>6 DEF RowEffect
<1>4. CASE SetsNext
  BY <1>4, <1>a, BootNextBounds DEF SetsNext, LNext, LBooks, LSetNext
<1>5. CASE Delivers \/ Includes
  BY <1>5, <1>a DEF Delivers, Includes, lvars
<1> QED BY <1>1, <1>2, <1>3, <1>4, <1>5 DEF Effect

\* A step of the process is a step of LedgerSpec or leaves the books alone.
LEMMA StepRefines ==
    ASSUME SignerInv, [Next]_vars
    PROVE  [LNext]_lvars
<1>a. wall \in 0..MaxTime /\ MaxTime \in Nat
  BY BoundsType DEF SignerInv, BooksInv
<1>1. CASE TimePasses
  BY <1>1, <1>a DEF TimePasses, LNext, ClockMoves
<1>2. CASE ClockStepsBack
  BY <1>2, <1>a DEF ClockStepsBack, LNext, ClockMoves
<1>3. CASE UNCHANGED vars
  BY <1>3 DEF vars
<1> QED BY <1>1, <1>2, <1>3, StepEffect, EffectRefines

-----------------------------------------------------------------------------
(***************************************************************************)
(* What each effect leaves in the row it is about.                         *)
(***************************************************************************)

\* The other rows stay as they are.
OthersKept(k) == \A j \in Keys \ {k} : spend'[j] = spend[j]

\* A row that keeps its amount and its nonce.
RowKept(k) == spend'[k].amount = spend[k].amount /\ spend'[k].nonce = spend[k].nonce

\* reserve: a row without a transaction, at the allocator's nonce.
LEMMA TakesRow ==
    ASSUME SignerInv, NEW k \in Keys, Takes(k)
    PROVE  /\ OthersKept(k)
           /\ spend'[k].state = "reserved" /\ spend'[k].tx = NoTx
           /\ spend'[k].nonce = nextNonce /\ spend'[k].amount = op.amount
           /\ Exists(k) => spend'[k].amount = spend[k].amount
           /\ spend[k].state \in {"none", "dead"}
           /\ nextNonce < MaxNonce /\ nextNonce' = nextNonce + 1 /\ attempts' = attempts
<1>1. spend' = [spend EXCEPT ![k] = ReservedRow(k, op.amount, op.fee)]
  BY DEF Takes, Reserve
<1>2. spend'[k] = ReservedRow(k, op.amount, op.fee) /\ OthersKept(k)
  BY <1>1 DEF OthersKept, SignerInv, TypeOK, LTypeOK
<1>3. Reservable(k, op.amount)
  BY DEF Takes, Reserve, MayReserve
<1>4. spend[k] \in Row
  BY DEF SignerInv, TypeOK, LTypeOK
<1>5. nextNonce < MaxNonce /\ nextNonce' = nextNonce + 1 /\ attempts' = attempts
  BY DEF Takes, Reserve
<1>6. CASE Exists(k)
  BY <1>2, <1>3, <1>4, <1>5, <1>6 DEF ReservedRow, Reservable, Exists, Row
<1>7. CASE ~Exists(k)
  BY <1>2, <1>3, <1>4, <1>5, <1>7 DEF ReservedRow, Reservable, Exists, Row
<1> QED BY <1>6, <1>7

\* mark_signed, whole or torn: the transaction is in the row.
LEMMA SignsRowRow ==
    ASSUME SignerInv, NEW k \in Keys, SignsRow(k)
    PROVE  /\ OthersKept(k) /\ RowKept(k)
           /\ spend[k].state = "reserved"
           /\ spend'[k].state = "signed" /\ spend'[k].tx = TxOf(k)
           /\ nextNonce' = nextNonce
           /\ signatures' = signatures \cup {TxOf(k)}
           /\ \/ attempts' = attempts
              \/ attempts' = {a \in attempts : a.tx # TxOf(k)}
                               \cup {[tx |-> TxOf(k), seq |-> maxSeq + 1]}
<1>a. spend[k] \in Row
  BY DEF SignerInv, TypeOK, LTypeOK
<1>1. spend' = [spend EXCEPT ![k] = [spend[k] EXCEPT !.state = "signed", !.tx = TxOf(k)]]
  BY <1>a DEF SignsRow, MarkSigned, TornMarkSigned, SetState, SignerInv, TypeOK, LTypeOK
<1>2. OthersKept(k) /\ spend'[k] = [spend[k] EXCEPT !.state = "signed", !.tx = TxOf(k)]
  BY <1>1 DEF OthersKept, SignerInv, TypeOK, LTypeOK
<1>3. RowKept(k) /\ spend'[k].state = "signed" /\ spend'[k].tx = TxOf(k)
  BY <1>a, <1>2 DEF RowKept, Row
<1>4. spend[k].state = "reserved" /\ signatures' = signatures \cup {TxOf(k)}
  BY DEF SignsRow, Signs, SignerInv, ProcessInv, RowInv, Holding
<1>5. nextNonce' = nextNonce
  BY DEF SignsRow, MarkSigned, TornMarkSigned
<1>6. \/ attempts' = attempts
      \/ attempts' = {a \in attempts : a.tx # TxOf(k)}
                       \cup {[tx |-> TxOf(k), seq |-> maxSeq + 1]}
  BY DEF SignsRow, MarkSigned, TornMarkSigned
<1> QED BY <1>2, <1>3, <1>4, <1>5, <1>6

\* mark_broadcast.
LEMMA BroadcastsRow ==
    ASSUME SignerInv, NEW k \in Keys, Broadcasts(k)
    PROVE  /\ OthersKept(k) /\ RowKept(k)
           /\ spend[k].state = "signed"
           /\ spend'[k].state = "broadcast" /\ spend'[k].tx = spend[k].tx
           /\ UNCHANGED <<attempts, nextNonce, signatures>>
<1>a. spend[k] \in Row
  BY DEF SignerInv, TypeOK, LTypeOK
<1>1. OthersKept(k) /\ spend'[k] = [spend[k] EXCEPT !.state = "broadcast"]
  BY DEF Broadcasts, MarkBroadcast, SetState, OthersKept, SignerInv, TypeOK, LTypeOK
<1>2. RowKept(k) /\ spend'[k].state = "broadcast" /\ spend'[k].tx = spend[k].tx
  BY <1>a, <1>1 DEF RowKept, Row
<1>3. spend[k].state = "signed"
  BY DEF Broadcasts, SignerInv, ProcessInv, RowInv, Sending
<1> QED BY <1>1, <1>2, <1>3 DEF Broadcasts, MarkBroadcast

\* mark_mined without a receipt.
LEMMA MinesUsedRow ==
    ASSUME SignerInv, NEW k \in Keys, MinesUsed(k)
    PROVE  /\ OthersKept(k) /\ RowKept(k)
           /\ spend[k].state \in Live /\ receipt_used(k)
           /\ spend'[k].state = "mined" /\ spend'[k].tx = spend[k].tx
           /\ UNCHANGED <<attempts, nextNonce, signatures>>
<1>a. spend[k] \in Row
  BY DEF SignerInv, TypeOK, LTypeOK
<1>1. OthersKept(k) /\ spend'[k] = [spend[k] EXCEPT !.state = "mined"]
  BY DEF MinesUsed, MarkMined, SetState, OthersKept, SignerInv, TypeOK, LTypeOK
<1>2. RowKept(k) /\ spend'[k].state = "mined" /\ spend'[k].tx = spend[k].tx
  BY <1>a, <1>1 DEF RowKept, Row
<1> QED BY <1>1, <1>2 DEF MinesUsed, MarkMined

\* A transaction is not the absence of one.
LEMMA NoTxIsNone == NoTx \notin Tx
<1> SUFFICES ASSUME NoTx \in Tx PROVE FALSE
  OBVIOUS
<1>1. DOMAIN NoTx = {"key", "amount", "nonce", "fee"}
  BY DEF Tx
<1>2. DOMAIN NoTx = {"key"}
  BY DEF NoTx
<1> QED BY <1>1, <1>2

\* mark_mined with the receipt of an attempt.
LEMMA MinesReceiptRow ==
    ASSUME SignerInv, NEW k \in Keys, MinesReceipt(k)
    PROVE  /\ OthersKept(k) /\ RowKept(k)
           /\ spend[k].state \in Live
           /\ spend'[k].state = "mined"
           /\ \E a \in attempts_for(k) : HasReceipt(a.tx, TRUE) /\ spend'[k].tx = a.tx
           /\ UNCHANGED <<attempts, nextNonce, signatures>>
<1>a. spend[k] \in Row
  BY DEF SignerInv, TypeOK, LTypeOK
<1>1. PICK a \in attempts_for(k) :
          HasReceipt(a.tx, TRUE) /\ \E fee \in 1..a.tx.fee : MarkMined(k, a.tx, fee)
  BY DEF MinesReceipt
<1>2. PICK fee \in 1..a.tx.fee : MarkMined(k, a.tx, fee)
  BY <1>1
<1>3. a.tx # NoTx
  BY NoTxIsNone DEF attempts_for, SignerInv, TypeOK, LTypeOK
<1>4. OthersKept(k) /\ spend'[k] = [spend[k] EXCEPT !.state = "mined", !.tx = a.tx, !.fee = fee]
  BY <1>2, <1>3 DEF MarkMined, SetState, OthersKept, SignerInv, TypeOK, LTypeOK
<1>5. RowKept(k) /\ spend'[k].state = "mined" /\ spend'[k].tx = a.tx
  BY <1>a, <1>4 DEF RowKept, Row
<1> QED BY <1>1, <1>2, <1>4, <1>5 DEF MinesReceipt, MarkMined

\* mark_dead, whole or torn: the row keeps its transaction; a nonce goes back
\* only if no attempt carries it.
LEMMA ReleasesRow ==
    ASSUME SignerInv, NEW k \in Keys, Releases(k)
    PROVE  /\ OthersKept(k) /\ RowKept(k)
           /\ spend[k].state \in Live
           /\ spend'[k].state = "dead" /\ spend'[k].tx = spend[k].tx
           /\ UNCHANGED <<attempts, signatures>>
           /\ \/ nextNonce' = nextNonce
              \/ /\ nextNonce' = spend[k].nonce /\ nextNonce = spend[k].nonce + 1
                 /\ Unsigned(k)
<1>a. spend[k] \in Row
  BY DEF SignerInv, TypeOK, LTypeOK
<1>1. spend' = [spend EXCEPT ![k] = [spend[k] EXCEPT !.state = "dead"]]
  BY <1>a DEF Releases, MarkDead, TornMarkDead, SetState, SignerInv, TypeOK, LTypeOK
<1>2. OthersKept(k) /\ spend'[k] = [spend[k] EXCEPT !.state = "dead"]
  BY <1>1 DEF OthersKept, SignerInv, TypeOK, LTypeOK
<1>3. RowKept(k) /\ spend'[k].state = "dead" /\ spend'[k].tx = spend[k].tx
  BY <1>a, <1>2 DEF RowKept, Row
<1>4. UNCHANGED <<attempts, signatures>> /\ spend[k].state \in Live
  BY DEF Releases, MarkDead, TornMarkDead
<1>5. \/ nextNonce' = nextNonce
      \/ /\ nextNonce' = spend[k].nonce /\ nextNonce = spend[k].nonce + 1
         /\ Unsigned(k)
  BY DEF Releases, MarkDead, TornMarkDead
<1> QED BY <1>2, <1>3, <1>4, <1>5

-----------------------------------------------------------------------------
(***************************************************************************)
(* Types, and the records, are preserved.                                  *)
(***************************************************************************)

\* A row, once inserted, stays, under the amount it was inserted with.
LEMMA RowsPersist ==
    ASSUME SignerInv, Effect \/ TimePasses \/ ClockStepsBack, NEW j \in Keys, Exists(j)
    PROVE  spend'[j].state # "none" /\ spend'[j].amount = spend[j].amount
<1>1. CASE spend' = spend
  BY <1>1 DEF Exists
<1>2. ASSUME NEW k \in Keys, RowEffect(k)
      PROVE  spend'[j].state # "none" /\ spend'[j].amount = spend[j].amount
  <2>1. CASE j # k
    <3>1. OthersKept(k)
      BY <1>2, TakesRow, SignsRowRow, BroadcastsRow, MinesUsedRow, MinesReceiptRow, ReleasesRow
      DEF RowEffect
    <3> QED BY <2>1, <3>1 DEF OthersKept, Exists
  <2>2. CASE j = k
    BY <1>2, <2>2, TakesRow, SignsRowRow, BroadcastsRow, MinesUsedRow, MinesReceiptRow, ReleasesRow
    DEF RowEffect, RowKept
  <2> QED BY <2>1, <2>2
<1>3. CASE Leaves \/ Notes \/ SetsNext \/ Delivers \/ Includes \/ TimePasses \/ ClockStepsBack
  BY <1>1, <1>3 DEF Leaves, Notes, SetsNext, Delivers, Includes, TimePasses, ClockStepsBack,
                    books, Audit, ClearHalt, SetNextNonce
<1> QED BY <1>2, <1>3 DEF Effect

\* Signatures and recorded transactions are never forgotten.
LEMMA RecordsPersist ==
    ASSUME SignerInv, Effect \/ TimePasses \/ ClockStepsBack
    PROVE  /\ signatures \subseteq signatures'
           /\ \A a \in attempts : \E b \in attempts' : b.tx = a.tx
           /\ \A b \in attempts' :
                  \/ b \in attempts
                  \/ pc = "sign" /\ b.tx = TxOf(op.key) /\ SignsRow(op.key)
<1>1. CASE attempts' = attempts /\ signatures' = signatures
  BY <1>1
<1>2. ASSUME NEW k \in Keys, SignsRow(k)
      PROVE  /\ signatures \subseteq signatures'
             /\ \A a \in attempts : \E b \in attempts' : b.tx = a.tx
             /\ \A b \in attempts' :
                  \/ b \in attempts
                  \/ pc = "sign" /\ b.tx = TxOf(op.key) /\ SignsRow(op.key)
  <2>1. k = op.key /\ pc = "sign"
    BY <1>2 DEF SignsRow
  <2>2. CASE attempts' = attempts
    BY <1>2, <2>2, SignsRowRow
  <2>3. CASE attempts' = {a \in attempts : a.tx # TxOf(k)}
                           \cup {[tx |-> TxOf(k), seq |-> maxSeq + 1]}
    <3>1. [tx |-> TxOf(k), seq |-> maxSeq + 1].tx = TxOf(k)
      OBVIOUS
    <3>2. ASSUME NEW a \in attempts PROVE \E b \in attempts' : b.tx = a.tx
      BY <2>3, <3>1
    <3>3. ASSUME NEW b \in attempts', b \notin attempts PROVE b.tx = TxOf(k)
      BY <2>3, <3>1, <3>3
    <3> QED BY <1>2, <2>1, <3>2, <3>3, SignsRowRow
  <2> QED BY <1>2, <2>2, <2>3, SignsRowRow
<1>3. ASSUME NEW k \in Keys, RowEffect(k), ~SignsRow(k)
      PROVE  attempts' = attempts /\ signatures' = signatures
  <2>1. CASE Takes(k)
    BY <2>1, TakesRow DEF Takes
  <2> QED BY <1>3, <2>1, BroadcastsRow, MinesUsedRow, MinesReceiptRow, ReleasesRow DEF RowEffect
<1>4. CASE Leaves \/ Notes \/ SetsNext \/ Delivers \/ Includes \/ TimePasses \/ ClockStepsBack
  BY <1>1, <1>4 DEF Leaves, Notes, SetsNext, Delivers, Includes, TimePasses, ClockStepsBack,
                    books, history, Audit, ClearHalt, SetNextNonce
<1> QED BY <1>1, <1>2, <1>3, <1>4 DEF Effect

\* The books, the chain and the signatures keep their types.
LEMMA DataTypeStep ==
    ASSUME SignerInv, Effect \/ TimePasses \/ ClockStepsBack, [LNext]_lvars
    PROVE  LTypeOK' /\ ChainTypeOK' /\ signatures' \subseteq Tx
<1>1. LTypeOK'
  BY LTypeNext DEF SignerInv, TypeOK
<1>2. signatures' \subseteq Tx
  <2>1. CASE signatures' = signatures
    BY <2>1 DEF SignerInv, TypeOK
  <2>2. ASSUME NEW k \in Keys, SignsRow(k) PROVE signatures' \subseteq Tx
    BY <2>2, SignsRowRow, TxOfType DEF SignerInv, TypeOK
  <2>3. ASSUME NEW k \in Keys, RowEffect(k), ~SignsRow(k) PROVE signatures' = signatures
    BY <2>3 DEF RowEffect, Takes, Broadcasts, MinesUsed, MinesReceipt, Releases
  <2> QED BY <2>1, <2>2, <2>3
       DEF Effect, Leaves, Notes, SetsNext, Delivers, Includes, TimePasses, ClockStepsBack, history
<1>3. ChainTypeOK'
  <2>a. ChainTypeOK
    BY DEF SignerInv, TypeOK
  <2>1. CASE UNCHANGED chain /\ blockTime' \in Nat
    BY <2>a, <2>1 DEF ChainTypeOK, chain
  <2>2. CASE Delivers /\ UNCHANGED blockTime
    <3>1. op.key \in Keys /\ \E a \in attempts : a.tx = spend[op.key].tx
      BY <2>2 DEF Delivers, SignerInv, ProcessInv, OpInv, RowInv, Sending
    <3>2. spend[op.key].tx \in Tx
      BY <3>1 DEF SignerInv, TypeOK, LTypeOK
    <3> QED BY <2>a, <2>2, <3>2 DEF Delivers, Deliver, ChainTypeOK
  <2>3. CASE Includes /\ UNCHANGED blockTime
    <3>1. PICK t \in pool :
            /\ \E ok \in {Accepts(t.key)} \cup (IF MayRevert THEN {FALSE} ELSE {}) :
                   landed' = landed \cup {[tx |-> t, ok |-> ok]}
            /\ chainNonce' = chainNonce + 1
            /\ pool' = {u \in pool : u.nonce # chainNonce}
      BY <2>3 DEF Includes, Include
    <3> DEFINE oks == {Accepts(t.key)} \cup (IF MayRevert THEN {FALSE} ELSE {})
    <3>2. oks \subseteq BOOLEAN
      BY Zenon DEF Accepts
    <3>3. landed' \subseteq [tx : Tx, ok : BOOLEAN]
      <4>1. \E ok \in oks : landed' = landed \cup {[tx |-> t, ok |-> ok]}
        BY <3>1
      <4> HIDE DEF oks
      <4>2. PICK ok \in BOOLEAN : landed' = landed \cup {[tx |-> t, ok |-> ok]}
        BY <3>2, <4>1
      <4>3. t \in Tx
        BY <2>a DEF ChainTypeOK
      <4>4. [tx |-> t, ok |-> ok] \in [tx : Tx, ok : BOOLEAN]
        BY <4>3, Zenon
      <4> QED BY <2>a, <4>2, <4>4 DEF ChainTypeOK
    <3> QED BY <2>a, <2>3, <3>1, <3>3 DEF ChainTypeOK
  <2>4. ASSUME NEW k \in Keys, RowEffect(k) PROVE UNCHANGED chain
    BY <2>4 DEF RowEffect, Takes, SignsRow, Broadcasts, MinesUsed, MinesReceipt, Releases
  <2>5. blockTime \in Nat
    BY <2>a DEF ChainTypeOK
  <2> QED BY <2>1, <2>2, <2>3, <2>4, <2>5
       DEF Effect, Leaves, Notes, SetsNext, TimePasses, ClockStepsBack
<1> QED BY <1>1, <1>2, <1>3

\* One row names a transaction of ours, or none.
RowNamesOurs(k) ==
    /\ spend[k].tx # NoTx =>
           /\ spend[k].tx \in signatures
           /\ spend[k].tx.key = k
           /\ spend[k].tx.amount = spend[k].amount
    /\ spend[k].state \in {"signed", "broadcast"} =>
           spend[k].tx # NoTx /\ spend[k].tx.nonce = spend[k].nonce
    /\ spend[k].state = "mined" /\ k \in GasOnly => spend[k].tx # NoTx

\* The rows name what the key signed for them.
LEMMA RowsNameOursStep ==
    ASSUME SignerInv, Effect \/ TimePasses \/ ClockStepsBack
    PROVE  RowsNameOurs'
<1> SUFFICES ASSUME NEW j \in Keys PROVE RowNamesOurs(j)'
  BY DEF RowsNameOurs, RowNamesOurs
<1>a. RowNamesOurs(j) /\ spend[j] \in Row
  BY DEF SignerInv, BooksInv, RowsNameOurs, RowNamesOurs, TypeOK, LTypeOK
<1>b. signatures \subseteq signatures'
  BY RecordsPersist
<1>1. CASE spend'[j] = spend[j]
  BY <1>1, <1>a, <1>b DEF RowNamesOurs
<1>2. CASE RowEffect(j)
  <2>1. CASE Takes(j)
    BY <2>1, TakesRow DEF RowNamesOurs
  <2>2. CASE SignsRow(j)
    <3>1. TxOf(j).key = j /\ TxOf(j).amount = spend[j].amount /\ TxOf(j).nonce = spend[j].nonce
      BY DEF TxOf
    <3>2. TxOf(j) # NoTx
      BY TxOfType, NoTxIsNone DEF SignerInv, TypeOK
    <3> QED BY <2>2, <3>1, <3>2, SignsRowRow DEF RowNamesOurs, RowKept
  <2>3. CASE Broadcasts(j)
    BY <2>3, <1>a, BroadcastsRow DEF RowNamesOurs, RowKept
  <2>4. CASE MinesUsed(j)
    <3>1. j \notin GasOnly
      BY <2>4, MinesUsedRow, KindsDisjoint DEF receipt_used, GasOnly
    <3> QED BY <2>4, <1>a, <3>1, MinesUsedRow DEF RowNamesOurs, RowKept
  <2>5. CASE MinesReceipt(j)
    <3>1. PICK a \in attempts_for(j) : spend'[j].tx = a.tx
      BY <2>5, MinesReceiptRow
    <3>2. a.tx \in signatures /\ a.tx.key = j /\ a.tx.amount = spend[j].amount /\ a.tx # NoTx
      BY NoTxIsNone
      DEF attempts_for, SignerInv, BooksInv, AttemptsAreOurs, TypeOK, LTypeOK
    <3> QED BY <2>5, <3>1, <3>2, <1>b, MinesReceiptRow DEF RowNamesOurs, RowKept
  <2>6. CASE Releases(j)
    BY <2>6, <1>a, ReleasesRow DEF RowNamesOurs, RowKept
  <2> QED BY <1>2, <2>1, <2>2, <2>3, <2>4, <2>5, <2>6 DEF RowEffect
<1>3. ASSUME NEW k \in Keys, RowEffect(k), k # j PROVE spend'[j] = spend[j]
  <2>1. OthersKept(k)
    BY <1>3, TakesRow, SignsRowRow, BroadcastsRow, MinesUsedRow, MinesReceiptRow, ReleasesRow
    DEF RowEffect
  <2> QED BY <1>3, <2>1 DEF OthersKept
<1>4. CASE Leaves \/ Notes \/ SetsNext \/ Delivers \/ Includes \/ TimePasses \/ ClockStepsBack
  BY <1>1, <1>4 DEF Leaves, Notes, SetsNext, Delivers, Includes, TimePasses, ClockStepsBack,
                    books, Audit, ClearHalt, SetNextNonce
<1> QED BY <1>1, <1>2, <1>3, <1>4 DEF Effect

\* The attempts are what the key signed, for the amounts of their rows.
LEMMA AttemptsAreOursStep ==
    ASSUME SignerInv, Effect \/ TimePasses \/ ClockStepsBack
    PROVE  AttemptsAreOurs'
<1> SUFFICES ASSUME NEW b \in attempts'
             PROVE  /\ b.tx \in signatures'
                    /\ spend'[b.tx.key].state # "none"
                    /\ b.tx.amount = spend'[b.tx.key].amount
  BY DEF AttemptsAreOurs, Exists
<1>1. CASE b \in attempts
  <2>1. b.tx.key \in Keys
    BY <1>1 DEF SignerInv, TypeOK, LTypeOK, Tx
  <2> QED BY <1>1, <2>1, RowsPersist, RecordsPersist DEF SignerInv, BooksInv, AttemptsAreOurs
<1>2. CASE pc = "sign" /\ b.tx = TxOf(op.key) /\ SignsRow(op.key)
  <2>1. op.key \in Keys
    BY <1>2 DEF SignerInv, ProcessInv, OpInv, Holding
  <2>2. TxOf(op.key).key = op.key /\ TxOf(op.key).amount = spend[op.key].amount
    BY DEF TxOf
  <2> QED BY <1>2, <2>1, <2>2, SignsRowRow DEF RowKept
<1> QED BY <1>1, <1>2, RecordsPersist

\* A node learns of a transaction only when it is sent, and by then the books
\* hold its attempt.
LEMMA KnownTxRecordedStep ==
    ASSUME SignerInv, Effect \/ TimePasses \/ ClockStepsBack
    PROVE  KnownTxRecorded'
<1> SUFFICES ASSUME NEW t \in Known' PROVE \E b \in attempts' : b.tx = t
  BY DEF KnownTxRecorded
<1> SUFFICES \E a \in attempts : a.tx = t
  BY RecordsPersist
<1>1. CASE t \in Known
  BY <1>1 DEF SignerInv, BooksInv, KnownTxRecorded
<1>2. CASE Delivers
  <2>1. t \in Known \/ t = spend[op.key].tx
    BY <1>2 DEF Delivers, Deliver, Known
  <2>2. \E a \in attempts : a.tx = spend[op.key].tx
    BY <1>2 DEF Delivers, SignerInv, ProcessInv, RowInv, Sending
  <2> QED BY <1>1, <2>1, <2>2
<1>3. CASE Includes
  <2>1. PICK u \in pool : \E ok :
            /\ landed' = landed \cup {[tx |-> u, ok |-> ok]}
            /\ pool' = {v \in pool : v.nonce # chainNonce}
    BY <1>3 DEF Includes, Include
  <2>2. t \in Known
    BY <2>1 DEF Known
  <2> QED BY <1>1, <2>2
<1>4. ASSUME NEW k \in Keys, RowEffect(k) PROVE UNCHANGED chain
  BY <1>4 DEF RowEffect, Takes, SignsRow, Broadcasts, MinesUsed, MinesReceipt, Releases
<1>5. CASE UNCHANGED chain
  BY <1>1, <1>5 DEF chain, Known
<1> QED BY <1>2, <1>3, <1>4, <1>5
     DEF Effect, Leaves, Notes, SetsNext, TimePasses, ClockStepsBack

\* No nonce passes the bound.
LEMMA NoncesBoundedStep ==
    ASSUME SignerInv, Effect \/ TimePasses \/ ClockStepsBack
    PROVE  NoncesBounded'
<1>a. /\ nextNonce \in Nat /\ chainNonce \in Nat /\ MaxNonce \in Nat
      /\ nextNonce <= MaxNonce /\ chainNonce <= MaxNonce
  BY BoundsType DEF SignerInv, TypeOK, LTypeOK, ChainTypeOK, BooksInv, NoncesBounded
<1>1. ASSUME NEW b \in attempts' PROVE b.tx.nonce < MaxNonce
  <2>1. CASE b \in attempts
    BY <2>1 DEF SignerInv, BooksInv, NoncesBounded
  <2>2. CASE pc = "sign" /\ b.tx = TxOf(op.key)
    <3>1. op.key \in unresolved
      BY <2>2 DEF SignerInv, ProcessInv, OpInv, RowInv, Holding, unresolved, Live
    <3>2. spend[op.key].nonce \in Nat /\ spend[op.key].nonce < nextNonce
      BY <3>1 DEF SignerInv, TypeOK, LTypeOK, Row, BooksInv, NonceOwnership, unresolved
    <3>3. b.tx.nonce = spend[op.key].nonce
      BY <2>2 DEF TxOf
    <3> QED BY <1>a, <3>2, <3>3
  <2> QED BY <2>1, <2>2, RecordsPersist
<1>2. chainNonce' <= MaxNonce
  <2>1. CASE Includes
    <3>1. PICK t \in pool : t.nonce = chainNonce /\ chainNonce' = chainNonce + 1
      BY <2>1 DEF Includes, Include
    <3>2. PICK a \in attempts : a.tx = t
      BY DEF SignerInv, BooksInv, KnownTxRecorded, Known
    <3>3. chainNonce < MaxNonce
      BY <3>1, <3>2 DEF SignerInv, BooksInv, NoncesBounded
    <3> QED BY <1>a, <3>1, <3>3
  <2>2. ASSUME NEW k \in Keys, RowEffect(k) PROVE UNCHANGED chain
    BY <2>2 DEF RowEffect, Takes, SignsRow, Broadcasts, MinesUsed, MinesReceipt, Releases
  <2>3. CASE chainNonce' = chainNonce
    BY <1>a, <2>3
  <2> QED BY <2>1, <2>2, <2>3
       DEF Effect, Leaves, Notes, SetsNext, Delivers, TimePasses, ClockStepsBack, chain
<1>3. nextNonce' <= MaxNonce
  <2>1. ASSUME NEW k \in Keys, RowEffect(k) PROVE nextNonce' <= MaxNonce
    <3>1. CASE Takes(k)
      BY <1>a, <3>1, TakesRow
    <3>2. CASE Releases(k)
      <4>1. spend[k].nonce \in Nat
        BY DEF SignerInv, TypeOK, LTypeOK, Row
      <4> QED BY <1>a, <3>2, <4>1, ReleasesRow
    <3> QED BY <1>a, <2>1, <3>1, <3>2, SignsRowRow, BroadcastsRow, MinesUsedRow, MinesReceiptRow
         DEF RowEffect
  <2>2. CASE SetsNext
    <3>1. PICK pending \in PendingCounts : SetNextNonce(BootNext(pending))
      BY <2>2 DEF SetsNext
    <3>2. BootNext(pending) \in 0..MaxNonce
      BY BootNextBounds
    <3> QED BY <1>a, <3>1, <3>2 DEF SetNextNonce
  <2>3. CASE nextNonce' = nextNonce
    BY <1>a, <2>3
  <2> QED BY <2>1, <2>2, <2>3 DEF Effect, Leaves, Notes, Delivers, Includes, TimePasses,
          ClockStepsBack, books, Audit, ClearHalt
<1> QED BY <1>1, <1>2, <1>3 DEF NoncesBounded

\* The records of the process are preserved by every step.
LEMMA BooksInvStep ==
    ASSUME SignerInv, Effect \/ TimePasses \/ ClockStepsBack, [LNext]_lvars
    PROVE  BooksInv'
<1>1. NonceOwnership'
  BY OwnershipNext DEF SignerInv, TypeOK, BooksInv
<1>2. (wall \in 0..MaxTime)'
  <2>1. wall \in 0..MaxTime /\ MaxTime \in Nat
    BY BoundsType DEF SignerInv, BooksInv
  <2> QED BY <2>1 DEF Effect, TimePasses, ClockStepsBack
<1>3. GasOnlyInv'
  BY GasOnlyInvNext DEF SignerInv, BooksInv
<1> QED BY <1>1, <1>2, <1>3, RowsNameOursStep, AttemptsAreOursStep, KnownTxRecordedStep, NoncesBoundedStep
     DEF BooksInv

-----------------------------------------------------------------------------
(***************************************************************************)
(* Control.                                                                *)
(***************************************************************************)

OpType == [key : Keys \cup {"none"}, amount : Nat, fee : Nat, answer : {"none", "refused", "hash"}]

ProcessType ==
    /\ pc \in Pcs
    /\ ready \in BOOLEAN
    /\ op \in OpType
    /\ rec \in [todo : SUBSET Keys, absent : SUBSET attempts, now : Nat,
                back : {"none", "boot", "replay", "sweep"}]

ProcessOK == ProcessType /\ ProcessInv /\ AnswerIsOurs

\* No loop is running.
LEMMA NoRecIsIdle ==
    /\ NoRec.todo = {} /\ NoRec.absent = {} /\ NoRec.back = "none"
    /\ \A S : NoRec \in [todo : SUBSET Keys, absent : SUBSET S, now : Nat,
                         back : {"none", "boot", "replay", "sweep"}]
BY DEF NoRec

\* No request is being worked on.
LEMMA NoOpType == NoOp \in OpType
BY DEF NoOp, OpType

\* The process comes to rest: it is down, booting, or waits for a request.
LEMMA RestOK ==
    ASSUME rec' = NoRec, op' \in OpType, ready' \in BOOLEAN,
           pc' \in {"down", "idle", "boot_identity", "boot_nonce", "boot_audit"}
    PROVE  ProcessOK'
BY NoRecIsIdle
DEF ProcessOK, ProcessType, ProcessInv, OpInv, RecInv, RowInv, AnswerIsOurs, Pcs,
    Looping, Holding, Sending

\* The process has decided on its answer.
LEMMA AnswerOK ==
    ASSUME rec' = NoRec, op' \in OpType, ready' \in BOOLEAN, pc' = "answer",
           op'.answer = "hash" =>
               \E t \in signatures' :
                   t = spend'[op'.key].tx /\ t.key = op'.key /\ t.amount = op'.amount
    PROVE  ProcessOK'
BY NoRecIsIdle
DEF ProcessOK, ProcessType, ProcessInv, OpInv, RecInv, RowInv, AnswerIsOurs, Pcs,
    Looping, Holding, Sending

\* The process goes on with its request.
LEMMA WorkOK ==
    ASSUME rec' = NoRec, op' \in OpType, ready' \in BOOLEAN,
           pc' \in {"preflight", "reserve"} \cup Holding \cup Sending,
           op'.key \in Keys, op'.amount \in AmountsFor(op'.key),
           pc' = "reserve" => op'.fee \in Fees,
           pc' \in Holding =>
               spend'[op'.key].state = "reserved" /\ spend'[op'.key].amount = op'.amount,
           pc' \in Sending =>
               /\ spend'[op'.key].state = "signed" /\ spend'[op'.key].amount = op'.amount
               /\ \E a \in attempts' : a.tx = spend'[op'.key].tx
    PROVE  ProcessOK'
<1>1. pc' \in Pcs /\ pc' \notin Looping \cup {"settle", "answer"}
  BY DEF Pcs, Holding, Sending, Looping
<1>2. ProcessType'
  BY <1>1, NoRecIsIdle DEF ProcessType
<1>3. OpInv'
  BY <1>1 DEF OpInv, AmountsFor
<1>4. RecInv'
  BY <1>1, NoRecIsIdle DEF RecInv, Looping
<1>5. RowInv'
  BY DEF RowInv
<1>6. AnswerIsOurs'
  BY <1>1 DEF AnswerIsOurs
<1> QED BY <1>2, <1>3, <1>4, <1>5, <1>6 DEF ProcessOK, ProcessInv

\* Deciding on a refusal.
LEMMA RefusedOK ==
    ASSUME SignerInv, Decide("refused"), rec' = NoRec, ready' \in BOOLEAN
    PROVE  ProcessOK'
<1>1. op' \in OpType /\ op'.answer = "refused" /\ pc' = "answer"
  BY DEF Decide, SignerInv, TypeOK, OpType
<1> QED BY <1>1, AnswerOK

\* The request is over.
LEMMA DoneOK ==
    ASSUME Done, rec' = NoRec, ready' \in BOOLEAN
    PROVE  ProcessOK'
BY RestOK, NoOpType DEF Done

\* The process is gone.
LEMMA ExitOK ==
    ASSUME Exit
    PROVE  ProcessOK'
BY RestOK, NoOpType DEF Exit

\* A loop goes on to its next row.
LEMMA NextRowOK ==
    ASSUME SignerInv, NEW p, pc' = p, NextRow, UNCHANGED <<ready, op>>,
           \/ pc \in Looping /\ p = "rec_used"
           \/ pc = "settle" /\ p = "settle",
           OthersKept(FirstRow), RowKept(FirstRow), attempts' = attempts
    PROVE  ProcessOK'
<1>1. /\ rec'.todo = rec.todo \ {FirstRow} /\ rec'.absent = {}
      /\ rec'.now = rec.now /\ rec'.back = rec.back
      /\ rec' \in [todo : SUBSET Keys, absent : SUBSET attempts', now : Nat,
                   back : {"none", "boot", "replay", "sweep"}]
  BY DEF NextRow, SignerInv, TypeOK
<1>2. ProcessType'
  BY <1>1 DEF ProcessType, SignerInv, TypeOK, OpType, Pcs
<1>3. OpInv'
  BY DEF OpInv, SignerInv, ProcessInv, Holding, Sending
<1>4. rec'.todo \subseteq unresolved'
  BY <1>1 DEF SignerInv, ProcessInv, RecInv, unresolved, OthersKept
<1>5. \A j \in Keys : spend'[j].amount = spend[j].amount
  BY DEF OthersKept, RowKept
<1>6. RecInv'
  <2>1. rec.back = "replay" => op.key \in Keys
    BY DEF SignerInv, ProcessInv, RecInv, Keys
  <2> QED BY <1>1, <1>4, <1>5, <2>1 DEF SignerInv, ProcessInv, RecInv, Looping
<1>7. RowInv' /\ AnswerIsOurs'
  BY DEF RowInv, AnswerIsOurs, Holding, Sending
<1> QED BY <1>2, <1>3, <1>6, <1>7 DEF ProcessOK, ProcessInv

\* A row of a loop has been written, and the loop goes on or is given up.
LEMMA AfterWriteOK ==
    ASSUME SignerInv, NEW p, AfterWrite(p),
           \/ pc \in Looping /\ p = "rec_used"
           \/ pc = "settle" /\ p = "settle",
           OthersKept(FirstRow), RowKept(FirstRow), attempts' = attempts
    PROVE  ProcessOK'
<1>1. CASE ClockSane
  BY <1>1, NextRowOK DEF AfterWrite, Goto
<1>2. CASE ~ClockSane /\ rec.back = "boot"
  BY <1>2, ExitOK DEF AfterWrite
<1>3. CASE ~ClockSane /\ rec.back # "boot"
  <2>1. Raise /\ rec' = NoRec /\ ready' \in BOOLEAN
    BY <1>3 DEF AfterWrite, SignerInv, TypeOK
  <2> QED BY <2>1, DoneOK, RefusedOK DEF Raise
<1> QED BY <1>1, <1>2, <1>3

\* A loop over the live rows begins.
LEMMA StartReconcileOK ==
    ASSUME SignerInv, NEW back \in {"boot", "replay"}, StartReconcile(back),
           UNCHANGED <<books, ready>>, op' \in OpType,
           back = "replay" => /\ op'.key \in Debits /\ op'.amount \in Amounts
                              /\ spend[op'.key].amount = op'.amount
    PROVE  ProcessOK'
<1>1. /\ pc' = "rec_used"
      /\ rec' = [todo |-> unresolved, absent |-> {}, now |-> wall, back |-> back]
  BY DEF StartReconcile, Goto
<1>2. rec'.todo = unresolved /\ rec'.absent = {} /\ rec'.back = back
  BY <1>1
<1>3. spend' = spend /\ attempts' = attempts /\ ready' = ready
  BY DEF books
<1>4. rec' \in [todo : SUBSET Keys, absent : SUBSET attempts', now : Nat,
                back : {"none", "boot", "replay", "sweep"}]
  BY <1>1 DEF unresolved, SignerInv, TypeOK, LTypeOK
<1>5. ProcessType'
  BY <1>1, <1>3, <1>4 DEF ProcessType, Pcs, SignerInv, TypeOK
<1>6. RecInv'
  BY <1>1, <1>2, <1>3 DEF RecInv, unresolved, Looping
<1>7. OpInv' /\ RowInv' /\ AnswerIsOurs'
  BY <1>1 DEF OpInv, RowInv, AnswerIsOurs, Holding, Sending
<1> QED BY <1>5, <1>6, <1>7 DEF ProcessOK, ProcessInv

\* Somebody else's step: the process and its books stay where they are.
LEMMA ElsewhereOK ==
    ASSUME SignerInv, UNCHANGED <<pc, ready, op, rec, spend, attempts, signatures>>
    PROVE  ProcessOK'
BY DEF SignerInv, TypeOK, OpType, ProcessOK, ProcessType, ProcessInv, OpInv, RecInv, RowInv,
       AnswerIsOurs, unresolved, AmountsFor

\* Outside a loop there is nothing left of one.
LEMMA OutsideLoop ==
    ASSUME SignerInv, pc \notin Looping \cup {"settle"}
    PROVE  rec = NoRec /\ op \in OpType /\ ready \in BOOLEAN
BY DEF SignerInv, TypeOK, OpType, ProcessInv, RecInv

\* Boot.
LEMMA BootsOK ==
    ASSUME SignerInv, Boots
    PROVE  ProcessOK'
<1>1. CASE Boot
  BY <1>1, OutsideLoop, RestOK DEF Boot, Goto, Looping
<1>2. CASE BootIdentity
  BY <1>2, OutsideLoop, StartReconcileOK DEF BootIdentity, Looping
<1>3. CASE BootNonce
  <2>1. CASE ClockSane
    BY <1>3, <2>1, OutsideLoop, RestOK DEF BootNonce, Goto, Looping
  <2>2. CASE ~ClockSane
    BY <1>3, <2>2, ExitOK DEF BootNonce
  <2> QED BY <2>1, <2>2
<1>4. CASE BootRpcDown
  BY <1>4, OutsideLoop, RestOK DEF BootRpcDown, Goto, Looping
<1>5. CASE BootAudit
  <2>1. CASE ClockSane
    BY <1>5, <2>1, OutsideLoop, RestOK DEF BootAudit, Goto, Looping
  <2>2. CASE ~ClockSane
    BY <1>5, <2>2, ExitOK DEF BootAudit
  <2> QED BY <2>1, <2>2
<1> QED BY <1>1, <1>2, <1>3, <1>4, <1>5 DEF Boots

\* An attempt without a receipt: the loop stays at its row.
LEMMA AbsentOK ==
    ASSUME SignerInv, pc \in {"rec_receipts", "settle"}, Unread(FirstRow) # {},
           rec' = [rec EXCEPT !.absent = @ \cup {FirstAttempt(FirstRow)}],
           UNCHANGED <<books, pc, ready, op>>
    PROVE  ProcessOK'
<1>1. FirstAttempt(FirstRow) \in attempts
  BY FirstAttemptLeft DEF attempts_for, SignerInv
<1>2. rec'.todo = rec.todo /\ rec'.now = rec.now /\ rec'.back = rec.back
  BY DEF SignerInv, TypeOK
<1>3. spend' = spend /\ attempts' = attempts
  BY DEF books
<1>4. rec' \in [todo : SUBSET Keys, absent : SUBSET attempts', now : Nat,
                back : {"none", "boot", "replay", "sweep"}]
  BY <1>1, <1>3 DEF SignerInv, TypeOK
<1>5. ProcessType'
  BY <1>4 DEF ProcessType, OpType, SignerInv, TypeOK
<1>6. RecInv'
  BY <1>2, <1>3 DEF SignerInv, ProcessInv, RecInv, unresolved, Looping
<1>7. OpInv' /\ RowInv' /\ AnswerIsOurs'
  BY DEF SignerInv, ProcessInv, OpInv, RowInv, AnswerIsOurs, Holding, Sending
<1> QED BY <1>5, <1>6, <1>7 DEF ProcessOK, ProcessInv

\* A row of ours that names a transaction may be answered with it.
LEMMA NamedIsOurs ==
    ASSUME SignerInv, NEW k \in Keys, spend[k].tx # NoTx
    PROVE  \E t \in signatures :
               t = spend[k].tx /\ t.key = k /\ t.amount = spend[k].amount
BY DEF SignerInv, BooksInv, RowsNameOurs

\* The loop of _reconcile.
LEMMA ReconcilesOK ==
    ASSUME SignerInv, Reconciles
    PROVE  ProcessOK'
<1>a. ready \in BOOLEAN /\ op \in OpType
  BY DEF SignerInv, TypeOK, OpType
<1>b. ASSUME UNCHANGED books
      PROVE  OthersKept(FirstRow) /\ RowKept(FirstRow) /\ attempts' = attempts
  BY <1>b DEF books, OthersKept, RowKept
<1>1. CASE RecUsed
  <2>0. FirstRow \in Keys /\ spend[FirstRow].state \in Live
    BY <1>1, FirstRowLive DEF RecUsed
  <2>1. PICK used \in Reads(receipt_used(FirstRow)) :
            IF used
            THEN MarkMined(FirstRow, NoTx, 0) /\ AfterWrite("rec_used")
            ELSE Goto("rec_receipts") /\ UNCHANGED <<books, ready, op, rec>>
    BY <1>1 DEF RecUsed
  <2>2. CASE used
    <3>1. receipt_used(FirstRow)
      BY <2>2, Zenon DEF Reads
    <3>2. MinesUsed(FirstRow)
      BY <1>1, <2>0, <2>1, <2>2, <3>1 DEF MinesUsed, RecUsed
    <3>3. OthersKept(FirstRow) /\ RowKept(FirstRow) /\ attempts' = attempts
      BY <2>0, <3>2, MinesUsedRow
    <3> QED BY <1>1, <2>1, <2>2, <3>3, AfterWriteOK DEF RecUsed, Looping
  <2>3. CASE ~used
    <3>1. pc = "rec_used" /\ pc' = "rec_receipts" /\ UNCHANGED <<ready, op, rec, spend, attempts>>
      BY <1>1, <2>1, <2>3 DEF RecUsed, Goto, books
    <3>2. ProcessType'
      BY <3>1 DEF ProcessType, Pcs, SignerInv, TypeOK, OpType
    <3>3. RecInv'
      BY <1>1, <3>1 DEF RecUsed, SignerInv, ProcessInv, RecInv, unresolved, Looping
    <3>4. OpInv' /\ RowInv' /\ AnswerIsOurs'
      BY <3>1 DEF OpInv, RowInv, AnswerIsOurs, Holding, Sending
    <3> QED BY <3>2, <3>3, <3>4 DEF ProcessOK, ProcessInv
  <2> QED BY <2>2, <2>3
<1>2. CASE RecReceipt
  <2>0. /\ rec.todo # {} /\ pc = "rec_receipts" /\ Unread(FirstRow) # {}
        /\ FirstRow \in Keys /\ spend[FirstRow].state \in Live
        /\ UNCHANGED <<chain, signatures>>
    BY <1>2, FirstRowLive DEF RecReceipt, SignerInv, ProcessInv, RecInv
  <2>1. FirstAttempt(FirstRow) \in attempts_for(FirstRow)
    BY <2>0, FirstAttemptLeft DEF SignerInv
  <2>2. CASE /\ HasReceipt(FirstAttempt(FirstRow).tx, TRUE)
             /\ \E fee \in 1..FirstAttempt(FirstRow).tx.fee :
                    MarkMined(FirstRow, FirstAttempt(FirstRow).tx, fee)
             /\ AfterWrite("rec_used")
    <3>1. MinesReceipt(FirstRow)
      BY <2>0, <2>1, <2>2 DEF MinesReceipt
    <3>2. OthersKept(FirstRow) /\ RowKept(FirstRow) /\ attempts' = attempts
      BY <2>0, <3>1, MinesReceiptRow
    <3> QED BY <2>0, <2>2, <3>2, AfterWriteOK DEF Looping
  <2>3. CASE /\ HasReceipt(FirstAttempt(FirstRow).tx, FALSE)
             /\ MarkDead(FirstRow)
             /\ AfterWrite("rec_used")
    <3>1. Releases(FirstRow)
      BY <2>0, <2>1, <2>3 DEF Releases, Cause
    <3>2. OthersKept(FirstRow) /\ RowKept(FirstRow) /\ attempts' = attempts
      BY <2>0, <3>1, ReleasesRow
    <3> QED BY <2>0, <2>3, <3>2, AfterWriteOK DEF Looping
  <2>4. CASE /\ rec' = [rec EXCEPT !.absent = @ \cup {FirstAttempt(FirstRow)}]
             /\ UNCHANGED <<books, pc, ready, op>>
    BY <2>0, <2>4, AbsentOK
  <2> QED BY <1>2, <2>2, <2>3, <2>4 DEF RecReceipt
<1>3. CASE RecClassify
  <2>0. /\ rec.todo # {} /\ pc = "rec_receipts"
        /\ FirstRow \in Keys /\ spend[FirstRow].state \in Live
    BY <1>3, FirstRowLive DEF RecClassify, SignerInv, ProcessInv, RecInv
  <2>1. CASE NeverSigned(FirstRow) \/ PastDeadline(FirstRow)
    <3>1. Releases(FirstRow)
      BY <1>3, <2>0, <2>1 DEF RecClassify, Releases, Cause
    <3>2. OthersKept(FirstRow) /\ RowKept(FirstRow) /\ attempts' = attempts
      BY <2>0, <3>1, ReleasesRow
    <3> QED BY <1>3, <2>0, <2>1, <3>2, AfterWriteOK DEF RecClassify, Looping
  <2>2. CASE ~(NeverSigned(FirstRow) \/ PastDeadline(FirstRow))
    BY <1>3, <1>b, <2>0, <2>2, NextRowOK DEF RecClassify, Goto, Looping
  <2> QED BY <2>1, <2>2
<1>4. CASE RecDone
  <2>0. rec' = NoRec /\ ready' = ready /\ UNCHANGED <<spend, attempts, signatures>>
    BY <1>4 DEF RecDone, books
  <2>1. CASE rec.back = "boot"
    BY <1>4, <1>a, <2>0, <2>1, RestOK DEF RecDone, Goto
  <2>2. CASE rec.back # "boot"
    <3>1. /\ op.key \in Debits /\ op.amount \in Amounts /\ spend[op.key].amount = op.amount
          /\ op.key \in Keys /\ op.amount \in AmountsFor(op.key)
      BY <1>4, <2>2 DEF RecDone, SignerInv, ProcessInv, RecInv, Looping, Keys, AmountsFor
    <3>2. CASE spend[op.key].tx # NoTx /\ Decide("hash")
      <4>1. op' \in OpType /\ pc' = "answer" /\ op'.key = op.key /\ op'.amount = op.amount
        BY <1>a, <3>2 DEF Decide, OpType
      <4> QED BY <1>a, <2>0, <3>1, <3>2, <4>1, NamedIsOurs, AnswerOK
    <3>3. CASE Goto("preflight") /\ UNCHANGED op
      BY <1>a, <2>0, <3>1, <3>3, WorkOK DEF Goto, Holding, Sending
    <3>4. CASE Decide("refused")
      BY <1>a, <2>0, <3>4, RefusedOK
    <3> QED BY <1>4, <2>2, <3>2, <3>3, <3>4 DEF RecDone, AfterReplay
  <2> QED BY <2>1, <2>2
<1>5. CASE RecRpcDown
  <2>1. CASE rec.back = "boot"
    BY <1>5, <1>a, <2>1, RestOK DEF RecRpcDown, Goto
  <2>2. CASE rec.back # "boot"
    BY <1>5, <1>a, <2>2, RefusedOK DEF RecRpcDown
  <2> QED BY <2>1, <2>2
<1> QED BY <1>1, <1>2, <1>3, <1>4, <1>5 DEF Reconciles

\* A request or a sweep begins.
LEMMA AskedOK ==
    ASSUME SignerInv, Asked
    PROVE  ProcessOK'
<1>a. pc = "idle" /\ rec = NoRec /\ ready \in BOOLEAN
      /\ ready' = ready /\ UNCHANGED <<books, spend, attempts, signatures>>
  BY OutsideLoop
  DEF Asked, RequestDebit, RequestExpire, StartSweep, Accepting, Looping, books
<1>b. ASSUME NEW k \in Keys, NEW amount \in Nat, Begin(k, amount)
      PROVE  op' \in OpType /\ op'.key = k /\ op'.amount = amount
  BY <1>b DEF Begin, NoOp, OpType
<1>c. ASSUME NEW k \in Keys, NEW amount \in Nat, NEW answer \in {"refused", "hash"},
             Answer(k, amount, answer)
      PROVE  /\ op' \in OpType /\ pc' = "answer"
             /\ op'.key = k /\ op'.amount = amount /\ op'.answer = answer
  BY <1>c DEF Answer, NoOp, OpType
<1>d. ASSUME NEW k \in Keys, NEW amount \in AmountsFor(k), Begin(k, amount), Goto("preflight"),
             UNCHANGED rec
      PROVE  ProcessOK'
  <2>1. amount \in Nat
    BY AmountsForType
  <2> QED BY <1>a, <1>b, <1>d, <2>1, WorkOK DEF Goto, Holding, Sending
<1>e. ASSUME NEW k \in Keys, NEW amount \in Nat, Answer(k, amount, "refused"), UNCHANGED rec
      PROVE  ProcessOK'
  BY <1>a, <1>c, <1>e, AnswerOK
<1>f. ASSUME NEW k \in Keys, NEW amount \in Nat, Answer(k, amount, "hash"), UNCHANGED rec,
             spend[k].tx # NoTx, spend[k].amount = amount
      PROVE  ProcessOK'
  BY <1>a, <1>c, <1>f, NamedIsOurs, AnswerOK
<1>1. ASSUME NEW k \in Debits, NEW amount \in Amounts, RequestDebit(k, amount)
      PROVE  ProcessOK'
  <2>1. k \in Keys /\ amount \in Nat /\ amount \in AmountsFor(k)
    BY AmountsPositive DEF Keys, AmountsFor
  <2>2. CASE Begin(k, amount) /\ Goto("preflight") /\ UNCHANGED rec
    BY <1>d, <2>1, <2>2
  <2>3. CASE spend[k].amount = amount /\ Begin(k, amount) /\ StartReconcile("replay")
    <3>1. op' \in OpType /\ op'.key = k /\ op'.amount = amount
      BY <1>b, <2>1, <2>3
    <3> QED BY <1>a, <2>3, <3>1, StartReconcileOK
  <2>4. CASE Replay(k, amount)
    <3>1. CASE Answer(k, amount, "refused") /\ UNCHANGED rec
      BY <1>e, <2>1, <3>1
    <3>2. CASE /\ spend[k].amount = amount /\ spend[k].tx # NoTx
               /\ Answer(k, amount, "hash") /\ UNCHANGED rec
      BY <1>f, <2>1, <3>2
    <3> QED BY <2>2, <2>3, <2>4, <3>1, <3>2 DEF Replay
  <2> QED BY <1>1, <2>2, <2>4 DEF RequestDebit
<1>2. ASSUME NEW k \in Expires, RequestExpire(k)
      PROVE  ProcessOK'
  <2>1. k \in Keys /\ k \in GasOnly /\ 0 \in Nat /\ 0 \in AmountsFor(k)
    BY KindsDisjoint DEF Keys, GasOnly, AmountsFor
  <2>2. spend[k].amount = 0
    BY <2>1 DEF SignerInv, BooksInv, GasOnlyInv, GasOnlyRowsCarryNothing
  <2>3. CASE spend[k].state \in {"signed", "broadcast", "mined"} /\ Answer(k, 0, "hash")
    <3>1. spend[k].tx # NoTx
      BY <2>1, <2>3 DEF SignerInv, BooksInv, RowsNameOurs
    <3> QED BY <1>2, <1>f, <2>1, <2>2, <2>3, <3>1 DEF RequestExpire
  <2>4. CASE Begin(k, 0) /\ Goto("preflight")
    BY <1>2, <1>d, <2>1, <2>4 DEF RequestExpire
  <2> QED BY <1>2, <2>3, <2>4 DEF RequestExpire
<1>3. ASSUME NEW k \in Sweeps, StartSweep(k)
      PROVE  ProcessOK'
  <2>1. k \in Keys /\ 0 \in Nat
    BY DEF Keys
  <2>2. /\ pc' = "settle" /\ op' \in OpType /\ op'.key = k /\ op'.amount = 0
        /\ rec' = [NoRec EXCEPT !.todo = unresolved \cap Sweeps, !.back = "sweep"]
    BY <1>3, <1>b, <2>1 DEF StartSweep, Goto
  <2>3. /\ rec'.todo = unresolved \cap Sweeps /\ rec'.back = "sweep"
        /\ rec' \in [todo : SUBSET Keys, absent : SUBSET attempts', now : Nat,
                     back : {"none", "boot", "replay", "sweep"}]
    BY <2>2 DEF NoRec, unresolved
  <2>4. ProcessType'
    BY <1>a, <2>2, <2>3 DEF ProcessType, Pcs
  <2>5. RecInv'
    BY <1>a, <2>2, <2>3 DEF RecInv, Looping, unresolved
  <2>6. OpInv' /\ RowInv' /\ AnswerIsOurs'
    BY <2>2 DEF OpInv, RowInv, AnswerIsOurs, Holding, Sending
  <2> QED BY <2>4, <2>5, <2>6 DEF ProcessOK, ProcessInv
<1> QED BY <1>1, <1>2, <1>3 DEF Asked

\* An exception in the middle of a request.
LEMMA RaiseOK ==
    ASSUME SignerInv, Raise, rec' = NoRec, ready' \in BOOLEAN
    PROVE  ProcessOK'
BY DoneOK, RefusedOK DEF Raise

\* The thread that holds the signing lock.
LEMMA WorksOK ==
    ASSUME SignerInv, Works
    PROVE  ProcessOK'
<1>a. ready \in BOOLEAN /\ op \in OpType /\ op.key \in Keys \cup {"none"}
  BY DEF SignerInv, TypeOK, OpType
<1>b. pc \in {"preflight", "reserve"} \cup Holding \cup Sending =>
          rec = NoRec /\ op.key \in Keys /\ op.amount \in AmountsFor(op.key)
  BY DEF SignerInv, ProcessInv, OpInv, RecInv, Looping, Holding, Sending
<1>c. pc = "answer" => rec = NoRec
  BY DEF SignerInv, ProcessInv, RecInv, Looping
<1>d. pc \in Holding => spend[op.key].state = "reserved" /\ spend[op.key].amount = op.amount
  BY DEF SignerInv, ProcessInv, RowInv
<1>e. pc \in Sending =>
          /\ spend[op.key].state = "signed" /\ spend[op.key].amount = op.amount
          /\ \E a \in attempts : a.tx = spend[op.key].tx
  BY DEF SignerInv, ProcessInv, RowInv
<1> USE DEF Holding, Sending
<1>1. CASE Preflight
  <2>1. CASE (\E fee \in Fees : op' = [op EXCEPT !.fee = fee]) /\ Goto("reserve")
    <3>1. PICK fee \in Fees : op' = [op EXCEPT !.fee = fee]
      BY <2>1
    <3>2. op' \in OpType /\ op'.key = op.key /\ op'.amount = op.amount /\ op'.fee = fee
      BY <1>a, <3>1, FeesPositive DEF OpType
    <3> QED BY <1>1, <1>a, <1>b, <2>1, <3>2, WorkOK DEF Preflight, Goto
  <2>2. CASE Decide("refused")
    BY <1>1, <1>a, <1>b, <2>2, RefusedOK DEF Preflight
  <2>3. CASE Done
    BY <1>1, <1>a, <1>b, <2>3, DoneOK DEF Preflight
  <2> QED BY <1>1, <2>1, <2>2, <2>3 DEF Preflight
<1>2. CASE ReserveRow
  <2>1. Takes(op.key) /\ op.key \in Keys
    BY <1>2, <1>b DEF ReserveRow, Takes
  <2>2. spend'[op.key].state = "reserved" /\ spend'[op.key].amount = op.amount
    BY <2>1, TakesRow
  <2>3. pc' \in Holding /\ op' = op /\ rec' = NoRec /\ ready' = ready
    BY <1>2, <1>b DEF ReserveRow, Goto, AfterReserve
  <2> QED BY <1>2, <1>a, <1>b, <2>2, <2>3, WorkOK DEF ReserveRow
<1>3. CASE ReserveRefused
  BY <1>3, <1>a, <1>b, RefusedOK DEF ReserveRefused
<1>4. CASE ReserveAudit
  <2>1. CASE ClockSane
    <3>1. /\ pc' \in {"simulate", "sign"} /\ op' = op /\ rec' = NoRec /\ ready' = ready
          /\ spend' = spend
      BY <1>4, <1>b, <2>1 DEF ReserveAudit, Goto, AfterReserve, Audit
    <3> QED BY <1>4, <1>a, <1>b, <1>d, <3>1, WorkOK DEF ReserveAudit
  <2>2. CASE ~ClockSane
    BY <1>4, <1>a, <1>b, <2>2, RefusedOK DEF ReserveAudit
  <2> QED BY <2>1, <2>2
<1>5. CASE Simulate
  <2>1. CASE Goto("sign") /\ UNCHANGED <<books, op>>
    <3>1. pc' = "sign" /\ op' = op /\ rec' = NoRec /\ ready' = ready /\ spend' = spend
      BY <1>5, <1>b, <2>1 DEF Simulate, Goto, books
    <3> QED BY <1>5, <1>a, <1>b, <1>d, <3>1, WorkOK DEF Simulate
  <2>2. CASE Decide("refused")
    BY <1>5, <1>a, <1>b, <2>2, RefusedOK DEF Simulate
  <2> QED BY <1>5, <2>1, <2>2 DEF Simulate
<1>6. CASE Sign
  <2>1. CASE ClockSane
    <3>1. SignsRow(op.key) /\ op.key \in Keys
      BY <1>6, <1>b DEF Sign, SignsRow
    <3>2. /\ spend'[op.key].state = "signed" /\ spend'[op.key].amount = op.amount
          /\ spend'[op.key].tx = TxOf(op.key)
      BY <1>6, <1>d, <3>1, SignsRowRow DEF Sign, RowKept
    <3>3. [tx |-> TxOf(op.key), seq |-> maxSeq + 1] \in attempts'
      BY <1>6, <2>1 DEF Sign, MarkSigned
    <3>4. \E a \in attempts' : a.tx = spend'[op.key].tx
      BY <3>2, <3>3
    <3>5. pc' = "send" /\ op' = op /\ rec' = NoRec /\ ready' = ready
      BY <1>6, <1>b, <2>1 DEF Sign, Goto
    <3> QED BY <1>6, <1>a, <1>b, <3>2, <3>4, <3>5, WorkOK DEF Sign
  <2>2. CASE ~ClockSane
    BY <1>6, <1>a, <1>b, <2>2, RaiseOK DEF Sign
  <2> QED BY <2>1, <2>2
<1>7. CASE SigningFailed
  BY <1>7, <1>a, <1>b, RefusedOK DEF SigningFailed
<1>8. CASE Send
  <2>1. CASE (Goto("accepted") \/ Goto("rejected")) /\ UNCHANGED op
    <3>1. /\ pc' \in {"accepted", "rejected"} /\ op' = op /\ rec' = NoRec /\ ready' = ready
          /\ spend' = spend /\ attempts' = attempts
      BY <1>8, <1>b, <2>1 DEF Send, Goto, books
    <3> QED BY <1>8, <1>a, <1>b, <1>e, <3>1, WorkOK DEF Send
  <2>2. CASE Done
    BY <1>8, <1>a, <1>b, <2>2, DoneOK DEF Send
  <2>3. CASE Decide("refused")
    BY <1>8, <1>a, <1>b, <2>3, RefusedOK DEF Send
  <2> QED BY <1>8, <2>1, <2>2, <2>3 DEF Send
<1>9. CASE Accepted
  <2>1. CASE ClockSane
    <3>1. Broadcasts(op.key) /\ op.key \in Keys
      BY <1>9, <1>b DEF Accepted, Broadcasts
    <3>2. /\ spend'[op.key].tx = spend[op.key].tx /\ signatures' = signatures
      BY <3>1, BroadcastsRow
    <3>3. spend[op.key].tx # NoTx
      BY <1>9, <1>e, <3>1 DEF Accepted, SignerInv, BooksInv, RowsNameOurs
    <3>4. op' \in OpType /\ pc' = "answer" /\ op'.key = op.key /\ op'.amount = op.amount
      BY <1>9, <1>a, <2>1 DEF Accepted, Decide, OpType
    <3>5. rec' = NoRec /\ ready' = ready /\ spend[op.key].amount = op.amount
      BY <1>9, <1>b, <1>e DEF Accepted
    <3> QED BY <1>a, <3>1, <3>2, <3>3, <3>4, <3>5, NamedIsOurs, AnswerOK
  <2>2. CASE ~ClockSane
    BY <1>9, <1>a, <1>b, <2>2, RaiseOK DEF Accepted
  <2> QED BY <2>1, <2>2
<1>10. CASE Rejected
  BY <1>10, <1>a, <1>b, RefusedOK DEF Rejected
<1>11. CASE Respond
  BY <1>11, <1>a, <1>c, DoneOK DEF Respond
<1>12. CASE SettleReceipt
  <2>0. /\ rec.todo # {} /\ pc = "settle" /\ Unread(FirstRow) # {}
        /\ FirstRow \in Keys /\ spend[FirstRow].state \in Live
        /\ UNCHANGED <<chain, signatures>>
    BY <1>12, FirstRowLive DEF SettleReceipt
  <2>1. FirstAttempt(FirstRow) \in attempts_for(FirstRow)
    BY <2>0, FirstAttemptLeft DEF SignerInv
  <2>2. CASE /\ HasReceipt(FirstAttempt(FirstRow).tx, TRUE)
             /\ \E fee \in 1..FirstAttempt(FirstRow).tx.fee :
                    MarkMined(FirstRow, FirstAttempt(FirstRow).tx, fee)
             /\ AfterWrite("settle")
    <3>1. MinesReceipt(FirstRow)
      BY <2>0, <2>1, <2>2 DEF MinesReceipt
    <3>2. OthersKept(FirstRow) /\ RowKept(FirstRow) /\ attempts' = attempts
      BY <2>0, <3>1, MinesReceiptRow
    <3> QED BY <2>0, <2>2, <3>2, AfterWriteOK
  <2>3. CASE /\ HasReceipt(FirstAttempt(FirstRow).tx, FALSE)
             /\ MarkDead(FirstRow)
             /\ AfterWrite("settle")
    <3>1. Releases(FirstRow)
      BY <2>0, <2>1, <2>3 DEF Releases, Cause
    <3>2. OthersKept(FirstRow) /\ RowKept(FirstRow) /\ attempts' = attempts
      BY <2>0, <3>1, ReleasesRow
    <3> QED BY <2>0, <2>3, <3>2, AfterWriteOK
  <2>4. CASE /\ rec' = [rec EXCEPT !.absent = @ \cup {FirstAttempt(FirstRow)}]
             /\ UNCHANGED <<books, pc, ready, op>>
    BY <2>0, <2>4, AbsentOK
  <2> QED BY <1>12, <2>2, <2>3, <2>4 DEF SettleReceipt
<1>13. CASE SettleGiveUp
  <2>1. FirstRow \in Keys /\ FirstRow \in Sweeps /\ spend[FirstRow].state \in Live
    BY <1>13, FirstRowLive DEF SettleGiveUp
  <2>2. Releases(FirstRow)
    BY <1>13, <2>1 DEF SettleGiveUp, Releases, Cause
  <2>3. OthersKept(FirstRow) /\ RowKept(FirstRow) /\ attempts' = attempts
    BY <2>1, <2>2, ReleasesRow
  <2> QED BY <1>13, <2>3, AfterWriteOK DEF SettleGiveUp
<1>14. CASE SettleStops
  BY <1>14, <1>a, DoneOK DEF SettleStops
<1>15. CASE Settled
  <2>1. op.key \in Keys /\ op.amount \in AmountsFor(op.key)
    BY <1>15, KindsDisjoint DEF Settled, SignerInv, ProcessInv, OpInv, Keys, AmountsFor
  <2> QED BY <1>15, <1>a, <2>1, WorkOK DEF Settled, Goto
<1> QED BY <1>1, <1>2, <1>3, <1>4, <1>5, <1>6, <1>7, <1>8, <1>9, <1>10, <1>11, <1>12, <1>13,
           <1>14, <1>15 DEF Works

\* Every step keeps the process where its books expect it.
LEMMA ProcessStep ==
    ASSUME SignerInv, Next
    PROVE  ProcessOK'
<1>1. CASE Steps
  <2>1. CASE AuditOnly \/ OperatorClearsHalt
    BY <2>1, ElsewhereOK DEF AuditOnly, OperatorClearsHalt, process, Audit, ClearHalt
  <2>2. CASE BlockIncludes
    BY <2>2, ElsewhereOK DEF BlockIncludes, process, books
  <2> QED BY <1>1, <2>1, <2>2, BootsOK, ReconcilesOK, AskedOK, WorksOK DEF Steps
<1>2. CASE Crash
  BY <1>2, ExitOK DEF Crash
<1>3. CASE TimePasses \/ ClockStepsBack
  BY <1>3, ElsewhereOK DEF TimePasses, ClockStepsBack, process, history, books
<1> QED BY <1>1, <1>2, <1>3 DEF Next

\* Only a block and a sent transaction change what the nodes hold.
LEMMA ChainMoves ==
    ASSUME Effect \/ TimePasses \/ ClockStepsBack
    PROVE  Delivers \/ Includes \/ UNCHANGED chain
<1>1. ASSUME NEW k \in Keys, RowEffect(k) PROVE UNCHANGED chain
  BY <1>1 DEF RowEffect, Takes, SignsRow, Broadcasts, MinesUsed, MinesReceipt, Releases
<1> QED BY <1>1 DEF Effect, Leaves, Notes, SetsNext, TimePasses, ClockStepsBack

\* After a write of its loop the process goes on with it, or gives up.
LEMMA AfterWriteRests ==
    ASSUME SignerInv, NEW p \in {"rec_used", "settle"}, AfterWrite(p)
    PROVE  pc' \in {"rec_used", "settle", "down", "idle", "answer"}
BY DEF AfterWrite, Goto, Exit, Raise, Done, Decide

\* Steps of the surroundings that leave the process and its rows alone.
Elsewhere == AuditOnly \/ OperatorClearsHalt \/ BlockIncludes \/ TimePasses \/ ClockStepsBack

\* What happens outside the process changes neither its control state nor its rows.
LEMMA ElsewhereKeeps ==
    ASSUME Elsewhere
    PROVE  UNCHANGED <<pc, op, rec, spend, attempts>>
BY DEF Elsewhere, AuditOnly, OperatorClearsHalt, BlockIncludes, TimePasses, ClockStepsBack,
       process, books, Audit, ClearHalt

\* The steps by who takes them.
LEMMA NextCases ==
    ASSUME Next
    PROVE  Boots \/ Reconciles \/ Asked \/ Works \/ Elsewhere \/ Crash
BY DEF Next, Steps, Elsewhere

-----------------------------------------------------------------------------
(***************************************************************************)
(* The theorems.                                                           *)
(***************************************************************************)

\* A process that was never started, over new books.
LEMMA SignerInvInit == Init => SignerInv
<1> SUFFICES ASSUME Init PROVE SignerInv
  OBVIOUS
<1>1. LTypeOK /\ NonceOwnership /\ GasOnlyInv
  BY LTypeInit, OwnershipInit, GasOnlyInvInit DEF Init
<1>2. ChainTypeOK
  BY DEF Init, ChainInit, ChainTypeOK
<1>3. TypeOK
  BY <1>1, <1>2, NoRecIsIdle, NoOpType DEF Init, TypeOK, Pcs, OpType
<1>4. ProcessInv
  BY NoRecIsIdle DEF Init, ProcessInv, OpInv, RecInv, RowInv, Looping, Holding, Sending
<1>5. RowsNameOurs
  BY DEF Init, LInit, RowsNameOurs, NoRow
<1>6. AttemptsAreOurs /\ KnownTxRecorded
  BY DEF Init, LInit, ChainInit, AttemptsAreOurs, KnownTxRecorded, Known
<1>7. NoncesBounded /\ wall \in 0..MaxTime
  BY BoundsType DEF Init, LInit, ChainInit, NoncesBounded
<1>8. AnswerIsOurs
  BY DEF Init, AnswerIsOurs
<1> QED BY <1>1, <1>3, <1>4, <1>5, <1>6, <1>7, <1>8 DEF SignerInv, BooksInv

\* The invariant of the signing process is inductive.
LEMMA SignerInvNext == SignerInv /\ [Next]_vars => SignerInv'
<1>1. ASSUME SignerInv, Next PROVE SignerInv'
  <2>1. Effect \/ TimePasses \/ ClockStepsBack
    BY <1>1, StepEffect
  <2>2. [LNext]_lvars
    BY <1>1, StepRefines
  <2>3. LTypeOK' /\ ChainTypeOK' /\ signatures' \subseteq Tx
    BY <1>1, <2>1, <2>2, DataTypeStep
  <2>4. BooksInv'
    BY <1>1, <2>1, <2>2, BooksInvStep
  <2>5. ProcessOK'
    BY <1>1, ProcessStep
  <2>6. TypeOK'
    BY <2>3, <2>5 DEF TypeOK, ProcessOK, ProcessType, OpType
  <2> QED BY <2>4, <2>5, <2>6 DEF SignerInv, ProcessOK
<1>2. ASSUME SignerInv, UNCHANGED vars PROVE SignerInv'
  <2>1. UNCHANGED <<spend, attempts, nextNonce, maxTs, maxSeq, halted, wall, chainNonce, pool,
                    landed, blockTime, pc, ready, op, rec, signatures>>
    BY <1>2 DEF vars, lvars, books, chain, process, history
  <2>2. Leaves /\ Effect
    BY <2>1 DEF Leaves, Effect, books, chain
  <2>3. [LNext]_lvars
    BY <1>2 DEF vars
  <2>4. ProcessOK'
    BY <1>2, <2>1, ElsewhereOK
  <2>5. LTypeOK' /\ ChainTypeOK' /\ signatures' \subseteq Tx
    BY <1>2, <2>2, <2>3, DataTypeStep
  <2>6. BooksInv'
    BY <1>2, <2>2, <2>3, BooksInvStep
  <2> QED BY <2>4, <2>5, <2>6 DEF SignerInv, TypeOK, ProcessOK, ProcessType, OpType
<1> QED BY <1>1, <1>2

\* The invariant holds of every reachable state.
LEMMA SignerInvHolds == Spec => []SignerInv
BY SignerInvInit, SignerInvNext, PTL DEF Spec

\* The process, its books and the chain hold values of their types in every
\* reachable state.
THEOREM SignerTypeCorrect == Spec => []TypeOK
<1>1. SignerInv => TypeOK
  BY DEF SignerInv
<1> QED BY <1>1, SignerInvHolds, PTL

\* The signing process, with its boots, crashes, replays, sweeps and stepped
\* clocks, calls its ledger only in the order LedgerSpec allows (a row is
\* signed from reserved, resolved while live, the allocator set above the live
\* rows), so what is proved of LedgerSpec holds of the process.
THEOREM SignerRefinesLedger == Spec => LedgerSpec
<1>1. Init => LInit
  BY DEF Init
<1>2. SignerInv /\ [Next]_vars => [LNext]_lvars
  BY StepRefines
<1> QED BY <1>1, <1>2, SignerInvHolds, PTL DEF Spec, LedgerSpec

\* No two live rows of the process ever share an account nonce and the
\* allocator stays past all of them, through every crash, restart and replay.
THEOREM SignerOwnsNonces == Spec => []NonceOwnership
BY SignerRefinesLedger, NonceOwnershipHolds, PTL

\* The caps on tokens, on the number of calls and on reserved fees hold of the
\* process: handle, request_expire, sweep_proceeds and reconcile reach the
\* books only through calls the ledger's caps were proved for.
THEOREM SignerWithinCaps ==
    Spec => /\ [](UnitsWithinCaps /\ DebitsWithinCaps /\ GasOnlyWithinCap)
            /\ ReservesWithinFeeCap
BY SignerRefinesLedger, TokensBounded, DebitCountsBounded, GasOnlyBounded,
   FeesReservedBounded, PTL

\* Whatever a node holds or a block carried, the books recorded before it left
\* the process (mark_signed before send_raw in handle and sweep_proceeds).
THEOREM KnownIsRecorded == Spec => []KnownTxRecorded
<1>1. SignerInv => KnownTxRecorded
  BY DEF SignerInv, BooksInv
<1> QED BY <1>1, SignerInvHolds, PTL

\* A 200 carries the hash of a transaction the key signed for that receipt and
\* amount, on the fresh, the replayed, the reconciled and the expiry path.
THEOREM AnswersAreOurs == Spec => []AnswerIsOurs
<1>1. SignerInv => AnswerIsOurs
  BY DEF SignerInv
<1> QED BY <1>1, SignerInvHolds, PTL

\* Outside boot, a step back of the allocator hands out no nonce of which a
\* node holds or a block carried a transaction (mark_dead's give-back).
LEMMA GiveBackStep ==
    ASSUME SignerInv, [Next]_vars, pc # "boot_nonce", nextNonce' < nextNonce, NEW t \in Known
    PROVE  t.nonce # nextNonce'
<1>a. nextNonce \in Nat
  BY DEF SignerInv, TypeOK, LTypeOK
<1>b. nextNonce' # nextNonce
  BY <1>a
<1>c. Next
  BY <1>b DEF vars, lvars, books
<1>1. PICK k \in Keys : RowEffect(k)
  BY <1>b, <1>c, StepEffect
  DEF Effect, Leaves, Notes, SetsNext, Delivers, Includes, TimePasses, ClockStepsBack, books,
      Audit, ClearHalt
<1>2. Releases(k) \/ Takes(k)
  BY <1>1, <1>b, SignsRowRow, BroadcastsRow, MinesUsedRow, MinesReceiptRow DEF RowEffect
<1>3. ~Takes(k)
  BY <1>a, TakesRow
<1>4. nextNonce' = spend[k].nonce /\ Unsigned(k)
  BY <1>2, <1>3, <1>b, ReleasesRow
<1>5. PICK a \in attempts : a.tx = t
  BY DEF SignerInv, BooksInv, KnownTxRecorded
<1> QED BY <1>4, <1>5 DEF Unsigned

\* GivesBackOnlyUnknown holds of every step of the process.
THEOREM GiveBackIsUnknown == Spec => GivesBackOnlyUnknown
<1>1. SignerInv /\ [Next]_vars =>
        [(pc # "boot_nonce" /\ nextNonce' < nextNonce) =>
            \A t \in Known : t.nonce # nextNonce']_vars
  BY GiveBackStep
<1> QED BY <1>1, SignerInvHolds, PTL DEF Spec, GivesBackOnlyUnknown

-----------------------------------------------------------------------------
(***************************************************************************)
(* Hypotheses on the surroundings.                                         *)
(***************************************************************************)

\* A rejection is final, a call fails only if the contract refuses it, and the
\* host's clock does not run ahead of the blocks.
TrustedNodes == RejectsAreFinal /\ ~MayRevert /\ ClockAhead = 0

-----------------------------------------------------------------------------
(***************************************************************************)
(* The inductive invariants of the outcomes.                               *)
(***************************************************************************)

\* No node has ever seen a transaction of this row.
Unsent(k) == \A t \in Known : t.key # k

\* Where a request for a debit has passed the checks and nothing was sent yet.
BeforeSending == {"reserve", "reserve_audit", "simulate", "sign", "send", "rejected"}

\* Neither clock the loop of _reconcile goes by is ahead of the blocks.
ClocksBehindBlocks == wall <= blockTime /\ rec.now <= blockTime

\* A debit a node knows of is the one its row names, or is past collecting.
KnownIsNamed ==
    \A t \in Known :
        t.key \in Debits =>
            \/ ~Accepts(t.key)
            \/ spend[t.key].state \in {"signed", "broadcast", "mined"} /\ spend[t.key].tx = t

\* A debit that was in a block, collected or not, cannot be collected.
LandedIsFinal == \A l \in landed : l.tx.key \in Debits => ~Accepts(l.tx.key)

\* Inclusion goes by the account nonce, so no transaction is included twice.
LandedOnce ==
    /\ \A t \in pool : t.nonce >= chainNonce
    /\ \A l \in landed : l.tx.nonce < chainNonce
    /\ \A l, m \in landed : l.tx = m.tx => l = m

\* A debit that reaches its checks has no live row with a transaction.
PreflightRow ==
    pc = "preflight" /\ op.key \in Debits =>
        spend[op.key].state \in {"none", "dead"} \/ spend[op.key].tx = NoTx

\* Between the checks and the sending no node knows of the debit.
RequestUnsent == pc \in BeforeSending /\ op.key \in Debits => Unsent(op.key)

CollectionInv ==
    /\ ClocksBehindBlocks
    /\ KnownIsNamed
    /\ LandedIsFinal
    /\ LandedOnce
    /\ PreflightRow
    /\ RequestUnsent
    /\ OneTxPerReceipt

\* A collected debit is never back at reserved or dead, and a loop that took
\* its row for uncollected past the deadline was right.
CollectedInv ==
    /\ \A k \in Debits : Succeeded(k) => spend[k].state \in {"signed", "broadcast", "mined"}
    /\ (pc = "rec_receipts" /\ FirstRow \in Debits /\ PastDeadline(FirstRow))
           => ~Succeeded(FirstRow)

-----------------------------------------------------------------------------
(***************************************************************************)
(* What the chain does.                                                    *)
(***************************************************************************)

\* A debit is collectable until it is collected or its deadline is past.
LEMMA DebitAccepted ==
    ASSUME NEW k \in Debits
    PROVE  Accepts(k) <=> ~Succeeded(k) /\ blockTime <= Deadline[k]
BY KindsDisjoint DEF Accepts

\* A block carries the account's next transaction, with the contract's verdict.
LEMMA IncludedTx ==
    ASSUME TrustedNodes, Includes
    PROVE  \E t \in pool :
               /\ t.nonce = chainNonce
               /\ landed' = landed \cup {[tx |-> t, ok |-> Accepts(t.key)]}
               /\ chainNonce' = chainNonce + 1
               /\ pool' = {u \in pool : u.nonce # chainNonce}
<1>1. PICK t \in pool :
          /\ t.nonce = chainNonce
          /\ \E ok \in {Accepts(t.key)} \cup (IF MayRevert THEN {FALSE} ELSE {}) :
                 landed' = landed \cup {[tx |-> t, ok |-> ok]}
          /\ chainNonce' = chainNonce + 1
          /\ pool' = {u \in pool : u.nonce # chainNonce}
  BY DEF Includes, Include
<1>2. {Accepts(t.key)} \cup (IF MayRevert THEN {FALSE} ELSE {}) = {Accepts(t.key)}
  BY Zenon DEF TrustedNodes
<1>3. landed' = landed \cup {[tx |-> t, ok |-> Accepts(t.key)]}
  BY <1>1, <1>2, Zenon
<1> QED BY <1>1, <1>3

\* What was in a block stays there, and no block is older than the last.
LEMMA ChainGrows ==
    ASSUME SignerInv, Effect \/ TimePasses \/ ClockStepsBack
    PROVE  landed \subseteq landed' /\ blockTime <= blockTime'
<1>1. landed \subseteq landed'
  BY ChainMoves DEF Delivers, Includes, Include, chain
<1>2. blockTime \in Nat
  BY DEF SignerInv, TypeOK, ChainTypeOK
<1>3. blockTime' = blockTime \/ blockTime' = blockTime + 1
  BY DEF Effect, TimePasses, ClockStepsBack
<1> QED BY <1>1, <1>2, <1>3

\* A debit that cannot be collected never can be again.
LEMMA RefusedStays ==
    ASSUME SignerInv, Effect \/ TimePasses \/ ClockStepsBack, NEW k \in Debits, ~Accepts(k)
    PROVE  ~Accepts(k)'
<1>1. landed \subseteq landed' /\ blockTime <= blockTime'
  BY ChainGrows
<1>2. CASE Succeeded(k)
  <2>1. Succeeded(k)'
    BY <1>1, <1>2 DEF Succeeded
  <2> QED BY <2>1, KindsDisjoint DEF Accepts
<1>3. CASE ~(blockTime <= Deadline[k])
  <2>1. Deadline[k] \in Nat /\ blockTime \in Nat
    BY DeadlineType DEF Keys, SignerInv, TypeOK, ChainTypeOK
  <2>2. blockTime' \in Nat
    BY <2>1 DEF Effect, TimePasses, ClockStepsBack
  <2>3. ~(blockTime' <= Deadline[k])
    BY <1>1, <1>3, <2>1, <2>2
  <2> QED BY <2>3, KindsDisjoint DEF Accepts
<1> QED BY <1>2, <1>3, DebitAccepted

\* A node gets to know a transaction only when it is sent.
LEMMA KnownGrows ==
    ASSUME Effect \/ TimePasses \/ ClockStepsBack, NEW t \in Known'
    PROVE  t \in Known \/ (Delivers /\ t = spend[op.key].tx)
<1>1. CASE Delivers
  BY <1>1 DEF Delivers, Deliver, Known
<1>2. CASE Includes
  <2>1. PICK u \in pool : \E ok :
            /\ landed' = landed \cup {[tx |-> u, ok |-> ok]}
            /\ pool' = {v \in pool : v.nonce # chainNonce}
    BY <1>2 DEF Includes, Include
  <2> QED BY <2>1 DEF Known
<1>3. CASE UNCHANGED chain
  BY <1>3 DEF chain, Known
<1> QED BY <1>1, <1>2, <1>3, ChainMoves

\* What a node knows is a transaction of one of our rows.
LEMMA KnownTx ==
    ASSUME SignerInv, NEW t \in Known
    PROVE  t \in Tx /\ t.key \in Keys /\ t # NoTx
BY NoTxIsNone DEF Known, SignerInv, TypeOK, ChainTypeOK, Tx

-----------------------------------------------------------------------------
(***************************************************************************)
(* The books and the chain, effect by effect.                              *)
(***************************************************************************)

\* A release is of a debit that cannot be collected, or that no node knows.
LEMMA ReleasedIsOver ==
    ASSUME SignerInv, CollectionInv, NEW k \in Debits, Releases(k),
           spend[k].state # "reserved"
    PROVE  ~Accepts(k) \/ Unsent(k)
<1>a. Deadline[k] \in Nat /\ blockTime \in Nat /\ rec.now \in Nat
  BY DeadlineType DEF Keys, SignerInv, TypeOK, ChainTypeOK
<1>1. Cause(k) /\ k \notin Sweeps
  BY KindsDisjoint DEF Releases
<1>2. CASE \E a \in attempts_for(k) : HasReceipt(a.tx, FALSE)
  BY <1>2 DEF CollectionInv, LandedIsFinal, HasReceipt, attempts_for
<1>3. CASE PastDeadline(k)
  <2>1. ~(blockTime <= Deadline[k])
    BY <1>a, <1>3 DEF PastDeadline, CollectionInv, ClocksBehindBlocks
  <2> QED BY <2>1, DebitAccepted
<1>4. CASE pc \in {"simulate", "sign", "rejected"} /\ k = op.key
  BY <1>4 DEF CollectionInv, RequestUnsent, BeforeSending
<1> QED BY <1>1, <1>2, <1>3, <1>4 DEF Cause, NeverSigned

\* The row of a known debit goes on naming it while it can be collected.
LEMMA KnownIsNamedStep ==
    ASSUME TrustedNodes, SignerInv, CollectionInv, Effect \/ TimePasses \/ ClockStepsBack
    PROVE  KnownIsNamed'
<1> SUFFICES ASSUME NEW t \in Known', t.key \in Debits, Accepts(t.key)'
             PROVE  /\ spend'[t.key].state \in {"signed", "broadcast", "mined"}
                    /\ spend'[t.key].tx = t
  BY DEF KnownIsNamed
<1>a. t.key \in Keys
  BY DEF Keys
<1>b. Accepts(t.key)
  BY RefusedStays
<1>1. CASE Delivers /\ t = spend[op.key].tx
  <2>1. op.key \in Keys /\ spend[op.key].state = "signed"
    BY <1>1 DEF Delivers, SignerInv, ProcessInv, OpInv, RowInv, Sending
  <2>2. t.key = op.key
    BY <1>1, <2>1 DEF SignerInv, BooksInv, RowsNameOurs
  <2>3. spend' = spend
    BY <1>1 DEF Delivers, books
  <2> QED BY <1>1, <2>1, <2>2, <2>3
<1>2. CASE t \in Known
  <2>1. spend[t.key].state \in {"signed", "broadcast", "mined"} /\ spend[t.key].tx = t
    BY <1>2, <1>b DEF CollectionInv, KnownIsNamed
  <2>2. CASE spend' = spend
    BY <2>1, <2>2
  <2>3. CASE \E k \in Keys : RowEffect(k)
    <3>1. PICK k \in Keys : RowEffect(k)
      BY <2>3
    <3>2. CASE k # t.key
      <4>1. OthersKept(k)
        BY <3>1, TakesRow, SignsRowRow, BroadcastsRow, MinesUsedRow, MinesReceiptRow, ReleasesRow
           DEF RowEffect
      <4> QED BY <1>a, <2>1, <3>2, <4>1 DEF OthersKept
    <3>3. CASE k = t.key
      <4>1. ~Takes(k) /\ ~SignsRow(k)
        BY <2>1, <3>3, TakesRow, SignsRowRow
      <4>2. CASE Broadcasts(k)
        BY <2>1, <3>3, <4>2, BroadcastsRow
      <4>3. CASE MinesUsed(k)
        BY <2>1, <3>3, <4>3, MinesUsedRow
      <4>4. ~MinesReceipt(k)
        <5> SUFFICES ASSUME MinesReceipt(k) PROVE FALSE
          OBVIOUS
        <5>1. PICK a \in attempts_for(k) : HasReceipt(a.tx, TRUE)
          BY MinesReceiptRow
        <5>2. Succeeded(k)
          BY <5>1 DEF Succeeded, HasReceipt, attempts_for
        <5> QED BY <1>b, <3>3, <5>2, DebitAccepted
      <4>5. ~Releases(k)
        BY <1>2, <1>b, <2>1, <3>3, ReleasedIsOver DEF Unsent
      <4> QED BY <3>1, <4>1, <4>2, <4>3, <4>4, <4>5 DEF RowEffect
    <3> QED BY <3>2, <3>3
  <2>4. spend' = spend \/ \E k \in Keys : RowEffect(k)
    BY DEF Effect, Leaves, Notes, SetsNext, SetNextNonce, Delivers, Includes, TimePasses,
           ClockStepsBack, books, Audit, ClearHalt
  <2> QED BY <2>2, <2>3, <2>4
<1> QED BY <1>1, <1>2, KnownGrows

\* A debit that was in a block stays past collecting.
LEMMA LandedIsFinalStep ==
    ASSUME TrustedNodes, SignerInv, CollectionInv, Effect \/ TimePasses \/ ClockStepsBack
    PROVE  LandedIsFinal'
<1> SUFFICES ASSUME NEW l \in landed', l.tx.key \in Debits PROVE ~Accepts(l.tx.key)'
  BY DEF LandedIsFinal
<1>1. CASE l \in landed
  BY <1>1, RefusedStays DEF CollectionInv, LandedIsFinal
<1>2. CASE l \notin landed
  <2>1. Includes
    BY <1>2, ChainMoves DEF Delivers, chain
  <2>2. PICK t \in pool : landed' = landed \cup {[tx |-> t, ok |-> Accepts(t.key)]}
    BY <2>1, IncludedTx
  <2>3. l = [tx |-> t, ok |-> Accepts(t.key)]
    BY <1>2, <2>2
  <2>4. l.tx = t /\ (l.ok <=> Accepts(t.key))
    BY <2>3, Zenon
  <2>5. CASE Accepts(t.key)
    <3>1. Succeeded(l.tx.key)'
      BY <2>4, <2>5 DEF Succeeded
    <3> QED BY <3>1, KindsDisjoint DEF Accepts
  <2>6. CASE ~Accepts(t.key)
    BY <2>4, <2>6, RefusedStays
  <2> QED BY <2>5, <2>6
<1> QED BY <1>1, <1>2

\* No transaction is included twice.
LEMMA LandedOnceStep ==
    ASSUME TrustedNodes, SignerInv, CollectionInv, Effect \/ TimePasses \/ ClockStepsBack
    PROVE  LandedOnce'
<1>a. LandedOnce
  BY DEF CollectionInv
<1>b. /\ chainNonce \in Nat
      /\ \A t \in pool : t.nonce \in Nat
      /\ \A l \in landed : l.tx.nonce \in Nat
  BY DEF SignerInv, TypeOK, ChainTypeOK, Tx
<1>1. CASE Delivers
  BY <1>1, <1>a DEF Delivers, Deliver, LandedOnce
<1>2. CASE Includes
  <2>1. PICK t \in pool :
               /\ t.nonce = chainNonce
               /\ landed' = landed \cup {[tx |-> t, ok |-> Accepts(t.key)]}
               /\ chainNonce' = chainNonce + 1
               /\ pool' = {u \in pool : u.nonce # chainNonce}
    BY <1>2, IncludedTx
  <2> DEFINE new == [tx |-> t, ok |-> Accepts(t.key)]
  <2>2. new.tx = t
    OBVIOUS
  <2>3. landed' = landed \cup {new}
    BY <2>1
  <2> HIDE DEF new
  <2>4. \A u \in pool' : u.nonce >= chainNonce'
    BY <1>a, <1>b, <2>1 DEF LandedOnce
  <2>5. \A l \in landed' : l.tx.nonce < chainNonce'
    BY <1>a, <1>b, <2>1, <2>2, <2>3 DEF LandedOnce
  <2>6. \A l \in landed : l.tx # new.tx
    BY <1>a, <1>b, <2>1, <2>2 DEF LandedOnce
  <2>7. \A l, m \in landed' : l.tx = m.tx => l = m
    BY <1>a, <2>3, <2>6 DEF LandedOnce
  <2> QED BY <2>4, <2>5, <2>7 DEF LandedOnce
<1>3. CASE UNCHANGED chain
  BY <1>3, <1>a DEF chain, LandedOnce
<1> QED BY <1>1, <1>2, <1>3, ChainMoves

\* Nothing is sent for a debit a node already knows of.
LEMMA OneTxPerReceiptStep ==
    ASSUME SignerInv, CollectionInv, Effect \/ TimePasses \/ ClockStepsBack
    PROVE  OneTxPerReceipt'
<1> SUFFICES ASSUME NEW t \in Known', NEW u \in Known', t.key = u.key, t.key \in Debits
             PROVE  t = u
  BY DEF OneTxPerReceipt
<1>1. CASE Delivers /\ (t = spend[op.key].tx \/ u = spend[op.key].tx)
  <2>1. op.key \in Keys /\ spend[op.key].state = "signed" /\ pc = "send"
    BY <1>1 DEF Delivers, SignerInv, ProcessInv, OpInv, RowInv, Sending
  <2>2. spend[op.key].tx.key = op.key
    BY <2>1 DEF SignerInv, BooksInv, RowsNameOurs
  <2>3. t.key = op.key /\ u.key = op.key
    BY <1>1, <2>2
  <2>4. Unsent(op.key)
    BY <2>1, <2>3 DEF CollectionInv, RequestUnsent, BeforeSending
  <2>5. t \notin Known /\ u \notin Known
    BY <2>3, <2>4 DEF Unsent
  <2> QED BY <2>5, KnownGrows
<1>2. CASE t \in Known /\ u \in Known
  BY <1>2 DEF CollectionInv, OneTxPerReceipt
<1> QED BY <1>1, <1>2, KnownGrows

-----------------------------------------------------------------------------
(***************************************************************************)
(* The process, action by action.                                          *)
(***************************************************************************)

\* A debit comes to its checks with no row, a released one, or one without a hash.
LEMMA IntoPreflight ==
    ASSUME SignerInv, Next, pc' = "preflight", op'.key \in Debits
    PROVE  /\ UNCHANGED spend
           /\ \/ pc = "preflight" /\ op' = op
              \/ spend[op'.key].state \in {"none", "dead"}
              \/ spend[op'.key].tx = NoTx
<1>a. op'.key \notin Expires /\ op'.key \notin Sweeps
  BY KindsDisjoint
<1>1. CASE Boots
  BY <1>1 DEF Boots, Boot, BootIdentity, BootNonce, BootRpcDown, BootAudit, StartReconcile,
              Goto, Exit
<1>2. CASE Reconciles
  <2>1. RecDone
    BY <1>2, AfterWriteRests
       DEF Reconciles, RecUsed, RecReceipt, RecClassify, RecRpcDown, Goto, Decide
  <2>2. rec.back # "boot"
    BY <2>1 DEF RecDone, Goto
  <2>3. AfterReplay(spend[op.key]) /\ spend' = spend
    BY <2>1, <2>2 DEF RecDone, books
  <2>4. spend[op.key].state = "dead" /\ op' = op
    BY <2>3 DEF AfterReplay, Decide
  <2> QED BY <2>3, <2>4
<1>3. CASE Asked
  <2>1. PICK k \in Debits, amount \in Amounts : RequestDebit(k, amount)
    <3>1. ASSUME NEW k \in Expires PROVE ~RequestExpire(k)
      BY <1>a DEF RequestExpire, Begin, NoOp, Answer
    <3>2. ASSUME NEW k \in Sweeps PROVE ~StartSweep(k)
      BY DEF StartSweep, Goto
    <3> QED BY <1>3, <3>1, <3>2 DEF Asked
  <2>2. spend' = spend
    BY <2>1 DEF RequestDebit, books
  <2>3. CASE ~Exists(k)
    <3>1. op'.key = k
      BY <2>1, <2>3 DEF RequestDebit, Begin, NoOp
    <3> QED BY <2>2, <2>3, <3>1 DEF Exists
  <2>4. CASE Exists(k)
    <3>1. Replay(k, amount)
      BY <2>1, <2>4 DEF RequestDebit
    <3>2. /\ Begin(k, amount)
          /\ ~(spend[k].state \in {"broadcast", "mined"} /\ spend[k].tx # NoTx)
          /\ spend[k].state \notin {"reserved", "signed"}
      BY <3>1 DEF Replay, Answer, StartReconcile, Goto
    <3>3. op'.key = k
      BY <3>2 DEF Begin, NoOp
    <3>4. spend[k].state \in States
      BY DEF SignerInv, TypeOK, LTypeOK, Row, Keys
    <3> QED BY <2>2, <3>2, <3>3, <3>4 DEF States, Counted
  <2> QED BY <2>3, <2>4
<1>4. CASE Works
  <2>1. Settled
    BY <1>4, AfterWriteRests
       DEF Works, Preflight, ReserveRow, ReserveRefused, ReserveAudit, Simulate, Sign,
           SigningFailed, Send, Accepted, Rejected, Respond, SettleReceipt, SettleGiveUp,
           SettleStops, Goto, Decide, Done, Raise, AfterReserve
  <2>2. op' = op /\ op.key \in Sweeps
    BY <2>1 DEF Settled, SignerInv, ProcessInv, OpInv
  <2> QED BY <2>2, <1>a
<1>5. CASE Elsewhere
  BY <1>5, ElsewhereKeeps
<1>6. CASE Crash
  BY <1>6 DEF Crash, Exit
<1> QED BY <1>1, <1>2, <1>3, <1>4, <1>5, <1>6, NextCases

\* A debit is on its way to be sent since it passed its checks.
LEMMA IntoSending ==
    ASSUME TrustedNodes, SignerInv, Next, pc' \in BeforeSending
    PROVE  /\ op'.key = op.key
           /\ \/ pc = "preflight" /\ Accepts(op.key) /\ UNCHANGED chain
              \/ pc \in BeforeSending /\ ~Delivers
              \/ pc \in BeforeSending /\ UNCHANGED chain
<1>a. op \in OpType
  BY DEF SignerInv, TypeOK, OpType
<1>1. ~Boots
  BY DEF Boots, Boot, BootIdentity, BootNonce, BootRpcDown, BootAudit, StartReconcile,
         Goto, Exit, BeforeSending
<1>2. ~Reconciles
  BY AfterWriteRests
     DEF Reconciles, RecUsed, RecReceipt, RecClassify, RecDone, AfterReplay, RecRpcDown,
         Goto, Decide, BeforeSending
<1>3. ~Asked
  BY DEF Asked, RequestDebit, Replay, RequestExpire, StartSweep, Answer, StartReconcile,
         Goto, BeforeSending
<1>4. CASE Works
  <2>1. CASE Preflight
    <3>1. Accepts(op.key) /\ \E fee \in Fees : op' = [op EXCEPT !.fee = fee]
      BY <2>1 DEF Preflight, Decide, Done, BeforeSending
    <3>2. op'.key = op.key
      BY <1>a, <3>1 DEF OpType
    <3> QED BY <2>1, <3>1, <3>2 DEF Preflight
  <2>2. CASE Send
    <3>1. /\ Undelivered
          /\ op' = op
      BY <2>2 DEF Send, TrustedNodes, Goto, Done, Decide, BeforeSending
    <3> QED BY <2>2, <3>1 DEF Send, Undelivered, chain, BeforeSending
  <2>3. CASE ReserveRow \/ ReserveRefused \/ ReserveAudit \/ Simulate \/ Sign \/ SigningFailed
             \/ Rejected
    <3>1. pc \in BeforeSending /\ UNCHANGED chain
      BY <2>3 DEF ReserveRow, ReserveRefused, ReserveAudit, Simulate, Sign, SigningFailed,
                  Rejected, BeforeSending
    <3>2. op' = op
      BY <2>3 DEF ReserveRow, ReserveRefused, ReserveAudit, Simulate, Sign, SigningFailed,
                  Rejected, Raise, Done, Decide, BeforeSending
    <3> QED BY <3>1, <3>2
  <2>4. ~(Accepted \/ Respond \/ SettleReceipt \/ SettleGiveUp \/ SettleStops \/ Settled)
    BY AfterWriteRests
       DEF Accepted, Respond, SettleReceipt, SettleGiveUp, SettleStops, Settled, Raise, Done,
           Decide, Goto, BeforeSending
  <2> QED BY <1>4, <2>1, <2>2, <2>3, <2>4 DEF Works
<1>5. CASE Elsewhere
  <2>1. UNCHANGED <<pc, op>>
    BY <1>5, ElsewhereKeeps
  <2>2. UNCHANGED chain \/ BlockIncludes
    BY <1>5 DEF Elsewhere, AuditOnly, OperatorClearsHalt, TimePasses, ClockStepsBack
  <2>3. BlockIncludes => ~Delivers
    <3> SUFFICES ASSUME BlockIncludes, Delivers PROVE FALSE
      OBVIOUS
    <3>1. chainNonce' = chainNonce /\ chainNonce' = chainNonce + 1 /\ chainNonce \in Nat
      BY DEF BlockIncludes, Include, Delivers, SignerInv, TypeOK, ChainTypeOK
    <3> QED BY <3>1
  <2> QED BY <2>1, <2>2, <2>3
<1>6. ~Crash
  BY DEF Crash, Exit, BeforeSending
<1> QED BY <1>1, <1>2, <1>3, <1>4, <1>5, <1>6, NextCases

\* The loop's clock is read when it starts.
LEMMA LoopClock ==
    ASSUME SignerInv, Next
    PROVE  rec'.now \in {rec.now, wall, 0}
<1>a. rec \in [todo : SUBSET Keys, absent : SUBSET attempts, now : Nat,
               back : {"none", "boot", "replay", "sweep"}]
  BY DEF SignerInv, TypeOK
<1>b. NoRec.now = 0
  BY DEF NoRec
<1>c. NextRow => rec'.now = rec.now
  BY <1>a DEF NextRow
<1>d. ASSUME NEW p, AfterWrite(p) PROVE rec'.now \in {rec.now, 0}
  BY <1>b, <1>c, <1>d DEF AfterWrite, Exit
<1>e. ASSUME NEW back, StartReconcile(back) PROVE rec'.now = wall
  BY <1>e DEF StartReconcile
<1>1. CASE Boots
  BY <1>1, <1>b, <1>e DEF Boots, Boot, BootIdentity, BootNonce, BootRpcDown, BootAudit, Exit
<1>2. CASE Reconciles
  <2>1. CASE RecUsed
    BY <2>1, <1>d DEF RecUsed
  <2>2. CASE RecReceipt
    <3>1. CASE rec' = [rec EXCEPT !.absent = @ \cup {FirstAttempt(FirstRow)}]
      BY <1>a, <3>1
    <3> QED BY <2>2, <3>1, <1>d DEF RecReceipt
  <2>3. CASE RecClassify \/ RecDone \/ RecRpcDown
    BY <2>3, <1>b, <1>c, <1>d DEF RecClassify, RecDone, RecRpcDown
  <2> QED BY <1>2, <2>1, <2>2, <2>3 DEF Reconciles
<1>3. CASE Asked
  <2>1. ASSUME NEW k \in Sweeps, StartSweep(k) PROVE rec'.now = 0
    BY <2>1 DEF StartSweep, NoRec
  <2>2. ASSUME NEW k, NEW amount, RequestDebit(k, amount) PROVE rec'.now \in {rec.now, wall}
    BY <2>2, <1>e DEF RequestDebit, Replay
  <2> QED BY <1>3, <2>1, <2>2 DEF Asked, RequestExpire
<1>4. CASE Works
  <2>1. CASE SettleReceipt
    <3>1. CASE rec' = [rec EXCEPT !.absent = @ \cup {FirstAttempt(FirstRow)}]
      BY <1>a, <3>1
    <3> QED BY <2>1, <3>1, <1>d DEF SettleReceipt
  <2>2. CASE SettleGiveUp \/ SettleStops \/ Settled
    BY <2>2, <1>b, <1>d DEF SettleGiveUp, SettleStops, Settled
  <2> QED BY <1>4, <2>1, <2>2
     DEF Works, Preflight, ReserveRow, ReserveRefused, ReserveAudit, Simulate, Sign,
         SigningFailed, Send, Accepted, Rejected, Respond
<1>5. CASE Elsewhere
  BY <1>5, ElsewhereKeeps
<1>6. CASE Crash
  BY <1>6, <1>b DEF Crash, Exit
<1> QED BY <1>1, <1>2, <1>3, <1>4, <1>5, <1>6, NextCases

\* A debit at its checks has no row that names a transaction.
LEMMA PreflightRowStep ==
    ASSUME SignerInv, CollectionInv, Next
    PROVE  PreflightRow'
<1> SUFFICES ASSUME pc' = "preflight", op'.key \in Debits
             PROVE  spend'[op'.key].state \in {"none", "dead"} \/ spend'[op'.key].tx = NoTx
  BY DEF PreflightRow
<1>1. CASE pc = "preflight" /\ op' = op
  BY <1>1, IntoPreflight DEF CollectionInv, PreflightRow
<1> QED BY <1>1, IntoPreflight

\* A debit that passed its checks stays unsent until it is sent.
LEMMA RequestUnsentStep ==
    ASSUME TrustedNodes, SignerInv, CollectionInv, Next
    PROVE  RequestUnsent'
<1> SUFFICES ASSUME pc' \in BeforeSending, op'.key \in Debits, NEW t \in Known', t.key = op'.key
             PROVE  FALSE
  BY DEF RequestUnsent, Unsent
<1>1. op'.key = op.key
  BY IntoSending
<1>2. t \in Known
  <2>1. CASE UNCHANGED chain
    BY <2>1 DEF Known, chain
  <2>2. CASE ~Delivers
    BY <2>2, KnownGrows, StepEffect
  <2> QED BY <2>1, <2>2, IntoSending
<1>3. CASE pc = "preflight" /\ Accepts(op.key)
  <2>1. spend[op.key].state \in {"signed", "broadcast", "mined"} /\ spend[op.key].tx = t
    BY <1>1, <1>2, <1>3 DEF CollectionInv, KnownIsNamed
  <2>2. spend[op.key].tx = NoTx
    BY <1>1, <1>3, <2>1 DEF CollectionInv, PreflightRow
  <2> QED BY <1>2, <2>1, <2>2, KnownTx
<1>4. CASE pc \in BeforeSending
  BY <1>1, <1>2, <1>4 DEF CollectionInv, RequestUnsent, Unsent
<1> QED BY <1>3, <1>4, IntoSending

\* Time moves both clocks; a step back moves only the host's.
LEMMA ClocksStep ==
    ASSUME SignerInv, CollectionInv, Next
    PROVE  ClocksBehindBlocks'
<1>1. /\ wall \in Nat /\ blockTime \in Nat /\ rec.now \in Nat
      /\ wall <= blockTime /\ rec.now <= blockTime
  BY DEF SignerInv, TypeOK, LTypeOK, ChainTypeOK, CollectionInv, ClocksBehindBlocks
<1>2. \/ wall' = wall /\ blockTime' = blockTime
      \/ wall' = wall + 1 /\ blockTime' = blockTime + 1
      \/ wall' \in 0..(wall - 1) /\ blockTime' = blockTime
  BY StepEffect DEF Effect, TimePasses, ClockStepsBack
<1>3. rec'.now \in {rec.now, wall, 0}
  BY LoopClock
<1> QED BY <1>1, <1>2, <1>3 DEF ClocksBehindBlocks

\* Nothing has been sent at the start.
LEMMA CollectionInvInit ==
    ASSUME TrustedNodes
    PROVE  Init => CollectionInv
<1> SUFFICES ASSUME Init PROVE CollectionInv
  OBVIOUS
<1>1. landed = {} /\ pool = {} /\ Known = {} /\ pc = "down"
  BY DEF Init, ChainInit, Known
<1>2. ClocksBehindBlocks
  BY DEF Init, NoRec, TrustedNodes, ClocksBehindBlocks
<1>3. PreflightRow /\ RequestUnsent
  BY <1>1 DEF PreflightRow, RequestUnsent, BeforeSending
<1> QED BY <1>1, <1>2, <1>3
     DEF CollectionInv, KnownIsNamed, LandedIsFinal, LandedOnce, OneTxPerReceipt

\* Every step preserves the invariant of the debits.
LEMMA CollectionInvNext ==
    ASSUME TrustedNodes
    PROVE  SignerInv /\ CollectionInv /\ [Next]_vars => CollectionInv'
<1>1. ASSUME SignerInv, CollectionInv, Next PROVE CollectionInv'
  <2>1. Effect \/ TimePasses \/ ClockStepsBack
    BY <1>1, StepEffect
  <2>2. KnownIsNamed' /\ LandedIsFinal' /\ LandedOnce' /\ OneTxPerReceipt'
    BY <1>1, <2>1, KnownIsNamedStep, LandedIsFinalStep, LandedOnceStep, OneTxPerReceiptStep
  <2>3. ClocksBehindBlocks' /\ PreflightRow' /\ RequestUnsent'
    BY <1>1, ClocksStep, PreflightRowStep, RequestUnsentStep
  <2> QED BY <2>2, <2>3 DEF CollectionInv
<1>2. ASSUME CollectionInv, UNCHANGED vars PROVE CollectionInv'
  <2>1. UNCHANGED <<spend, wall, chainNonce, pool, landed, blockTime, pc, op, rec>>
    BY <1>2 DEF vars, lvars, books, chain, process
  <2>2. Known' = Known /\ \A k : Accepts(k)' <=> Accepts(k)
    BY <2>1 DEF Known, Accepts, Succeeded
  <2>3. KnownIsNamed' /\ LandedIsFinal'
    BY <1>2, <2>1, <2>2 DEF CollectionInv, KnownIsNamed, LandedIsFinal
  <2>4. LandedOnce' /\ OneTxPerReceipt' /\ PreflightRow' /\ ClocksBehindBlocks'
    BY <1>2, <2>1, <2>2
       DEF CollectionInv, LandedOnce, OneTxPerReceipt, PreflightRow, ClocksBehindBlocks
  <2>5. RequestUnsent'
    BY <1>2, <2>1, <2>2 DEF CollectionInv, RequestUnsent, Unsent
  <2> QED BY <2>3, <2>4, <2>5 DEF CollectionInv
<1> QED BY <1>1, <1>2

\* The invariant of the debits holds in every reachable state.
LEMMA CollectionInvHolds ==
    ASSUME TrustedNodes
    PROVE  Spec => [](SignerInv /\ CollectionInv)
<1>1. Init => CollectionInv
  BY CollectionInvInit
<1>2. SignerInv /\ CollectionInv /\ [Next]_vars => CollectionInv'
  BY CollectionInvNext
<1> QED BY <1>1, <1>2, SignerInvHolds, PTL DEF Spec

-----------------------------------------------------------------------------
(***************************************************************************)
(* The theorems.                                                           *)
(***************************************************************************)

\* One receipt, one transaction with the nodes: whatever crash, replay, lost
\* answer, lagging node or clock step came in between, _replay and
\* _reconcile answer with the first transaction of a receipt or wait for it.
THEOREM OneTransactionPerReceipt ==
    ASSUME TrustedNodes
    PROVE  Spec => []OneTxPerReceipt
<1>1. SignerInv /\ CollectionInv => OneTxPerReceipt
  BY DEF CollectionInv
<1> QED BY <1>1, CollectionInvHolds, PTL

\* mark_dead is right: what a node still holds of a released debit, no block
\* can collect any more, so its budget is free and its receipt may be signed
\* again.
THEOREM ReleasedCannotLand ==
    ASSUME TrustedNodes
    PROVE  Spec => []DeadCannotLand
<1>1. SignerInv /\ CollectionInv => DeadCannotLand
  BY DEF CollectionInv, KnownIsNamed, DeadCannotLand, Known
<1> QED BY <1>1, CollectionInvHolds, PTL

-----------------------------------------------------------------------------
(***************************************************************************)
(* A collected debit holds its budget, if no node answers from the past.   *)
(***************************************************************************)

\* A debit with a failed receipt was not collected: a receipt has one
\* transaction, and a transaction one receipt.
LEMMA FailedIsUncollected ==
    ASSUME CollectionInv, NEW k \in Debits, NEW a \in attempts_for(k), HasReceipt(a.tx, FALSE)
    PROVE  ~Succeeded(k)
<1> SUFFICES ASSUME Succeeded(k) PROVE FALSE
  OBVIOUS
<1>1. PICK l \in landed : l.tx.key = k /\ l.ok
  BY DEF Succeeded
<1> DEFINE m == [tx |-> a.tx, ok |-> FALSE]
<1>2. m \in landed /\ m.tx = a.tx /\ ~m.ok
  BY DEF HasReceipt
<1> HIDE DEF m
<1>3. l.tx \in Known /\ m.tx \in Known
  BY <1>1, <1>2 DEF Known
<1>4. a.tx.key = k
  BY DEF attempts_for
<1>5. l.tx = m.tx
  BY <1>1, <1>2, <1>3, <1>4 DEF CollectionInv, OneTxPerReceipt
<1>6. l = m
  BY <1>1, <1>2, <1>5 DEF CollectionInv, LandedOnce
<1> QED BY <1>1, <1>2, <1>6

\* A block collects a debit only while its row names the transaction.
LEMMA CollectedWhileNamed ==
    ASSUME TrustedNodes, SignerInv, CollectionInv, Effect \/ TimePasses \/ ClockStepsBack,
           NEW k \in Debits, ~Succeeded(k), Succeeded(k)'
    PROVE  /\ Includes /\ Accepts(k)
           /\ spend[k].state \in {"signed", "broadcast", "mined"}
<1>1. PICK l \in landed' : l.tx.key = k /\ l.ok
  BY DEF Succeeded
<1>2. l \notin landed
  BY <1>1 DEF Succeeded
<1>3. Includes
  BY <1>1, <1>2, ChainMoves DEF Delivers, chain
<1>4. PICK t \in pool : landed' = landed \cup {[tx |-> t, ok |-> Accepts(t.key)]}
  BY <1>3, IncludedTx
<1>5. l = [tx |-> t, ok |-> Accepts(t.key)]
  BY <1>1, <1>2, <1>4
<1>6. t.key = k /\ Accepts(k)
  <2>1. l.tx = t /\ (l.ok <=> Accepts(t.key))
    BY <1>5, Zenon
  <2> QED BY <1>1, <2>1
<1>7. spend[k].state \in {"signed", "broadcast", "mined"}
  BY <1>6 DEF CollectionInv, KnownIsNamed, Known
<1> QED BY <1>3, <1>6, <1>7

\* No row of a collected debit is released or taken anew.
LEMMA CollectedStays ==
    ASSUME TrustedNodes, SignerInv, CollectionInv, CollectedInv,
           Effect \/ TimePasses \/ ClockStepsBack, NEW k \in Debits, Succeeded(k)'
    PROVE  spend'[k].state \in {"signed", "broadcast", "mined"}
<1>a. k \in Keys
  BY DEF Keys
<1>1. CASE ~Succeeded(k)
  <2>1. Includes /\ spend[k].state \in {"signed", "broadcast", "mined"}
    BY <1>1, CollectedWhileNamed
  <2> QED BY <2>1 DEF Includes, books
<1>2. CASE Succeeded(k)
  <2>1. spend[k].state \in {"signed", "broadcast", "mined"}
    BY <1>2 DEF CollectedInv
  <2>2. ASSUME NEW j \in Keys, RowEffect(j), j # k PROVE spend'[k] = spend[k]
    <3>1. OthersKept(j)
      BY <2>2, TakesRow, SignsRowRow, BroadcastsRow, MinesUsedRow, MinesReceiptRow, ReleasesRow
         DEF RowEffect
    <3> QED BY <1>a, <2>2, <3>1 DEF OthersKept
  <2>3. ~Takes(k) /\ ~SignsRow(k)
    BY <1>a, <2>1, TakesRow, SignsRowRow
  <2>4. ~Releases(k)
    <3> SUFFICES ASSUME Releases(k) PROVE FALSE
      OBVIOUS
    <3>1. ~\E a \in attempts_for(k) : HasReceipt(a.tx, FALSE)
      BY <1>2, FailedIsUncollected
    <3>2. ~(pc = "rec_receipts" /\ k = FirstRow /\ PastDeadline(k))
      BY <1>2 DEF CollectedInv
    <3>3. ~(pc \in {"simulate", "sign", "rejected"} /\ k = op.key)
      BY <1>2 DEF CollectionInv, RequestUnsent, BeforeSending, Unsent, Known, Succeeded
    <3>4. k \notin Sweeps /\ ~NeverSigned(k)
      BY <2>1, KindsDisjoint DEF NeverSigned
    <3> QED BY <3>1, <3>2, <3>3, <3>4 DEF Releases, Cause
  <2>5. CASE Broadcasts(k) \/ MinesUsed(k) \/ MinesReceipt(k)
    BY <1>a, <2>5, BroadcastsRow, MinesUsedRow, MinesReceiptRow
  <2>6. spend' = spend \/ \E j \in Keys : RowEffect(j)
    BY DEF Effect, Leaves, Notes, SetsNext, SetNextNonce, Delivers, Includes, TimePasses,
           ClockStepsBack, books, Audit, ClearHalt
  <2> QED BY <2>1, <2>2, <2>3, <2>4, <2>5, <2>6 DEF RowEffect
<1> QED BY <1>1, <1>2

\* The loop asks for receipts only after the chain said the receipt is unused.
LEMMA IntoReceipts ==
    ASSUME ~NodesLag, SignerInv, Next, pc' = "rec_receipts"
    PROVE  /\ UNCHANGED spend /\ rec'.todo = rec.todo /\ rec'.now = rec.now
           /\ \/ pc = "rec_receipts"
              \/ UNCHANGED chain /\ ~receipt_used(FirstRow)
<1>a. rec \in [todo : SUBSET Keys, absent : SUBSET attempts, now : Nat,
               back : {"none", "boot", "replay", "sweep"}]
  BY DEF SignerInv, TypeOK
<1>1. ~Boots
  BY DEF Boots, Boot, BootIdentity, BootNonce, BootRpcDown, BootAudit, StartReconcile, Goto, Exit
<1>2. CASE Reconciles
  <2>1. CASE RecUsed
    <3>1. PICK used \in Reads(receipt_used(FirstRow)) :
              IF used
              THEN MarkMined(FirstRow, NoTx, 0) /\ AfterWrite("rec_used")
              ELSE Goto("rec_receipts") /\ UNCHANGED <<books, ready, op, rec>>
      BY <2>1 DEF RecUsed
    <3>2. ~used
      BY <3>1, AfterWriteRests
    <3>3. used = receipt_used(FirstRow)
      BY Zenon DEF Reads
    <3> QED BY <2>1, <3>1, <3>2, <3>3 DEF RecUsed, books
  <2>2. CASE RecReceipt
    <3>1. rec' = [rec EXCEPT !.absent = @ \cup {FirstAttempt(FirstRow)}] /\ spend' = spend
      BY <2>2, AfterWriteRests DEF RecReceipt, books
    <3> QED BY <1>a, <2>2, <3>1 DEF RecReceipt
  <2>3. ~(RecClassify \/ RecDone \/ RecRpcDown)
    BY AfterWriteRests DEF RecClassify, RecDone, AfterReplay, RecRpcDown, Goto, Decide
  <2> QED BY <1>2, <2>1, <2>2, <2>3 DEF Reconciles
<1>3. ~Asked
  BY DEF Asked, RequestDebit, Replay, RequestExpire, StartSweep, Answer, StartReconcile, Goto
<1>4. ~Works
  BY AfterWriteRests
     DEF Works, Preflight, ReserveRow, ReserveRefused, ReserveAudit, Simulate, Sign,
         SigningFailed, Send, Accepted, Rejected, Respond, SettleReceipt, SettleGiveUp,
         SettleStops, Settled, Goto, Decide, Done, Raise, AfterReserve
<1>5. CASE Elsewhere
  BY <1>5, ElsewhereKeeps
<1>6. ~Crash
  BY DEF Crash, Exit
<1> QED BY <1>1, <1>2, <1>3, <1>4, <1>5, <1>6, NextCases

\* The loop's first row depends on the rows and on what is left of the loop.
LEMMA FirstRowKept ==
    ASSUME rec'.todo = rec.todo, spend' = spend
    PROVE  FirstRow' = FirstRow
BY DEF FirstRow

\* Every step keeps a collected debit counted.
LEMMA CollectedInvNext ==
    ASSUME TrustedNodes, ~NodesLag
    PROVE  SignerInv /\ CollectionInv /\ CollectedInv /\ [Next]_vars => CollectedInv'
<1>1. ASSUME SignerInv, CollectionInv, CollectedInv, Next PROVE CollectedInv'
  <2>1. Effect \/ TimePasses \/ ClockStepsBack
    BY <1>1, StepEffect
  <2>2. \A k \in Debits : Succeeded(k)' => spend'[k].state \in {"signed", "broadcast", "mined"}
    BY <1>1, <2>1, CollectedStays
  <2>3. ASSUME pc' = "rec_receipts", FirstRow' \in Debits, PastDeadline(FirstRow)',
               Succeeded(FirstRow)'
        PROVE  FALSE
    <3>1. /\ UNCHANGED spend /\ rec'.todo = rec.todo /\ rec'.now = rec.now
          /\ pc = "rec_receipts" \/ (UNCHANGED chain /\ ~receipt_used(FirstRow))
      BY <1>1, <2>3, IntoReceipts
    <3>2. FirstRow' = FirstRow
      BY <3>1, FirstRowKept
    <3>3. FirstRow \in Debits /\ PastDeadline(FirstRow)
      BY <2>3, <3>1, <3>2 DEF PastDeadline
    <3>4. \E l \in landed' : l.tx.key = FirstRow /\ l.ok
      BY <2>3, <3>2 DEF Succeeded
    <3>5. ~Succeeded(FirstRow)
      <4>1. CASE pc = "rec_receipts"
        BY <1>1, <3>3, <4>1 DEF CollectedInv
      <4>2. CASE ~receipt_used(FirstRow)
        BY <3>3, <4>2 DEF receipt_used
      <4> QED BY <3>1, <4>1, <4>2
    <3>6. ASSUME NEW k \in Debits, k = FirstRow PROVE Accepts(k)
      <4>1. Succeeded(k)' /\ ~Succeeded(k)
        BY <3>4, <3>5, <3>6 DEF Succeeded
      <4> QED BY <1>1, <2>1, <4>1, CollectedWhileNamed
    <3>7. Accepts(FirstRow)
      BY <3>3, <3>6
    <3>8. blockTime <= Deadline[FirstRow]
      BY <3>3, <3>7, DebitAccepted
    <3>9. rec.now > Deadline[FirstRow] /\ rec.now <= blockTime
      BY <1>1, <3>3 DEF PastDeadline, CollectionInv, ClocksBehindBlocks
    <3>10. Deadline[FirstRow] \in Nat /\ rec.now \in Nat /\ blockTime \in Nat
      BY <1>1, <3>3, DeadlineType DEF Keys, SignerInv, TypeOK, ChainTypeOK
    <3> QED BY <3>8, <3>9, <3>10
  <2> QED BY <2>2, <2>3 DEF CollectedInv
<1>2. ASSUME CollectedInv, UNCHANGED vars PROVE CollectedInv'
  <2>1. UNCHANGED <<spend, landed, pc, rec>>
    BY <1>2 DEF vars, lvars, books, chain, process
  <2>2. FirstRow' = FirstRow
    BY <2>1 DEF FirstRow
  <2> QED BY <1>2, <2>1, <2>2 DEF CollectedInv, Succeeded, PastDeadline
<1> QED BY <1>1, <1>2

\* A debit the chain collected holds its budget, for the amount that moved,
\* until the end: no crash, replay or release takes it out of the windows.
THEOREM CollectedIsCounted ==
    ASSUME TrustedNodes, ~NodesLag
    PROVE  Spec => []LandedIsCounted
<1>1. Init => CollectedInv
  BY DEF Init, ChainInit, CollectedInv, Succeeded
<1>2. SignerInv /\ CollectionInv /\ CollectedInv /\ [Next]_vars => CollectedInv'
  BY CollectedInvNext
<1>3. SignerInv /\ CollectedInv => LandedIsCounted
  <2> SUFFICES ASSUME SignerInv, CollectedInv, NEW l \in landed, l.ok, l.tx.key \in Debits
               PROVE  /\ spend[l.tx.key].state \in Counted
                      /\ spend[l.tx.key].amount = l.tx.amount
    BY DEF LandedIsCounted
  <2>1. spend[l.tx.key].state \in Counted
    BY DEF CollectedInv, Succeeded, Counted
  <2>2. PICK a \in attempts : a.tx = l.tx
    BY DEF SignerInv, BooksInv, KnownTxRecorded, Known
  <2> QED BY <2>1, <2>2 DEF SignerInv, BooksInv, AttemptsAreOurs
<1> QED BY <1>1, <1>2, <1>3, CollectionInvHolds, PTL DEF Spec

-----------------------------------------------------------------------------
(***************************************************************************)
(* The inductive invariant.                                                *)
(***************************************************************************)

\* Where a process works on a request or a sweep.
Serving == {"preflight", "reserve", "settle", "answer"} \cup Holding \cup Sending

\* A process is ready from the end of its boot until it dies.
ReadyInv ==
    /\ pc \in {"down", "boot_identity", "boot_nonce", "boot_audit"} \/ rec.back = "boot"
           => ~ready
    /\ pc \in Serving \/ rec.back \in {"replay", "sweep"} => ready

\* A nonce that is held, or that a transaction of the key carried.
Covered(n) ==
    \/ \E t \in signatures : t.nonce = n
    \/ \E k \in unresolved : spend[k].nonce = n

\* Rows take their nonces in turn, so every nonce below a live one is covered.
BelowLiveCovered ==
    \A k \in unresolved : \A n \in chainNonce..(spend[k].nonce - 1) : Covered(n)

\* So is every nonce below the allocator, once boot has set it.
BelowNextCovered ==
    ready \/ pc = "boot_audit" => \A n \in chainNonce..(nextNonce - 1) : Covered(n)

\* A row the key has not signed for holds the newest nonce.
UnsignedOnTop ==
    \A j \in Keys : Unsigned(j) =>
        \A k \in unresolved \ {j} : spend[k].nonce < spend[j].nonce

\* The row being worked on is the last one the allocator served.
HeldIsNewest == pc \in Holding => nextNonce = spend[op.key].nonce + 1

\* A serving process has no other row the key has not signed for.
UnsignedIsHeld ==
    ready \/ pc \in {"boot_nonce", "boot_audit"} =>
        \A k \in Keys : Unsigned(k) => pc \in Holding /\ k = op.key

\* The loop at boot releases every such row a crash has left.
UnsignedInLoop == rec.back = "boot" => \A k \in Keys : Unsigned(k) => k \in rec.todo

NonceInv ==
    /\ clockSteps = 0 /\ maxTs <= wall
    /\ ReadyInv
    /\ BelowLiveCovered
    /\ BelowNextCovered
    /\ UnsignedOnTop
    /\ HeldIsNewest
    /\ UnsignedIsHeld
    /\ UnsignedInLoop

-----------------------------------------------------------------------------
(***************************************************************************)
(* The clock guard never trips.                                            *)
(***************************************************************************)

\* The host's clock is never stepped back.
SteadyClock == MaxClockSteps = 0

\* A write never finds the clock behind the books.
LEMMA Sane ==
    ASSUME SignerInv, NonceInv
    PROVE  ClockSane
BY TolType DEF SignerInv, TypeOK, LTypeOK, NonceInv, ClockSane

\* A step has one of the effects, or time passes.
LEMMA SteadyStep ==
    ASSUME SteadyClock, SignerInv, NonceInv, Next
    PROVE  (Effect \/ TimePasses) /\ clockSteps' = 0
<1>1. ~ClockStepsBack
  BY DEF ClockStepsBack, SteadyClock, NonceInv
<1>2. clockSteps' = clockSteps
  BY <1>1 DEF Next, Crash, TimePasses, history
<1> QED BY <1>1, <1>2, StepEffect DEF NonceInv

\* No timestamp of the books is ahead of the clock.
LEMMA TicksStep ==
    ASSUME SignerInv, NonceInv, Effect \/ TimePasses
    PROVE  maxTs' <= wall'
<1>a. maxTs \in Nat /\ wall \in Nat /\ maxTs <= wall
  BY DEF SignerInv, TypeOK, LTypeOK, NonceInv
<1>1. CASE TimePasses
  BY <1>a, <1>1 DEF TimePasses, books
<1>2. CASE Effect
  <2>1. TickTs <= wall
    BY <1>a DEF TickTs
  <2>2. ASSUME Tick PROVE maxTs' = TickTs \/ maxTs' = maxTs
    BY <2>2 DEF Tick
  <2>3. ASSUME NEW k, RowEffect(k) PROVE maxTs' = TickTs \/ maxTs' = maxTs
    <3>1. CASE Takes(k)
      BY <3>1 DEF Takes, Reserve
    <3>2. CASE SignsRow(k)
      BY <3>2, <2>2 DEF SignsRow, MarkSigned, SetState, TornMarkSigned
    <3>3. CASE Broadcasts(k) \/ MinesUsed(k) \/ MinesReceipt(k)
      BY <3>3, <2>2 DEF Broadcasts, MarkBroadcast, MinesUsed, MinesReceipt, MarkMined, SetState
    <3>4. CASE Releases(k)
      BY <3>4, <2>2 DEF Releases, MarkDead, SetState, TornMarkDead
    <3> QED BY <2>3, <3>1, <3>2, <3>3, <3>4 DEF RowEffect
  <2>4. maxTs' = TickTs \/ maxTs' = maxTs
    BY <1>2, <2>2, <2>3 DEF Effect, Leaves, Notes, SetsNext, SetNextNonce, Delivers, Includes,
                            books, Audit, ClearHalt
  <2>5. wall' = wall
    BY <1>2 DEF Effect
  <2> QED BY <1>a, <2>1, <2>4, <2>5
<1> QED BY <1>1, <1>2

-----------------------------------------------------------------------------
(***************************************************************************)
(* The nonces, effect by effect.                                           *)
(***************************************************************************)

\* A live row that is not unsigned holds the nonce of a signed transaction.
LEMMA SignedNonce ==
    ASSUME SignerInv, NEW k \in unresolved, ~Unsigned(k)
    PROVE  \E t \in signatures : t.nonce = spend[k].nonce
<1>1. k \in Keys /\ spend[k].state \in {"reserved", "signed", "broadcast"}
  BY DEF unresolved, Live
<1>2. CASE spend[k].state = "reserved"
  BY <1>2 DEF Unsigned, SignerInv, BooksInv, AttemptsAreOurs
<1>3. CASE spend[k].state \in {"signed", "broadcast"}
  BY <1>1, <1>3 DEF SignerInv, BooksInv, RowsNameOurs
<1> QED BY <1>1, <1>2, <1>3

\* What a step does to the rows.
LEMMA RowsMove ==
    ASSUME Effect \/ TimePasses
    PROVE  spend' = spend \/ \E k \in Keys : RowEffect(k)
BY DEF Effect, Leaves, Notes, SetsNext, SetNextNonce, Delivers, Includes, TimePasses, books,
       Audit, ClearHalt

\* A step that changes a row changes no other.
LEMMA OthersStay ==
    ASSUME SignerInv, NEW k \in Keys, RowEffect(k)
    PROVE  OthersKept(k)
BY TakesRow, SignsRowRow, BroadcastsRow, MinesUsedRow, MinesReceiptRow, ReleasesRow DEF RowEffect

\* The effects that end a row.
Ends(k) == Releases(k) \/ MinesUsed(k) \/ MinesReceipt(k)

\* A covered nonce stays covered unless its row ends before the key signed.
LEMMA CoveredStays ==
    ASSUME SignerInv, Effect \/ TimePasses, NEW n, Covered(n)
    PROVE  Covered(n)' \/ \E k \in unresolved : Unsigned(k) /\ spend[k].nonce = n /\ Ends(k)
<1>1. CASE \E t \in signatures : t.nonce = n
  <2>1. signatures \subseteq signatures'
    BY RecordsPersist
  <2> QED BY <1>1, <2>1 DEF Covered
<1>2. CASE \E k \in unresolved : spend[k].nonce = n
  <2>1. PICK k \in unresolved : spend[k].nonce = n
    BY <1>2
  <2>2. k \in Keys /\ spend[k].state \in Live
    BY DEF unresolved
  <2>3. ASSUME spend'[k].state \in Live, spend'[k].nonce = n PROVE Covered(n)'
    BY <2>2, <2>3 DEF Covered, unresolved
  <2>4. CASE spend' = spend
    BY <2>1, <2>2, <2>3, <2>4
  <2>5. CASE \E j \in Keys : RowEffect(j)
    <3>1. PICK j \in Keys : RowEffect(j)
      BY <2>5
    <3>2. CASE j # k
      BY <2>1, <2>2, <2>3, <3>1, <3>2, OthersStay DEF OthersKept
    <3>3. CASE j = k
      <4>1. ~Takes(k)
        BY <2>2, TakesRow DEF Live
      <4>2. CASE SignsRow(k) \/ Broadcasts(k)
        BY <2>1, <2>2, <2>3, <4>2, SignsRowRow, BroadcastsRow DEF RowKept, Live
      <4>3. CASE Ends(k) /\ ~Unsigned(k)
        <5>1. signatures \subseteq signatures'
          BY RecordsPersist
        <5> QED BY <2>1, <4>3, <5>1, SignedNonce DEF Covered
      <4> QED BY <2>1, <3>1, <3>3, <4>1, <4>2, <4>3 DEF RowEffect, Ends
    <3> QED BY <3>2, <3>3
  <2> QED BY <2>4, <2>5, RowsMove
<1> QED BY <1>1, <1>2 DEF Covered

\* A live row was live before, at the same nonce, or was just taken.
LEMMA LiveBefore ==
    ASSUME SignerInv, Effect \/ TimePasses, NEW k \in Keys, spend'[k].state \in Live
    PROVE  Takes(k) \/ (k \in unresolved /\ spend'[k].nonce = spend[k].nonce)
<1>1. CASE spend' = spend
  BY <1>1 DEF unresolved
<1>2. CASE \E j \in Keys : RowEffect(j)
  <2>1. PICK j \in Keys : RowEffect(j)
    BY <1>2
  <2>2. CASE j # k
    BY <2>1, <2>2, OthersStay DEF OthersKept, unresolved
  <2>3. CASE j = k
    <3>1. CASE SignsRow(k) \/ Broadcasts(k)
      BY <3>1, SignsRowRow, BroadcastsRow DEF RowKept, Live, unresolved
    <3>2. ~Ends(k)
      BY MinesUsedRow, MinesReceiptRow, ReleasesRow DEF Ends, Live
    <3> QED BY <2>1, <2>3, <3>1, <3>2 DEF RowEffect, Ends
  <2> QED BY <2>2, <2>3
<1> QED BY <1>1, <1>2, RowsMove

\* An unsigned row was unsigned before, or was just taken.
LEMMA UnsignedBefore ==
    ASSUME SignerInv, Effect \/ TimePasses, NEW k \in Keys, Unsigned(k)'
    PROVE  Takes(k) \/ (Unsigned(k) /\ k \in unresolved /\ spend'[k].nonce = spend[k].nonce)
<1>1. spend'[k].state = "reserved" /\ \A a \in attempts' : a.tx.nonce # spend'[k].nonce
  BY DEF Unsigned
<1>2. \A a \in attempts : \E b \in attempts' : b.tx = a.tx
  BY RecordsPersist
<1>3. ASSUME k \in unresolved, spend'[k].nonce = spend[k].nonce, spend[k].state = "reserved"
      PROVE  Unsigned(k)
  BY <1>1, <1>2, <1>3 DEF Unsigned
<1>4. CASE spend' = spend
  BY <1>1, <1>3, <1>4 DEF unresolved, Live
<1>5. CASE \E j \in Keys : RowEffect(j)
  <2>1. PICK j \in Keys : RowEffect(j)
    BY <1>5
  <2>2. CASE j # k
    <3>1. spend'[k] = spend[k]
      BY <2>1, <2>2, OthersStay DEF OthersKept
    <3> QED BY <1>1, <1>3, <3>1 DEF unresolved, Live
  <2>3. CASE j = k
    BY <1>1, <2>1, <2>3, SignsRowRow, BroadcastsRow, MinesUsedRow, MinesReceiptRow, ReleasesRow
       DEF RowEffect
  <2> QED BY <2>2, <2>3
<1> QED BY <1>4, <1>5, RowsMove

-----------------------------------------------------------------------------
(***************************************************************************)
(* The process, action by action.                                          *)
(***************************************************************************)

\* Where AfterWrite goes while the clock is sane.
LEMMA SaneWrite ==
    ASSUME SignerInv, ClockSane, NEW p, AfterWrite(p)
    PROVE  /\ pc' = p /\ UNCHANGED <<ready, op>>
           /\ rec'.todo = rec.todo \ {FirstRow} /\ rec'.back = rec.back
BY DEF AfterWrite, Goto, NextRow, SignerInv, TypeOK

\* ready is set by the end of a boot and by nothing else, and cleared by a death.
LEMMA ReadyStep ==
    ASSUME SignerInv, NonceInv, Next
    PROVE  ReadyInv'
<1>a. ReadyInv /\ ClockSane
  BY Sane DEF NonceInv
<1>b. NoRec.back = "none" /\ rec.back \in {"none", "boot", "replay", "sweep"}
  BY DEF NoRec, SignerInv, TypeOK
<1>c. pc \notin Looping \cup {"settle"} => rec = NoRec
  BY DEF SignerInv, ProcessInv, RecInv
<1>d. (pc \in Looping => rec.back \in {"boot", "replay"}) /\ (pc = "settle" => rec.back = "sweep")
  BY DEF SignerInv, ProcessInv, RecInv
<1>e. rec \in [todo : SUBSET Keys, absent : SUBSET attempts, now : Nat,
               back : {"none", "boot", "replay", "sweep"}]
  BY DEF SignerInv, TypeOK
<1>1. CASE Boots
  <2>1. CASE Boot \/ BootRpcDown
    BY <2>1, <1>a, <1>b, <1>c DEF Boot, BootRpcDown, Goto, ReadyInv, Serving, Holding, Sending, Looping
  <2>2. CASE BootIdentity
    BY <2>2, <1>a, <1>b, <1>c DEF BootIdentity, StartReconcile, Goto, ReadyInv, Serving, Holding,
                                  Sending, Looping
  <2>3. CASE BootNonce \/ BootAudit
    BY <2>3, <1>a, <1>b, <1>c DEF BootNonce, BootAudit, Goto, ReadyInv, Serving, Holding, Sending,
                                  Looping
  <2> QED BY <1>1, <2>1, <2>2, <2>3 DEF Boots
<1>2. CASE Reconciles
  <2>0. pc \in Looping /\ ready' = ready
    BY <1>2, <1>a, SaneWrite
       DEF Reconciles, RecUsed, RecReceipt, RecClassify, RecDone, RecRpcDown, Looping
  <2>1. CASE RecUsed \/ RecClassify
    <3>1. pc' \in Looping /\ rec'.back = rec.back
      BY <2>1, <1>a, <1>e, SaneWrite DEF RecUsed, RecClassify, Goto, NextRow, Looping
    <3> QED BY <2>0, <3>1, <1>a, <1>d DEF ReadyInv, Serving, Holding, Sending, Looping
  <2>2. CASE RecReceipt
    <3>1. CASE rec' = [rec EXCEPT !.absent = @ \cup {FirstAttempt(FirstRow)}] /\ pc' = pc
      BY <2>0, <3>1, <1>a, <1>d, <1>e DEF ReadyInv, Serving, Holding, Sending, Looping
    <3>2. CASE AfterWrite("rec_used")
      BY <2>0, <3>2, <1>a, <1>d, SaneWrite DEF ReadyInv, Serving, Holding, Sending, Looping
    <3> QED BY <2>2, <3>1, <3>2 DEF RecReceipt
  <2>3. CASE RecDone \/ RecRpcDown
    <3>1. rec' = NoRec
      BY <2>3 DEF RecDone, RecRpcDown
    <3>2. CASE rec.back = "boot"
      <4>1. pc' \in {"boot_nonce", "idle"}
        BY <2>3, <3>2 DEF RecDone, RecRpcDown, Goto
      <4> QED BY <2>0, <3>1, <3>2, <4>1, <1>a, <1>b DEF ReadyInv, Serving, Holding, Sending
    <3>3. CASE rec.back # "boot"
      <4>1. pc' \in {"answer", "preflight"}
        BY <2>3, <3>3 DEF RecDone, RecRpcDown, AfterReplay, Goto, Decide
      <4> QED BY <2>0, <3>1, <3>3, <4>1, <1>a, <1>b, <1>d DEF ReadyInv
    <3> QED BY <3>2, <3>3
  <2> QED BY <1>2, <2>1, <2>2, <2>3 DEF Reconciles
<1>3. CASE Asked
  <2>1. pc = "idle" /\ ready /\ ready' = ready /\ rec = NoRec
    BY <1>3, <1>c DEF Asked, RequestDebit, RequestExpire, StartSweep, Accepting, Looping
  <2>2. pc' \in {"answer", "preflight", "rec_used", "settle"}
    BY <1>3 DEF Asked, RequestDebit, Replay, RequestExpire, StartSweep, Answer, StartReconcile, Goto
  <2>3. rec'.back # "boot"
    <3>1. ASSUME NEW k \in Sweeps, StartSweep(k) PROVE rec'.back = "sweep"
      BY <3>1 DEF StartSweep, NoRec
    <3>2. ASSUME NEW k, NEW amount, RequestDebit(k, amount) PROVE rec'.back \in {rec.back, "replay"}
      BY <3>2 DEF RequestDebit, Replay, StartReconcile
    <3> QED BY <1>3, <1>b, <2>1, <3>1, <3>2 DEF Asked, RequestExpire
  <2> QED BY <2>1, <2>2, <2>3 DEF ReadyInv
<1>4. CASE Works
  <2>1. ready' = ready /\ pc \in Serving
    BY <1>4, <1>a, SaneWrite
       DEF Works, Preflight, ReserveRow, ReserveRefused, ReserveAudit, Simulate, Sign,
           SigningFailed, Send, Accepted, Rejected, Respond, SettleReceipt, SettleGiveUp,
           SettleStops, Settled, Serving, Holding, Sending
  <2>2. pc' \in {"idle"} \cup Serving
    BY <1>4, <1>a, SaneWrite
       DEF Works, Preflight, ReserveRow, ReserveRefused, ReserveAudit, Simulate, Sign,
           SigningFailed, Send, Accepted, Rejected, Respond, SettleReceipt, SettleGiveUp,
           SettleStops, Settled, Goto, Decide, Done, Raise, AfterReserve,
           Serving, Holding, Sending
  <2>3. rec'.back # "boot"
    <3>1. CASE SettleReceipt
      <4>1. CASE rec' = [rec EXCEPT !.absent = @ \cup {FirstAttempt(FirstRow)}]
        BY <3>1, <4>1, <1>d, <1>e DEF SettleReceipt
      <4>2. CASE AfterWrite("settle")
        BY <3>1, <4>2, <1>a, <1>d, SaneWrite DEF SettleReceipt
      <4> QED BY <3>1, <4>1, <4>2 DEF SettleReceipt
    <3>2. CASE SettleGiveUp
      BY <3>2, <1>a, <1>d, SaneWrite DEF SettleGiveUp
    <3>3. CASE SettleStops \/ Settled
      BY <3>3, <1>b DEF SettleStops, Settled
    <3>4. rec.back # "boot"
      BY <2>1, <1>b, <1>c, <1>d DEF Serving, Holding, Sending, Looping
    <3> QED BY <1>4, <3>1, <3>2, <3>3, <3>4
       DEF Works, Preflight, ReserveRow, ReserveRefused, ReserveAudit, Simulate, Sign,
           SigningFailed, Send, Accepted, Rejected, Respond
  <2>4. ready
    BY <2>1, <1>a DEF ReadyInv
  <2>5. pc' \notin {"down", "boot_identity", "boot_nonce", "boot_audit"}
    BY <2>2 DEF Serving, Holding, Sending
  <2> QED BY <2>1, <2>3, <2>4, <2>5 DEF ReadyInv
<1>5. CASE Elsewhere
  <2>1. UNCHANGED <<pc, rec, ready>>
    BY <1>5 DEF Elsewhere, AuditOnly, OperatorClearsHalt, BlockIncludes, TimePasses,
                ClockStepsBack, process
  <2> QED BY <2>1, <1>a DEF ReadyInv
<1>6. CASE Crash
  BY <1>6, <1>b DEF Crash, Exit, ReadyInv, Serving, Holding, Sending
<1> QED BY <1>1, <1>2, <1>3, <1>4, <1>5, <1>6, NextCases

\* The loop of _reconcile leaves ready alone; at boot its end leads to the allocator.
LEMMA LoopReady ==
    ASSUME SignerInv, NonceInv, Reconciles
    PROVE  /\ ready' = ready /\ pc' # "boot_audit"
           /\ pc' = "boot_nonce" => rec.back = "boot" /\ rec.todo = {}
<1>a. ClockSane
  BY Sane
<1>1. CASE RecUsed
  BY <1>1, <1>a, SaneWrite DEF RecUsed, Goto
<1>2. CASE RecReceipt
  <2>1. CASE AfterWrite("rec_used")
    BY <1>a, <2>1, SaneWrite
  <2>2. CASE UNCHANGED <<pc, ready>>
    BY <1>2, <2>2 DEF RecReceipt
  <2> QED BY <1>2, <2>1, <2>2 DEF RecReceipt
<1>3. CASE RecClassify
  BY <1>3, <1>a, SaneWrite DEF RecClassify, Goto
<1>4. CASE RecDone \/ RecRpcDown
  BY <1>4 DEF RecDone, AfterReplay, RecRpcDown, Goto, Decide
<1> QED BY <1>1, <1>2, <1>3, <1>4 DEF Reconciles

\* A boot ends only after its loop has gone through every row.
LEMMA IntoReady ==
    ASSUME SignerInv, NonceInv, Next, ready' \/ pc' \in {"boot_nonce", "boot_audit"}
    PROVE  \/ ready \/ pc \in {"boot_nonce", "boot_audit"}
           \/ rec.back = "boot" /\ rec.todo = {}
<1>a. ReadyInv /\ ClockSane
  BY Sane DEF NonceInv
<1>1. CASE Boots
  BY <1>1 DEF Boots, Boot, BootIdentity, BootNonce, BootRpcDown, BootAudit, StartReconcile, Goto
<1>2. CASE Reconciles
  BY <1>2, LoopReady
<1>3. CASE Asked
  BY <1>3 DEF Asked, RequestDebit, RequestExpire, StartSweep, Accepting
<1>4. CASE Works
  BY <1>4, <1>a
     DEF Works, Preflight, ReserveRow, ReserveRefused, ReserveAudit, Simulate, Sign,
         SigningFailed, Send, Accepted, Rejected, Respond, SettleReceipt, SettleGiveUp,
         SettleStops, Settled, ReadyInv, Serving, Holding, Sending
<1>5. CASE Elsewhere
  BY <1>5 DEF Elsewhere, AuditOnly, OperatorClearsHalt, BlockIncludes, TimePasses,
              ClockStepsBack, process
<1>6. ~Crash
  BY DEF Crash, Exit
<1> QED BY <1>1, <1>2, <1>3, <1>4, <1>5, <1>6, NextCases

\* The allocator is set between the loop at boot and the audit row.
LEMMA IntoBootAudit ==
    ASSUME SignerInv, NonceInv, Next, ready' \/ pc' = "boot_audit"
    PROVE  ready \/ pc = "boot_audit" \/ BootNonce
<1>a. ReadyInv /\ ClockSane
  BY Sane DEF NonceInv
<1>1. CASE Boots
  BY <1>1 DEF Boots, Boot, BootIdentity, BootRpcDown, BootAudit, StartReconcile, Goto
<1>2. CASE Reconciles
  BY <1>2, LoopReady
<1>3. CASE Asked
  BY <1>3 DEF Asked, RequestDebit, RequestExpire, StartSweep, Accepting
<1>4. CASE Works
  BY <1>4, <1>a
     DEF Works, Preflight, ReserveRow, ReserveRefused, ReserveAudit, Simulate, Sign,
         SigningFailed, Send, Accepted, Rejected, Respond, SettleReceipt, SettleGiveUp,
         SettleStops, Settled, ReadyInv, Serving, Holding, Sending
<1>5. CASE Elsewhere
  BY <1>5 DEF Elsewhere, AuditOnly, OperatorClearsHalt, BlockIncludes, TimePasses,
              ClockStepsBack, process
<1>6. ~Crash
  BY DEF Crash, Exit
<1> QED BY <1>1, <1>2, <1>3, <1>4, <1>5, <1>6, NextCases

\* A row is held from its reservation on, and nothing moves the allocator meanwhile.
LEMMA IntoHolding ==
    ASSUME SignerInv, NonceInv, Next, pc' \in Holding
    PROVE  /\ op' = op
           /\ \/ pc = "reserve" /\ Reserve(op.key, op.amount, op.fee)
              \/ pc \in Holding /\ UNCHANGED <<spend, nextNonce>>
<1>a. ClockSane
  BY Sane
<1>1. ~Boots
  BY DEF Boots, Boot, BootIdentity, BootNonce, BootRpcDown, BootAudit, StartReconcile,
         Goto, Exit, Holding
<1>2. ~Reconciles
  BY AfterWriteRests
     DEF Reconciles, RecUsed, RecReceipt, RecClassify, RecDone, AfterReplay, RecRpcDown,
         Goto, Decide, Holding
<1>3. ~Asked
  BY DEF Asked, RequestDebit, Replay, RequestExpire, StartSweep, Answer, StartReconcile,
         Goto, Holding
<1>4. CASE Works
  <2>1. CASE ReserveRow
    BY <2>1 DEF ReserveRow
  <2>2. CASE ReserveAudit
    BY <2>2, <1>a DEF ReserveAudit, Audit, Holding
  <2>3. CASE Simulate
    BY <2>3 DEF Simulate, Decide, Holding, books
  <2>4. ~(Preflight \/ ReserveRefused \/ Sign \/ SigningFailed \/ Send \/ Accepted \/ Rejected
          \/ Respond \/ SettleReceipt \/ SettleGiveUp \/ SettleStops \/ Settled)
    BY AfterWriteRests
       DEF Preflight, ReserveRefused, Sign, SigningFailed, Send, Accepted, Rejected, Respond,
           SettleReceipt, SettleGiveUp, SettleStops, Settled, Raise, Done, Decide, Goto, Holding
  <2> QED BY <1>4, <2>1, <2>2, <2>3, <2>4 DEF Works
<1>5. CASE Elsewhere
  BY <1>5, ElsewhereKeeps
     DEF Elsewhere, AuditOnly, OperatorClearsHalt, BlockIncludes, TimePasses, ClockStepsBack,
         books, Audit, ClearHalt
<1>6. ~Crash
  BY DEF Crash, Exit, Holding
<1> QED BY <1>1, <1>2, <1>3, <1>4, <1>5, <1>6, NextCases

\* A held row is let go only signed or released, unless the process dies.
LEMMA OutOfHolding ==
    ASSUME SignerInv, NonceInv, Next, pc \in Holding
    PROVE  \/ pc' \in Holding /\ op' = op
           \/ pc' = "down"
           \/ spend'[op.key].state \in {"signed", "dead"}
<1>a. ClockSane
  BY Sane
<1>b. op.key \in Keys /\ spend \in [Keys -> Row] /\ spend[op.key] \in Row
  BY DEF SignerInv, TypeOK, LTypeOK, ProcessInv, OpInv
<1>c. MarkDead(op.key) => spend'[op.key].state = "dead"
  BY <1>b DEF MarkDead, SetState, Row
<1>d. MarkSigned(op.key) => spend'[op.key].state = "signed"
  BY <1>b DEF MarkSigned, SetState, Row
<1>1. ~Boots /\ ~Reconciles /\ ~Asked
  BY DEF Boots, Boot, BootIdentity, BootNonce, BootRpcDown, BootAudit, Reconciles, RecUsed,
         RecReceipt, RecClassify, RecDone, RecRpcDown, Asked, RequestDebit, RequestExpire,
         StartSweep, Accepting, Holding
<1>2. CASE Works
  <2>1. CASE ReserveAudit
    BY <2>1, <1>a DEF ReserveAudit, AfterReserve, Goto, Holding
  <2>2. CASE Simulate
    BY <2>2, <1>c DEF Simulate, Goto, Holding
  <2>3. CASE Sign \/ SigningFailed
    BY <2>3, <1>c, <1>d DEF Sign, SigningFailed
  <2>4. ~(Preflight \/ ReserveRow \/ ReserveRefused \/ Send \/ Accepted \/ Rejected
          \/ Respond \/ SettleReceipt \/ SettleGiveUp \/ SettleStops \/ Settled)
    BY DEF Preflight, ReserveRow, ReserveRefused, Send, Accepted, Rejected, Respond,
           SettleReceipt, SettleGiveUp, SettleStops, Settled, Holding
  <2> QED BY <1>2, <2>1, <2>2, <2>3, <2>4 DEF Works
<1>3. CASE Elsewhere
  BY <1>3, ElsewhereKeeps
<1>4. CASE Crash
  BY <1>4 DEF Crash, Exit
<1> QED BY <1>1, <1>2, <1>3, <1>4, NextCases

\* Only the reserving step takes a row, and it holds the row it took.
LEMMA TakenIsHeld ==
    ASSUME SignerInv, Next, NEW k \in Keys, Takes(k)
    PROVE  pc' \in Holding /\ op' = op /\ k = op.key
<1>a. pc = "reserve" /\ k = op.key /\ nextNonce \in Nat /\ nextNonce' = nextNonce + 1
  BY TakesRow DEF Takes, SignerInv, TypeOK, LTypeOK
<1>1. ~Boots /\ ~Reconciles /\ ~Asked
  BY <1>a
     DEF Boots, Boot, BootIdentity, BootNonce, BootRpcDown, BootAudit, Reconciles, RecUsed,
         RecReceipt, RecClassify, RecDone, RecRpcDown, Asked, RequestDebit, RequestExpire,
         StartSweep, Accepting
<1>2. CASE Works
  <2>1. ReserveRow \/ ReserveRefused
    BY <1>2, <1>a
       DEF Works, Preflight, ReserveAudit, Simulate, Sign, SigningFailed, Send, Accepted,
           Rejected, Respond, SettleReceipt, SettleGiveUp, SettleStops, Settled
  <2>2. ~ReserveRefused
    BY <1>a DEF ReserveRefused
  <2> QED BY <1>a, <2>1, <2>2 DEF ReserveRow, AfterReserve, Goto, Holding
<1>3. ~Elsewhere
  BY <1>a DEF Elsewhere, AuditOnly, OperatorClearsHalt, BlockIncludes, TimePasses,
              ClockStepsBack, books, Audit, ClearHalt
<1>4. ~Crash
  BY <1>a DEF Crash, books, TornMarkSigned, TornMarkDead
<1> QED BY <1>1, <1>2, <1>3, <1>4, NextCases

\* The loop at boot starts with every live row and drops a row when it is
\* resolved, or when an attempt with its nonce may still land.
LEMMA LoopAtBoot ==
    ASSUME SignerInv, NonceInv, Next, rec'.back = "boot"
    PROVE  /\ pc # "reserve"
           /\ \/ rec.back = "boot" /\ rec'.todo = rec.todo
              \/ /\ rec.back = "boot"
                 /\ \E k \in Keys : rec'.todo = rec.todo \ {k} /\ ~Unsigned(k)'
              \/ rec'.todo = unresolved /\ UNCHANGED <<spend, attempts>>
<1>a. ClockSane /\ NoRec.back = "none"
  BY Sane DEF NoRec
<1>b. rec \in [todo : SUBSET Keys, absent : SUBSET attempts, now : Nat,
               back : {"none", "boot", "replay", "sweep"}]
  BY DEF SignerInv, TypeOK
<1>c. /\ pc \notin Looping \cup {"settle"} => rec = NoRec
      /\ pc = "settle" => rec.back = "sweep"
      /\ pc = "rec_receipts" => rec.todo # {}
  BY DEF SignerInv, ProcessInv, RecInv
<1>d. ASSUME NEW k \in Keys, Ends(k) PROVE ~Unsigned(k)'
  <2>1. spend'[k].state \in {"mined", "dead"}
    BY <1>d, MinesUsedRow, MinesReceiptRow, ReleasesRow DEF Ends
  <2> QED BY <2>1 DEF Unsigned
<1>e. rec.todo # {} => FirstRow \in Keys
  BY FirstRowLive
<1>f. ASSUME rec.todo # {}, Ends(FirstRow), AfterWrite("rec_used")
      PROVE  /\ rec'.back = rec.back
             /\ \E k \in Keys : rec'.todo = rec.todo \ {k} /\ ~Unsigned(k)'
  BY <1>a, <1>d, <1>e, <1>f, SaneWrite
<1>1. CASE Boots
  <2>1. BootIdentity
    BY <1>1, <1>a, <1>c DEF Boots, Boot, BootNonce, BootRpcDown, BootAudit, Exit, Looping
  <2> QED BY <2>1 DEF BootIdentity, StartReconcile, books
<1>2. CASE Reconciles
  <2>0. pc \in Looping
    BY <1>2 DEF Reconciles, RecUsed, RecReceipt, RecClassify, RecDone, RecRpcDown, Looping
  <2>1. CASE RecUsed
    <3>1. PICK used \in Reads(receipt_used(FirstRow)) :
              IF used
              THEN MarkMined(FirstRow, NoTx, 0) /\ AfterWrite("rec_used")
              ELSE Goto("rec_receipts") /\ UNCHANGED <<books, ready, op, rec>>
      BY <2>1 DEF RecUsed
    <3>2. CASE used
      <4>1. receipt_used(FirstRow)
        BY <3>2, Zenon DEF Reads
      <4>2. MinesUsed(FirstRow) /\ rec.todo # {}
        BY <2>1, <3>1, <3>2, <4>1, FirstRowLive DEF MinesUsed, RecUsed
      <4> QED BY <2>0, <3>1, <3>2, <4>2, <1>f DEF Ends, Looping
    <3>3. CASE ~used
      BY <2>0, <3>1, <3>3 DEF Looping
    <3> QED BY <3>2, <3>3
  <2>2. CASE RecReceipt
    <3>0. rec.todo # {} /\ pc = "rec_receipts" /\ Unread(FirstRow) # {}
      BY <2>2, <1>c DEF RecReceipt
    <3>1. FirstAttempt(FirstRow) \in attempts_for(FirstRow)
      BY <3>0, FirstAttemptLeft DEF SignerInv
    <3>2. CASE /\ HasReceipt(FirstAttempt(FirstRow).tx, TRUE)
               /\ \E fee \in 1..FirstAttempt(FirstRow).tx.fee :
                      MarkMined(FirstRow, FirstAttempt(FirstRow).tx, fee)
               /\ AfterWrite("rec_used")
      <4>1. MinesReceipt(FirstRow)
        BY <2>2, <3>0, <3>1, <3>2, FirstRowLive DEF MinesReceipt, RecReceipt
      <4> QED BY <3>0, <3>2, <4>1, <1>f DEF Ends
    <3>3. CASE /\ HasReceipt(FirstAttempt(FirstRow).tx, FALSE)
               /\ MarkDead(FirstRow)
               /\ AfterWrite("rec_used")
      <4>1. Releases(FirstRow)
        BY <2>2, <3>0, <3>1, <3>3, FirstRowLive DEF Releases, Cause, RecReceipt
      <4> QED BY <3>0, <3>3, <4>1, <1>f DEF Ends
    <3>4. CASE rec' = [rec EXCEPT !.absent = @ \cup {FirstAttempt(FirstRow)}]
      BY <3>0, <3>4, <1>b
    <3> QED BY <2>2, <3>2, <3>3, <3>4 DEF RecReceipt
  <2>3. CASE RecClassify
    <3>0. rec.todo # {} /\ pc = "rec_receipts"
      BY <2>3, <1>c DEF RecClassify
    <3>1. CASE NeverSigned(FirstRow) \/ PastDeadline(FirstRow)
      <4>1. Releases(FirstRow)
        BY <2>3, <3>0, <3>1, FirstRowLive DEF Releases, Cause, RecClassify
      <4> QED BY <2>3, <3>0, <3>1, <4>1, <1>f DEF Ends, RecClassify
    <3>2. CASE ~(NeverSigned(FirstRow) \/ PastDeadline(FirstRow))
      <4>1. NextRow /\ UNCHANGED <<spend, attempts>>
        BY <2>3, <3>2 DEF RecClassify, books
      <4>2. rec'.todo = rec.todo \ {FirstRow} /\ rec'.back = rec.back
        BY <4>1, <1>b DEF NextRow
      <4>3. ~Unsigned(FirstRow)
        BY <3>2 DEF NeverSigned, Unsigned, attempts_for
      <4>4. ASSUME NEW k \in Keys, k = FirstRow PROVE ~Unsigned(k)'
        BY <4>1, <4>3, <4>4 DEF Unsigned
      <4> QED BY <3>0, <4>2, <4>4, <1>e
    <3> QED BY <3>1, <3>2
  <2>4. ~(RecDone \/ RecRpcDown)
    BY <1>a DEF RecDone, RecRpcDown
  <2> QED BY <1>2, <2>1, <2>2, <2>3, <2>4 DEF Reconciles
<1>3. ~Asked
  <2>0. Asked => rec = NoRec
    BY <1>c DEF Asked, RequestDebit, RequestExpire, StartSweep, Accepting, Looping
  <2>1. ASSUME NEW k \in Sweeps PROVE ~StartSweep(k)
    BY DEF StartSweep, NoRec
  <2>2. ASSUME NEW k, NEW amount, RequestDebit(k, amount) PROVE rec'.back \in {rec.back, "replay"}
    BY <2>2 DEF RequestDebit, Replay, StartReconcile
  <2> QED BY <1>a, <2>0, <2>1, <2>2 DEF Asked, RequestExpire
<1>4. ~Works
  <2>1. Works => rec.back # "boot"
    BY <1>a, <1>c
       DEF Works, Preflight, ReserveRow, ReserveRefused, ReserveAudit, Simulate, Sign,
           SigningFailed, Send, Accepted, Rejected, Respond, SettleReceipt, SettleGiveUp,
           SettleStops, Settled, Looping
  <2>2. rec' = [rec EXCEPT !.absent = @ \cup {FirstAttempt(FirstRow)}] => rec'.back = rec.back
    BY <1>b
  <2> QED BY <2>1, <2>2, <1>a, SaneWrite
     DEF Works, Preflight, ReserveRow, ReserveRefused, ReserveAudit, Simulate, Sign,
         SigningFailed, Send, Accepted, Rejected, Respond, SettleReceipt, SettleGiveUp,
         SettleStops, Settled
<1>5. CASE Elsewhere
  BY <1>5, <1>a, <1>c, ElsewhereKeeps DEF Looping
<1>6. ~Crash
  BY <1>a DEF Crash, Exit
<1> QED BY <1>1, <1>2, <1>3, <1>4, <1>5, <1>6, NextCases

-----------------------------------------------------------------------------
(***************************************************************************)
(* The invariant is inductive.                                             *)
(***************************************************************************)

\* The chain's account nonce never goes back.
LEMMA ChainNonceGrows ==
    ASSUME SignerInv, Effect \/ TimePasses
    PROVE  chainNonce' \in Nat /\ chainNonce <= chainNonce'
<1>1. chainNonce \in Nat
  BY DEF SignerInv, TypeOK, ChainTypeOK
<1>2. chainNonce' = chainNonce \/ chainNonce' = chainNonce + 1
  BY ChainMoves DEF Delivers, Includes, Include, chain
<1> QED BY <1>1, <1>2

\* Nonces are numbers, and those of live rows lie below the allocator.
LEMMA NonceTypes ==
    ASSUME SignerInv
    PROVE  /\ nextNonce \in Nat /\ chainNonce \in Nat
           /\ \A k \in Keys : spend[k].nonce \in Nat
           /\ \A k \in unresolved : k \in Keys /\ spend[k].nonce < nextNonce
BY DEF SignerInv, TypeOK, LTypeOK, ChainTypeOK, Row, BooksInv, NonceOwnership, unresolved

\* A row is taken by a process that is ready, with no unsigned row around.
LEMMA TakenWhenReady ==
    ASSUME NonceInv, NEW k, Takes(k)
    PROVE  ready /\ \A j \in Keys : ~Unsigned(j)
<1>1. pc = "reserve" /\ pc \in Serving /\ pc \notin Holding
  BY DEF Takes, Serving, Holding
<1> QED BY <1>1 DEF NonceInv, ReadyInv, UnsignedIsHeld

\* No step opens a hole below a live row.
LEMMA BelowLiveStep ==
    ASSUME SignerInv, NonceInv, Effect \/ TimePasses
    PROVE  BelowLiveCovered'
<1> SUFFICES ASSUME NEW k \in unresolved', NEW n \in chainNonce'..(spend'[k].nonce - 1)
             PROVE  Covered(n)'
  BY DEF BelowLiveCovered
<1>a. k \in Keys /\ spend'[k].state \in Live
  BY DEF unresolved
<1>b. n \in Int /\ chainNonce <= n
  BY ChainNonceGrows, NonceTypes
<1>1. CASE Takes(k)
  <2>1. n \in chainNonce..(nextNonce - 1)
    BY <1>1, <1>a, <1>b, TakesRow, NonceTypes, ChainNonceGrows
  <2>2. Covered(n)
    BY <1>1, <2>1, TakenWhenReady DEF NonceInv, BelowNextCovered
  <2>3. \A j \in unresolved : ~Unsigned(j)
    BY <1>1, TakenWhenReady DEF unresolved
  <2> QED BY <2>2, <2>3, CoveredStays
<1>2. CASE k \in unresolved /\ spend'[k].nonce = spend[k].nonce
  <2>1. n \in chainNonce..(spend[k].nonce - 1)
    BY <1>2, <1>a, <1>b, NonceTypes, ChainNonceGrows
  <2>2. Covered(n)
    BY <1>2, <2>1 DEF NonceInv, BelowLiveCovered
  <2>3. ASSUME NEW j \in unresolved, Unsigned(j), spend[j].nonce = n PROVE FALSE
    <3>1. j # k /\ j \in Keys
      BY <1>a, <2>1, <2>3, NonceTypes DEF unresolved
    <3>2. spend[k].nonce < spend[j].nonce
      BY <1>2, <2>3, <3>1 DEF NonceInv, UnsignedOnTop
    <3> QED BY <1>a, <2>1, <2>3, <3>2, NonceTypes
  <2> QED BY <2>2, <2>3, CoveredStays
<1> QED BY <1>1, <1>2, <1>a, LiveBefore

\* Every step keeps an unsigned row the newest.
LEMMA UnsignedOnTopStep ==
    ASSUME SignerInv, NonceInv, Effect \/ TimePasses
    PROVE  UnsignedOnTop'
<1> SUFFICES ASSUME NEW j \in Keys, Unsigned(j)', NEW k \in unresolved' \ {j}
             PROVE  spend'[k].nonce < spend'[j].nonce
  BY DEF UnsignedOnTop
<1>a. k \in Keys /\ spend'[k].state \in Live /\ k # j
  BY DEF unresolved
<1>1. CASE Takes(j)
  <2>1. spend'[j].nonce = nextNonce /\ spend'[k] = spend[k]
    BY <1>1, <1>a, TakesRow DEF OthersKept
  <2>2. k \in unresolved
    BY <1>a, <2>1 DEF unresolved
  <2> QED BY <2>1, <2>2, NonceTypes
<1>2. CASE Unsigned(j) /\ spend'[j].nonce = spend[j].nonce
  <2>1. ~Takes(k)
    BY <1>2, TakenWhenReady
  <2>2. k \in unresolved /\ spend'[k].nonce = spend[k].nonce
    BY <1>a, <2>1, LiveBefore
  <2> QED BY <1>2, <1>a, <2>2 DEF NonceInv, UnsignedOnTop
<1> QED BY <1>1, <1>2, UnsignedBefore

\* The allocator moves up only by a reservation and at boot.
LEMMA AllocatorMoves ==
    ASSUME SignerInv, NonceInv, Effect \/ TimePasses, pc # "boot_nonce"
    PROVE  nextNonce' <= nextNonce \/ \E k \in Keys : Takes(k)
<1>a. nextNonce \in Nat
  BY NonceTypes
<1>1. ASSUME NEW k \in Keys, RowEffect(k) PROVE nextNonce' <= nextNonce \/ Takes(k)
  <2>1. CASE Releases(k)
    BY <1>a, <2>1, ReleasesRow, NonceTypes
  <2>2. CASE SignsRow(k) \/ Broadcasts(k) \/ MinesUsed(k) \/ MinesReceipt(k)
    <3>1. nextNonce' = nextNonce
      BY <2>2, SignsRowRow, BroadcastsRow, MinesUsedRow, MinesReceiptRow
    <3> QED BY <1>a, <3>1
  <2> QED BY <1>1, <2>1, <2>2 DEF RowEffect
<1>2. CASE nextNonce' = nextNonce
  BY <1>a, <1>2
<1> QED BY <1>1, <1>2
     DEF Effect, Leaves, Notes, SetsNext, Delivers, Includes, TimePasses, books, Audit, ClearHalt

\* At boot the allocator is set just past what is covered.
LEMMA BootCovers ==
    ASSUME SignerInv, NonceInv, BootNonce
    PROVE  \A n \in chainNonce'..(nextNonce' - 1) : Covered(n)'
<1>1. PICK pending \in PendingCounts : SetNextNonce(BootNext(pending))
  BY DEF BootNonce
<1>2. nextNonce' = BootNext(pending) /\ UNCHANGED <<spend, signatures, chainNonce>>
  BY <1>1, Sane DEF SetNextNonce, BootNonce, chain
<1>3. \A n : Covered(n) => Covered(n)'
  BY <1>2 DEF Covered, unresolved
<1> SUFFICES ASSUME NEW n \in chainNonce..(BootNext(pending) - 1) PROVE Covered(n)
  BY <1>2, <1>3
<1>4. CASE BootNext(pending) = pending
  <2>1. PICK t \in pool : t.nonce = n
    BY <1>4 DEF PendingCounts
  <2>2. PICK a \in attempts : a.tx = t
    BY DEF SignerInv, BooksInv, KnownTxRecorded, Known
  <2>3. t \in signatures
    BY <2>2 DEF SignerInv, BooksInv, AttemptsAreOurs
  <2> QED BY <2>1, <2>3 DEF Covered
<1>5. CASE \E k \in unresolved : BootNext(pending) = spend[k].nonce + 1
  <2>1. PICK k \in unresolved : BootNext(pending) = spend[k].nonce + 1
    BY <1>5
  <2>2. spend[k].nonce \in Nat /\ chainNonce \in Nat
    BY NonceTypes
  <2>3. n = spend[k].nonce \/ n \in chainNonce..(spend[k].nonce - 1)
    BY <2>1, <2>2
  <2> QED BY <2>3 DEF Covered, NonceInv, BelowLiveCovered
<1> QED BY <1>4, <1>5, BootNextBounds

\* No step opens a hole below the allocator of a serving process.
LEMMA BelowNextStep ==
    ASSUME SignerInv, NonceInv, Next, Effect \/ TimePasses, ReadyInv'
    PROVE  BelowNextCovered'
<1> SUFFICES ASSUME ready' \/ pc' = "boot_audit"
             PROVE  \A n \in chainNonce'..(nextNonce' - 1) : Covered(n)'
  BY DEF BelowNextCovered
<1>1. CASE BootNonce
  BY <1>1, BootCovers
<1>2. CASE ready \/ pc = "boot_audit"
  <2> SUFFICES ASSUME NEW n \in chainNonce'..(nextNonce' - 1) PROVE Covered(n)'
    OBVIOUS
  <2>a. pc # "boot_nonce" /\ pc' # "down"
    BY <1>2 DEF NonceInv, ReadyInv
  <2>b. n \in Int /\ chainNonce <= n /\ n < nextNonce' /\ nextNonce' \in Int
    <3>1. nextNonce' \in Nat
      <4>1. [LNext]_lvars
        BY StepRefines
      <4> QED BY <4>1, DataTypeStep DEF LTypeOK
    <3>2. chainNonce \in Nat /\ chainNonce' \in Nat /\ chainNonce <= chainNonce'
      BY ChainNonceGrows, NonceTypes
    <3> DEFINE next == nextNonce'
    <3>3. next \in Int
      BY <3>1
    <3>4. n \in chainNonce'..(next - 1)
      BY Zenon
    <3> HIDE DEF next
    <3>5. n \in Int /\ chainNonce <= n /\ n < next
      BY <3>2, <3>3, <3>4
    <3> QED BY <3>3, <3>5 DEF next
  <2>1. CASE n < nextNonce
    <3>1. Covered(n)
      BY <1>2, <2>b, <2>1, NonceTypes DEF NonceInv, BelowNextCovered
    <3>2. ASSUME NEW j \in unresolved, Unsigned(j), spend[j].nonce = n, Ends(j) PROVE FALSE
      <4>1. j \in Keys
        BY DEF unresolved
      <4>2. pc \in Holding /\ j = op.key
        BY <1>2, <3>2, <4>1 DEF NonceInv, UnsignedIsHeld
      <4>3. MarkDead(j)
        BY <2>a, <3>2, <4>2 DEF Ends, Releases, MinesUsed, MinesReceipt, Holding
      <4>4. nextNonce = spend[j].nonce + 1
        BY <4>2 DEF NonceInv, HeldIsNewest
      <4>5. nextNonce' = n
        BY <3>2, <4>3, <4>4, Sane DEF MarkDead
      <4> QED BY <2>b, <4>5
    <3> QED BY <3>1, <3>2, CoveredStays
  <2>2. CASE ~(n < nextNonce)
    <3>1. PICK k \in Keys : Takes(k)
      BY <2>a, <2>b, <2>2, AllocatorMoves, NonceTypes
    <3>2. /\ spend'[k].state = "reserved" /\ spend'[k].nonce = nextNonce
          /\ nextNonce' = nextNonce + 1
      BY <3>1, TakesRow
    <3>3. n = nextNonce
      BY <2>b, <2>2, <3>2, NonceTypes
    <3> QED BY <3>2, <3>3 DEF Covered, unresolved, Live
  <2> QED BY <2>1, <2>2
<1> QED BY <1>1, <1>2, IntoBootAudit

\* Every step keeps the row being worked on the newest.
LEMMA HeldIsNewestStep ==
    ASSUME SignerInv, NonceInv, Next
    PROVE  HeldIsNewest'
<1> SUFFICES ASSUME pc' \in Holding PROVE nextNonce' = spend'[op'.key].nonce + 1
  BY DEF HeldIsNewest
<1>1. CASE pc = "reserve" /\ Reserve(op.key, op.amount, op.fee)
  <2>1. op.key \in Keys /\ spend \in [Keys -> Row]
    BY <1>1 DEF SignerInv, TypeOK, LTypeOK, ProcessInv, OpInv
  <2>2. spend'[op.key] = ReservedRow(op.key, op.amount, op.fee)
    BY <1>1, <2>1 DEF Reserve
  <2>3. spend'[op.key].nonce = nextNonce
    BY <2>1, <2>2 DEF ReservedRow, Row
  <2> QED BY <1>1, <2>3, IntoHolding DEF Reserve
<1>2. CASE pc \in Holding /\ UNCHANGED <<spend, nextNonce>>
  BY <1>2, IntoHolding DEF NonceInv, HeldIsNewest
<1> QED BY <1>1, <1>2, IntoHolding

\* No step of a serving process leaves an unsigned row behind.
LEMMA UnsignedIsHeldStep ==
    ASSUME SignerInv, NonceInv, Next, Effect \/ TimePasses, ReadyInv'
    PROVE  UnsignedIsHeld'
<1> SUFFICES ASSUME ready' \/ pc' \in {"boot_nonce", "boot_audit"}, NEW k \in Keys, Unsigned(k)'
             PROVE  pc' \in Holding /\ k = op'.key
  BY DEF UnsignedIsHeld
<1>1. CASE Takes(k)
  BY <1>1, TakenIsHeld
<1>2. CASE Unsigned(k)
  <2>1. CASE ready \/ pc \in {"boot_nonce", "boot_audit"}
    <3>1. pc \in Holding /\ k = op.key
      BY <1>2, <2>1 DEF NonceInv, UnsignedIsHeld
    <3>2. pc' # "down"
      BY DEF ReadyInv
    <3>3. spend'[k].state = "reserved"
      BY DEF Unsigned
    <3> QED BY <3>1, <3>2, <3>3, OutOfHolding
  <2>2. CASE rec.back = "boot" /\ rec.todo = {}
    BY <1>2, <2>2 DEF NonceInv, UnsignedInLoop
  <2> QED BY <2>1, <2>2, IntoReady
<1> QED BY <1>1, <1>2, UnsignedBefore

\* The loop at boot never drops an unsigned row from its list unreleased.
LEMMA UnsignedInLoopStep ==
    ASSUME SignerInv, NonceInv, Next, Effect \/ TimePasses
    PROVE  UnsignedInLoop'
<1> SUFFICES ASSUME rec'.back = "boot", NEW k \in Keys, Unsigned(k)' PROVE k \in rec'.todo
  BY DEF UnsignedInLoop
<1>1. Unsigned(k) /\ k \in unresolved
  BY UnsignedBefore, LoopAtBoot DEF Takes
<1>2. rec.back = "boot" => k \in rec.todo
  BY <1>1 DEF NonceInv, UnsignedInLoop
<1> QED BY <1>1, <1>2, LoopAtBoot

\* No nonce has been handed out at the start.
LEMMA NonceInvInit == Init => NonceInv
<1> SUFFICES ASSUME Init PROVE NonceInv
  OBVIOUS
<1>1. /\ pc = "down" /\ ready = FALSE /\ rec.back = "none" /\ clockSteps = 0
      /\ maxTs = 0 /\ wall = 1 + ClockAhead
  BY DEF Init, LInit, NoRec
<1>2. \A k \in Keys : spend[k].state = "none"
  BY DEF Init, LInit, NoRow
<1>3. unresolved = {} /\ \A k \in Keys : ~Unsigned(k)
  BY <1>2 DEF unresolved, Live, Unsigned
<1>4. maxTs <= wall
  BY <1>1, PolicyConstants
<1> QED BY <1>1, <1>3, <1>4
     DEF NonceInv, ReadyInv, Serving, Holding, Sending, BelowLiveCovered, BelowNextCovered,
         UnsignedOnTop, HeldIsNewest, UnsignedIsHeld, UnsignedInLoop

\* Every step preserves the invariant of the nonces.
LEMMA NonceInvNext ==
    ASSUME SteadyClock
    PROVE  SignerInv /\ NonceInv /\ [Next]_vars => NonceInv'
<1>1. ASSUME SignerInv, NonceInv, Next PROVE NonceInv'
  <2>1. (Effect \/ TimePasses) /\ clockSteps' = 0
    BY <1>1, SteadyStep
  <2>2. maxTs' <= wall'
    BY <1>1, <2>1, TicksStep
  <2>3. ReadyInv'
    BY <1>1, ReadyStep
  <2>4. BelowLiveCovered' /\ UnsignedOnTop'
    BY <1>1, <2>1, BelowLiveStep, UnsignedOnTopStep
  <2>5. BelowNextCovered' /\ HeldIsNewest'
    BY <1>1, <2>1, <2>3, BelowNextStep, HeldIsNewestStep
  <2>6. UnsignedIsHeld' /\ UnsignedInLoop'
    BY <1>1, <2>1, <2>3, UnsignedIsHeldStep, UnsignedInLoopStep
  <2> QED BY <2>1, <2>2, <2>3, <2>4, <2>5, <2>6 DEF NonceInv
<1>2. ASSUME NonceInv, UNCHANGED vars PROVE NonceInv'
  <2>1. UNCHANGED <<spend, attempts, nextNonce, maxTs, wall, chainNonce, pc, ready, op, rec,
                    signatures, clockSteps>>
    BY <1>2 DEF vars, lvars, books, chain, process, history
  <2>2. unresolved' = unresolved
    BY <2>1 DEF unresolved
  <2>3. \A n : Covered(n) <=> Covered(n)'
    BY <2>1, <2>2 DEF Covered
  <2>4. \A k : Unsigned(k) <=> Unsigned(k)'
    BY <2>1 DEF Unsigned
  <2>5. ReadyInv' /\ BelowLiveCovered' /\ BelowNextCovered'
    BY <1>2, <2>1, <2>2, <2>3 DEF NonceInv, ReadyInv, BelowLiveCovered, BelowNextCovered
  <2>6. UnsignedOnTop' /\ HeldIsNewest' /\ UnsignedIsHeld' /\ UnsignedInLoop'
    BY <1>2, <2>1, <2>2, <2>4
       DEF NonceInv, UnsignedOnTop, HeldIsNewest, UnsignedIsHeld, UnsignedInLoop
  <2> QED BY <1>2, <2>1, <2>5, <2>6 DEF NonceInv
<1> QED BY <1>1, <1>2

\* While the process serves, no reservation that never reached the key leaves a
\* hole below the allocator: mark_dead gives an unsigned nonce back, and the loop
\* at boot releases what a crash left unsigned before set_next_nonce.  It does not
\* say that there is no hole: the nonce of a signed transaction that was rejected
\* and released stays spent.
THEOREM OnlySigningSpendsNonces ==
    ASSUME SteadyClock
    PROVE  Spec => []NoUnsignedGap
<1>1. Init => NonceInv
  BY NonceInvInit
<1>2. SignerInv /\ NonceInv /\ [Next]_vars => NonceInv'
  BY NonceInvNext
<1>3. NonceInv => NoUnsignedGap
  BY DEF NonceInv, BelowNextCovered, NoUnsignedGap, Covered
<1> QED BY <1>1, <1>2, <1>3, SignerInvHolds, PTL DEF Spec

==============================================================================
