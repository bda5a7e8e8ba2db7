---------------------------- MODULE PolicySigner ----------------------------
(***************************************************************************)
(* The signing process (escrow_signer/policy.py, with the part of          *)
(* server.py and __main__.py that calls it) over its books and the chain.  *)
(*                                                                         *)
(* One signing lock serialises POST requests and sweeps, so the process is *)
(* a single control state pc.  A step is what runs between two points      *)
(* where somebody else can act: an RPC read, a ledger method or a crash.   *)
(* Between any two steps blocks are built, the clock moves, a request      *)
(* refused before the lock writes its audit row, or the process dies.      *)
(***************************************************************************)
EXTENDS Ledger, EscrowChain

CONSTANTS
    MinSkew,        \* MIN_DEADLINE_SKEW_S
    MaxTtl,         \* MAX_DEADLINE_TTL_S
    GiveUp,         \* SWEEP_GIVE_UP_S
    ClockAhead,     \* how far the host's clock runs ahead of block timestamps
    MaxCrashes,     \* bound: how often the process may die
    MaxClockSteps   \* bound: how often the host's clock is stepped back

ASSUME PolicyConstants ==
    /\ MinSkew \in Nat /\ MaxTtl \in Nat /\ GiveUp \in Nat /\ ClockAhead \in Nat /\ ClockAhead < MaxTime
    /\ MaxCrashes \in Nat /\ MaxClockSteps \in Nat

VARIABLES
    pc,         \* where the process is
    ready,      \* PolicySigner.ready
    op,         \* the request or sweep being worked on
    rec,        \* the loop of _reconcile or of sweep_proceeds over unresolved rows
    signatures, \* history: every transaction the key has signed
    crashes, clockSteps

process == <<pc, ready, op, rec>>

history == <<signatures, crashes, clockSteps>>

vars == <<lvars, chain, blockTime, process, history>>

NoOp == [key |-> "none", amount |-> 0, fee |-> 0, answer |-> "none"]

NoRec == [todo |-> {}, absent |-> {}, now |-> 0, back |-> "none"]

Init ==
    /\ LInit
    /\ wall = 1 + ClockAhead
    /\ ChainInit
    /\ blockTime = 1
    /\ pc = "down"
    /\ ready = FALSE
    /\ op = NoOp
    /\ rec = NoRec
    /\ signatures = {}
    /\ crashes = 0
    /\ clockSteps = 0

-----------------------------------------------------------------------------
(***************************************************************************)
(* Control.                                                                *)
(***************************************************************************)

Goto(p) == pc' = p

\* an answer is decided: _decide or _audit_sweep still has to write it
Decide(answer) == pc' = "answer" /\ op' = [op EXCEPT !.answer = answer]

Done == pc' = "idle" /\ op' = NoOp

Exit == pc' = "down" /\ ready' = FALSE /\ op' = NoOp /\ rec' = NoRec

\* rows in seq order
FirstRow == CHOOSE k \in rec.todo : \A j \in rec.todo : spend[k].seq <= spend[j].seq

Unread(k) == attempts_for(k) \ rec.absent

\* attempts in seq order
FirstAttempt(k) == CHOOSE a \in Unread(k) : \A b \in Unread(k) : a.seq <= b.seq

StartReconcile(back) ==
    /\ Goto("rec_used")
    /\ rec' = [todo |-> unresolved, absent |-> {}, now |-> wall, back |-> back]

\* Mutant: the loop does not move on to the next row.
NextRowStays == rec' = [rec EXCEPT !.absent = {}]

NextRow == rec' = [rec EXCEPT !.todo = @ \ {FirstRow}, !.absent = {}]

\* an exception nobody named: the server answers 500, the sweep loop logs it
Raise == IF op.key \in Sweeps THEN Done ELSE Decide("refused")

\* a ledger write that found the clock behind raises, and boot dies of it
AfterWrite(p) ==
    IF ClockSane
    THEN Goto(p) /\ NextRow /\ UNCHANGED <<ready, op>>
    ELSE IF rec.back = "boot"
         THEN Exit
         ELSE Raise /\ rec' = NoRec /\ UNCHANGED ready

-----------------------------------------------------------------------------
(***************************************************************************)
(* Boot and _reconcile.                                                    *)
(***************************************************************************)

\* verify_chains (module AuditChain) passed; a halted ledger is served refusing
Boot ==
    /\ pc = "down"
    /\ Goto(IF halted THEN "idle" ELSE "boot_identity")
    /\ UNCHANGED <<books, chain, ready, op, rec, signatures>>

\* _verify_chain_identity passes
BootIdentity ==
    /\ pc = "boot_identity"
    /\ StartReconcile("boot")
    /\ UNCHANGED <<books, chain, ready, op, signatures>>

RecUsed ==
    /\ pc = "rec_used"
    /\ rec.todo # {}
    /\ \E used \in Reads(receipt_used(FirstRow)) :
           IF used
           THEN MarkMined(FirstRow, NoTx, 0) /\ AfterWrite("rec_used")
           ELSE Goto("rec_receipts") /\ UNCHANGED <<books, ready, op, rec>>
    /\ UNCHANGED <<chain, signatures>>

\* one eth_getTransactionReceipt; the first attempt that has one decides
RecReceipt ==
    /\ pc = "rec_receipts"
    /\ Unread(FirstRow) # {}
    /\ LET k == FirstRow
           a == FirstAttempt(k)
       IN  \/ /\ HasReceipt(a.tx, TRUE)
              /\ \E fee \in 1..a.tx.fee : MarkMined(k, a.tx, fee)
              /\ AfterWrite("rec_used")
           \/ /\ HasReceipt(a.tx, FALSE)
              /\ MarkDead(k)
              /\ AfterWrite("rec_used")
           \/ /\ FALSE \in Reads(HasReceipt(a.tx, TRUE) \/ HasReceipt(a.tx, FALSE))
              /\ rec' = [rec EXCEPT !.absent = @ \cup {a}]
              /\ UNCHANGED <<books, pc, ready, op>>
    /\ UNCHANGED <<chain, signatures>>

\* reserved, and no attempt of this row carries its nonce
NeverSigned(k) ==
    /\ spend[k].state = "reserved"
    /\ \A a \in attempts_for(k) : a.tx.nonce # spend[k].nonce

\* Mutant: the clock is read when the row is classified, after the chain reads.
PastDeadlineByNow(k) == wall > Deadline[k]

\* Mutant: the deadline's own second counts as past.
PastDeadlineEarly(k) == rec.now >= Deadline[k]

\* Mutant: no receipt is taken as proof that nothing can land.
NoReceiptIsProof(k) == TRUE

\* now was read before the first row was looked at
PastDeadline(k) == rec.now > Deadline[k]

\* no receipt anywhere: release what cannot land, leave the rest live
RecClassify ==
    /\ pc = "rec_receipts"
    /\ Unread(FirstRow) = {}
    /\ IF NeverSigned(FirstRow) \/ PastDeadline(FirstRow)
       THEN MarkDead(FirstRow) /\ AfterWrite("rec_used")
       ELSE Goto("rec_used") /\ NextRow /\ UNCHANGED <<books, ready, op>>
    /\ UNCHANGED <<chain, signatures>>

\* _replay reads the row again once every live row has been classified
AfterReplay(row) ==
    \/ row.state = "mined" /\ row.tx # NoTx /\ Decide("hash")
    \/ row.state = "dead" /\ Goto("preflight") /\ UNCHANGED op
    \/ /\ row.state # "dead" /\ (row.state = "mined" => row.tx = NoTx)
       /\ Decide("refused")

RecDone ==
    /\ pc = "rec_used"
    /\ rec.todo = {}
    /\ IF rec.back = "boot"
       THEN Goto("boot_nonce") /\ UNCHANGED op
       ELSE AfterReplay(spend[op.key])
    /\ rec' = NoRec
    /\ UNCHANGED <<books, chain, ready, signatures>>

\* an RPC error ends the loop: boot serves refusing, the request answers 409
RecRpcDown ==
    /\ pc \in {"rec_used", "rec_receipts"}
    /\ rec.todo # {}
    /\ pc = "rec_receipts" => Unread(FirstRow) # {}
    /\ IF rec.back = "boot" THEN Goto("idle") /\ UNCHANGED op ELSE Decide("refused")
    /\ rec' = NoRec
    /\ UNCHANGED <<books, chain, ready, signatures>>

\* Mutant: the allocator follows the node's pending count alone.
BootNextPending(pending) == pending

\* max(chain_nonce, highest + 1): past the pending count and past every live row
BootNext(pending) == Max({pending} \cup {spend[k].nonce + 1 : k \in unresolved})

BootNonce ==
    /\ pc = "boot_nonce"
    /\ \E pending \in PendingCounts : SetNextNonce(BootNext(pending))
    /\ IF ClockSane THEN Goto("boot_audit") /\ UNCHANGED <<ready, op, rec>> ELSE Exit
    /\ UNCHANGED <<chain, signatures>>

BootRpcDown ==
    /\ pc \in {"boot_identity", "boot_nonce"}
    /\ Goto("idle")
    /\ UNCHANGED <<books, chain, ready, op, rec, signatures>>

\* record_boot and the boot's audit row
BootAudit ==
    /\ pc = "boot_audit"
    /\ Audit
    /\ IF ClockSane
       THEN Goto("idle") /\ ready' = TRUE /\ UNCHANGED <<op, rec>>
       ELSE Exit
    /\ UNCHANGED <<chain, signatures>>

-----------------------------------------------------------------------------
(***************************************************************************)
(* handle: the debit and the expiry, up to the reservation.                *)
(***************************************************************************)

Accepting == pc = "idle" /\ ready /\ ~halted

\* R11: the deadline's band
InBand(k) == Deadline[k] >= wall + MinSkew /\ Deadline[k] <= wall + MaxTtl

Begin(k, amount) == op' = [NoOp EXCEPT !.key = k, !.amount = amount]

Answer(k, amount, answer) ==
    pc' = "answer" /\ op' = [NoOp EXCEPT !.key = k, !.amount = amount, !.answer = answer]

\* Mutant: a collected row is answered without looking whether it has a hash.
ReplayAnyHash(k, amount) ==
    LET same == spend[k].amount = amount
        open == spend[k].state \in {"reserved", "signed"}
    IN  \/ ~same /\ Answer(k, amount, "refused") /\ UNCHANGED rec
        \/ same /\ open /\ Begin(k, amount) /\ StartReconcile("replay")
        \/ same /\ spend[k].state = "dead" /\ Begin(k, amount) /\ Goto("preflight")
             /\ UNCHANGED rec
        \/ same /\ spend[k].state \in {"broadcast", "mined"} /\ Answer(k, amount, "hash")
             /\ UNCHANGED rec

\* R17: the same receipt is the same debit, or a conflict
Replay(k, amount) ==
    LET same  == spend[k].amount = amount
        known == spend[k].state \in {"broadcast", "mined"} /\ spend[k].tx # NoTx
        open  == spend[k].state \in {"reserved", "signed"}
    IN  \/ ~same /\ Answer(k, amount, "refused") /\ UNCHANGED rec
        \/ same /\ known /\ Answer(k, amount, "hash") /\ UNCHANGED rec
        \/ same /\ open /\ Begin(k, amount) /\ StartReconcile("replay")
        \/ same /\ ~known /\ ~open /\ Begin(k, amount) /\ Goto("preflight") /\ UNCHANGED rec

RequestDebit(k, amount) ==
    /\ Accepting
    /\ InBand(k)
    /\ nextNonce < MaxNonce
    /\ IF Exists(k)
       THEN Replay(k, amount)
       ELSE Begin(k, amount) /\ Goto("preflight") /\ UNCHANGED rec
    /\ UNCHANGED <<books, chain, ready, signatures>>

\* done or in flight: the stored hash again
RequestExpire(k) ==
    /\ Accepting
    /\ nextNonce < MaxNonce
    /\ IF spend[k].state \in {"signed", "broadcast", "mined"}
       THEN Answer(k, 0, "hash")
       ELSE Begin(k, 0) /\ Goto("preflight")
    /\ UNCHANGED <<books, chain, ready, rec, signatures>>

\* identity, channel, receipt, depositor signature, gas and fee: reads only.  Any of
\* them may refuse; a quote means estimate_gas executed the call
Preflight ==
    /\ pc = "preflight"
    /\ \/ /\ Accepts(op.key)
          /\ \E fee \in Fees : op' = [op EXCEPT !.fee = fee]
          /\ Goto("reserve")
       \/ Decide("refused")
       \/ op.key \in Sweeps /\ Done
    /\ UNCHANGED <<books, chain, ready, rec, signatures>>

\* a sweep is not simulated again: its gas estimate was the simulation
AfterReserve == IF op.key \in Sweeps THEN "sign" ELSE "simulate"

\* reserve audits a revived row after its commit, reserve_gas_only every row
AuditsReservation(k) == k \in GasOnly \/ Exists(k)

ReserveRow ==
    /\ pc = "reserve"
    /\ Reserve(op.key, op.amount, op.fee)
    /\ Goto(IF AuditsReservation(op.key) THEN "reserve_audit" ELSE AfterReserve)
    /\ UNCHANGED <<chain, ready, op, rec, signatures>>

\* a cap, the clock, a row that is not dead, or the unique index on the nonce
ReserveRefused ==
    /\ pc = "reserve"
    /\ ~MayReserve(op.key, op.amount, op.fee)
    /\ halted' = (halted \/ ~ClockSane)
    /\ Decide("refused")
    /\ UNCHANGED <<spend, attempts, nextNonce, maxTs, maxSeq, chain, ready, rec, signatures>>

ReserveAudit ==
    /\ pc = "reserve_audit"
    /\ Audit
    /\ IF ClockSane THEN Goto(AfterReserve) /\ UNCHANGED op ELSE Decide("refused")
    /\ UNCHANGED <<chain, ready, rec, signatures>>

-----------------------------------------------------------------------------
(***************************************************************************)
(* Simulate, sign, record, send: the same road for all three kinds.        *)
(***************************************************************************)

Simulate ==
    /\ pc = "simulate"
    /\ \/ Accepts(op.key) /\ Goto("sign") /\ UNCHANGED <<books, op>>
       \/ MarkDead(op.key) /\ Decide("refused")
    /\ UNCHANGED <<chain, ready, rec, signatures>>

Signs == signatures' = signatures \cup {TxOf(op.key)}

\* the transaction is recorded before anybody else can have it
Sign ==
    /\ pc = "sign"
    /\ Signs
    /\ MarkSigned(op.key)
    /\ IF ClockSane THEN Goto("send") /\ UNCHANGED op ELSE Raise
    /\ UNCHANGED <<chain, ready, rec>>

SigningFailed ==
    /\ pc = "sign"
    /\ MarkDead(op.key)
    /\ Decide("refused")
    /\ UNCHANGED <<chain, ready, rec, signatures>>

Undelivered == UNCHANGED pool

\* send_raw tries every endpoint: one may hold the transaction although the next
\* one rejects it or none of them answers
Send ==
    /\ pc = "send"
    /\ LET tx == spend[op.key].tx
       IN  \/ Deliver(tx) /\ Goto("accepted") /\ UNCHANGED op
           \/ /\ Undelivered \/ (~RejectsAreFinal /\ Deliver(tx))
              /\ Goto("rejected") /\ UNCHANGED op
           \/ /\ Undelivered \/ Deliver(tx)
              /\ IF op.key \in Sweeps THEN Done ELSE Decide("refused")
    /\ UNCHANGED <<books, chainNonce, landed, ready, rec, signatures>>

Accepted ==
    /\ pc = "accepted"
    /\ MarkBroadcast(op.key)
    /\ IF ClockSane THEN Decide("hash") ELSE Raise
    /\ UNCHANGED <<chain, ready, rec, signatures>>

Rejected ==
    /\ pc = "rejected"
    /\ MarkDead(op.key)
    /\ Decide("refused")
    /\ UNCHANGED <<chain, ready, rec, signatures>>

\* the decision's audit row; without it a 200 becomes a 503
Respond ==
    /\ pc = "answer"
    /\ Audit
    /\ Done
    /\ UNCHANGED <<chain, ready, rec, signatures>>

-----------------------------------------------------------------------------
(***************************************************************************)
(* sweep_proceeds: the timer's own call, under the same lock.              *)
(***************************************************************************)

\* every sweep has a fresh key, since the key hashes the second it starts in
StartSweep(k) ==
    /\ pc = "idle"
    /\ ready
    /\ ~Exists(k)
    /\ nextNonce < MaxNonce
    /\ Begin(k, 0)
    /\ Goto("settle")
    /\ rec' = [NoRec EXCEPT !.todo = unresolved \cap Sweeps, !.back = "sweep"]
    /\ UNCHANGED <<books, chain, ready, signatures>>

SettleReceipt ==
    /\ pc = "settle"
    /\ rec.todo # {}
    /\ Unread(FirstRow) # {}
    /\ LET k == FirstRow
           a == FirstAttempt(k)
       IN  \/ /\ HasReceipt(a.tx, TRUE)
              /\ \E fee \in 1..a.tx.fee : MarkMined(k, a.tx, fee)
              /\ AfterWrite("settle")
           \/ /\ HasReceipt(a.tx, FALSE)
              /\ MarkDead(k)
              /\ AfterWrite("settle")
           \/ /\ FALSE \in Reads(HasReceipt(a.tx, TRUE) \/ HasReceipt(a.tx, FALSE))
              /\ rec' = [rec EXCEPT !.absent = @ \cup {a}]
              /\ UNCHANGED <<books, pc, ready, op>>
    /\ UNCHANGED <<chain, signatures>>

GivenUp(k) == spend[k].state = "reserved" \/ wall - spend[k].ts > GiveUp

SettleGiveUp ==
    /\ pc = "settle"
    /\ rec.todo # {}
    /\ Unread(FirstRow) = {}
    /\ GivenUp(FirstRow)
    /\ MarkDead(FirstRow)
    /\ AfterWrite("settle")
    /\ UNCHANGED <<chain, signatures>>

\* the last sweep is still in flight, or the RPC is down
SettleStops ==
    /\ pc = "settle"
    /\ rec.todo # {}
    /\ Unread(FirstRow) # {} \/ ~GivenUp(FirstRow)
    /\ Done
    /\ rec' = NoRec
    /\ UNCHANGED <<books, chain, ready, signatures>>

Settled ==
    /\ pc = "settle"
    /\ rec.todo = {}
    /\ Goto("preflight")
    /\ rec' = NoRec
    /\ UNCHANGED <<books, chain, ready, op, signatures>>

-----------------------------------------------------------------------------
(***************************************************************************)
(* Everybody else.                                                         *)
(***************************************************************************)

\* the server listens only once boot is over
Listening ==
    /\ pc \notin {"down", "boot_identity", "boot_nonce", "boot_audit"}
    /\ rec.back # "boot"

\* a request refused before the signing lock (401, 413), or before any work under it
AuditOnly ==
    /\ Listening
    /\ Audit
    /\ UNCHANGED <<chain, process, signatures>>

\* an operator puts the clock right, then clears the halt
OperatorClearsHalt ==
    /\ halted
    /\ ClockSane
    /\ ClearHalt
    /\ UNCHANGED <<chain, process, signatures>>

\* the row a torn mark_dead can hit
Releasing(k) ==
    \/ pc \in {"simulate", "sign", "rejected"} /\ k = op.key
    \/ /\ pc \in {"rec_receipts", "settle"}
       /\ rec.todo # {}
       /\ k = FirstRow
       /\ IF Unread(k) # {}
          THEN HasReceipt(FirstAttempt(k).tx, FALSE)
          ELSE IF pc = "settle" THEN GivenUp(k) ELSE NeverSigned(k) \/ PastDeadline(k)

\* the process dies; at boot also of a chain that answers and disagrees with the
\* pins, which boot does not catch
Crash ==
    /\ pc # "down"
    /\ crashes < MaxCrashes
    /\ crashes' = crashes + 1
    /\ \/ UNCHANGED <<books, signatures>>
       \/ pc = "sign" /\ Signs /\ TornMarkSigned(op.key)
       \/ \E k \in Keys : Releasing(k) /\ TornMarkDead(k) /\ UNCHANGED signatures
    /\ Exit
    /\ UNCHANGED <<chain, wall, blockTime, clockSteps>>

BlockIncludes == Include /\ UNCHANGED <<books, process, signatures>>

TimePasses ==
    /\ wall < MaxTime
    /\ wall' = wall + 1
    /\ blockTime' = blockTime + 1
    /\ UNCHANGED <<books, chain, process, history>>

ClockStepsBack ==
    /\ clockSteps < MaxClockSteps
    /\ clockSteps' = clockSteps + 1
    /\ wall' \in 0..(wall - 1)
    /\ UNCHANGED <<books, chain, blockTime, process, signatures, crashes>>

-----------------------------------------------------------------------------

Reconciles == RecUsed \/ RecReceipt \/ RecClassify \/ RecDone \/ RecRpcDown

Boots == Boot \/ BootIdentity \/ BootNonce \/ BootRpcDown \/ BootAudit

Asked ==
    \/ \E k \in Debits, amount \in Amounts : RequestDebit(k, amount)
    \/ \E k \in Expires : RequestExpire(k)
    \/ \E k \in Sweeps : StartSweep(k)

\* the thread that holds the signing lock goes on
Works ==
    \/ Preflight \/ ReserveRow \/ ReserveRefused \/ ReserveAudit
    \/ Simulate \/ Sign \/ SigningFailed \/ Send \/ Accepted \/ Rejected \/ Respond
    \/ SettleReceipt \/ SettleGiveUp \/ SettleStops \/ Settled

Steps == Boots \/ Reconciles \/ Asked \/ Works \/ AuditOnly \/ OperatorClearsHalt
         \/ BlockIncludes

Next ==
    \/ Steps /\ UNCHANGED <<wall, blockTime, crashes, clockSteps>>
    \/ Crash
    \/ TimePasses
    \/ ClockStepsBack

Spec == Init /\ [][Next]_vars

-----------------------------------------------------------------------------
(***************************************************************************)
(* Properties.                                                             *)
(***************************************************************************)

Pcs == {"down", "idle", "rec_used", "rec_receipts", "boot_identity", "boot_nonce", "boot_audit",
        "preflight", "reserve", "reserve_audit", "simulate", "sign", "send",
        "accepted", "rejected", "answer", "settle"}

\* The process, its books and the chain hold values of their types.
TypeOK ==
    /\ LTypeOK
    /\ ChainTypeOK
    /\ pc \in Pcs
    /\ ready \in BOOLEAN
    /\ op \in [key : Keys \cup {"none"}, amount : Nat, fee : Nat,
              answer : {"none", "refused", "hash"}]
    /\ rec \in [todo : SUBSET Keys, absent : SUBSET attempts, now : Nat,
               back : {"none", "boot", "replay", "sweep"}]
    /\ signatures \subseteq Tx

Known == pool \cup {l.tx : l \in landed}

\* Whatever a node holds or a block carried, the books recorded as an attempt
\* of its row before it left the process: a crash between signing and sending
\* can lose a transaction, never a record of one.
KnownTxRecorded ==
    \A t \in Known : \E a \in attempts : a.tx = t

\* A debit the chain collected is a row that holds budget, for the amount that
\* moved, or is about to be classified: it is never released, whatever crash,
\* lost answer, replay or restart came in between.
LandedIsCounted ==
    \A l \in landed :
        (l.ok /\ l.tx.key \in Debits)
            => /\ spend[l.tx.key].state \in Counted
               /\ spend[l.tx.key].amount = l.tx.amount

\* A released debit is one no block can still collect: a transaction of it that
\* a node holds is past its deadline.  This is what makes it safe to free its
\* budget and to sign the receipt again at another nonce.
DeadCannotLand ==
    \A t \in pool :
        (t.key \in Debits /\ spend[t.key].state = "dead") => ~Accepts(t.key)

\* No receipt ever has two different transactions with the nodes: a retry, a
\* replay or a restart answers with the first one or waits for it.
OneTxPerReceipt ==
    \A t, u \in Known : (t.key = u.key /\ t.key \in Debits) => t = u

\* While the process serves, a nonce the chain still waits for below the allocator
\* is held by a live row or was carried by a transaction the key signed: a
\* reservation that never reached the key leaves no hole behind which every later
\* debit would queue, whether its simulation failed or the process died on the way.
\* A hole may still be left by a transaction that was signed and then rejected by
\* the nodes: its nonce stays spent, because a node may hold it (mark_dead).
NoUnsignedGap ==
    (ready /\ pc = "idle") =>
        \A n \in chainNonce..(nextNonce - 1) :
            \/ \E t \in signatures : t.nonce = n
            \/ \E k \in unresolved : spend[k].nonce = n

\* Outside boot the allocator steps back only to a nonce of which no node holds
\* a transaction and no block carried one (mark_dead's promise).
GivesBackOnlyUnknown ==
    [][(pc # "boot_nonce" /\ nextNonce' < nextNonce)
           => \A t \in Known : t.nonce # nextNonce']_vars

\* A 200 carries the hash of a transaction the key signed for that very
\* receipt, and for the amount the caller asked for.
AnswerIsOurs ==
    (pc = "answer" /\ op.answer = "hash") =>
        \E t \in signatures :
            t = spend[op.key].tx /\ t.key = op.key /\ t.amount = op.amount

\* One sweep in flight at a time.
OneSweepInFlight ==
    \A t, u \in pool : (t.key \in Sweeps /\ u.key \in Sweeps) => t = u

-----------------------------------------------------------------------------
(***************************************************************************)
(* Progress.  Fair: the process is restarted when it has died, and the     *)
(* thread that holds the signing lock keeps running; every RPC call ends,  *)
(* by its timeout if not by an answer.  Not fair: requests, blocks, time.  *)
(***************************************************************************)

Runs == (Boots \/ Reconciles \/ Works) /\ UNCHANGED <<wall, blockTime, crashes, clockSteps>>

FairSpec == Spec /\ WF_vars(Runs)

\* The signing lock is always released again: whatever rows, attempts and
\* receipts a loop finds, and however often the process dies or its clock is
\* stepped back on the way, it comes back to serving.
AlwaysServesAgain == []<>(pc = "idle")

=============================================================================
