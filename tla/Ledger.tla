------------------------------- MODULE Ledger -------------------------------
(***************************************************************************)
(* The signer's own books (escrow_signer/ledger.py): the spend rows, the   *)
(* recorded attempts, the account-nonce allocator and the clock guard.     *)
(*                                                                         *)
(* Every method of the class runs under one re-entrant mutex, so a method  *)
(* is one action.  Only reserve and reserve_gas_only open a transaction;   *)
(* the other methods are several autocommitted statements, and a process   *)
(* that stops between them leaves the books as the Torn actions do.        *)
(*                                                                         *)
(* A statement that needs the clock may find it behind max_ts by more than *)
(* the tolerance: it then writes the halt and raises, and what the method  *)
(* had already written stays.                                              *)
(***************************************************************************)
EXTENDS Requests, FiniteSetsExt

CONSTANTS
    Caps,           \* the velocity caps; Unlimited (-1) switches one off
    MaxGasOnly,     \* SIGNER_MAX_GAS_ONLY_PER_24H
    W10m, W1h, W24h,\* the three windows, in model time
    Tol,            \* CLOCK_TOLERANCE_S
    MaxNonce,       \* bound: the allocator hands out nonces below it
    MaxTime         \* bound: the clock shows 0..MaxTime

VARIABLES
    spend,      \* the spend table; state "none" is a row not yet inserted
    attempts,   \* the tx_attempt table, each with the seq that orders it
    nextNonce,  \* nonce_alloc.next_nonce
    maxTs,      \* clock_guard.max_ts
    maxSeq,     \* clock_guard.max_seq, counting only the values a row stores
    halted,     \* clock_guard.halted
    wall        \* what the host's clock shows

books == <<spend, attempts, nextNonce, maxTs, maxSeq, halted>>

lvars == <<books, wall>>

Unlimited == -1

Limit == Nat \cup {Unlimited}

ASSUME CapsType ==
    Caps \in [units_per_tx : Limit, units_10m : Limit, units_1h : Limit,
              units_24h : Limit, units_channel_24h : Limit, tx_1h : Limit,
              tx_24h : Limit, tx_per_channel_24h : Limit,
              distinct_channels_24h : Limit, fee_wei_24h : Limit]

ASSUME MaxGasOnlyType == MaxGasOnly \in Limit

ASSUME WindowsType ==
    /\ W10m \in Nat /\ W1h \in Nat /\ W24h \in Nat
    /\ W10m <= W1h /\ W1h <= W24h

ASSUME TolType == Tol \in Nat

ASSUME BoundsType == MaxNonce \in Nat /\ MaxTime \in Nat

-----------------------------------------------------------------------------
(***************************************************************************)
(* Rows.                                                                   *)
(***************************************************************************)

\* Mutant: budget is held only once the key has signed.
CountedFromSigning == {"signed", "broadcast", "mined"}

Counted == {"reserved", "signed", "broadcast", "mined"}

Live == {"reserved", "signed", "broadcast"}

States == Counted \cup {"none", "dead"}

\* fee is the exposure fee_wei_window sums: spent where known, else the ceiling
Row == [state : States, amount : Nat, ts : Nat, seq : Nat, nonce : Nat,
        fee : Nat, tx : Tx \cup {NoTx}]

NoRow == [state |-> "none", amount |-> 0, ts |-> 0, seq |-> 0, nonce |-> 0,
          fee |-> 0, tx |-> NoTx]

\* the transaction a reserved row is signed into
TxOf(k) == [key |-> k, amount |-> spend[k].amount, nonce |-> spend[k].nonce,
            fee |-> spend[k].fee]

unresolved == {k \in Keys : spend[k].state \in Live}

attempts_for(k) == {a \in attempts : a.tx.key = k}

Exists(k) == spend[k].state # "none"

-----------------------------------------------------------------------------
(***************************************************************************)
(* The clock guard.                                                        *)
(***************************************************************************)

ClockSane == wall >= maxTs - Tol

\* ts = max(wall, max_ts)
TickTs == IF wall > maxTs THEN wall ELSE maxTs

\* tick and audit: a new timestamp, or the halt
Tick == IF ClockSane THEN maxTs' = TickTs /\ UNCHANGED halted
                     ELSE halted' = TRUE /\ UNCHANGED maxTs

-----------------------------------------------------------------------------
(***************************************************************************)
(* Window totals over the rows that hold budget.                           *)
(***************************************************************************)

InWindow(cut) == {k \in Keys : spend[k].state \in Counted /\ spend[k].ts > cut}

OnChannel(ch, cut) == {k \in InWindow(cut) : ChannelOf[k] = ch}

Units(S) == MapThenSumSet(LAMBDA k : spend[k].amount, S)

\* gas-only rows carry no token and no amount, so they add nothing here
window_units(cut) == Units(InWindow(cut) \cap Debits)

window_count(cut) == Cardinality(InWindow(cut))

channel_units(ch, cut) == Units(OnChannel(ch, cut))

channel_count(ch, cut) == Cardinality(OnChannel(ch, cut))

distinct_channels(cut) == Cardinality({ChannelOf[k] : k \in InWindow(cut)})

fee_wei_window(cut) == MapThenSumSet(LAMBDA k : spend[k].fee, InWindow(cut))

\* the rows with amount_units = 0
gas_only_count(cut) == Cardinality({k \in InWindow(cut) : spend[k].amount = 0})

Within(limit, total) == limit = Unlimited \/ total <= limit

\* Mutant: the transaction counts are compared without the one being added.
DebitWithinCapsButOne(k, amount, fee) ==
    /\ Within(Caps.units_24h, window_units(wall - W24h) + amount)
    /\ Within(Caps.tx_1h, window_count(wall - W1h))
    /\ Within(Caps.tx_24h, window_count(wall - W24h))

\* the checks of reserve; its guarded INSERT repeats six of them under the same mutex
DebitWithinCaps(k, amount, fee) ==
    LET cut10m == wall - W10m
        cut1h  == wall - W1h
        cut24h == wall - W24h
        ch     == ChannelOf[k]
    IN  /\ Within(Caps.units_per_tx, amount)
        /\ Within(Caps.units_10m, window_units(cut10m) + amount)
        /\ Within(Caps.units_1h, window_units(cut1h) + amount)
        /\ Within(Caps.units_24h, window_units(cut24h) + amount)
        /\ Within(Caps.units_channel_24h, channel_units(ch, cut24h) + amount)
        /\ Within(Caps.tx_1h, window_count(cut1h) + 1)
        /\ Within(Caps.tx_24h, window_count(cut24h) + 1)
        /\ Within(Caps.tx_per_channel_24h, channel_count(ch, cut24h) + 1)
        /\ Within(Caps.fee_wei_24h, fee_wei_window(cut24h) + fee)
        /\ \/ channel_count(ch, cut24h) > 0
           \/ Within(Caps.distinct_channels_24h, distinct_channels(cut24h) + 1)

\* Mutant: the gas-only count is compared without the call being added.
GasOnlyWithinCapsButOne(fee) ==
    /\ Within(MaxGasOnly, gas_only_count(wall - W24h))
    /\ Within(Caps.fee_wei_24h, fee_wei_window(wall - W24h) + fee)

\* Mutant: the gas-only door does not look at the fee window.
GasOnlyWithoutFees(fee) == Within(MaxGasOnly, gas_only_count(wall - W24h) + 1)

\* the checks of reserve_gas_only
GasOnlyWithinCaps(fee) ==
    /\ Within(MaxGasOnly, gas_only_count(wall - W24h) + 1)
    /\ Within(Caps.fee_wei_24h, fee_wei_window(wall - W24h) + fee)

WithinCaps(k, amount, fee) ==
    IF k \in Debits THEN DebitWithinCaps(k, amount, fee) ELSE GasOnlyWithinCaps(fee)

-----------------------------------------------------------------------------
(***************************************************************************)
(* reserve and reserve_gas_only.                                           *)
(***************************************************************************)

\* idx_spend_nonce: no two rows that are not dead share an account nonce
NonceFree(n) ==
    \A j \in Keys : spend[j].state \in Counted => spend[j].nonce # n

\* only a row that does not exist, or a dead one of the same amount, may be reserved
Reservable(k, amount) ==
    \/ ~Exists(k)
    \/ spend[k].state = "dead" /\ spend[k].amount = amount

MayReserve(k, amount, fee) ==
    /\ ClockSane
    /\ WithinCaps(k, amount, fee)
    /\ Reservable(k, amount)
    /\ NonceFree(nextNonce)

\* a fresh row, or the dead one revived: its amount, ts and seq stay as first written
ReservedRow(k, amount, fee) ==
    IF Exists(k)
    THEN [spend[k] EXCEPT !.state = "reserved", !.nonce = nextNonce,
                          !.fee = fee, !.tx = NoTx]
    ELSE [state |-> "reserved", amount |-> amount, ts |-> TickTs, seq |-> maxSeq + 1,
          nonce |-> nextNonce, fee |-> fee, tx |-> NoTx]

\* the one transaction: the row, its nonce and the allocator move together
Reserve(k, amount, fee) ==
    /\ MayReserve(k, amount, fee)
    /\ nextNonce < MaxNonce
    /\ spend' = [spend EXCEPT ![k] = ReservedRow(k, amount, fee)]
    /\ nextNonce' = nextNonce + 1
    /\ maxTs' = TickTs
    /\ maxSeq' = IF Exists(k) THEN maxSeq ELSE maxSeq + 1
    /\ UNCHANGED <<attempts, halted>>

-----------------------------------------------------------------------------
(***************************************************************************)
(* State transitions.                                                      *)
(***************************************************************************)

\* _set_state: the UPDATE, then the audit row, which needs the clock
SetState(k, row) ==
    /\ spend' = [spend EXCEPT ![k] = row]
    /\ Tick

\* Mutant: the attempt is never inserted.
MarkSignedWithoutAttempt(k) ==
    /\ SetState(k, [spend[k] EXCEPT !.state = "signed", !.tx = TxOf(k)])
    /\ UNCHANGED <<attempts, nextNonce, maxSeq>>

\* mark_signed: the row, then the attempt (INSERT OR REPLACE, by hash)
MarkSigned(k) ==
    /\ SetState(k, [spend[k] EXCEPT !.state = "signed", !.tx = TxOf(k)])
    /\ IF ClockSane
       THEN /\ maxSeq' = maxSeq + 1
            /\ attempts' = {a \in attempts : a.tx # TxOf(k)}
                             \cup {[tx |-> TxOf(k), seq |-> maxSeq + 1]}
       ELSE UNCHANGED <<maxSeq, attempts>>
    /\ UNCHANGED nextNonce

\* the process stops between the two statements of mark_signed
TornMarkSigned(k) ==
    /\ spend' = [spend EXCEPT ![k].state = "signed", ![k].tx = TxOf(k)]
    /\ UNCHANGED <<attempts, nextNonce, maxTs, maxSeq, halted>>

MarkBroadcast(k) ==
    /\ SetState(k, [spend[k] EXCEPT !.state = "broadcast"])
    /\ UNCHANGED <<attempts, nextNonce, maxSeq>>

\* mark_mined: with a receipt, its hash and the fee it spent
MarkMined(k, tx, fee) ==
    /\ SetState(k, IF tx = NoTx
                   THEN [spend[k] EXCEPT !.state = "mined"]
                   ELSE [spend[k] EXCEPT !.state = "mined", !.tx = tx, !.fee = fee])
    /\ UNCHANGED <<attempts, nextNonce, maxSeq>>

\* Mutant: "never signed" is what the caller's copy of the row says.
UnsignedByCaller(k) == spend[k].state \in Live

\* read from the books, not from the caller's copy of the row
Unsigned(k) ==
    /\ spend[k].state = "reserved"
    /\ \A a \in attempts : a.tx.nonce # spend[k].nonce

\* Mutant: the nonce is given back whether or not it is the newest.
MarkDeadGivesBackAny(k) ==
    /\ SetState(k, [spend[k] EXCEPT !.state = "dead"])
    /\ nextNonce' = IF ClockSane /\ Unsigned(k) THEN spend[k].nonce ELSE nextNonce
    /\ UNCHANGED <<attempts, maxSeq>>

\* Mutant: the allocator is put one below the nonce given back.
MarkDeadGivesBackOneMore(k) ==
    /\ SetState(k, [spend[k] EXCEPT !.state = "dead"])
    /\ nextNonce' = IF ClockSane /\ Unsigned(k) /\ nextNonce = spend[k].nonce + 1
                    THEN spend[k].nonce - 1 ELSE nextNonce
    /\ UNCHANGED <<attempts, maxSeq>>

\* Mutant: a release never gives its nonce back.
MarkDeadKeepsNonce(k) ==
    /\ SetState(k, [spend[k] EXCEPT !.state = "dead"])
    /\ UNCHANGED <<attempts, nextNonce, maxSeq>>

\* mark_dead: the row, then its nonce back if it was never signed and is the newest
MarkDead(k) ==
    /\ SetState(k, [spend[k] EXCEPT !.state = "dead"])
    /\ nextNonce' = IF ClockSane /\ Unsigned(k) /\ nextNonce = spend[k].nonce + 1
                    THEN spend[k].nonce ELSE nextNonce
    /\ UNCHANGED <<attempts, maxSeq>>

\* the process stops between the two statements of mark_dead
TornMarkDead(k) ==
    /\ spend' = [spend EXCEPT ![k].state = "dead"]
    /\ UNCHANGED <<attempts, nextNonce, maxTs, maxSeq, halted>>

SetNextNonce(n) ==
    /\ Tick
    /\ nextNonce' = IF ClockSane THEN n ELSE nextNonce
    /\ UNCHANGED <<spend, attempts, maxSeq>>

\* audit, and a clock check that fails before anything else is written
Audit == Tick /\ UNCHANGED <<spend, attempts, nextNonce, maxSeq>>

ClearHalt == halted' = FALSE /\ UNCHANGED <<spend, attempts, nextNonce, maxTs, maxSeq>>

-----------------------------------------------------------------------------
(***************************************************************************)
(* The books alone, under any caller that respects the order of the calls: *)
(* a row is signed from reserved, broadcast from signed, resolved while it *)
(* is live, and the allocator is set above every live row.                 *)
(***************************************************************************)

LInit ==
    /\ spend = [k \in Keys |-> NoRow]
    /\ attempts = {}
    /\ nextNonce = 0
    /\ maxTs = 0
    /\ maxSeq = 0
    /\ halted = FALSE
    /\ wall \in 0..MaxTime

AmountsFor(k) == IF k \in Debits THEN Amounts ELSE {0}

LReserve(k) == \E amount \in AmountsFor(k), fee \in Fees : Reserve(k, amount, fee)

LSign(k) == spend[k].state = "reserved" /\ (MarkSigned(k) \/ TornMarkSigned(k))

LBroadcast(k) == spend[k].state = "signed" /\ MarkBroadcast(k)

LMine(k) ==
    /\ spend[k].state \in Live
    /\ \/ MarkMined(k, NoTx, 0)
       \/ \E a \in attempts_for(k) : \E fee \in 1..a.tx.fee : MarkMined(k, a.tx, fee)

LRelease(k) == spend[k].state \in Live /\ (MarkDead(k) \/ TornMarkDead(k))

LSetNext ==
    \E n \in 0..MaxNonce :
        /\ \A k \in unresolved : spend[k].nonce < n
        /\ SetNextNonce(n)

LBooks ==
    \/ \E k \in Keys :
        LReserve(k) \/ LSign(k) \/ LBroadcast(k) \/ LMine(k) \/ LRelease(k)
    \/ LSetNext
    \/ Audit
    \/ ClearHalt

\* the host's clock is no promise of the ledger: it may move either way
ClockMoves == wall' \in 0..MaxTime

LNext ==
    \/ LBooks /\ UNCHANGED wall
    \/ ClockMoves /\ UNCHANGED books

LedgerSpec == LInit /\ [][LNext]_lvars

-----------------------------------------------------------------------------
(***************************************************************************)
(* Invariants of the books.                                                *)
(***************************************************************************)

\* Every table holds rows of its schema (ledger.py SCHEMA).
LTypeOK ==
    /\ spend \in [Keys -> Row]
    /\ attempts \subseteq [tx : Tx, seq : Nat]
    /\ nextNonce \in Nat
    /\ maxTs \in Nat
    /\ maxSeq \in Nat
    /\ halted \in BOOLEAN
    /\ wall \in Nat

\* No two live rows hold the same account nonce and the allocator is past all
\* of them, whatever mixture of releases, give-backs, revivals, boots and
\* half-executed mark_dead calls led here: two doors handing out one nonce
\* would replace each other's transactions.
NonceOwnership ==
    \A k \in unresolved :
        /\ spend[k].nonce < nextNonce
        /\ \A j \in Keys \ {k} :
               spend[j].state \in Counted => spend[j].nonce # spend[k].nonce

\* The last window of length w, ending at the newest timestamp of the books.
LastWindow(w) == InWindow(maxTs - w)

\* The tokens the rows of the last 10 minutes, hour and day hold never pass
\* the caps, although reserve measures its windows from the wall clock, which
\* may lag the books by the tolerance, and a revived row returns to the sum
\* under its old timestamp.
UnitsWithinCaps ==
    /\ Within(Caps.units_10m, Units(LastWindow(W10m) \cap Debits))
    /\ Within(Caps.units_1h, Units(LastWindow(W1h) \cap Debits))
    /\ Within(Caps.units_24h, Units(LastWindow(W24h) \cap Debits))
    /\ \A k \in Debits :
           Within(Caps.units_channel_24h,
                  Units({j \in LastWindow(W24h) \cap Debits : ChannelOf[j] = ChannelOf[k]}))

\* The debits of the last hour and day never outnumber their caps.  Gas-only
\* calls are counted against a debit but not refused by these two caps, so the
\* bound is on the debits.
DebitsWithinCaps ==
    /\ Within(Caps.tx_1h, Cardinality(LastWindow(W1h) \cap Debits))
    /\ Within(Caps.tx_24h, Cardinality(LastWindow(W24h) \cap Debits))

\* The gas-only calls of the last day (sweeps and expiries share one budget)
\* never outnumber SIGNER_MAX_GAS_ONLY_PER_24H, a sweep released and an
\* expiry revived included.
GasOnlyWithinCap == Within(MaxGasOnly, Cardinality(LastWindow(W24h) \cap GasOnly))

\* The fee exposure of the last day.
FeeExposure == MapThenSumSet(LAMBDA k : spend[k].fee, LastWindow(W24h))

\* No row enters the books, through either door, fresh or revived, unless the
\* fee exposure of the last day with it stays under the cap.  It is a property
\* of the step: a receipt of an attempt that was released earlier may show a
\* fee above the ceiling its row was revived with.
ReservesWithinFeeCap ==
    [][(\E k \in Keys : spend[k].state \notin Counted /\ spend'[k].state \in Counted)
           => Within(Caps.fee_wei_24h, FeeExposure')]_lvars

=============================================================================
