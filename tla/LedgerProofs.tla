----------------------------- MODULE LedgerProofs -----------------------------
(***************************************************************************)
(* What the books guarantee for every set of keys, every cap and window,   *)
(* and every caller that respects the order of the calls.                  *)
(***************************************************************************)
EXTENDS Ledger, OrderLemmas

-----------------------------------------------------------------------------
(***************************************************************************)
(* Types.                                                                  *)
(***************************************************************************)

\* The timestamp of a tick is never behind the wall clock or the books.
LEMMA TickTsBounds ==
    ASSUME LTypeOK
    PROVE  TickTs \in Nat /\ TickTs >= maxTs /\ TickTs >= wall
BY DEF LTypeOK, TickTs

\* A write that needs the clock moves max_ts forward or writes the halt.
LEMMA TickType ==
    ASSUME LTypeOK, Tick
    PROVE  maxTs' \in Nat /\ maxTs' >= maxTs /\ halted' \in BOOLEAN
<1>1. CASE ClockSane
  BY <1>1, TickTsBounds DEF Tick, LTypeOK
<1>2. CASE ~ClockSane
  BY <1>2 DEF Tick, LTypeOK
<1> QED BY <1>1, <1>2

\* The transaction a row is signed into is a transaction.
LEMMA TxOfType ==
    ASSUME LTypeOK, NEW k \in Keys
    PROVE  TxOf(k) \in Tx
BY DEF LTypeOK, Row, TxOf, Tx

\* What reserve writes, fresh or revived, is a row.
LEMMA ReservedRowType ==
    ASSUME LTypeOK, NEW k \in Keys, NEW amount \in Nat, NEW fee \in Nat
    PROVE  ReservedRow(k, amount, fee) \in Row
<1>1. CASE Exists(k)
  BY <1>1 DEF LTypeOK, Row, ReservedRow, States, Counted
<1>2. CASE ~Exists(k)
  BY <1>2, TickTsBounds DEF LTypeOK, Row, ReservedRow, States, Counted
<1> QED BY <1>1, <1>2

\* An amount a caller may ask for is a natural number, and 0 without a token.
LEMMA AmountsForType ==
    ASSUME NEW k \in Keys, NEW amount \in AmountsFor(k)
    PROVE  amount \in Nat /\ (k \in GasOnly => amount = 0)
BY AmountsPositive, KindsDisjoint DEF AmountsFor, GasOnly

\* The empty books of a new file have their types.
LEMMA LTypeInit == LInit => LTypeOK
<1> SUFFICES ASSUME LInit PROVE LTypeOK
  OBVIOUS
<1>1. NoRow \in Row
  BY DEF NoRow, Row, States
<1>2. spend \in [Keys -> Row]
  BY <1>1 DEF LInit
<1>3. attempts \subseteq [tx : Tx, seq : Nat]
  BY DEF LInit
<1>4. nextNonce \in Nat /\ maxTs \in Nat /\ maxSeq \in Nat
  BY DEF LInit
<1>5. halted \in BOOLEAN
  BY DEF LInit
<1>6. wall \in Nat
  BY BoundsType DEF LInit
<1> QED BY <1>2, <1>3, <1>4, <1>5, <1>6 DEF LTypeOK

\* Every ledger method keeps the tables inside their schema.
LEMMA LTypeNext == LTypeOK /\ [LNext]_lvars => LTypeOK'
<1> SUFFICES ASSUME LTypeOK, [LNext]_lvars PROVE LTypeOK'
  OBVIOUS
<1>1. ASSUME NEW k \in Keys, LReserve(k), UNCHANGED wall PROVE LTypeOK'
  <2>1. PICK amount \in AmountsFor(k), fee \in Fees : Reserve(k, amount, fee)
    BY <1>1 DEF LReserve
  <2>2. amount \in Nat /\ fee \in Nat
    BY AmountsForType, FeesPositive
  <2>3. spend' \in [Keys -> Row]
    BY <2>1, <2>2, ReservedRowType DEF Reserve, LTypeOK
  <2> QED BY <1>1, <2>1, <2>3, TickTsBounds DEF Reserve, LTypeOK
<1>2. ASSUME NEW k \in Keys, LSign(k), UNCHANGED wall PROVE LTypeOK'
  <2>1. TxOf(k) \in Tx
    BY TxOfType
  <2>2. [spend[k] EXCEPT !.state = "signed", !.tx = TxOf(k)] \in Row
    BY <2>1 DEF LTypeOK, Row, States, Counted
  <2>3. CASE MarkSigned(k)
    <3>1. spend' \in [Keys -> Row]
      BY <2>2, <2>3 DEF MarkSigned, SetState, LTypeOK
    <3>2. attempts' \subseteq [tx : Tx, seq : Nat] /\ maxSeq' \in Nat
      BY <2>1, <2>3 DEF MarkSigned, LTypeOK
    <3> QED BY <1>2, <2>3, <3>1, <3>2, TickType DEF MarkSigned, SetState, LTypeOK
  <2>4. CASE TornMarkSigned(k)
    <3>1. spend' \in [Keys -> Row]
      BY <2>1, <2>4 DEF TornMarkSigned, LTypeOK, Row, States, Counted
    <3> QED BY <1>2, <2>4, <3>1 DEF TornMarkSigned, LTypeOK
  <2> QED BY <1>2, <2>3, <2>4 DEF LSign
<1>3. ASSUME NEW k \in Keys, LBroadcast(k), UNCHANGED wall PROVE LTypeOK'
  <2>1. [spend[k] EXCEPT !.state = "broadcast"] \in Row
    BY DEF LTypeOK, Row, States, Counted
  <2> QED BY <1>3, <2>1, TickType DEF LBroadcast, MarkBroadcast, SetState, LTypeOK
<1>4. ASSUME NEW k \in Keys, LMine(k), UNCHANGED wall PROVE LTypeOK'
  <2>1. [spend[k] EXCEPT !.state = "mined"] \in Row
    BY DEF LTypeOK, Row, States, Counted
  <2>2. CASE MarkMined(k, NoTx, 0)
    BY <1>4, <2>1, <2>2, TickType DEF MarkMined, SetState, LTypeOK
  <2>3. CASE \E a \in attempts_for(k) : \E fee \in 1..a.tx.fee : MarkMined(k, a.tx, fee)
    <3>1. PICK a \in attempts_for(k) : \E fee \in 1..a.tx.fee : MarkMined(k, a.tx, fee)
      BY <2>3
    <3>2. PICK fee \in 1..a.tx.fee : MarkMined(k, a.tx, fee)
      BY <3>1
    <3>3. a.tx \in Tx /\ a.tx.fee \in Nat
      BY DEF LTypeOK, attempts_for, Tx
    <3>4. fee \in Nat
      BY <3>3
    <3>5. [spend[k] EXCEPT !.state = "mined", !.tx = a.tx, !.fee = fee] \in Row
      BY <3>3, <3>4 DEF LTypeOK, Row, States, Counted
    <3> QED BY <1>4, <2>1, <3>2, <3>5, TickType DEF MarkMined, SetState, LTypeOK
  <2> QED BY <1>4, <2>2, <2>3 DEF LMine
<1>5. ASSUME NEW k \in Keys, LRelease(k), UNCHANGED wall PROVE LTypeOK'
  <2>1. [spend[k] EXCEPT !.state = "dead"] \in Row
    BY DEF LTypeOK, Row, States
  <2>2. spend[k].nonce \in Nat
    BY DEF LTypeOK, Row
  <2>3. CASE MarkDead(k)
    BY <1>5, <2>1, <2>2, <2>3, TickType DEF MarkDead, SetState, LTypeOK
  <2>4. CASE TornMarkDead(k)
    <3>1. spend' \in [Keys -> Row]
      BY <2>4 DEF TornMarkDead, LTypeOK, Row, States
    <3> QED BY <1>5, <2>4, <3>1 DEF TornMarkDead, LTypeOK
  <2> QED BY <1>5, <2>3, <2>4 DEF LRelease
<1>6. ASSUME LSetNext, UNCHANGED wall PROVE LTypeOK'
  BY <1>6, TickType, BoundsType DEF LSetNext, SetNextNonce, LTypeOK
<1>7. ASSUME Audit, UNCHANGED wall PROVE LTypeOK'
  BY <1>7, TickType DEF Audit, LTypeOK
<1>8. ASSUME ClearHalt, UNCHANGED wall PROVE LTypeOK'
  BY <1>8 DEF ClearHalt, LTypeOK
<1>9. ASSUME ClockMoves, UNCHANGED books PROVE LTypeOK'
  BY <1>9, BoundsType DEF ClockMoves, books, LTypeOK
<1>10. CASE UNCHANGED lvars
  BY <1>10 DEF lvars, books, LTypeOK
<1> QED
  BY <1>1, <1>2, <1>3, <1>4, <1>5, <1>6, <1>7, <1>8, <1>9, <1>10 DEF LNext, LBooks

\* The tables of the ledger hold rows of their schema in every reachable state.
THEOREM LedgerTypeCorrect == LedgerSpec => []LTypeOK
BY LTypeInit, LTypeNext, PTL DEF LedgerSpec

-----------------------------------------------------------------------------
(***************************************************************************)
(* One nonce, one owner.                                                   *)
(***************************************************************************)

\* A step that changes at most the state of one row, and no row's nonce, and
\* leaves the allocator above the live rows, keeps the ownership of nonces.
LEMMA OwnershipKept ==
    ASSUME NonceOwnership,
           \A k \in Keys : spend'[k].nonce = spend[k].nonce,
           \A k \in Keys : spend'[k].state \in Counted => spend[k].state \in Counted,
           \A k \in Keys : spend'[k].state \in Live =>
               spend[k].state \in Live /\ spend[k].nonce < nextNonce'
    PROVE  NonceOwnership'
BY DEF NonceOwnership, unresolved

\* A resolved or advanced row keeps its nonce, and none becomes live again.
LEMMA RowStep ==
    ASSUME LTypeOK, NEW k \in Keys, NEW row,
           spend' = [spend EXCEPT ![k] = row],
           spend[k].state \in Live,
           row.nonce = spend[k].nonce
    PROVE  /\ \A j \in Keys : spend'[j].nonce = spend[j].nonce
           /\ \A j \in Keys : spend'[j].state \in Counted => spend[j].state \in Counted
           /\ \A j \in Keys : spend'[j].state \in Live => spend[j].state \in Live
BY DEF LTypeOK, Live, Counted

\* New books own no nonce.
LEMMA OwnershipInit == LInit => NonceOwnership
BY DEF LInit, NonceOwnership, unresolved, NoRow, Live

\* Every ledger method preserves the ownership of nonces.
LEMMA OwnershipNext == LTypeOK /\ NonceOwnership /\ [LNext]_lvars => NonceOwnership'
<1> SUFFICES ASSUME LTypeOK, NonceOwnership, [LNext]_lvars PROVE NonceOwnership'
  OBVIOUS
<1>a. \A j \in Keys : spend[j].nonce \in Nat
  BY DEF LTypeOK, Row
<1>1. ASSUME NEW k \in Keys, LReserve(k) PROVE NonceOwnership'
  <2>1. PICK amount \in AmountsFor(k), fee \in Fees : Reserve(k, amount, fee)
    BY <1>1 DEF LReserve
  <2> DEFINE row == ReservedRow(k, amount, fee)
  <2>2. row.nonce = nextNonce /\ row.state = "reserved"
    BY DEF ReservedRow, LTypeOK, Row
  <2>3. /\ spend' = [spend EXCEPT ![k] = row]
        /\ nextNonce' = nextNonce + 1
        /\ NonceFree(nextNonce)
    BY <2>1 DEF Reserve, MayReserve
  <2>4. spend'[k] = row /\ \A j \in Keys \ {k} : spend'[j] = spend[j]
    BY <2>3 DEF LTypeOK
  <2>5. ASSUME NEW i \in unresolved' PROVE spend'[i].nonce < nextNonce'
    <3>1. CASE i = k
      BY <2>2, <2>3, <2>4, <3>1 DEF LTypeOK
    <3>2. CASE i # k
      BY <1>a, <2>3, <2>4, <3>2 DEF NonceOwnership, unresolved, LTypeOK
    <3> QED BY <3>1, <3>2
  <2>6. ASSUME NEW i \in unresolved', NEW j \in Keys \ {i}, spend'[j].state \in Counted
        PROVE  spend'[j].nonce # spend'[i].nonce
    <3>1. CASE i = k
      BY <2>2, <2>3, <2>4, <2>6, <3>1 DEF NonceFree
    <3>2. CASE j = k
      BY <1>a, <2>2, <2>4, <2>6, <3>2 DEF NonceOwnership, unresolved, LTypeOK
    <3>3. CASE i # k /\ j # k
      BY <2>4, <2>6, <3>3 DEF NonceOwnership, unresolved
    <3> QED BY <3>1, <3>2, <3>3
  <2> QED BY <2>5, <2>6 DEF NonceOwnership
<1>2. ASSUME NEW k \in Keys, LSign(k) PROVE NonceOwnership'
  <2> DEFINE row == [spend[k] EXCEPT !.state = "signed", !.tx = TxOf(k)]
  <2>1. spend' = [spend EXCEPT ![k] = row] /\ nextNonce' = nextNonce
    BY <1>2 DEF LSign, MarkSigned, TornMarkSigned, SetState, LTypeOK
  <2>2. row.nonce = spend[k].nonce /\ spend[k].state \in Live
    BY <1>2 DEF LSign, LTypeOK, Row, Live
  <2> QED BY <2>1, <2>2, RowStep, OwnershipKept DEF NonceOwnership, unresolved
<1>3. ASSUME NEW k \in Keys, LBroadcast(k) PROVE NonceOwnership'
  <2> DEFINE row == [spend[k] EXCEPT !.state = "broadcast"]
  <2>1. spend' = [spend EXCEPT ![k] = row] /\ nextNonce' = nextNonce
    BY <1>3 DEF LBroadcast, MarkBroadcast, SetState
  <2>2. row.nonce = spend[k].nonce /\ spend[k].state \in Live
    BY <1>3 DEF LBroadcast, LTypeOK, Row, Live
  <2> QED BY <2>1, <2>2, RowStep, OwnershipKept DEF NonceOwnership, unresolved
<1>4. ASSUME NEW k \in Keys, LMine(k) PROVE NonceOwnership'
  <2>1. PICK tx, fee : MarkMined(k, tx, fee)
    BY <1>4 DEF LMine
  <2> DEFINE row == IF tx = NoTx
                    THEN [spend[k] EXCEPT !.state = "mined"]
                    ELSE [spend[k] EXCEPT !.state = "mined", !.tx = tx, !.fee = fee]
  <2>2. spend' = [spend EXCEPT ![k] = row] /\ nextNonce' = nextNonce
    BY <2>1 DEF MarkMined, SetState
  <2>3. row.nonce = spend[k].nonce /\ spend[k].state \in Live
    BY <1>4 DEF LMine, LTypeOK, Row
  <2> QED BY <2>2, <2>3, RowStep, OwnershipKept DEF NonceOwnership, unresolved
<1>5. ASSUME NEW k \in Keys, LRelease(k) PROVE NonceOwnership'
  <2> DEFINE row == [spend[k] EXCEPT !.state = "dead"]
  <2>1. spend' = [spend EXCEPT ![k] = row]
    BY <1>5 DEF LRelease, MarkDead, TornMarkDead, SetState, LTypeOK
  <2>2. row.nonce = spend[k].nonce /\ row.state = "dead" /\ spend[k].state \in Live
    BY <1>5 DEF LRelease, LTypeOK, Row
  <2>3. nextNonce' = nextNonce \/ (nextNonce' = spend[k].nonce /\ nextNonce = spend[k].nonce + 1)
    BY <1>5 DEF LRelease, MarkDead, TornMarkDead
  <2>4. ASSUME NEW j \in Keys, spend'[j].state \in Live
        PROVE  spend[j].state \in Live /\ spend[j].nonce < nextNonce'
    <3>1. j # k
      BY <2>1, <2>2, <2>4 DEF LTypeOK, Live
    <3>2. spend[j].state \in Live
      BY <2>1, <2>4, <3>1 DEF LTypeOK
    <3>3. spend[j].nonce < nextNonce /\ spend[j].nonce # spend[k].nonce
      BY <2>2, <3>1, <3>2 DEF NonceOwnership, unresolved, Live, Counted
    <3> QED BY <1>a, <2>3, <3>2, <3>3 DEF LTypeOK
  <2> QED BY <2>1, <2>2, <2>4, RowStep, OwnershipKept
<1>6. ASSUME LSetNext PROVE NonceOwnership'
  <2>1. PICK n \in 0..MaxNonce :
            (\A k \in unresolved : spend[k].nonce < n) /\ SetNextNonce(n)
    BY <1>6 DEF LSetNext
  <2>2. spend' = spend /\ (nextNonce' = n \/ nextNonce' = nextNonce)
    BY <2>1 DEF SetNextNonce
  <2> QED BY <2>1, <2>2, OwnershipKept DEF NonceOwnership, unresolved
<1>7. ASSUME spend' = spend, nextNonce' = nextNonce PROVE NonceOwnership'
  BY <1>7, OwnershipKept DEF NonceOwnership, unresolved
<1>8. CASE Audit
  BY <1>7, <1>8 DEF Audit
<1>9. CASE ClearHalt
  BY <1>7, <1>9 DEF ClearHalt
<1>10. CASE UNCHANGED books
  BY <1>7, <1>10 DEF books
<1> QED
  BY <1>1, <1>2, <1>3, <1>4, <1>5, <1>6, <1>8, <1>9, <1>10 DEF LNext, LBooks, lvars

\* No two live rows ever hold the same account nonce and the allocator stays
\* past all of them (reserve, mark_dead's give-back, set_next_nonce at boot).
THEOREM NonceOwnershipHolds == LedgerSpec => []NonceOwnership
<1>1. LInit => LTypeOK /\ NonceOwnership
  BY LTypeInit, OwnershipInit
<1>2. (LTypeOK /\ NonceOwnership) /\ [LNext]_lvars => (LTypeOK /\ NonceOwnership)'
  BY LTypeNext, OwnershipNext
<1> QED BY <1>1, <1>2, PTL DEF LedgerSpec

-----------------------------------------------------------------------------
(***************************************************************************)
(* The counted caps.  Only a reservation adds a row to a window: it checks *)
(* the window that ends at the wall clock, which reaches back at least as  *)
(* far as the one that ends at the newest timestamp of the books.          *)
(***************************************************************************)

\* A step that brings no row into any window.
TakesNoBudget ==
    /\ maxTs' \in Nat /\ maxTs' >= maxTs
    /\ \A j \in Keys :
           /\ spend'[j].amount = spend[j].amount
           /\ spend'[j].ts = spend[j].ts
           /\ spend'[j].state \in Counted => spend[j].state \in Counted

\* One row moves on from a live state: no window grows.
LEMMA LiveRowTakesNoBudget ==
    ASSUME LTypeOK, NEW k \in Keys, NEW row,
           spend' = [spend EXCEPT ![k] = row],
           spend[k].state \in Live,
           row.amount = spend[k].amount, row.ts = spend[k].ts,
           maxTs' \in Nat, maxTs' >= maxTs
    PROVE  TakesNoBudget
BY DEF LTypeOK, Live, Counted, TakesNoBudget

\* No method but reserve and reserve_gas_only takes budget.
LEMMA OnlyReserveTakesBudget ==
    ASSUME LTypeOK, [LNext]_lvars
    PROVE  TakesNoBudget \/ \E k \in Keys : LReserve(k)
<1>a. maxTs \in Nat /\ maxTs >= maxTs
  BY DEF LTypeOK
<1>1. ASSUME NEW k \in Keys, LSign(k) PROVE TakesNoBudget
  <2> DEFINE row == [spend[k] EXCEPT !.state = "signed", !.tx = TxOf(k)]
  <2>1. spend' = [spend EXCEPT ![k] = row]
    BY <1>1 DEF LSign, MarkSigned, TornMarkSigned, SetState, LTypeOK
  <2>2. /\ row.amount = spend[k].amount /\ row.ts = spend[k].ts
        /\ spend[k].state \in Live
    BY <1>1 DEF LSign, LTypeOK, Row, Live
  <2>3. maxTs' \in Nat /\ maxTs' >= maxTs
    BY <1>1, <1>a, TickType DEF LSign, MarkSigned, TornMarkSigned, SetState
  <2> QED BY <2>1, <2>2, <2>3, LiveRowTakesNoBudget
<1>2. ASSUME NEW k \in Keys, LBroadcast(k) PROVE TakesNoBudget
  <2> DEFINE row == [spend[k] EXCEPT !.state = "broadcast"]
  <2>1. spend' = [spend EXCEPT ![k] = row]
    BY <1>2 DEF LBroadcast, MarkBroadcast, SetState
  <2>2. /\ row.amount = spend[k].amount /\ row.ts = spend[k].ts
        /\ spend[k].state \in Live
    BY <1>2 DEF LBroadcast, LTypeOK, Row, Live
  <2>3. maxTs' \in Nat /\ maxTs' >= maxTs
    BY <1>2, TickType DEF LBroadcast, MarkBroadcast, SetState
  <2> QED BY <2>1, <2>2, <2>3, LiveRowTakesNoBudget
<1>3. ASSUME NEW k \in Keys, LMine(k) PROVE TakesNoBudget
  <2>1. PICK tx, fee : MarkMined(k, tx, fee)
    BY <1>3 DEF LMine
  <2> DEFINE row == IF tx = NoTx
                    THEN [spend[k] EXCEPT !.state = "mined"]
                    ELSE [spend[k] EXCEPT !.state = "mined", !.tx = tx, !.fee = fee]
  <2>2. spend' = [spend EXCEPT ![k] = row]
    BY <2>1 DEF MarkMined, SetState
  <2>3. /\ row.amount = spend[k].amount /\ row.ts = spend[k].ts
        /\ spend[k].state \in Live
    BY <1>3 DEF LMine, LTypeOK, Row
  <2>4. maxTs' \in Nat /\ maxTs' >= maxTs
    BY <2>1, TickType DEF MarkMined, SetState
  <2> QED BY <2>2, <2>3, <2>4, LiveRowTakesNoBudget
<1>4. ASSUME NEW k \in Keys, LRelease(k) PROVE TakesNoBudget
  <2> DEFINE row == [spend[k] EXCEPT !.state = "dead"]
  <2>1. spend' = [spend EXCEPT ![k] = row]
    BY <1>4 DEF LRelease, MarkDead, TornMarkDead, SetState, LTypeOK
  <2>2. /\ row.amount = spend[k].amount /\ row.ts = spend[k].ts
        /\ spend[k].state \in Live
    BY <1>4 DEF LRelease, LTypeOK, Row
  <2>3. maxTs' \in Nat /\ maxTs' >= maxTs
    BY <1>4, <1>a, TickType DEF LRelease, MarkDead, TornMarkDead, SetState
  <2> QED BY <2>1, <2>2, <2>3, LiveRowTakesNoBudget
<1>5. ASSUME spend' = spend, maxTs' \in Nat, maxTs' >= maxTs PROVE TakesNoBudget
  BY <1>5 DEF TakesNoBudget
<1>6. CASE LSetNext
  BY <1>5, <1>6, TickType DEF LSetNext, SetNextNonce
<1>7. CASE Audit
  BY <1>5, <1>7, TickType DEF Audit
<1>8. CASE ClearHalt
  BY <1>5, <1>8, <1>a DEF ClearHalt
<1>9. CASE UNCHANGED books
  BY <1>5, <1>9, <1>a DEF books
<1> QED
  BY <1>1, <1>2, <1>3, <1>4, <1>6, <1>7, <1>8, <1>9 DEF LNext, LBooks, lvars

\* A step that takes no budget leaves every last window inside what it was.
LEMMA WindowShrinks ==
    ASSUME LTypeOK, TakesNoBudget, NEW w \in Nat
    PROVE  LastWindow(w)' \subseteq LastWindow(w)
<1>1. \A j \in Keys : spend[j].ts \in Nat
  BY DEF LTypeOK, Row
<1> QED BY <1>1 DEF LTypeOK, TakesNoBudget, LastWindow, InWindow

\* After a reservation a last window holds the new row and, besides it, only
\* rows it held before, all of which the window of the check counted.
LEMMA ReservedWindow ==
    ASSUME LTypeOK, NEW k \in Keys, NEW amount, NEW fee, Reserve(k, amount, fee),
           NEW w \in Nat
    PROVE  /\ LastWindow(w)' \subseteq LastWindow(w) \cup {k}
           /\ LastWindow(w)' \subseteq InWindow(wall - w) \cup {k}
<1>1. \A j \in Keys : spend[j].ts \in Nat
  BY DEF LTypeOK, Row
<1>2. \A j \in Keys \ {k} : spend'[j] = spend[j]
  BY DEF Reserve, LTypeOK
<1>3. maxTs' \in Nat /\ maxTs' >= maxTs /\ maxTs' >= wall
  BY TickTsBounds DEF Reserve
<1> QED BY <1>1, <1>2, <1>3 DEF LTypeOK, LastWindow, InWindow

\* A smaller set stays within a limit.
LEMMA WithinSubset ==
    ASSUME NEW S, NEW T \in SUBSET S, IsFiniteSet(S), NEW limit \in Limit,
           Within(limit, Cardinality(S))
    PROVE  Within(limit, Cardinality(T))
<1>1. /\ Cardinality(S) \in Nat /\ Cardinality(T) \in Nat
      /\ Cardinality(T) <= Cardinality(S)
  BY FS_Subset, FS_CardinalityType
<1> QED BY <1>1 DEF Within, Limit, Unlimited

\* One more element stays within a limit that was checked with one added.
LEMMA WithinOneMore ==
    ASSUME NEW S, NEW x, NEW T \in SUBSET (S \cup {x}), IsFiniteSet(S),
           NEW limit \in Limit, Within(limit, Cardinality(S) + 1)
    PROVE  Within(limit, Cardinality(T))
<1> DEFINE U == S \cup {x}
<1>1. IsFiniteSet(U) /\ Cardinality(U) = IF x \in S THEN Cardinality(S) ELSE Cardinality(S) + 1
  BY FS_AddElement
<1>2. Cardinality(S) \in Nat /\ Cardinality(U) \in Nat
  BY <1>1, FS_CardinalityType
<1>3. Within(limit, Cardinality(U))
  BY <1>1, <1>2 DEF Within, Limit, Unlimited
<1> HIDE DEF U
<1>4. T \in SUBSET U
  BY DEF U
<1> QED BY <1>1, <1>3, <1>4, WithinSubset

\* Windows are finite.
LEMMA WindowFinite ==
    ASSUME NEW S \in SUBSET Keys
    PROVE  IsFiniteSet(S)
BY KeysFinite, FS_Subset

\* The counts of the two caps on debits.
LEMMA DebitsWithinCapsInit == LInit => DebitsWithinCaps
<1> SUFFICES ASSUME LInit PROVE DebitsWithinCaps
  OBVIOUS
<1>1. \A w : LastWindow(w) \cap Debits = {}
  BY DEF LInit, LastWindow, InWindow, NoRow, Counted
<1>2. Cardinality({}) = 0
  BY FS_EmptySet
<1>3. Caps.tx_1h \in Limit /\ Caps.tx_24h \in Limit
  BY CapsType
<1> QED BY <1>1, <1>2, <1>3 DEF DebitsWithinCaps, Within, Limit, Unlimited

\* One cap on debits: a step keeps the debits of the last window of length w
\* within a limit that reserve checks for that window.
LEMMA DebitsWithinOneCap ==
    ASSUME LTypeOK, [LNext]_lvars, NEW w \in Nat, NEW limit \in Limit,
           Within(limit, Cardinality(LastWindow(w) \cap Debits)),
           \A k \in Debits : \A amount, fee :
               Reserve(k, amount, fee) => Within(limit, window_count(wall - w) + 1)
    PROVE  Within(limit, Cardinality(LastWindow(w)' \cap Debits))
<1>1. IsFiniteSet(LastWindow(w) \cap Debits) /\ IsFiniteSet(InWindow(wall - w))
  BY WindowFinite DEF LastWindow, InWindow
<1>2. CASE TakesNoBudget
  BY <1>1, <1>2, WindowShrinks, WithinSubset
<1>3. ASSUME NEW k \in Keys, LReserve(k)
      PROVE  Within(limit, Cardinality(LastWindow(w)' \cap Debits))
  <2>1. PICK amount, fee : Reserve(k, amount, fee)
    BY <1>3 DEF LReserve
  <2>2. CASE k \in Debits
    <3>1. Within(limit, Cardinality(InWindow(wall - w)) + 1)
      BY <2>1, <2>2 DEF window_count
    <3>2. LastWindow(w)' \cap Debits \subseteq InWindow(wall - w) \cup {k}
      BY <2>1, ReservedWindow
    <3> QED BY <1>1, <3>1, <3>2, WithinOneMore
  <2>3. CASE k \notin Debits
    <3>1. LastWindow(w)' \cap Debits \subseteq LastWindow(w) \cap Debits
      BY <2>1, <2>3, ReservedWindow
    <3> QED BY <1>1, <3>1, WithinSubset
  <2> QED BY <2>2, <2>3
<1> QED BY <1>2, <1>3, OnlyReserveTakesBudget

\* Every ledger method keeps the debits of the last hour and day within caps.
LEMMA DebitsWithinCapsNext ==
    LTypeOK /\ DebitsWithinCaps /\ [LNext]_lvars => DebitsWithinCaps'
<1> SUFFICES ASSUME LTypeOK, DebitsWithinCaps, [LNext]_lvars PROVE DebitsWithinCaps'
  OBVIOUS
<1>1. Caps.tx_1h \in Limit /\ Caps.tx_24h \in Limit
  BY CapsType
<1>2. \A k \in Debits : \A amount, fee : Reserve(k, amount, fee) =>
        /\ Within(Caps.tx_1h, window_count(wall - W1h) + 1)
        /\ Within(Caps.tx_24h, window_count(wall - W24h) + 1)
  BY DEF Reserve, MayReserve, WithinCaps, DebitWithinCaps
<1>3. Within(Caps.tx_1h, Cardinality(LastWindow(W1h)' \cap Debits))
  BY <1>1, <1>2, WindowsType, DebitsWithinOneCap DEF DebitsWithinCaps
<1>4. Within(Caps.tx_24h, Cardinality(LastWindow(W24h)' \cap Debits))
  BY <1>1, <1>2, WindowsType, DebitsWithinOneCap DEF DebitsWithinCaps
<1> QED BY <1>3, <1>4 DEF DebitsWithinCaps, Within

\* The debits of the last hour and of the last day never outnumber tx_1h and
\* tx_24h (the velocity checks of reserve), for every cap, window and clock.
THEOREM DebitCountsBounded == LedgerSpec => []DebitsWithinCaps
<1>1. LInit => LTypeOK /\ DebitsWithinCaps
  BY LTypeInit, DebitsWithinCapsInit
<1>2. (LTypeOK /\ DebitsWithinCaps) /\ [LNext]_lvars => (LTypeOK /\ DebitsWithinCaps)'
  BY LTypeNext, DebitsWithinCapsNext
<1> QED BY <1>1, <1>2, PTL DEF LedgerSpec

-----------------------------------------------------------------------------
(***************************************************************************)
(* The gas-only cap counts rows by their amount, so it needs to know that  *)
(* the rows of expiries and sweeps are the ones without an amount.         *)
(***************************************************************************)

\* Rows of expiries and sweeps never carry an amount.
GasOnlyRowsCarryNothing == \A k \in GasOnly : spend[k].amount = 0

\* The inductive invariant of the gas-only cap.
GasOnlyInv == LTypeOK /\ GasOnlyRowsCarryNothing /\ GasOnlyWithinCap

\* New books satisfy it.
LEMMA GasOnlyInvInit == LInit => GasOnlyInv
<1> SUFFICES ASSUME LInit PROVE GasOnlyInv
  OBVIOUS
<1>1. LastWindow(W24h) \cap GasOnly = {}
  BY DEF LInit, LastWindow, InWindow, NoRow, Counted
<1>2. Cardinality({}) = 0
  BY FS_EmptySet
<1>3. GasOnlyWithinCap
  BY <1>1, <1>2, MaxGasOnlyType DEF GasOnlyWithinCap, Within, Limit, Unlimited
<1>4. GasOnlyRowsCarryNothing
  BY DEF LInit, NoRow, GasOnlyRowsCarryNothing, GasOnly, Keys
<1> QED BY <1>3, <1>4, LTypeInit DEF GasOnlyInv

\* Every ledger method preserves it.
LEMMA GasOnlyInvNext == GasOnlyInv /\ [LNext]_lvars => GasOnlyInv'
<1> SUFFICES ASSUME GasOnlyInv, [LNext]_lvars PROVE GasOnlyInv'
  OBVIOUS
<1> USE DEF GasOnlyInv
<1>a. GasOnly \subseteq Keys
  BY DEF GasOnly, Keys
<1>1. LTypeOK'
  BY LTypeNext
<1>b. W24h \in Nat
  BY WindowsType
<1>2. CASE TakesNoBudget
  <2>1. GasOnlyRowsCarryNothing'
    BY <1>2, <1>a DEF GasOnlyRowsCarryNothing, TakesNoBudget
  <2>2. IsFiniteSet(LastWindow(W24h) \cap GasOnly)
    BY <1>a, WindowFinite
  <2>3. LastWindow(W24h)' \cap GasOnly \subseteq LastWindow(W24h) \cap GasOnly
    BY <1>2, <1>b, WindowShrinks
  <2>4. Within(MaxGasOnly, Cardinality(LastWindow(W24h)' \cap GasOnly))
    BY <2>2, <2>3, MaxGasOnlyType, WithinSubset DEF GasOnlyWithinCap
  <2> QED BY <1>1, <2>1, <2>4 DEF GasOnlyWithinCap, Within
<1>3. ASSUME NEW k \in Keys, LReserve(k) PROVE GasOnlyInv'
  <2>1. PICK amount \in AmountsFor(k), fee \in Fees : Reserve(k, amount, fee)
    BY <1>3 DEF LReserve
  <2>2. GasOnlyRowsCarryNothing'
    <3> SUFFICES ASSUME NEW j \in GasOnly PROVE spend'[j].amount = 0
      BY DEF GasOnlyRowsCarryNothing
    <3>1. CASE j # k
      BY <1>a, <2>1, <3>1 DEF Reserve, LTypeOK, GasOnlyRowsCarryNothing
    <3>2. CASE j = k
      <4>1. ReservedRow(k, amount, fee).amount = IF Exists(k) THEN spend[k].amount ELSE amount
        BY DEF ReservedRow, LTypeOK, Row
      <4>2. spend'[k] = ReservedRow(k, amount, fee)
        BY <2>1 DEF Reserve, LTypeOK
      <4> QED BY <3>2, <4>1, <4>2, AmountsForType DEF GasOnlyRowsCarryNothing
    <3> QED BY <3>1, <3>2
  <2> DEFINE counted == {j \in InWindow(wall - W24h) : spend[j].amount = 0}
  <2>3. /\ IsFiniteSet(counted)
        /\ IsFiniteSet(LastWindow(W24h) \cap GasOnly)
    BY <1>a, WindowFinite DEF InWindow
  <2>4. CASE k \in GasOnly
    <3>1. Within(MaxGasOnly, Cardinality(counted) + 1)
      BY <2>1, <2>4, KindsDisjoint
      DEF Reserve, MayReserve, WithinCaps, GasOnlyWithinCaps, gas_only_count, GasOnly
    <3>2. LastWindow(W24h)' \cap GasOnly \subseteq counted \cup {k}
      BY <1>b, <2>1, ReservedWindow DEF GasOnlyRowsCarryNothing
    <3>3. Within(MaxGasOnly, Cardinality(LastWindow(W24h)' \cap GasOnly))
      BY <2>3, <3>1, <3>2, MaxGasOnlyType, WithinOneMore
    <3> QED BY <1>1, <2>2, <3>3 DEF GasOnlyWithinCap, Within
  <2>5. CASE k \notin GasOnly
    <3>1. LastWindow(W24h)' \cap GasOnly \subseteq LastWindow(W24h) \cap GasOnly
      BY <1>b, <2>1, <2>5, ReservedWindow
    <3>2. Within(MaxGasOnly, Cardinality(LastWindow(W24h)' \cap GasOnly))
      BY <2>3, <3>1, MaxGasOnlyType, WithinSubset DEF GasOnlyWithinCap
    <3> QED BY <1>1, <2>2, <3>2 DEF GasOnlyWithinCap, Within
  <2> QED BY <2>4, <2>5
<1> QED BY <1>2, <1>3, OnlyReserveTakesBudget

\* The gas-only calls of the last day never outnumber
\* SIGNER_MAX_GAS_ONLY_PER_24H (the cap of reserve_gas_only), for every cap,
\* window and clock.
THEOREM GasOnlyBounded == LedgerSpec => []GasOnlyWithinCap
<1>1. GasOnlyInv => GasOnlyWithinCap
  BY DEF GasOnlyInv
<1> QED BY <1>1, GasOnlyInvInit, GasOnlyInvNext, PTL DEF LedgerSpec

-----------------------------------------------------------------------------
(***************************************************************************)
(* The token caps.  They bound sums, so they are stated of every number    *)
(* that is the sum of a window: that form speaks of the next state as      *)
(* readily as of this one.                                                 *)
(***************************************************************************)

\* the amounts and the fees of the rows
AmountOf == [k \in Keys |-> spend[k].amount]

FeeOf == [k \in Keys |-> spend[k].fee]

\* Units adds up the amounts of the rows.
LEMMA UnitsIsSum == \A S \in SUBSET Keys : SumOver(Units(S), AmountOf, S)
<1> SUFFICES ASSUME NEW S \in SUBSET Keys PROVE SumOver(Units(S), AmountOf, S)
  OBVIOUS
<1> DEFINE Unf(h) == [s \in SUBSET S |-> IF s = {} THEN 0
                                         ELSE spend[Chosen(s)].amount + h[s \ {Chosen(s)}]]
<1>1. IsFiniteSet(S)
  BY KeysFinite, FS_Subset
<1>2. PICK g : g = Unfolded(g, AmountOf, S)
  BY <1>1, SumExists
<1>3. \A s \in SUBSET S : s # {} => AmountOf[Chosen(s)] = spend[Chosen(s)].amount
  <2>1. ASSUME NEW s \in SUBSET S, s # {} PROVE Chosen(s) \in Keys
    BY <2>1, ChosenIn
  <2> QED BY <2>1 DEF AmountOf
<1>4. g = Unf(g)
  BY <1>2, <1>3 DEF Unfolded
<1>5. PICK h : h = Unf(h) /\ Units(S) = h[S]
  <2>1. Units(S) = (CHOOSE h : h = Unf(h))[S]
    BY Zenon DEF Units, MapThenSumSet, MapThenFoldSet, Chosen
  <2>2. PICK h : h = CHOOSE h1 : h1 = Unf(h1)
    OBVIOUS
  <2>3. h = Unf(h)
    BY <1>4, <2>2
  <2> QED BY <2>1, <2>2, <2>3
<1>6. IsSum(h, AmountOf, S)
  BY <1>3, <1>5 DEF IsSum
<1> QED BY <1>5, <1>6 DEF SumOver

\* fee_wei_window and FeeExposure add up the fees of the rows.
LEMMA FeesAreSums ==
    \A S \in SUBSET Keys : SumOver(MapThenSumSet(LAMBDA k : spend[k].fee, S), FeeOf, S)
<1> SUFFICES ASSUME NEW S \in SUBSET Keys
             PROVE  SumOver(MapThenSumSet(LAMBDA k : spend[k].fee, S), FeeOf, S)
  OBVIOUS
<1> DEFINE Unf(h) == [s \in SUBSET S |-> IF s = {} THEN 0
                                         ELSE spend[Chosen(s)].fee + h[s \ {Chosen(s)}]]
           fees == MapThenSumSet(LAMBDA k : spend[k].fee, S)
<1>1. IsFiniteSet(S)
  BY KeysFinite, FS_Subset
<1>2. PICK g : g = Unfolded(g, FeeOf, S)
  BY <1>1, SumExists
<1>3. \A s \in SUBSET S : s # {} => FeeOf[Chosen(s)] = spend[Chosen(s)].fee
  <2>1. ASSUME NEW s \in SUBSET S, s # {} PROVE Chosen(s) \in Keys
    BY <2>1, ChosenIn
  <2> QED BY <2>1 DEF FeeOf
<1>4. g = Unf(g)
  BY <1>2, <1>3 DEF Unfolded
<1>5. PICK h : h = Unf(h) /\ fees = h[S]
  <2>1. fees = (CHOOSE h : h = Unf(h))[S]
    BY Zenon DEF MapThenSumSet, MapThenFoldSet, Chosen
  <2>2. PICK h : h = CHOOSE h1 : h1 = Unf(h1)
    OBVIOUS
  <2>3. h = Unf(h)
    BY <1>4, <2>2
  <2> HIDE DEF fees
  <2> QED BY <2>1, <2>2, <2>3
<1>6. IsSum(h, FeeOf, S)
  BY <1>3, <1>5 DEF IsSum
<1> HIDE DEF fees
<1>7. SumOver(fees, FeeOf, S)
  BY <1>5, <1>6 DEF SumOver
<1> QED BY <1>7 DEF fees

\* The sums over the last window of length w, restricted to D, stay within limit.
UnitsCap(limit, w, D) ==
    \A v : SumOver(v, AmountOf, LastWindow(w) \cap D) => Within(limit, v)

\* the debits on the channel of k
SameChannel(k) == {j \in Debits : ChannelOf[j] = ChannelOf[k]}

\* The token caps in that form.
SumsWithinCaps ==
    /\ UnitsCap(Caps.units_10m, W10m, Debits)
    /\ UnitsCap(Caps.units_1h, W1h, Debits)
    /\ UnitsCap(Caps.units_24h, W24h, Debits)
    /\ \A k \in Debits : UnitsCap(Caps.units_channel_24h, W24h, SameChannel(k))

\* It is at least as strong as what the run checks.
LEMMA SumsWithinCapsSuffice == SumsWithinCaps => UnitsWithinCaps
<1> SUFFICES ASSUME SumsWithinCaps PROVE UnitsWithinCaps
  OBVIOUS
<1>1. \A w : \A D \in SUBSET Keys :
          SumOver(Units(LastWindow(w) \cap D), AmountOf, LastWindow(w) \cap D)
  BY UnitsIsSum
<1>2. Debits \in SUBSET Keys /\ \A k \in Debits : SameChannel(k) \in SUBSET Keys
  BY DEF Keys, SameChannel
<1>3. \A k \in Debits : LastWindow(W24h) \cap SameChannel(k)
                          = {j \in LastWindow(W24h) \cap Debits : ChannelOf[j] = ChannelOf[k]}
  BY DEF SameChannel
<1>4. /\ Within(Caps.units_10m, Units(LastWindow(W10m) \cap Debits))
      /\ Within(Caps.units_1h, Units(LastWindow(W1h) \cap Debits))
      /\ Within(Caps.units_24h, Units(LastWindow(W24h) \cap Debits))
  BY <1>1, <1>2 DEF SumsWithinCaps, UnitsCap
<1>5. ASSUME NEW k \in Debits
      PROVE  Within(Caps.units_channel_24h, Units(LastWindow(W24h) \cap SameChannel(k)))
  BY <1>1, <1>2 DEF SumsWithinCaps, UnitsCap
<1> QED BY <1>3, <1>4, <1>5, Zenon DEF UnitsWithinCaps

\* What rows hold is a number of tokens and a number of wei.
LEMMA ValuesType ==
    ASSUME LTypeOK
    PROVE  \A k \in Keys : AmountOf[k] \in Nat /\ FeeOf[k] \in Nat
BY DEF LTypeOK, Row, AmountOf, FeeOf

\* A number no larger than one within a limit is within it.
LEMMA WithinLess ==
    ASSUME NEW limit \in Limit, NEW m \in Nat, NEW n \in Nat, n <= m, Within(limit, m)
    PROVE  Within(limit, n)
BY DEF Within, Limit, Unlimited

\* New books hold no tokens.
LEMMA SumsWithinCapsInit == LInit => SumsWithinCaps
<1> SUFFICES ASSUME LInit PROVE SumsWithinCaps
  OBVIOUS
<1>1. \A w, D : LastWindow(w) \cap D = {}
  BY DEF LInit, LastWindow, InWindow, NoRow, Counted
<1>2. ASSUME NEW v, SumOver(v, AmountOf, {}) PROVE v = 0
  BY <1>2 DEF SumOver, IsSum
<1>3. ASSUME NEW limit \in Limit, NEW w, NEW D PROVE UnitsCap(limit, w, D)
  <2>1. Within(limit, 0)
    BY DEF Within, Limit, Unlimited
  <2> QED BY <1>1, <1>2, <2>1 DEF UnitsCap
<1> QED BY <1>3, CapsType DEF SumsWithinCaps

\* A reservation writes the amount it was asked for and its fee, and changes
\* no other row: a revived row was dead with that very amount.
LEMMA ReservedValues ==
    ASSUME LTypeOK, NEW k \in Keys, NEW amount, NEW fee, Reserve(k, amount, fee)
    PROVE  /\ AmountOf'[k] = amount /\ FeeOf'[k] = fee
           /\ \A j \in Keys \ {k} : AmountOf'[j] = AmountOf[j] /\ FeeOf'[j] = FeeOf[j]
<1>1. spend'[k] = ReservedRow(k, amount, fee) /\ \A j \in Keys \ {k} : spend'[j] = spend[j]
  BY DEF Reserve, LTypeOK
<1>2. ReservedRow(k, amount, fee).amount = amount /\ ReservedRow(k, amount, fee).fee = fee
  <2>1. CASE Exists(k)
    <3>1. spend[k].amount = amount
      BY <2>1 DEF Reserve, MayReserve, Reservable
    <3> QED BY <2>1, <3>1 DEF ReservedRow, LTypeOK, Row
  <2>2. CASE ~Exists(k)
    BY <2>2 DEF ReservedRow
  <2> QED BY <2>1, <2>2
<1> QED BY <1>1, <1>2 DEF AmountOf, FeeOf

\* One token cap: a step keeps the tokens of the last window within a limit
\* that reserve checks with the new amount added, over rows that include
\* those of the window.
LEMMA UnitsWithinOneCap ==
    ASSUME LTypeOK, LTypeOK', [LNext]_lvars,
           NEW w \in Nat, NEW limit \in Limit, NEW D \in SUBSET Debits,
           UnitsCap(limit, w, D),
           \A k \in D : \A amount, fee : Reserve(k, amount, fee) =>
               \E C \in SUBSET Keys : /\ InWindow(wall - w) \cap D \subseteq C
                                      /\ Within(limit, Units(C) + amount)
    PROVE  UnitsCap(limit, w, D)'
<1> SUFFICES ASSUME NEW v, SumOver(v, AmountOf', LastWindow(w)' \cap D)
             PROVE  Within(limit, v)
  BY DEF UnitsCap
<1>1. D \subseteq Keys
  BY DEF Keys
<1>2. PICK S : S = LastWindow(w)' \cap D
  OBVIOUS
<1>3. PICK T : T = LastWindow(w) \cap D
  OBVIOUS
<1>4. S \in SUBSET Keys /\ T \in SUBSET Keys
  BY <1>1, <1>2, <1>3
<1>5. IsFiniteSet(T)
  BY <1>4, WindowFinite
<1>6. PICK f : f = AmountOf'
  OBVIOUS
<1>7. PICK g : g = AmountOf
  OBVIOUS
<1>8. \A y \in Keys : f[y] \in Nat
  BY <1>6 DEF LTypeOK, Row, AmountOf
<1>9. \A y \in Keys : g[y] \in Nat
  BY <1>7, ValuesType
<1>10. SumOver(v, f, S)
  BY <1>2, <1>6
<1>11. PICK u : u = Units(T)
  OBVIOUS
<1>12. SumOver(u, g, T)
  BY <1>4, <1>7, <1>11, UnitsIsSum
<1>13. Within(limit, u)
  BY <1>3, <1>7, <1>12 DEF UnitsCap
<1>14. ASSUME S \subseteq T, \A y \in S : f[y] = g[y] PROVE Within(limit, v)
  <2>1. \A y \in S : f[y] \in Nat
    BY <1>4, <1>8
  <2>2. \A y \in T : g[y] \in Nat
    BY <1>4, <1>9
  <2>3. \A y \in S : f[y] <= g[y]
    BY <1>14, <2>1
  <2>4. v \in Nat /\ u \in Nat /\ v <= u
    BY <1>5, <1>10, <1>12, <1>14, <2>1, <2>2, <2>3, SumWithin
  <2> QED BY <1>13, <2>4, WithinLess
<1>15. CASE TakesNoBudget
  <2>1. S \subseteq T
    BY <1>2, <1>3, <1>15, WindowShrinks
  <2>2. \A y \in S : f[y] = g[y]
    BY <1>4, <1>6, <1>7, <1>15 DEF TakesNoBudget, AmountOf
  <2> QED BY <1>14, <2>1, <2>2
<1>16. ASSUME NEW k \in Keys, LReserve(k) PROVE Within(limit, v)
  <2>1. PICK amount \in AmountsFor(k), fee \in Fees : Reserve(k, amount, fee)
    BY <1>16 DEF LReserve
  <2>2. f[k] = amount /\ \A y \in Keys \ {k} : f[y] = g[y]
    BY <1>6, <1>7, <2>1, ReservedValues
  <2>3. CASE k \in D
    <3>1. PICK C \in SUBSET Keys : /\ InWindow(wall - w) \cap D \subseteq C
                                   /\ Within(limit, Units(C) + amount)
      BY <2>1, <2>3
    <3>2. PICK c : c = Units(C)
      OBVIOUS
    <3>3. SumOver(c, g, C)
      BY <1>7, <3>1, <3>2, UnitsIsSum
    <3>4. S \subseteq C \cup {k}
      BY <1>2, <2>1, <3>1, ReservedWindow
    <3>5. IsFiniteSet(C)
      BY WindowFinite
    <3>6. \A y \in S : f[y] \in Nat
      BY <1>4, <1>8
    <3>7. \A y \in C : g[y] \in Nat
      BY <1>9
    <3>8. f[k] \in Nat
      BY <1>8
    <3>9. \A y \in S \ {k} : f[y] <= g[y]
      BY <1>4, <1>9, <2>2
    <3>10. v \in Nat /\ c \in Nat /\ v <= c + f[k]
      BY <1>10, <3>3, <3>4, <3>5, <3>6, <3>7, <3>8, <3>9, SumWithOneMore
    <3>11. Within(limit, c + f[k])
      BY <2>2, <3>1, <3>2
    <3>12. c + f[k] \in Nat
      BY <3>8, <3>10
    <3> QED BY <3>10, <3>11, <3>12, WithinLess
  <2>4. CASE k \notin D
    <3>1. S \subseteq T
      BY <1>2, <1>3, <2>1, <2>4, ReservedWindow
    <3>2. \A y \in S : f[y] = g[y]
      BY <1>2, <1>4, <2>2, <2>4
    <3> QED BY <1>14, <3>1, <3>2
  <2> QED BY <2>3, <2>4
<1> QED BY <1>15, <1>16, OnlyReserveTakesBudget

\* Every ledger method keeps the tokens of the windows within their caps.
LEMMA SumsWithinCapsNext ==
    LTypeOK /\ SumsWithinCaps /\ [LNext]_lvars => SumsWithinCaps'
<1> SUFFICES ASSUME LTypeOK, SumsWithinCaps, [LNext]_lvars PROVE SumsWithinCaps'
  OBVIOUS
<1>1. LTypeOK'
  BY LTypeNext
<1>2. /\ Caps.units_10m \in Limit /\ Caps.units_1h \in Limit
      /\ Caps.units_24h \in Limit /\ Caps.units_channel_24h \in Limit
  BY CapsType
<1>3. W10m \in Nat /\ W1h \in Nat /\ W24h \in Nat
  BY WindowsType
<1>4. ASSUME NEW k \in Debits, NEW amount, NEW fee, Reserve(k, amount, fee)
      PROVE  /\ Within(Caps.units_10m, Units(InWindow(wall - W10m) \cap Debits) + amount)
             /\ Within(Caps.units_1h, Units(InWindow(wall - W1h) \cap Debits) + amount)
             /\ Within(Caps.units_24h, Units(InWindow(wall - W24h) \cap Debits) + amount)
             /\ Within(Caps.units_channel_24h, Units(OnChannel(ChannelOf[k], wall - W24h)) + amount)
  BY <1>4 DEF Reserve, MayReserve, WithinCaps, DebitWithinCaps, window_units, channel_units
<1>5. \A cut : InWindow(cut) \cap Debits \in SUBSET Keys
  BY DEF InWindow
<1>6. \A ch, cut : OnChannel(ch, cut) \in SUBSET Keys
  BY DEF OnChannel, InWindow
<1>7. UnitsCap(Caps.units_10m, W10m, Debits)'
  <2>1. \A k \in Debits : \A amount, fee : Reserve(k, amount, fee) =>
            \E C \in SUBSET Keys : /\ InWindow(wall - W10m) \cap Debits \subseteq C
                                   /\ Within(Caps.units_10m, Units(C) + amount)
    BY <1>4, <1>5
  <2> QED BY <1>1, <1>2, <1>3, <2>1, UnitsWithinOneCap DEF SumsWithinCaps
<1>8. UnitsCap(Caps.units_1h, W1h, Debits)'
  <2>1. \A k \in Debits : \A amount, fee : Reserve(k, amount, fee) =>
            \E C \in SUBSET Keys : /\ InWindow(wall - W1h) \cap Debits \subseteq C
                                   /\ Within(Caps.units_1h, Units(C) + amount)
    BY <1>4, <1>5
  <2> QED BY <1>1, <1>2, <1>3, <2>1, UnitsWithinOneCap DEF SumsWithinCaps
<1>9. UnitsCap(Caps.units_24h, W24h, Debits)'
  <2>1. \A k \in Debits : \A amount, fee : Reserve(k, amount, fee) =>
            \E C \in SUBSET Keys : /\ InWindow(wall - W24h) \cap Debits \subseteq C
                                   /\ Within(Caps.units_24h, Units(C) + amount)
    BY <1>4, <1>5
  <2> QED BY <1>1, <1>2, <1>3, <2>1, UnitsWithinOneCap DEF SumsWithinCaps
<1>10. ASSUME NEW d \in Debits PROVE UnitsCap(Caps.units_channel_24h, W24h, SameChannel(d))'
  <2>1. PICK D \in SUBSET Debits : D = SameChannel(d)
    BY DEF SameChannel
  <2>2. ASSUME NEW k \in D, NEW amount, NEW fee, Reserve(k, amount, fee)
        PROVE  \E C \in SUBSET Keys : /\ InWindow(wall - W24h) \cap D \subseteq C
                                      /\ Within(Caps.units_channel_24h, Units(C) + amount)
    <3>1. k \in Debits /\ ChannelOf[k] = ChannelOf[d]
      BY <2>1 DEF SameChannel
    <3>2. InWindow(wall - W24h) \cap D \subseteq OnChannel(ChannelOf[k], wall - W24h)
      BY <2>1, <3>1 DEF SameChannel, OnChannel
    <3> QED BY <1>4, <1>6, <2>2, <3>1, <3>2
  <2>3. UnitsCap(Caps.units_channel_24h, W24h, D)
    BY <2>1 DEF SumsWithinCaps
  <2>4. UnitsCap(Caps.units_channel_24h, W24h, D)'
    BY <1>1, <1>2, <1>3, <2>2, <2>3, UnitsWithinOneCap
  <2> QED BY <2>1, <2>4
<1> QED BY <1>7, <1>8, <1>9, <1>10 DEF SumsWithinCaps

\* The tokens held by the rows of the last 10 minutes, hour and day, and of a
\* channel's last day, never pass their caps (the velocity checks of reserve),
\* whatever the clock does and whichever rows are released and revived.
THEOREM TokensBounded == LedgerSpec => []UnitsWithinCaps
<1>1. LInit => LTypeOK /\ SumsWithinCaps
  BY LTypeInit, SumsWithinCapsInit
<1>2. (LTypeOK /\ SumsWithinCaps) /\ [LNext]_lvars => (LTypeOK /\ SumsWithinCaps)'
  BY LTypeNext, SumsWithinCapsNext
<1> QED BY <1>1, <1>2, SumsWithinCapsSuffice, PTL DEF LedgerSpec

-----------------------------------------------------------------------------
(***************************************************************************)
(* The fee cap, a property of the step that takes budget.                  *)
(***************************************************************************)

\* FeeExposure is the sum of the fees of the last day.
LEMMA ExposureIsSum == SumOver(FeeExposure, FeeOf, LastWindow(W24h))
<1>1. LastWindow(W24h) \in SUBSET Keys
  BY DEF LastWindow, InWindow
<1> QED BY <1>1, FeesAreSums, Zenon DEF FeeExposure

\* A reservation leaves the fee exposure of the last day within the cap.
LEMMA ReserveWithinFeeCap ==
    ASSUME LTypeOK, LTypeOK', NEW k \in Keys, LReserve(k)
    PROVE  Within(Caps.fee_wei_24h, FeeExposure')
<1>1. PICK amount \in AmountsFor(k), fee \in Fees : Reserve(k, amount, fee)
  BY DEF LReserve
<1>2. PICK C : C = InWindow(wall - W24h)
  OBVIOUS
<1>3. C \in SUBSET Keys /\ IsFiniteSet(C)
  BY <1>2, WindowFinite DEF InWindow
<1>4. PICK c : c = fee_wei_window(wall - W24h)
  OBVIOUS
<1>5. Within(Caps.fee_wei_24h, c + fee)
  BY <1>1, <1>4 DEF Reserve, MayReserve, WithinCaps, DebitWithinCaps, GasOnlyWithinCaps
<1>6. PICK g : g = FeeOf
  OBVIOUS
<1>7. SumOver(c, g, C)
  <2>1. InWindow(wall - W24h) \in SUBSET Keys
    BY <1>2, <1>3
  <2>2. SumOver(fee_wei_window(wall - W24h), FeeOf, InWindow(wall - W24h))
    BY <2>1, FeesAreSums, Zenon DEF fee_wei_window
  <2> QED BY <1>2, <1>4, <1>6, <2>2
<1>8. PICK v : v = FeeExposure'
  OBVIOUS
<1>9. PICK f : f = FeeOf'
  OBVIOUS
<1>10. PICK S : S = LastWindow(W24h)'
  OBVIOUS
<1>11. SumOver(v, f, S)
  <2>1. SumOver(FeeExposure, FeeOf, LastWindow(W24h))'
    BY ExposureIsSum, PTL
  <2> QED BY <1>8, <1>9, <1>10, <2>1
<1>12. f[k] = fee /\ \A y \in Keys \ {k} : f[y] = g[y]
  BY <1>1, <1>6, <1>9, ReservedValues
<1>13. S \subseteq C \cup {k} /\ S \in SUBSET Keys
  <2>1. W24h \in Nat
    BY WindowsType
  <2>2. S \subseteq C \cup {k}
    BY <1>1, <1>2, <1>10, <2>1, ReservedWindow
  <2> QED BY <1>3, <2>2
<1>14. \A y \in Keys : f[y] \in Nat
  BY <1>9 DEF LTypeOK, Row, FeeOf
<1>15. \A y \in Keys : g[y] \in Nat
  BY <1>6, ValuesType
<1>16. \A y \in S : f[y] \in Nat
  BY <1>13, <1>14
<1>17. \A y \in C : g[y] \in Nat
  BY <1>3, <1>15
<1>18. \A y \in S \ {k} : f[y] <= g[y]
  BY <1>12, <1>13, <1>15
<1>19. f[k] \in Nat
  BY <1>14
<1>20. v \in Nat /\ c \in Nat /\ v <= c + f[k]
  BY <1>3, <1>7, <1>11, <1>13, <1>16, <1>17, <1>18, <1>19, SumWithOneMore
<1>21. Caps.fee_wei_24h \in Limit /\ c + f[k] \in Nat
  BY <1>19, <1>20, CapsType
<1>22. Within(Caps.fee_wei_24h, v)
  BY <1>5, <1>12, <1>20, <1>21, WithinLess
<1> QED BY <1>8, <1>22

\* No row enters the books, through either door, fresh or revived, unless the
\* fee exposure of the last day with it stays under fee_wei_24h.
THEOREM FeesReservedBounded == LedgerSpec => ReservesWithinFeeCap
<1> DEFINE Enters == \E k \in Keys : spend[k].state \notin Counted /\ spend'[k].state \in Counted
<1>1. LTypeOK /\ LTypeOK' /\ [LNext]_lvars
        => [Enters => Within(Caps.fee_wei_24h, FeeExposure')]_lvars
  <2> SUFFICES ASSUME LTypeOK, LTypeOK', [LNext]_lvars, Enters
               PROVE  Within(Caps.fee_wei_24h, FeeExposure')
    OBVIOUS
  <2>1. ~TakesNoBudget
    BY DEF TakesNoBudget
  <2> QED BY <2>1, OnlyReserveTakesBudget, ReserveWithinFeeCap
<1> QED BY <1>1, LedgerTypeCorrect, PTL DEF LedgerSpec, ReservesWithinFeeCap

=============================================================================
