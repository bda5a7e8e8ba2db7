------------------------------ MODULE Requests ------------------------------
(***************************************************************************)
(* The keys under which the signer keeps its books, and the transactions   *)
(* it signs for them.                                                      *)
(*                                                                         *)
(* A row of the ledger is keyed by a 32-byte receipt.  The receipt of a    *)
(* debit is the one the buyer's signature covers; expireChannel and the    *)
(* proceeds sweep have none and hash a domain-separated label instead, so  *)
(* the three kinds of key never collide.                                   *)
(***************************************************************************)
EXTENDS Integers, FiniteSets

CONSTANTS
    Debits,      \* receipts a hub may ask a debitChannel for
    Expires,     \* keccak("expireChannel|" channel), one per collectable channel
    Sweeps,      \* keccak("sweepProceeds|" to now balance)
    Amounts,     \* amounts, in token units, a debit may carry
    Fees,        \* fee ceilings (max fee per gas * gas limit) the quotes produce
    ChannelOf,   \* the channel of a key; sweeps share the label SWEEP_CHANNEL
    Deadline     \* the deadline a row stores: the calldata's for a debit, 0 otherwise

Keys == Debits \cup Expires \cup Sweeps

GasOnly == Expires \cup Sweeps

ASSUME KeysFinite == IsFiniteSet(Keys)

ASSUME KindsDisjoint ==
    /\ Debits \cap Expires = {}
    /\ Debits \cap Sweeps = {}
    /\ Expires \cap Sweeps = {}

ASSUME AmountsPositive == Amounts \subseteq Nat \ {0}

ASSUME FeesPositive == Fees \subseteq Nat \ {0}

ASSUME DeadlineType == Deadline \in [Keys -> Nat]

ASSUME GasOnlyDeadline == \A k \in GasOnly : Deadline[k] = 0

ASSUME SweepChannel ==
    \A s \in Sweeps, k \in Keys : ChannelOf[k] = ChannelOf[s] => k \in Sweeps

(***************************************************************************)
(* A signed transaction, identified with its hash: the calldata (key and   *)
(* amount), the account nonce and the fee are all it depends on.           *)
(***************************************************************************)
Tx == [key : Keys, amount : Nat, nonce : Nat, fee : Nat]

\* tx_hash = ''
NoTx == [key |-> "none"]

=============================================================================
