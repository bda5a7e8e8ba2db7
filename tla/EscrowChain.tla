----------------------------- MODULE EscrowChain -----------------------------
(***************************************************************************)
(* The chain as the signer sees it through its RPC endpoints: the account  *)
(* nonce of the hot key, the transactions some node knows and the receipts *)
(* of those included.  External to the repository: modelled from the calls *)
(* escrow_signer/chainio.py makes and from what policy.py relies on.       *)
(*                                                                         *)
(* A transaction in the pool may stay there forever, so eviction needs no  *)
(* action of its own.                                                      *)
(***************************************************************************)
EXTENDS Requests

CONSTANTS
    RejectsAreFinal, \* an endpoint's rejection means no other endpoint took the transaction
    MayRevert,       \* an included call may revert although the simulation passed
    NodesLag         \* a read of the latest state may be answered from before the last block

ASSUME ChainAssumptions == {RejectsAreFinal, MayRevert, NodesLag} \subseteq BOOLEAN

VARIABLES
    chainNonce, \* the nonce the chain expects next from the hot key
    pool,       \* signed transactions some node holds
    landed,     \* included transactions, with the status of their receipt
    blockTime   \* the timestamp the next block will carry

chain == <<chainNonce, pool, landed>>

ChainTypeOK ==
    /\ chainNonce \in Nat
    /\ pool \subseteq Tx
    /\ landed \subseteq [tx : Tx, ok : BOOLEAN]
    /\ blockTime \in Nat

ChainInit ==
    /\ chainNonce = 0
    /\ pool = {}
    /\ landed = {}

\* usedReceipts / isReceiptUsed, and a channel already expired
Succeeded(k) == \E l \in landed : l.tx.key = k /\ l.ok

receipt_used(k) == k \in Debits /\ Succeeded(k)

\* the answers a node may give: a lagging one has not seen the block yet
Reads(truth) == {truth} \cup (IF NodesLag THEN {FALSE} ELSE {})

\* what the contract accepts at the next block: a receipt once and in time, an
\* expiry once; a token transfer has no condition of its own
Accepts(k) ==
    \/ k \in Debits /\ ~Succeeded(k) /\ blockTime <= Deadline[k]
    \/ k \in Expires /\ ~Succeeded(k)
    \/ k \in Sweeps

\* eth_getTransactionReceipt
HasReceipt(tx, ok) == [tx |-> tx, ok |-> ok] \in landed

\* eth_getTransactionCount(address, "pending"): the node asked may not hold the whole pool
PendingCounts ==
    {n \in {chainNonce} \cup {t.nonce + 1 : t \in pool} :
        /\ n >= chainNonce
        /\ \A m \in chainNonce..(n - 1) : \E t \in pool : t.nonce = m}

\* a block includes the account's next transaction, and every other one at that nonce dies
Include ==
    \E t \in pool :
        /\ t.nonce = chainNonce
        /\ \E ok \in {Accepts(t.key)} \cup (IF MayRevert THEN {FALSE} ELSE {}) :
               landed' = landed \cup {[tx |-> t, ok |-> ok]}
        /\ chainNonce' = chainNonce + 1
        /\ pool' = {u \in pool : u.nonce # chainNonce}

\* a node takes the transaction; one at a nonce already spent is nobody's any more
Deliver(tx) == tx.nonce >= chainNonce /\ pool' = pool \cup {tx}

=============================================================================
