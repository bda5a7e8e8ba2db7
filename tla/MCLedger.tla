------------------------------ MODULE MCLedger ------------------------------
(***************************************************************************)
(* The books alone, driven by every order of calls the policy could make   *)
(* and by a clock that moves as it likes.                                  *)
(***************************************************************************)
EXTENDS Ledger, TLC

CONSTANTS d1, d2, s1, s2, c1, sweepLabel,
          MaxSeq   \* bound: rows inserted and attempts recorded

MCChannelOf == [k \in {d1, d2, s1, s2} |-> IF k \in {s1, s2} THEN sweepLabel ELSE c1]

MCDeadline == [k \in {d1, d2, s1, s2} |-> IF k \in {s1, s2} THEN 0 ELSE 2]

\* one unit and one debit an hour, one sweep a day; two calls fit under the fee cap
\* only once a receipt has shown that the first cost less than its ceiling
MCCaps == [units_per_tx |-> 1, units_10m |-> 1, units_1h |-> 1, units_24h |-> 2,
           units_channel_24h |-> 2, tx_1h |-> 1, tx_24h |-> 2,
           tx_per_channel_24h |-> 2, distinct_channels_24h |-> 2,
           fee_wei_24h |-> 3]

\* debits on one channel are alike, and so are sweeps
MCSymmetry == Permutations({d1, d2}) \cup Permutations({s1, s2})

MCNext == LNext /\ maxSeq' <= MaxSeq

MCSpec == LInit /\ [][MCNext]_lvars

=============================================================================
