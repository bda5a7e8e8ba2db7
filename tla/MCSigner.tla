------------------------------ MODULE MCSigner ------------------------------
(***************************************************************************)
(* Small instances of the signing process.                                 *)
(***************************************************************************)
EXTENDS PolicySigner

CONSTANTS d1, d2, e1, s1, s2, c1, c2, sweepLabel

AllKeys == {d1, d2, e1, s1, s2}

\* the two debits share a channel; the expired channel is another one
MCChannelOf == [k \in AllKeys |->
    CASE k \in {s1, s2} -> sweepLabel [] k = e1 -> c2 [] OTHER -> c1]

\* d1 expires before d2
MCDeadline == [k \in AllKeys \cap Keys |->
    CASE k = d1 -> 2 [] k = d2 -> 3 [] OTHER -> 0]

NoLimit == -1

NoCaps == [units_per_tx |-> -1, units_10m |-> -1, units_1h |-> -1, units_24h |-> -1,
           units_channel_24h |-> -1, tx_1h |-> -1, tx_24h |-> -1,
           tx_per_channel_24h |-> -1, distinct_channels_24h |-> -1,
           fee_wei_24h |-> -1]

=============================================================================
