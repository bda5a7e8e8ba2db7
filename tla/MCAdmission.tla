----------------------------- MODULE MCAdmission -----------------------------
(***************************************************************************)
(* Requests with one thing varied at a time, and the rest as it should be: *)
(* the calldata, the envelope, or the debit and the channel together.      *)
(***************************************************************************)
EXTENDS Admission

GoodHeader == [shape |-> TRUE, value |-> 0, chain |-> TRUE, escrow |-> TRUE, hex |-> TRUE, gas |-> 1]

AllHeaders ==
    [shape : BOOLEAN, value : {0, 1}, chain : BOOLEAN, escrow : BOOLEAN, hex : BOOLEAN, gas : {0, 1, 3}]

Call(channel, amount, receipt, deadline) ==
    [channel_id |-> channel, amount |-> amount, receipt_id |-> receipt, deadline |-> deadline,
     signature |-> <<3, 3, 3>>]

Signed(by, hub, nonce, c) ==
    [by |-> by, over |-> [channel_id |-> c.channel_id, hub |-> hub, token |-> "usdc", amount |-> c.amount,
                          receipt_id |-> c.receipt_id, nonce |-> nonce, deadline |-> c.deadline]]

GoodCall == Call(2, 2, 3, 3)

Rightly == Signed("alice", "us", 0, GoodCall)

Channel(hub, token, balance, used, expires, closable, nonce, status, v2) ==
    [depositor |-> "alice", hub |-> hub, token |-> token, balance |-> balance,
     used_amount |-> used, expires_at |-> expires, closable_at |-> closable, nonce |-> nonce,
     status |-> status, v2 |-> v2]

GoodChannel == Channel("us", "usdc", 3, 0, 4, 0, 0, 0, FALSE)

\* a channel the contract does not know reads as zeroes
Unknown(v2) == [Channel("zero", "zero", 0, 0, 0, 0, 0, 0, v2) EXCEPT !.depositor = "zero"]

SomeChannels ==
    {Unknown(v2) : v2 \in BOOLEAN} \cup {Channel("us", "dai", 2, 1, 4, 0, 1, 0, TRUE)}
    \cup {Channel(hub, "usdc", 3 - used, used, expires, IF v2 THEN closable ELSE 0, used, status, v2) :
             hub \in {"zero", "us", "them"}, used \in {0, 1},
             expires \in 1..4, closable \in {0, 2}, status \in {0, 1}, v2 \in BOOLEAN}

Scenario(h, d, sig, ch, collect) ==
    [header |-> h, data |-> d, signed |-> sig, chan |-> ch, collected |-> collect]

AnyCalldata(strings) == {Scenario(GoodHeader, d, Rightly, GoodChannel, FALSE) : d \in strings}

\* a debit, an expiry, a clipped debit, and another function's selector
AnyEnvelope ==
    {Scenario(h, d, Rightly, GoodChannel, FALSE) : h \in AllHeaders,
        d \in {encode_debit(GoodCall), <<ExpireSelector, 2>>, <<DebitSelector, 2>>, <<2, 2>>, <<>>}}

\* rightly signed at either nonce, or by another, for another hub, for another amount
SomeDebits ==
    {<<c, Signed("alice", "us", n, c)>> :
        c \in {Call(2, a, 3, d) : a \in {2, 3}, d \in {0, 3, 5}}, n \in {0, 1}}
    \cup {<<GoodCall, Signed("mallory", "us", 0, GoodCall)>>, <<GoodCall, Signed("alice", "them", 0, GoodCall)>>,
          <<GoodCall, Signed("alice", "us", 0, Call(2, 3, 3, 3))>>}

AnyChannel ==
    {Scenario(GoodHeader, encode_debit(c[1]), c[2], ch, collect) :
        c \in SomeDebits, ch \in SomeChannels, collect \in BOOLEAN}
    \cup {Scenario(GoodHeader, <<ExpireSelector, 2>>, Rightly, ch, FALSE) : ch \in SomeChannels}

\* every string of three byte values around the two canonical lengths, and the
\* encodings with one byte more
MCScenarios ==
    <<AnyEnvelope, AnyChannel,
      AnyCalldata(UNION {[1..n -> {0, 3, 5}] : n \in 0..3}),
      AnyCalldata([1..(CanonicalLen - 1) -> {0, 3, 5}]),
      AnyCalldata([1..CanonicalLen -> {0, 3, 5}]),
      AnyCalldata({Append(d, 0) : d \in DebitEncodings})>>

==============================================================================
