------------------------------ MODULE Calldata ------------------------------
(***************************************************************************)
(* The strict calldata codec (escrow_signer/calldata.py), over bytes of a  *)
(* small alphabet.  The layout is the code's, with every size a constant   *)
(* of the scaled one: a selector and a word are one byte, a signature is   *)
(* the three bytes r, s and v, its padding one byte.                       *)
(***************************************************************************)
EXTENDS Integers, Sequences, FiniteSetsExt

CONSTANTS
    Bytes,         \* the alphabet, 0 included
    DebitSelector, ExpireSelector,
    Offset,        \* _OFFSET_WORD: bytes from the head to the tail
    SigLen,        \* SIG_LEN
    N,             \* the group order
    Vs             \* {27, 28}

ASSUME CodecConstants ==
    /\ Bytes \subseteq Nat /\ {0, DebitSelector, ExpireSelector, Offset, SigLen} \subseteq Bytes
    /\ DebitSelector # ExpireSelector
    /\ SigLen = 3 /\ Offset = 5
    /\ N \in Nat /\ N % 2 = 1 /\ N > 1
    /\ Vs \subseteq Bytes

-----------------------------------------------------------------------------

\* rules in the order of the code: the reason code of the first one broken
FirstBreach(rules) ==
    LET broken == {i \in DOMAIN rules : ~rules[i][1]}
    IN  IF broken = {} THEN "none" ELSE rules[Min(broken)][2]

\* selector, five head words, the length word, the signature and its padding
CanonicalLen == 1 + 5 + 1 + SigLen + 1

ExpireLen == 1 + 1

encode_debit(c) ==
    <<DebitSelector, c.channel_id, c.amount, c.receipt_id, c.deadline, Offset, SigLen>>
        \o c.signature \o <<0>>

encode_expire(c) == <<ExpireSelector, c.channel_id>>

DebitCall(d) ==
    [channel_id |-> d[2], amount |-> d[3], receipt_id |-> d[4], deadline |-> d[5],
     signature |-> SubSeq(d, 8, 10)]

ExpireCall(d) == [channel_id |-> d[2]]

\* Mutant: the padding is not looked at.
DebitShapeRulesUnpadded(d) == <<
    <<d[1] = DebitSelector, "selector_not_allowed">>,
    <<d[6] = Offset, "calldata_noncanonical">>,
    <<d[7] = SigLen, "calldata_length">> >>

\* selector, offset word, length word and zero padding
DebitShapeRules(d) == <<
    <<d[1] = DebitSelector, "selector_not_allowed">>,
    <<d[6] = Offset, "calldata_noncanonical">>,
    <<d[7] = SigLen, "calldata_length">>,
    <<d[11] = 0, "calldata_noncanonical">> >>

\* what was read encodes to what was given
Reencodes(same) == << <<same, "reencode_mismatch">> >>

\* Mutant: a permissive decoder reads the fields wherever they are.
DecodesAnything(d) == IF Len(d) < CanonicalLen THEN "calldata_length" ELSE "none"

\* length, shape, then the assertion
decode_debit(d) ==
    IF Len(d) # CanonicalLen
    THEN "calldata_length"
    ELSE FirstBreach(DebitShapeRules(d) \o Reencodes(encode_debit(DebitCall(d)) = d))

decode_expire(d) ==
    IF Len(d) # ExpireLen
    THEN "calldata_length"
    ELSE FirstBreach(<< <<d[1] = ExpireSelector, "selector_not_allowed">> >>
                        \o Reencodes(encode_expire(ExpireCall(d)) = d))

\* Mutant: the boundary itself is off by one.
LowSOffByOne(s) == 1 <= s /\ s < N /\ s <= N \div 2 + 1

LowS(s) == 1 <= s /\ s < N /\ s <= N \div 2

check_signature_shape(sig) ==
    IF 1 <= sig[1] /\ sig[1] < N /\ LowS(sig[2]) /\ sig[3] \in Vs
    THEN "none" ELSE "signature_malformed"

-----------------------------------------------------------------------------

DebitCalls ==
    [channel_id : Bytes, amount : Bytes, receipt_id : Bytes, deadline : Bytes,
     signature : [1..SigLen -> Bytes]]

\* every string that is the encoding of a call
DebitEncodings == {encode_debit(c) : c \in DebitCalls}

ExpireEncodings == {encode_expire([channel_id |-> c]) : c \in Bytes}

\* the other signature that recovers to the same signer: s negated, v flipped
Twins(d) == {[d EXCEPT ![9] = N - d[9], ![10] = v] : v \in Vs}

=============================================================================
