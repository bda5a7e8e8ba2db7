--------------------------- MODULE AdmissionProofs ---------------------------
(***************************************************************************)
(* Theorems about the checks a request passes (modules Calldata and        *)
(* Admission), for every request, channel and setting of the bands.        *)
(***************************************************************************)
EXTENDS Admission, OrderLemmas, SequenceTheorems

-----------------------------------------------------------------------------
(***************************************************************************)
(* Rules in the order of the code.                                         *)
(***************************************************************************)

\* either no rule is broken, or the answer is that of the first one that is
LEMMA FirstBroken ==
    ASSUME NEW rules, NEW n \in Nat, DOMAIN rules = 1..n
    PROVE  \/ FirstBreach(rules) = "none" /\ \A i \in 1..n : rules[i][1]
           \/ \E k \in 1..n : /\ ~rules[k][1]
                              /\ \A j \in 1..n : j < k => rules[j][1]
                              /\ FirstBreach(rules) = rules[k][2]
  <1> DEFINE broken == {i \in DOMAIN rules : ~rules[i][1]}
  <1>1. CASE broken = {}
    BY <1>1 DEF FirstBreach
  <1>2. CASE broken # {}
    <2>1. broken \in SUBSET Nat
      OBVIOUS
    <2>2. Min(broken) \in broken /\ \A i \in broken : Min(broken) <= i
      <3> HIDE DEF broken
      <3> QED BY <1>2, <2>1, MinIsLeast
    <2>3. FirstBreach(rules) = rules[Min(broken)][2]
      BY <1>2 DEF FirstBreach
    <2>4. PICK k \in broken : k = Min(broken)
      BY <2>2
    <2>5. k \in 1..n /\ ~rules[k][1] /\ FirstBreach(rules) = rules[k][2]
      BY <2>3, <2>4
    <2>6. ASSUME NEW j \in 1..n, j < k, ~rules[j][1] PROVE FALSE
      <3>1. j \in broken
        BY <2>6
      <3>2. k <= j
        BY <2>2, <2>4, <3>1, Zenon
      <3> HIDE DEF broken
      <3> QED
        BY <2>5, <2>6, <3>2
    <2> QED
      BY <2>5, <2>6
  <1> QED
    BY <1>1, <1>2

\* a single rule
LEMMA OnlyRule ==
    ASSUME NEW ok, NEW code
    PROVE  FirstBreach(<< <<ok, code>> >>) = IF ok THEN "none" ELSE code
  <1> DEFINE rules == << <<ok, code>> >>
  <1>1. DOMAIN rules = 1..1 /\ rules[1] = <<ok, code>>
    OBVIOUS
  <1>2. (rules[1][1] <=> ok) /\ rules[1][2] = code
    OBVIOUS
  <1> HIDE DEF rules
  <1>3. \/ FirstBreach(rules) = "none" /\ \A i \in 1..1 : rules[i][1]
        \/ \E k \in 1..1 : ~rules[k][1] /\ FirstBreach(rules) = rules[k][2]
    BY <1>1, FirstBroken, Zenon
  <1>4. \A k \in 1..1 : k = 1
    OBVIOUS
  <1>5. FirstBreach(rules) = IF ok THEN "none" ELSE code
    BY <1>2, <1>3, <1>4
  <1> QED
    BY <1>5 DEF rules

\* rules after rules: the later ones count when the earlier ones hold
LEMMA RulesAfterRules ==
    ASSUME NEW S, NEW a \in Seq(S), NEW b \in Seq(S)
    PROVE  FirstBreach(a \o b) = IF \E i \in 1..Len(a) : ~a[i][1] THEN FirstBreach(a) ELSE FirstBreach(b)
  <1> DEFINE ab == a \o b
             m  == Len(a)
             n  == Len(b)
  <1>1. m \in Nat /\ n \in Nat /\ DOMAIN a = 1..m /\ DOMAIN b = 1..n /\ DOMAIN ab = 1..(m + n)
    BY ConcatProperties, LenProperties
  <1>2. \A i \in 1..m : i \in 1..(m + n) /\ ab[i] = a[i]
    BY <1>1, ConcatProperties
  <1>3. \A i \in 1..n : m + i \in 1..(m + n) /\ ab[m + i] = b[i]
    BY <1>1, ConcatProperties
  <1>4. \A i \in 1..(m + n) : i \in 1..m \/ (i - m \in 1..n /\ i = m + (i - m))
    BY <1>1
  <1> HIDE DEF ab, m, n
  <1>5. \/ FirstBreach(ab) = "none" /\ \A i \in 1..(m + n) : ab[i][1]
        \/ \E k \in 1..(m + n) : /\ ~ab[k][1]
                                 /\ \A j \in 1..(m + n) : j < k => ab[j][1]
                                 /\ FirstBreach(ab) = ab[k][2]
    <2>1. m + n \in Nat
      BY <1>1
    <2> QED
      BY <1>1, <2>1, FirstBroken, Zenon
  <1>6. \/ FirstBreach(a) = "none" /\ \A i \in 1..m : a[i][1]
        \/ \E k \in 1..m : /\ ~a[k][1]
                           /\ \A j \in 1..m : j < k => a[j][1]
                           /\ FirstBreach(a) = a[k][2]
    BY <1>1, FirstBroken, Zenon
  <1>7. \/ FirstBreach(b) = "none" /\ \A i \in 1..n : b[i][1]
        \/ \E k \in 1..n : /\ ~b[k][1]
                           /\ \A j \in 1..n : j < k => b[j][1]
                           /\ FirstBreach(b) = b[k][2]
    BY <1>1, FirstBroken, Zenon
  <1>8. CASE \E i \in 1..m : ~a[i][1]
    <2>1. PICK k \in 1..m : ~a[k][1] /\ (\A j \in 1..m : j < k => a[j][1]) /\ FirstBreach(a) = a[k][2]
      BY <1>6, <1>8
    <2>2. k \in 1..(m + n) /\ ~ab[k][1]
      BY <1>2, <2>1
    <2>3. PICK l \in 1..(m + n) : ~ab[l][1] /\ (\A j \in 1..(m + n) : j < l => ab[j][1]) /\ FirstBreach(ab) = ab[l][2]
      BY <1>5, <2>2
    <2>4. l <= k
      BY <1>1, <2>2, <2>3
    <2>5. l \in 1..m /\ ~a[l][1]
      BY <1>1, <1>2, <2>3, <2>4
    <2>6. l = k
      BY <1>1, <2>1, <2>4, <2>5
    <2> QED
      BY <1>2, <1>8, <2>1, <2>3, <2>6 DEF ab, m
  <1>9. CASE \A i \in 1..m : a[i][1]
    <2>1. CASE \A i \in 1..n : b[i][1]
      <3>1. \A i \in 1..(m + n) : ab[i][1]
        BY <1>2, <1>3, <1>4, <1>9, <2>1
      <3>2. FirstBreach(ab) = "none" /\ FirstBreach(b) = "none"
        BY <1>5, <1>7, <2>1, <3>1
      <3> QED
        BY <1>9, <3>2 DEF ab, m
    <2>2. CASE \E i \in 1..n : ~b[i][1]
      <3>1. PICK k \in 1..n : ~b[k][1] /\ (\A j \in 1..n : j < k => b[j][1]) /\ FirstBreach(b) = b[k][2]
        BY <1>7, <2>2
      <3>2. m + k \in 1..(m + n) /\ ~ab[m + k][1]
        BY <1>3, <3>1
      <3>3. PICK l \in 1..(m + n) : ~ab[l][1] /\ (\A j \in 1..(m + n) : j < l => ab[j][1]) /\ FirstBreach(ab) = ab[l][2]
        BY <1>5, <3>2
      <3>4. l \notin 1..m
        BY <1>2, <1>9, <3>3
      <3>5. l - m \in 1..n /\ l = m + (l - m)
        BY <1>4, <3>3, <3>4
      <3>6. ~b[l - m][1]
        BY <1>3, <3>3, <3>5
      <3>7. k <= l - m
        BY <1>1, <3>1, <3>5, <3>6
      <3>8. l <= m + k
        BY <1>1, <3>2, <3>3
      <3>9. l = m + k
        BY <1>1, <3>5, <3>7, <3>8
      <3> QED
        BY <1>3, <1>9, <3>1, <3>3, <3>9 DEF ab, m
    <2> QED
      BY <2>1, <2>2
  <1> QED
    BY <1>8, <1>9


\* _parse_envelope: what is left when it answers nothing, and what it answers
LEMMA EnvelopeBreach ==
    ASSUME NEW h
    PROVE  \/ /\ FirstBreach(EnvelopeRules(h)) = "none"
              /\ h.shape /\ h.value = 0 /\ h.chain /\ h.escrow /\ h.hex /\ h.gas > 0
           \/ FirstBreach(EnvelopeRules(h)) \in {"value_not_zero", "wrong_chain", "to_not_escrow"}
           \/ FirstBreach(EnvelopeRules(h)) = "envelope_invalid" /\ (~h.shape \/ ~(h.gas > 0))
           \/ FirstBreach(EnvelopeRules(h)) = "calldata_length" /\ ~h.hex
  <1> DEFINE rules == EnvelopeRules(h)
  <1>1. DOMAIN rules = 1..6
    BY DEF EnvelopeRules
  <1>2. /\ rules[1][1] <=> h.shape
        /\ rules[2][1] <=> h.value = 0
        /\ rules[3][1] <=> h.chain
        /\ rules[4][1] <=> h.escrow
        /\ rules[5][1] <=> h.hex
        /\ rules[6][1] <=> h.gas > 0
    BY DEF EnvelopeRules
  <1>5. /\ rules[1][2] = "envelope_invalid"
        /\ rules[2][2] = "value_not_zero"
        /\ rules[3][2] = "wrong_chain"
        /\ rules[4][2] = "to_not_escrow"
        /\ rules[5][2] = "calldata_length"
        /\ rules[6][2] = "envelope_invalid"
    BY DEF EnvelopeRules
  <1> HIDE DEF rules
  <1>3. CASE FirstBreach(rules) = "none" /\ \A i \in 1..6 : rules[i][1]
    BY <1>2, <1>3 DEF rules
  <1>4. ASSUME NEW k \in 1..6, ~rules[k][1], FirstBreach(rules) = rules[k][2]
        PROVE  \/ FirstBreach(rules) \in {"value_not_zero", "wrong_chain", "to_not_escrow"}
               \/ FirstBreach(rules) = "envelope_invalid" /\ (~h.shape \/ ~(h.gas > 0))
               \/ FirstBreach(rules) = "calldata_length" /\ ~h.hex
    <2>1. k \in {1, 2, 3, 4, 5, 6}
      OBVIOUS
    <2> QED
      BY <1>2, <1>4, <1>5, <2>1
  <1>6. \/ FirstBreach(rules) = "none" /\ \A i \in 1..6 : rules[i][1]
        \/ \E k \in 1..6 : ~rules[k][1] /\ FirstBreach(rules) = rules[k][2]
    BY <1>1, FirstBroken, Zenon
  <1> QED
    BY <1>3, <1>4, <1>6 DEF rules


-----------------------------------------------------------------------------
(***************************************************************************)
(* The codec.                                                              *)
(***************************************************************************)

\* The scaled layout in numbers: 11 bytes for a debit, 2 for an expiry.
LEMMA Sizes ==
    /\ CanonicalLen = 11 /\ ExpireLen = 2 /\ SigLen = 3 /\ Offset = 5
    /\ DebitSelector \in Bytes /\ ExpireSelector \in Bytes /\ Offset \in Bytes /\ SigLen \in Bytes
    /\ 0 \in Bytes /\ DebitSelector # ExpireSelector /\ Bytes \subseteq Nat
  BY CodecConstants DEF CanonicalLen, ExpireLen

\* A signature of three bytes is a byte string of length 3.
LEMMA ThreeBytes ==
    ASSUME NEW f \in [1..3 -> Bytes]
    PROVE  f \in Seq(Bytes) /\ Len(f) = 3
  <1>1. PICK x \in Bytes, y \in Bytes, z \in Bytes : f[1] = x /\ f[2] = y /\ f[3] = z
    OBVIOUS
  <1>2. f = <<x, y, z>>
    BY <1>1
  <1>3. <<x, y, z>> \in Seq(Bytes) /\ Len(<<x, y, z>>) = 3
    OBVIOUS
  <1> QED
    BY <1>2, <1>3

\* the bytes of an encoding, one by one
LEMMA EncodedBytes ==
    ASSUME NEW c \in DebitCalls
    PROVE  /\ encode_debit(c) \in Seq(Bytes) /\ Len(encode_debit(c)) = 11
           /\ encode_debit(c)[1] = DebitSelector
           /\ encode_debit(c)[2] = c.channel_id /\ encode_debit(c)[3] = c.amount
           /\ encode_debit(c)[4] = c.receipt_id /\ encode_debit(c)[5] = c.deadline
           /\ encode_debit(c)[6] = Offset /\ encode_debit(c)[7] = SigLen
           /\ encode_debit(c)[8] = c.signature[1] /\ encode_debit(c)[9] = c.signature[2]
           /\ encode_debit(c)[10] = c.signature[3] /\ encode_debit(c)[11] = 0
  <1> DEFINE head == <<DebitSelector, c.channel_id, c.amount, c.receipt_id, c.deadline, Offset, SigLen>>
             sig  == c.signature
             last == <<0>>
             most == head \o sig
  <1>1. sig \in Seq(Bytes) /\ Len(sig) = 3
    <2>1. sig \in [1..3 -> Bytes]
      BY Sizes DEF DebitCalls
    <2> HIDE DEF sig
    <2> QED
      BY <2>1, ThreeBytes
  <1>2. head \in Seq(Bytes) /\ Len(head) = 7
    BY Sizes DEF DebitCalls
  <1>3. last \in Seq(Bytes) /\ Len(last) = 1 /\ last[1] = 0
    BY Sizes
  <1>4. /\ head[1] = DebitSelector /\ head[2] = c.channel_id /\ head[3] = c.amount
        /\ head[4] = c.receipt_id /\ head[5] = c.deadline /\ head[6] = Offset /\ head[7] = SigLen
    OBVIOUS
  <1> HIDE DEF head, sig, last
  <1>5. most \in Seq(Bytes) /\ Len(most) = 10 /\ \A i \in 1..10 : most[i] = IF i <= 7 THEN head[i] ELSE sig[i - 7]
    <2>1. /\ most \in Seq(Bytes) /\ Len(most) = Len(head) + Len(sig)
          /\ \A i \in 1..(Len(head) + Len(sig)) :
                 most[i] = IF i <= Len(head) THEN head[i] ELSE sig[i - Len(head)]
      BY <1>1, <1>2, ConcatProperties, Zenon
    <2> HIDE DEF most
    <2> QED
      BY <1>1, <1>2, <2>1
  <1>6. /\ most[8] = sig[1] /\ most[9] = sig[2] /\ most[10] = sig[3]
        /\ \A i \in 1..7 : most[i] = head[i]
    <2> HIDE DEF most
    <2> QED
      BY <1>5
  <1> HIDE DEF most
  <1> DEFINE e == most \o last
  <1>7. /\ e \in Seq(Bytes) /\ Len(e) = Len(most) + Len(last)
        /\ \A i \in 1..(Len(most) + Len(last)) :
               e[i] = IF i <= Len(most) THEN most[i] ELSE last[i - Len(most)]
    BY <1>3, <1>5, ConcatProperties, Zenon
  <1>8. encode_debit(c) = e
    BY DEF encode_debit, most, head, sig, last
  <1> HIDE DEF e
  <1>9. Len(e) = 11 /\ e[11] = 0 /\ \A i \in 1..10 : e[i] = most[i]
    BY <1>3, <1>5, <1>7
  <1>10. /\ e[1] = head[1] /\ e[2] = head[2] /\ e[3] = head[3] /\ e[4] = head[4] /\ e[5] = head[5]
         /\ e[6] = head[6] /\ e[7] = head[7] /\ e[8] = sig[1] /\ e[9] = sig[2] /\ e[10] = sig[3]
    BY <1>6, <1>9
  <1> QED
    BY <1>4, <1>7, <1>8, <1>9, <1>10 DEF sig

\* the fields that are read from a string of the canonical length
LEMMA ReadFields ==
    ASSUME NEW d \in Seq(Bytes), Len(d) = 11
    PROVE  /\ DebitCall(d) \in DebitCalls
           /\ DebitCall(d).channel_id = d[2] /\ DebitCall(d).amount = d[3]
           /\ DebitCall(d).receipt_id = d[4] /\ DebitCall(d).deadline = d[5]
           /\ DebitCall(d).signature[1] = d[8] /\ DebitCall(d).signature[2] = d[9]
           /\ DebitCall(d).signature[3] = d[10]
  <1> DEFINE sig == SubSeq(d, 8, 10)
  <1>1. sig \in Seq(Bytes) /\ Len(sig) = 3 /\ sig[1] = d[8] /\ sig[2] = d[9] /\ sig[3] = d[10]
    <2>1. \A i \in 8..10 : d[i] \in Bytes
      <3>1. \A i \in 8..10 : i \in 1..Len(d)
        OBVIOUS
      <3> QED
        BY <3>1, ElementOfSeq, Zenon
    <2>2. /\ sig \in Seq(Bytes) /\ Len(sig) = IF 8 <= 10 THEN 10 - 8 + 1 ELSE 0
          /\ \A i \in 1..(10 - 8 + 1) : sig[i] = d[8 + i - 1]
      <3>1. 8 \in Int /\ 10 \in Int
        OBVIOUS
      <3> QED
        BY <2>1, <3>1, SubSeqProperties
    <2> HIDE DEF sig
    <2> QED
      BY <2>2
  <1>2. d[2] \in Bytes /\ d[3] \in Bytes /\ d[4] \in Bytes /\ d[5] \in Bytes
    BY ElementOfSeq
  <1> HIDE DEF sig
  <1>3. sig \in [1..3 -> Bytes]
    <2>1. sig \in [1..Len(sig) -> Bytes]
      BY <1>1, LenProperties, Zenon
    <2> QED
      BY <1>1, <2>1, Zenon
  <1>4. DebitCall(d) = [channel_id |-> d[2], amount |-> d[3], receipt_id |-> d[4], deadline |-> d[5], signature |-> sig]
    BY DEF DebitCall, sig
  <1> QED
    BY <1>1, <1>2, <1>3, <1>4, Sizes DEF DebitCalls

\* a string with the canonical length, selector, offset, length word and padding
CanonicalShape(d) ==
    Len(d) = 11 /\ d[1] = DebitSelector /\ d[6] = Offset /\ d[7] = SigLen /\ d[11] = 0

\* what was read encodes to what was given
LEMMA Reencoded ==
    ASSUME NEW d \in Seq(Bytes), CanonicalShape(d)
    PROVE  encode_debit(DebitCall(d)) = d
  <1> DEFINE e == encode_debit(DebitCall(d))
  <1>1. Len(d) = 11 /\ d[1] = DebitSelector /\ d[6] = Offset /\ d[7] = SigLen /\ d[11] = 0
    BY DEF CanonicalShape
  <1>2. e \in Seq(Bytes) /\ Len(e) = 11
    BY <1>1, ReadFields, EncodedBytes
  <1>3. /\ e[1] = d[1] /\ e[2] = d[2] /\ e[3] = d[3] /\ e[4] = d[4] /\ e[5] = d[5] /\ e[6] = d[6]
        /\ e[7] = d[7] /\ e[8] = d[8] /\ e[9] = d[9] /\ e[10] = d[10] /\ e[11] = d[11]
    BY <1>1, ReadFields, EncodedBytes
  <1> HIDE DEF e
  <1>4. \A i \in 1..11 : i \in {1, 2, 3, 4, 5, 6, 7, 8, 9, 10, 11}
    OBVIOUS
  <1>5. \A i \in 1..11 : e[i] = d[i]
    BY <1>3, <1>4
  <1>6. e = d
    BY <1>1, <1>2, <1>5, SeqEqual
  <1> QED
    BY <1>6 DEF e


\* the rules about the shape, with their answers
LEMMA ShapeRules ==
    ASSUME NEW d
    PROVE  /\ FirstBreach(DebitShapeRules(d)) \in
                  {"none", "selector_not_allowed", "calldata_noncanonical", "calldata_length"}
           /\ (\E i \in 1..4 : ~DebitShapeRules(d)[i][1])
                  <=> ~(d[1] = DebitSelector /\ d[6] = Offset /\ d[7] = SigLen /\ d[11] = 0)
           /\ (\E i \in 1..4 : ~DebitShapeRules(d)[i][1]) => FirstBreach(DebitShapeRules(d)) # "none"
           /\ FirstBreach(DebitShapeRules(d)) = "selector_not_allowed" => d[1] # DebitSelector
  <1> DEFINE rules == DebitShapeRules(d)
  <1>1. DOMAIN rules = 1..4
    BY DEF DebitShapeRules
  <1>2. /\ rules[1][1] <=> d[1] = DebitSelector
        /\ rules[2][1] <=> d[6] = Offset
        /\ rules[3][1] <=> d[7] = SigLen
        /\ rules[4][1] <=> d[11] = 0
    BY DEF DebitShapeRules
  <1>3. /\ rules[1][2] = "selector_not_allowed"
        /\ rules[2][2] = "calldata_noncanonical"
        /\ rules[3][2] = "calldata_length"
        /\ rules[4][2] = "calldata_noncanonical"
    BY DEF DebitShapeRules
  <1> HIDE DEF rules
  <1>4. \/ FirstBreach(rules) = "none" /\ \A i \in 1..4 : rules[i][1]
        \/ \E k \in 1..4 : ~rules[k][1] /\ FirstBreach(rules) = rules[k][2]
    BY <1>1, FirstBroken, Zenon
  <1>5. \A i \in 1..4 : i \in {1, 2, 3, 4}
    OBVIOUS
  <1> QED
    BY <1>2, <1>3, <1>4, <1>5 DEF rules

\* decode_debit: what it answers, and that its last assertion never speaks
LEMMA DecodesDebit ==
    ASSUME NEW d \in Seq(Bytes)
    PROVE  /\ decode_debit(d) \in {"none", "selector_not_allowed", "calldata_noncanonical", "calldata_length"}
           /\ decode_debit(d) = "none" <=> CanonicalShape(d)
  <1>1. CASE Len(d) # 11
    BY <1>1, Sizes DEF decode_debit, CanonicalShape
  <1>2. CASE Len(d) = 11
    <2> DEFINE shape == DebitShapeRules(d)
               same  == encode_debit(DebitCall(d)) = d
               after == Reencodes(same)
               S     == {shape[1], shape[2], shape[3], shape[4], after[1]}
    <2>1. Len(shape) = 4 /\ shape \in Seq(S)
      BY DEF DebitShapeRules
    <2>2. after \in Seq(S)
      BY DEF Reencodes
    <2>3. FirstBreach(after) = IF same THEN "none" ELSE "reencode_mismatch"
      BY OnlyRule DEF Reencodes
    <2>4. decode_debit(d) = FirstBreach(shape \o after)
      BY <1>2, Sizes DEF decode_debit
    <2> HIDE DEF shape, after, S
    <2>5. decode_debit(d) = IF \E i \in 1..4 : ~shape[i][1] THEN FirstBreach(shape) ELSE FirstBreach(after)
      BY <2>1, <2>2, <2>4, RulesAfterRules
    <2>6. (\E i \in 1..4 : ~shape[i][1]) <=> ~CanonicalShape(d)
      BY <1>2, ShapeRules DEF shape, CanonicalShape
    <2>7. CanonicalShape(d) => same
      BY Reencoded
    <2>8. /\ FirstBreach(shape) \in {"none", "selector_not_allowed", "calldata_noncanonical", "calldata_length"}
          /\ (\E i \in 1..4 : ~shape[i][1]) => FirstBreach(shape) # "none"
      BY ShapeRules DEF shape
    <2> HIDE DEF same
    <2> QED
      BY <2>3, <2>5, <2>6, <2>7, <2>8
  <1> QED
    BY <1>1, <1>2

\* decode_expire accepts exactly the two-byte strings with its selector.
LEMMA DecodesExpire ==
    ASSUME NEW d \in Seq(Bytes)
    PROVE  /\ decode_expire(d) \in {"none", "selector_not_allowed", "calldata_length"}
           /\ decode_expire(d) = "none" <=> Len(d) = 2 /\ d[1] = ExpireSelector
  <1>1. CASE Len(d) # 2
    BY <1>1, Sizes DEF decode_expire
  <1>2. CASE Len(d) = 2
    <2> DEFINE right == d[1] = ExpireSelector
               first == << <<right, "selector_not_allowed">> >>
               same  == encode_expire(ExpireCall(d)) = d
               after == Reencodes(same)
               S     == {first[1], after[1]}
    <2>1. Len(first) = 1 /\ first \in Seq(S) /\ (first[1][1] <=> right)
      <3>1. Len(first) = 1 /\ first[1] = <<right, "selector_not_allowed">>
        OBVIOUS
      <3>2. first[1][1] <=> right
        OBVIOUS
      <3>3. first \in Seq({first[1]})
        OBVIOUS
      <3>4. {first[1]} \subseteq S
        OBVIOUS
      <3> HIDE DEF first, S
      <3> QED
        BY <3>1, <3>2, <3>3, <3>4, SeqMonotonic
    <2>2. after \in Seq(S)
      BY DEF Reencodes
    <2>3. FirstBreach(after) = IF same THEN "none" ELSE "reencode_mismatch"
      BY OnlyRule DEF Reencodes
    <2>4. FirstBreach(first) = IF right THEN "none" ELSE "selector_not_allowed"
      BY OnlyRule
    <2>5. decode_expire(d) = FirstBreach(first \o after)
      BY <1>2, Sizes DEF decode_expire
    <2>6. right => same
      BY <1>2 DEF encode_expire, ExpireCall
    <2> HIDE DEF first, after, S, same
    <2>7. decode_expire(d) = IF \E i \in 1..1 : ~first[i][1] THEN FirstBreach(first) ELSE FirstBreach(after)
      BY <2>1, <2>2, <2>5, RulesAfterRules
    <2>8. (\E i \in 1..1 : ~first[i][1]) <=> ~right
      BY <2>1
    <2> QED
      BY <1>2, <2>3, <2>4, <2>6, <2>7, <2>8
  <1> QED
    BY <1>1, <1>2

\* the strings a decoder accepts are the encodings
LEMMA AcceptedDebits ==
    ASSUME NEW d \in Seq(Bytes)
    PROVE  d \in DebitEncodings <=> CanonicalShape(d)
  <1>1. ASSUME CanonicalShape(d) PROVE d \in DebitEncodings
    <2>1. encode_debit(DebitCall(d)) = d
      BY <1>1, Reencoded
    <2>2. DebitCall(d) \in DebitCalls
      BY <1>1, ReadFields DEF CanonicalShape
    <2> QED
      BY <2>1, <2>2, Zenon DEF DebitEncodings
  <1>2. ASSUME d \in DebitEncodings PROVE CanonicalShape(d)
    <2>1. PICK c \in DebitCalls : d = encode_debit(c)
      BY <1>2, Zenon DEF DebitEncodings
    <2> QED
      BY <2>1, EncodedBytes DEF CanonicalShape
  <1> QED
    BY <1>1, <1>2

\* Exactly those strings are encodings of an expiry.
LEMMA AcceptedExpires ==
    ASSUME NEW d \in Seq(Bytes)
    PROVE  d \in ExpireEncodings <=> Len(d) = 2 /\ d[1] = ExpireSelector
  <1>1. ASSUME Len(d) = 2, d[1] = ExpireSelector PROVE d \in ExpireEncodings
    <2>1. d = <<ExpireSelector, d[2]>> /\ d[2] \in Bytes
      BY <1>1
    <2>2. PICK x \in Bytes : d = <<ExpireSelector, x>>
      BY <2>1
    <2>3. encode_expire([channel_id |-> x]) = <<ExpireSelector, x>>
      BY DEF encode_expire
    <2> QED
      BY <2>2, <2>3 DEF ExpireEncodings
  <1>2. ASSUME d \in ExpireEncodings PROVE Len(d) = 2 /\ d[1] = ExpireSelector
    <2>1. PICK x \in Bytes : d = encode_expire([channel_id |-> x])
      BY <1>2 DEF ExpireEncodings
    <2> QED
      BY <2>1 DEF encode_expire
  <1> QED
    BY <1>1, <1>2


-----------------------------------------------------------------------------
(***************************************************************************)
(* The other rules.                                                        *)
(***************************************************************************)

\* codes by which a request is refused after its decoding
LaterCodes ==
    {"amount_out_of_band", "receipt_id_zero", "channel_id_zero", "deadline_out_of_band",
     "hub_gas_anomalous", "channel_not_found", "channel_not_open", "channel_expiring",
     "insufficient_balance", "token_not_allowed", "channel_bound_elsewhere", "channel_owes_nothing",
     "channel_not_ours", "channel_not_expired", "receipt_already_used", "signature_not_depositor"}

\* The field and gas rules refuse with a code that comes after the decoding.
LEMMA FieldBreach ==
    ASSUME NEW c
    PROVE  /\ FirstBreach(GasRules) \in LaterCodes \cup {"none"}
           /\ FirstBreach(DebitRules(c) \o GasRules) \in LaterCodes \cup {"none"}
  <1>1. FirstBreach(GasRules) = IF header.gas <= GasCap THEN "none" ELSE "hub_gas_anomalous"
    BY OnlyRule DEF GasRules
  <1> DEFINE rules == DebitRules(c)
             gas   == GasRules
             S     == {rules[1], rules[2], rules[3], rules[4], rules[5], rules[6], gas[1]}
  <1>2. DOMAIN rules = 1..6 /\ rules \in Seq(S)
    BY DEF DebitRules
  <1>3. gas \in Seq(S)
    BY DEF GasRules
  <1>4. /\ rules[1][2] = "amount_out_of_band" /\ rules[2][2] = "amount_out_of_band"
        /\ rules[3][2] = "receipt_id_zero" /\ rules[4][2] = "channel_id_zero"
        /\ rules[5][2] = "deadline_out_of_band" /\ rules[6][2] = "deadline_out_of_band"
    BY DEF DebitRules
  <1> HIDE DEF rules, gas, S
  <1>5. FirstBreach(rules \o gas) \in {FirstBreach(rules), FirstBreach(gas)}
    BY <1>2, <1>3, RulesAfterRules
  <1>6. FirstBreach(rules) = "none" \/ \E k \in 1..6 : FirstBreach(rules) = rules[k][2]
    BY <1>2, FirstBroken, Zenon
  <1>7. \A k \in 1..6 : k \in {1, 2, 3, 4, 5, 6}
    OBVIOUS
  <1>8. FirstBreach(rules) \in LaterCodes \cup {"none"}
    BY <1>4, <1>6, <1>7 DEF LaterCodes
  <1>9. FirstBreach(gas) \in LaterCodes \cup {"none"}
    BY <1>1 DEF gas, LaterCodes
  <1> QED
    BY <1>5, <1>8, <1>9 DEF rules, gas

\* A channel that breaks none of the debit rules is open, funded, in time and not
\* bound to another hub.
LEMMA ChannelBreach ==
    ASSUME NEW ch, NEW c
    PROVE  /\ FirstBreach(ChannelRules(ch, c)) \in LaterCodes \cup {"none"}
           /\ FirstBreach(ChannelRules(ch, c)) = "none" =>
                  /\ ch.exists /\ ch.status = 0
                  /\ DebitDeadline(ch) > now + MinRemaining
                  /\ ch.balance >= c.amount /\ ch.hub \in {Unbound, Us}
  <1> DEFINE rules == ChannelRules(ch, c)
  <1>1. DOMAIN rules = 1..6
    BY DEF ChannelRules
  <1>2. /\ rules[1][1] <=> ch.exists
        /\ rules[2][1] <=> ch.status = 0
        /\ rules[3][1] <=> DebitDeadline(ch) > now + MinRemaining
        /\ rules[4][1] <=> ch.balance >= c.amount
        /\ rules[6][1] <=> ch.hub \in {Unbound, Us}
    BY DEF ChannelRules
  <1>3. /\ rules[1][2] = "channel_not_found" /\ rules[2][2] = "channel_not_open"
        /\ rules[3][2] = "channel_expiring" /\ rules[4][2] = "insufficient_balance"
        /\ rules[5][2] = "token_not_allowed" /\ rules[6][2] = "channel_bound_elsewhere"
    BY DEF ChannelRules
  <1> HIDE DEF rules
  <1>4. \/ FirstBreach(rules) = "none" /\ \A i \in 1..6 : rules[i][1]
        \/ \E k \in 1..6 : ~rules[k][1] /\ FirstBreach(rules) = rules[k][2]
    BY <1>1, FirstBroken, Zenon
  <1>5. \A k \in 1..6 : k \in {1, 2, 3, 4, 5, 6}
    OBVIOUS
  <1>6. FirstBreach(rules) \in LaterCodes \cup {"none"}
    BY <1>3, <1>4, <1>5 DEF LaterCodes
  <1>7. FirstBreach(rules) = "none" => \A i \in 1..6 : rules[i][1]
    BY <1>3, <1>4, <1>5
  <1> QED
    BY <1>2, <1>6, <1>7 DEF rules

\* A channel that breaks none of the expiry rules is open, owes us and is past its
\* deadline, or never had one.
LEMMA CollectBreach ==
    ASSUME NEW ch
    PROVE  /\ FirstBreach(CollectRules(ch)) \in LaterCodes \cup {"none"}
           /\ FirstBreach(CollectRules(ch)) = "none" =>
                  /\ ch.status = 0 /\ ch.used_amount > 0 /\ ch.hub = Us
                  /\ ch.expires_at = 0 \/ now > DebitDeadline(ch)
  <1> DEFINE rules == CollectRules(ch)
  <1>1. DOMAIN rules = 1..4
    BY DEF CollectRules
  <1>2. /\ rules[1][1] <=> ch.status = 0
        /\ rules[2][1] <=> ch.used_amount > 0
        /\ rules[3][1] <=> ch.hub = Us
        /\ rules[4][1] <=> (ch.expires_at = 0 \/ now > DebitDeadline(ch))
    BY DEF CollectRules
  <1>3. /\ rules[1][2] = "channel_not_open" /\ rules[2][2] = "channel_owes_nothing"
        /\ rules[3][2] = "channel_not_ours" /\ rules[4][2] = "channel_not_expired"
    BY DEF CollectRules
  <1> HIDE DEF rules
  <1>4. \/ FirstBreach(rules) = "none" /\ \A i \in 1..4 : rules[i][1]
        \/ \E k \in 1..4 : ~rules[k][1] /\ FirstBreach(rules) = rules[k][2]
    BY <1>1, FirstBroken, Zenon
  <1>5. \A k \in 1..4 : k \in {1, 2, 3, 4}
    OBVIOUS
  <1>6. FirstBreach(rules) \in LaterCodes \cup {"none"}
    BY <1>3, <1>4, <1>5 DEF LaterCodes
  <1>7. FirstBreach(rules) = "none" => \A i \in 1..4 : rules[i][1]
    BY <1>3, <1>4, <1>5
  <1> QED
    BY <1>2, <1>6, <1>7 DEF rules

\* get_channel reads every field from its word, in both layouts
LEMMA ReadsWords ==
    ASSUME NEW ch \in Channels
    PROVE  /\ get_channel(Words(ch)).depositor = ch.depositor
           /\ get_channel(Words(ch)).hub = ch.hub /\ get_channel(Words(ch)).token = ch.token
           /\ get_channel(Words(ch)).balance = ch.balance
           /\ get_channel(Words(ch)).used_amount = ch.used_amount
           /\ get_channel(Words(ch)).expires_at = ch.expires_at
           /\ get_channel(Words(ch)).nonce = ch.nonce /\ get_channel(Words(ch)).status = ch.status
           /\ get_channel(Words(ch)).v2 = ch.v2
           /\ get_channel(Words(ch)).exists <=> ch.depositor # Unbound
  <1> DEFINE head == <<ch.depositor, ch.hub, ch.token, ch.balance, ch.used_amount, ch.expires_at, ch.nonce>>
             S    == {ch.depositor, ch.hub, ch.token, ch.balance, ch.used_amount, ch.expires_at, ch.nonce,
                      ch.closable_at, ch.status}
             w    == Words(ch)
  <1>1. head \in Seq(S) /\ Len(head) = 7
    OBVIOUS
  <1>2. /\ head[1] = ch.depositor /\ head[2] = ch.hub /\ head[3] = ch.token /\ head[4] = ch.balance
        /\ head[5] = ch.used_amount /\ head[6] = ch.expires_at /\ head[7] = ch.nonce
    OBVIOUS
  <1>3. ch.v2 \in BOOLEAN
    BY DEF Channels
  <1>4. ASSUME NEW tail \in Seq(S), w = head \o tail
        PROVE  /\ Len(w) = 7 + Len(tail)
               /\ \A i \in 1..7 : w[i] = head[i]
               /\ \A i \in 1..Len(tail) : w[7 + i] = tail[i]
    <2> HIDE DEF head, S, w
    <2>0. Len(tail) \in Nat
      BY LenProperties
    <2>1. /\ Len(w) = Len(head) + Len(tail)
          /\ \A i \in 1..(Len(head) + Len(tail)) : w[i] = IF i <= Len(head) THEN head[i] ELSE tail[i - Len(head)]
      BY <1>1, <1>4, ConcatProperties, Zenon
    <2> QED
      BY <1>1, <2>0, <2>1
  <1>5. CASE ch.v2
    <2> DEFINE tail == <<ch.closable_at, ch.status>>
    <2>1. tail \in Seq(S) /\ Len(tail) = 2 /\ tail[2] = ch.status
      OBVIOUS
    <2>2. w = head \o tail
      BY <1>5 DEF Words
    <2> HIDE DEF head, S, w, tail
    <2>3. Len(w) = 9 /\ w[9] = ch.status /\ \A i \in 1..7 : w[i] = head[i]
      <3>1. /\ Len(w) = 7 + Len(tail) /\ \A i \in 1..7 : w[i] = head[i]
            /\ \A i \in 1..Len(tail) : w[7 + i] = tail[i]
        BY <1>4, <2>1, <2>2, Zenon
      <3> QED
        BY <2>1, <3>1
    <2>4. /\ w[1] = ch.depositor /\ w[2] = ch.hub /\ w[3] = ch.token /\ w[4] = ch.balance
          /\ w[5] = ch.used_amount /\ w[6] = ch.expires_at /\ w[7] = ch.nonce
      BY <1>2, <2>3
    <2> QED
      BY <1>3, <1>5, <2>3, <2>4 DEF get_channel, w
  <1>6. CASE ~ch.v2
    <2> DEFINE tail == <<ch.status>>
    <2>1. tail \in Seq(S) /\ Len(tail) = 1 /\ tail[1] = ch.status
      OBVIOUS
    <2>2. w = head \o tail
      BY <1>6 DEF Words
    <2> HIDE DEF head, S, w, tail
    <2>3. Len(w) = 8 /\ w[8] = ch.status /\ \A i \in 1..7 : w[i] = head[i]
      <3>1. /\ Len(w) = 7 + Len(tail) /\ \A i \in 1..7 : w[i] = head[i]
            /\ \A i \in 1..Len(tail) : w[7 + i] = tail[i]
        BY <1>4, <2>1, <2>2, Zenon
      <3> QED
        BY <2>1, <3>1
    <2>4. /\ w[1] = ch.depositor /\ w[2] = ch.hub /\ w[3] = ch.token /\ w[4] = ch.balance
          /\ w[5] = ch.used_amount /\ w[6] = ch.expires_at /\ w[7] = ch.nonce
      BY <1>2, <2>3
    <2>5. get_channel(w).v2 = ch.v2
      <3>1. ch.v2 = FALSE
        BY <1>3, <1>6, Zenon
      <3>2. get_channel(w).v2 = (Len(w) = 9)
        BY DEF get_channel
      <3>3. Len(w) # 9
        BY <2>3
      <3> QED
        BY <3>1, <3>2, <3>3, Zenon
    <2> QED
      BY <2>3, <2>4, <2>5 DEF get_channel, w
  <1> QED
    BY <1>5, <1>6


-----------------------------------------------------------------------------
(***************************************************************************)
(* What a check may rely on: the checks before it held, of this request.   *)
(***************************************************************************)

AfterEnvelope == {"dispatch", "decode", "fields", "channel", "receipt", "recover", "estimate"}

AfterDispatch == AfterEnvelope \ {"dispatch"}

AfterDecode == AfterDispatch \ {"decode"}

Typed == data \in Seq(Bytes) /\ chan \in Channels /\ now \in Nat /\ moves \in Nat

Gates ==
    /\ pc \in {"envelope", "done"} \cup AfterEnvelope
    /\ pc \in AfterEnvelope => header.value = 0 /\ header.chain /\ header.escrow
    /\ pc \in AfterDispatch => Allowed
    /\ pc # "done" => reason = "none"
    /\ pc \in {"envelope", "dispatch", "decode"} => call = NoCall
    /\ pc \in {"receipt", "recover"} => IsDebit
    /\ pc \in AfterDecode /\ IsDebit =>
           /\ CanonicalShape(data) /\ call = DebitCall(data)
           /\ check_signature_shape(call.signature) = "none"

GateInv == Typed /\ Gates

USE DEF AfterEnvelope, AfterDispatch, AfterDecode

\* the request stays as it came, and with it what it asks for
LEMMA RequestKept ==
    ASSUME [Next]_vars
    PROVE  header' = header /\ data' = data /\ signed' = signed
           /\ (IsDebit' <=> IsDebit) /\ (Allowed' <=> Allowed)
  <1>1. header' = header /\ data' = data /\ signed' = signed
    BY DEF Next, ParseEnvelope, Dispatch, Decode, CheckFields, ReadChannel, ReadReceipt, Recover,
           Estimate, RpcDown, TimePasses, ChainMoves, request, vars
  <1> QED
    BY <1>1, Zenon DEF IsDebit, Allowed, Selects

\* A request begins with every variable in its type.
LEMMA InitTyped == Init => Typed
  BY AdmissionConstants DEF Init, Typed

\* somebody's debit of a channel, and its closing
LEMMA DebitedChannel ==
    ASSUME NEW ch \in Channels, ch.balance > 0, NEW next,
           next = [ch EXCEPT !.balance = @ - 1, !.used_amount = @ + 1, !.nonce = @ + 1, !.hub = Us]
    PROVE  /\ next \in Channels
           /\ next.depositor = ch.depositor /\ next.expires_at = ch.expires_at
           /\ next.hub = Us /\ next.used_amount > 0
  <1>1. PICK b \in Nat, u \in Nat, n \in Nat : b = ch.balance - 1 /\ u = ch.used_amount + 1 /\ n = ch.nonce + 1
    BY DEF Channels
  <1>2. u > 0 /\ Us \in Addresses
    <2>1. ch.used_amount \in Nat
      BY DEF Channels
    <2>2. Us \in Addresses
      BY AdmissionConstants
    <2> QED
      BY <1>1, <2>1, <2>2
  <1>3. next = [ch EXCEPT !.balance = b, !.used_amount = u, !.nonce = n, !.hub = Us]
    BY <1>1 DEF Channels
  <1>4. next = [depositor |-> ch.depositor, hub |-> Us, token |-> ch.token, balance |-> b, used_amount |-> u,
                expires_at |-> ch.expires_at, closable_at |-> ch.closable_at, nonce |-> n,
                status |-> ch.status, v2 |-> ch.v2]
    BY <1>3 DEF Channels
  <1> QED
    BY <1>2, <1>4 DEF Channels

\* Closing a channel changes nothing but its status.
LEMMA ClosedChannel ==
    ASSUME NEW ch \in Channels, NEW next, next = [ch EXCEPT !.status = 1]
    PROVE  /\ next \in Channels
           /\ next.depositor = ch.depositor /\ next.expires_at = ch.expires_at
           /\ next.hub = ch.hub /\ next.used_amount = ch.used_amount
  BY DEF Channels

\* Every step keeps the types.
LEMMA TypedKept == Typed /\ [Next]_vars => Typed'
  <1> SUFFICES ASSUME Typed, [Next]_vars PROVE Typed'
    OBVIOUS
  <1>0. data' = data
    BY RequestKept
  <1>1. CASE TimePasses
    BY <1>0, <1>1 DEF TimePasses, Typed
  <1>2. CASE ChainMoves
    <2>1. chan' \in Channels
      BY <1>2, DebitedChannel, ClosedChannel DEF ChainMoves, Typed
    <2> QED
      BY <1>0, <1>2, <2>1 DEF ChainMoves, Typed
  <1>3. CASE ~TimePasses /\ ~ChainMoves
    <2>1. UNCHANGED <<chan, now, moves>>
      BY <1>3 DEF Next, ParseEnvelope, Dispatch, Decode, CheckFields, ReadChannel, ReadReceipt, Recover,
                  Estimate, RpcDown, world, vars
    <2> QED
      BY <1>0, <2>1 DEF Typed
  <1> QED
    BY <1>1, <1>2, <1>3

\* No gate has been passed at the start.
LEMMA InitGates == Init => Gates
  BY DEF Init, Gates

\* Every step that passes a gate has made the checks the gate stands for.
LEMMA GatesKept == GateInv /\ [Next]_vars => Gates'
  <1> SUFFICES ASSUME GateInv, [Next]_vars PROVE Gates'
    OBVIOUS
  <1>0. /\ header' = header /\ data' = data /\ (IsDebit' <=> IsDebit) /\ (Allowed' <=> Allowed)
        /\ data \in Seq(Bytes)
    BY RequestKept DEF GateInv, Typed
  <1> USE <1>0 DEF GateInv, Gates
  <1>1. CASE ParseEnvelope
    BY <1>1, EnvelopeBreach DEF ParseEnvelope, Apply, Proceed, Answer
  <1>2. CASE Dispatch
    <2>1. FirstBreach(DispatchRules) = IF Allowed THEN "none" ELSE "selector_not_allowed"
      BY OnlyRule DEF DispatchRules
    <2> QED
      BY <1>2, <2>1 DEF Dispatch, Apply, Proceed, Answer
  <1>3. CASE Decode
    <2>1. CASE IsDebit
      BY <1>3, <2>1, DecodesDebit DEF Decode, Proceed, Answer, Decoded
    <2>2. CASE ~IsDebit
      BY <1>3, <2>2 DEF Decode, Proceed, Answer, Decoded
    <2> QED
      BY <2>1, <2>2
  <1>4. CASE CheckFields
    BY <1>4 DEF CheckFields, Apply, Proceed, Answer
  <1>5. CASE ReadChannel
    BY <1>5 DEF ReadChannel, Apply, Proceed, Answer
  <1>6. CASE ReadReceipt
    BY <1>6 DEF ReadReceipt, Apply, Proceed, Answer
  <1>7. CASE Recover
    BY <1>7 DEF Recover, Apply, Proceed, Answer
  <1>8. CASE Estimate
    BY <1>8 DEF Estimate, Answer
  <1>9. CASE RpcDown
    BY <1>9 DEF RpcDown, Answer
  <1>10. CASE TimePasses
    BY <1>10 DEF TimePasses
  <1>11. CASE ChainMoves
    BY <1>11 DEF ChainMoves
  <1>12. CASE UNCHANGED vars
    BY <1>12 DEF vars
  <1> QED
    BY <1>1, <1>2, <1>3, <1>4, <1>5, <1>6, <1>7, <1>8, <1>9, <1>10, <1>11, <1>12 DEF Next

\* A request is never past a gate whose checks it has not met.
LEMMA GatesHold == Spec => []GateInv
  <1>1. Init => GateInv
    BY InitTyped, InitGates DEF GateInv
  <1>2. GateInv /\ [Next]_vars => GateInv'
    BY TypedKept, GatesKept DEF GateInv
  <1> QED
    BY <1>1, <1>2, PTL DEF Spec


-----------------------------------------------------------------------------
(***************************************************************************)
(* What the envelope and the decoders let through.                         *)
(***************************************************************************)

\* Only the envelope and the dispatch answer a forbidden request, both with the alarm.
LEMMA AlarmKept == GateInv /\ ForbiddenIsAlarmed /\ [Next]_vars => ForbiddenIsAlarmed'
  <1> SUFFICES ASSUME GateInv, ForbiddenIsAlarmed, [Next]_vars,
                      pc' = "done", header.shape, header.hex, header.gas > 0, Forbidden
               PROVE  reason' \in AlarmCodes
    BY RequestKept DEF ForbiddenIsAlarmed, Forbidden
  <1> USE DEF AlarmCodes
  <1>1. CASE ParseEnvelope
    <2>1. FirstBreach(EnvelopeRules(header)) \in {"value_not_zero", "wrong_chain", "to_not_escrow"}
      BY <1>1, EnvelopeBreach DEF ParseEnvelope, Apply, Proceed, Answer
    <2> QED
      BY <1>1, <2>1 DEF ParseEnvelope, Apply, Proceed, Answer
  <1>2. CASE Dispatch
    <2>1. FirstBreach(DispatchRules) = IF Allowed THEN "none" ELSE "selector_not_allowed"
      BY OnlyRule DEF DispatchRules
    <2> QED
      BY <1>2, <2>1 DEF Dispatch, Apply, Proceed, Answer
  <1>3. CASE pc \in AfterDispatch
    BY <1>3 DEF GateInv, Gates, Forbidden
  <1>4. CASE UNCHANGED vars
    BY <1>4 DEF vars, ForbiddenIsAlarmed
  <1> QED
    BY <1>1, <1>2, <1>3, <1>4 DEF Next, Decode, CheckFields, ReadChannel, ReadReceipt, Recover,
           Estimate, RpcDown, TimePasses, ChainMoves, Reading

\* A well-formed request for another contract, chain, value or function raises the
\* alarm: for every envelope and every byte string, whatever else is wrong with it
\* and whatever the chain and the clock do, since R3 to R6 and R27 come before any
\* check with a code of its own.
THEOREM ForbiddenAlwaysAlarms == Spec => []ForbiddenIsAlarmed
  <1>1. Init => ForbiddenIsAlarmed
    BY DEF Init, ForbiddenIsAlarmed
  <1> QED
    BY <1>1, AlarmKept, GatesHold, PTL DEF Spec

\* the answers, by the checks that give them
EarlyCodes == {"value_not_zero", "wrong_chain", "to_not_escrow", "envelope_invalid", "selector_not_allowed",
               "signature_malformed", "rpc_unavailable", "simulation_reverted"}

DecoderCodes == {"calldata_length", "calldata_noncanonical"}

\* what every step answers, and what it leaves in call
LEMMA Answers ==
    ASSUME GateInv, [Next]_vars
    PROVE  \/ reason' = reason /\ call' = call
           \/ reason' \in EarlyCodes \cup LaterCodes /\ call' = call
           \/ reason' = "admitted" /\ Estimate /\ call' = call
           \/ reason' = "calldata_length" /\ ~header.hex /\ call' = call
           \/ /\ pc = "decode" /\ IsDebit /\ CanonicalShape(data)
              /\ reason' \in {reason, "signature_malformed"}
           \/ pc = "decode" /\ ~IsDebit /\ decode_expire(data) = "none" /\ reason' = reason
           \/ /\ pc = "decode" /\ IsDebit /\ ~CanonicalShape(data) /\ call' = NoCall
              /\ reason' \in {"selector_not_allowed"} \cup DecoderCodes
           \/ /\ pc = "decode" /\ ~IsDebit /\ decode_expire(data) # "none" /\ call' = NoCall
              /\ reason' \in {"selector_not_allowed", "calldata_length"}
  <1>0. data \in Seq(Bytes)
    BY DEF GateInv, Typed
  <1> USE DEF EarlyCodes, DecoderCodes, Apply, Proceed, Answer
  <1>1. CASE ParseEnvelope
    BY <1>1, EnvelopeBreach DEF ParseEnvelope
  <1>2. CASE Dispatch
    <2>1. FirstBreach(DispatchRules) \in {"none", "selector_not_allowed"}
      BY OnlyRule DEF DispatchRules
    <2> QED
      BY <1>2, <2>1 DEF Dispatch
  <1>3. CASE Decode
    <2>1. CASE IsDebit
      <3>1. check_signature_shape(DebitCall(data).signature) \in {"none", "signature_malformed"}
        BY DEF check_signature_shape
      <3> QED
        BY <1>0, <1>3, <2>1, <3>1, DecodesDebit DEF Decode, Decoded
    <2>2. CASE ~IsDebit
      BY <1>0, <1>3, <2>2, DecodesExpire DEF Decode, Decoded
    <2> QED
      BY <2>1, <2>2
  <1>4. CASE CheckFields
    BY <1>4, FieldBreach DEF CheckFields
  <1>5. CASE ReadChannel
    <2>1. /\ FirstBreach(ChannelRules(seen', call)) \in LaterCodes \cup {"none"}
          /\ FirstBreach(CollectRules(seen')) \in LaterCodes \cup {"none"}
      BY ChannelBreach, CollectBreach
    <2> QED
      BY <1>5, <2>1 DEF ReadChannel
  <1>6. CASE ReadReceipt
    <2>1. FirstBreach(<< <<~collected, "receipt_already_used">> >>) \in {"none", "receipt_already_used"}
      BY OnlyRule
    <2> QED
      BY <1>6, <2>1 DEF ReadReceipt, LaterCodes
  <1>7. CASE Recover
    <2> DEFINE ok == Recovers(debit_digest(seen, call), seen.depositor)
    <2>1. FirstBreach(<< <<ok, "signature_not_depositor">> >>) \in {"none", "signature_not_depositor"}
      BY OnlyRule
    <2>2. Apply(<< <<ok, "signature_not_depositor">> >>, "estimate") /\ call' = call
      BY <1>7 DEF Recover
    <2> HIDE DEF ok
    <2> QED
      BY <2>1, <2>2 DEF LaterCodes
  <1>8. CASE Estimate
    BY <1>8 DEF Estimate
  <1>9. CASE RpcDown
    BY <1>9 DEF RpcDown
  <1>10. CASE TimePasses \/ ChainMoves \/ UNCHANGED vars
    BY <1>10 DEF TimePasses, ChainMoves, vars
  <1> QED
    BY <1>1, <1>2, <1>3, <1>4, <1>5, <1>6, <1>7, <1>8, <1>9, <1>10 DEF Next

\* The assertion that compares what was read with what was given never speaks,
\* for every byte string of any length: "unreachable through the checks above",
\* as the comment in decode_debit has it.
THEOREM AssertionNeverSpeaks == Spec => []ReencodingMatches
  <1>1. Init => ReencodingMatches
    BY DEF Init, ReencodingMatches
  <1>2. GateInv /\ ReencodingMatches /\ [Next]_vars => ReencodingMatches'
    BY Answers DEF ReencodingMatches, EarlyCodes, LaterCodes, DecoderCodes
  <1> QED
    BY <1>1, <1>2, GatesHold, PTL DEF Spec

\* The decoding step accepts a string if and only if it is an encoding.
LEMMA ExactKept == GateInv /\ AcceptsExactlyEncodings /\ [Next]_vars => AcceptsExactlyEncodings'
  <1> SUFFICES ASSUME GateInv, AcceptsExactlyEncodings, [Next]_vars PROVE AcceptsExactlyEncodings'
    OBVIOUS
  <1>1. /\ header' = header /\ data' = data /\ (IsDebit' <=> IsDebit)
        /\ data \in Seq(Bytes)
    BY RequestKept DEF GateInv, Typed
  <1>2. /\ data \in DebitEncodings <=> CanonicalShape(data)
        /\ data \in ExpireEncodings <=> decode_expire(data) = "none"
        /\ data \in ExpireEncodings <=> Len(data) = 2 /\ data[1] = ExpireSelector
    BY <1>1, AcceptedDebits, AcceptedExpires, DecodesExpire
  <1>3. pc = "decode" => (IsDebit <=> data[1] = DebitSelector) /\ (~IsDebit => data[1] = ExpireSelector)
    BY Sizes DEF GateInv, Gates, IsDebit, Allowed, Selects
  <1>4. CanonicalShape(data) => data[1] = DebitSelector
    BY DEF CanonicalShape
  <1>5. call' # NoCall => data \in IF IsDebit THEN DebitEncodings ELSE ExpireEncodings
    BY <1>2, Answers DEF AcceptsExactlyEncodings
  <1>6. header.hex /\ reason' \in DecoderCodes => data \notin DebitEncodings /\ data \notin ExpireEncodings
    <2>1. CASE reason' = reason
      BY <2>1 DEF AcceptsExactlyEncodings, DecoderCodes
    <2>2. CASE reason' # reason /\ header.hex /\ reason' \in DecoderCodes
      <3>1. /\ pc = "decode"
            /\ \/ IsDebit /\ ~CanonicalShape(data)
               \/ ~IsDebit /\ decode_expire(data) # "none"
        BY <2>2, Answers DEF EarlyCodes, LaterCodes, DecoderCodes
      <3> QED
        BY <1>2, <1>3, <1>4, <3>1, Sizes
    <2> QED
      BY <2>1, <2>2
  <1> QED
    BY <1>1, <1>5, <1>6 DEF AcceptsExactlyEncodings, DecoderCodes

\* Strict decoding: for every byte string of any length over any alphabet, a call is
\* returned exactly from an encoding, and length and shape are refused exactly
\* where there is none.
THEOREM ExactlyTheEncodings == Spec => []AcceptsExactlyEncodings
  <1>1. Init => AcceptsExactlyEncodings
    BY DEF Init, AcceptsExactlyEncodings
  <1> QED
    BY <1>1, ExactKept, GatesHold, PTL DEF Spec

\* a signature and its twin are not both low: the group order is odd
LEMMA OneIsHigh ==
    ASSUME NEW s \in Nat, LowS(s)
    PROVE  ~LowS(N - s)
  BY CodecConstants DEF LowS

\* One authorisation has one calldata: for every odd group order and every string
\* that got past the decoding, the string with the other signature of the same
\* signer does not get past it.
THEOREM OneCalldata == Spec => []OneCalldataPerAuthorisation
  <1>1. GateInv => OneCalldataPerAuthorisation
    <2> SUFFICES ASSUME GateInv, pc = "fields", IsDebit, NEW d \in Twins(data), Admits(d) PROVE FALSE
      BY DEF OneCalldataPerAuthorisation
    <2>1. /\ data \in Seq(Bytes) /\ Len(data) = 11 /\ call = DebitCall(data)
          /\ check_signature_shape(call.signature) = "none"
      BY DEF GateInv, Gates, Typed, CanonicalShape
    <2>2. PICK v \in Vs : d = [data EXCEPT ![9] = N - data[9], ![10] = v]
      BY DEF Twins
    <2>3. LowS(data[9]) /\ data[9] \in Nat
      <3>1. call.signature[2] = data[9] /\ data[9] \in Bytes
        BY <2>1, ReadFields, ElementOfSeq
      <3> QED
        BY <2>1, <3>1, Sizes DEF check_signature_shape
    <2>4. Len(d) = 11 /\ d[9] = N - data[9]
      BY <2>1, <2>2
    <2>5. SubSeq(d, 8, 10)[2] = d[9]
      BY <2>1, <2>2, <2>4
    <2>6. LowS(d[9])
      BY <2>5 DEF Admits, check_signature_shape, DebitCall
    <2> QED
      BY <2>3, <2>4, <2>6, OneIsHigh
  <1> QED
    BY <1>1, GatesHold, PTL


-----------------------------------------------------------------------------
(***************************************************************************)
(* What was read from chain, and what the contract makes of it.            *)
(***************************************************************************)

\* What the escrow's storage is taken to be: a channel it does not know reads as
\* zeroes, and one it knows was opened with an expiry.
LawfulChannel(ch) ==
    /\ ch.depositor = Unbound => ch.used_amount = 0
    /\ ch.depositor # Unbound => ch.expires_at > 0

\* every request is about such a channel
LawfulScenarios ==
    \A family \in DOMAIN Scenarios : \A s \in Scenarios[family] : LawfulChannel(s.chan)

\* the channel still is what was read of it, as long as the chain has not moved
ReadsHold ==
    /\ pc \in {"receipt", "recover", "estimate"} /\ moves = 0 =>
           seen = get_channel(Words(chan)) /\ chan.status = 0
    /\ pc \in {"receipt", "recover", "estimate"} /\ moves = 0 /\ IsDebit =>
           /\ chan.depositor # Unbound /\ chan.balance >= call.amount
           /\ chan.hub \in {Unbound, Us}
    /\ pc \in {"recover", "estimate"} /\ moves = 0 /\ IsDebit => ~collected
    /\ pc = "estimate" /\ IsDebit => Recovers(debit_digest(seen, call), seen.depositor)
    /\ pc = "estimate" /\ moves = 0 /\ ~IsDebit => chan.expires_at = 0 \/ now > DebitDeadline(chan)

\* and it owes us whatever it owed when it was read
OwesUs == pc = "estimate" /\ ~IsDebit => chan.hub = Us /\ chan.used_amount > 0

ReadInv == ReadsHold /\ OwesUs

\* Nothing has been read at the start.
LEMMA InitReads == Init => ReadInv
  BY DEF Init, ReadInv, ReadsHold, OwesUs

\* Every step keeps what the request relies on of its reads.
LEMMA ReadsKept == GateInv /\ ReadInv /\ [Next]_vars => ReadInv'
  <1> SUFFICES ASSUME GateInv, ReadInv, [Next]_vars PROVE ReadInv'
    OBVIOUS
  <1>0. /\ header' = header /\ data' = data /\ signed' = signed
        /\ (IsDebit' <=> IsDebit) /\ chan \in Channels /\ now \in Nat /\ moves \in Nat
    BY RequestKept DEF GateInv, Typed
  <1> USE <1>0 DEF ReadInv
  <1>1. CASE ParseEnvelope \/ Dispatch \/ Decode \/ CheckFields \/ RpcDown
    <2>1. pc' \notin {"receipt", "recover", "estimate"}
      BY <1>1 DEF ParseEnvelope, Dispatch, Decode, CheckFields, RpcDown, Apply, Proceed, Answer
    <2> QED
      BY <2>1 DEF ReadsHold, OwesUs
  <1>2. CASE ReadChannel
    <2>1. /\ UNCHANGED <<chan, collected, now, moves, call>>
          /\ seen' = get_channel(Words(chan))
      BY <1>2 DEF ReadChannel, world
    <2> DEFINE ch == get_channel(Words(chan))
    <2>2. /\ ch.depositor = chan.depositor /\ ch.hub = chan.hub /\ ch.balance = chan.balance
          /\ ch.used_amount = chan.used_amount /\ ch.expires_at = chan.expires_at
          /\ ch.status = chan.status /\ ch.v2 = chan.v2 /\ (ch.exists <=> chan.depositor # Unbound)
      BY ReadsWords
    <2>3. seen' = ch
      BY <2>1
    <2> HIDE DEF ch
    <2>4. DebitDeadline(ch) = DebitDeadline(chan)
      BY <2>2 DEF DebitDeadline
    <2>5. CASE IsDebit
      <3>1. \/ pc' = "done"
            \/ FirstBreach(ChannelRules(ch, call)) = "none" /\ pc' = "receipt"
        BY <1>2, <2>3, <2>5 DEF ReadChannel, Apply, Proceed, Answer
      <3>2. pc' = "receipt" =>
              chan.status = 0 /\ chan.depositor # Unbound /\ chan.balance >= call.amount /\ chan.hub \in {Unbound, Us}
        BY <2>2, <3>1, ChannelBreach
      <3> QED
        BY <2>1, <2>5, <3>1, <3>2 DEF ReadsHold, OwesUs
    <2>6. CASE ~IsDebit
      <3>1. \/ pc' = "done"
            \/ FirstBreach(CollectRules(ch)) = "none" /\ pc' = "estimate"
        BY <1>2, <2>3, <2>6 DEF ReadChannel, Apply, Proceed, Answer
      <3>2. pc' = "estimate" =>
              /\ chan.status = 0 /\ chan.used_amount > 0 /\ chan.hub = Us
              /\ chan.expires_at = 0 \/ now > DebitDeadline(chan)
        BY <2>2, <2>4, <3>1, CollectBreach
      <3> QED
        BY <2>1, <2>6, <3>1, <3>2 DEF ReadsHold, OwesUs, DebitDeadline
    <2> QED
      BY <2>5, <2>6
  <1>3. CASE ReadReceipt
    <2>1. UNCHANGED <<chan, collected, now, moves, call, seen>> /\ pc = "receipt" /\ IsDebit
      BY <1>3 DEF ReadReceipt, world, GateInv, Gates
    <2>2. FirstBreach(<< <<~collected, "receipt_already_used">> >>) = IF ~collected THEN "none" ELSE "receipt_already_used"
      BY OnlyRule
    <2>3. pc' = "done" \/ (pc' = "recover" /\ ~collected)
      BY <1>3, <2>2 DEF ReadReceipt, Apply, Proceed, Answer
    <2> QED
      BY <2>1, <2>3 DEF ReadsHold, OwesUs
  <1>4. CASE Recover
    <2> DEFINE ok == Recovers(debit_digest(seen, call), seen.depositor)
    <2>1. UNCHANGED <<chan, collected, now, moves, call, seen>> /\ pc = "recover" /\ IsDebit
      BY <1>4 DEF Recover, world, GateInv, Gates
    <2>2. FirstBreach(<< <<ok, "signature_not_depositor">> >>) = IF ok THEN "none" ELSE "signature_not_depositor"
      BY OnlyRule
    <2>3. Apply(<< <<ok, "signature_not_depositor">> >>, "estimate")
      BY <1>4 DEF Recover
    <2>4. ok' <=> ok
      BY <2>1 DEF Recovers, debit_digest
    <2> HIDE DEF ok
    <2>5. pc' = "done" \/ (pc' = "estimate" /\ ok)
      BY <2>2, <2>3 DEF Apply, Proceed, Answer
    <2>6. pc' = "estimate" => Recovers(debit_digest(seen, call), seen.depositor)'
      BY <2>4, <2>5 DEF ok
    <2> QED
      BY <2>1, <2>5, <2>6 DEF ReadsHold, OwesUs
  <1>5. CASE Estimate
    BY <1>5 DEF Estimate, Answer, world, ReadsHold, OwesUs
  <1>6. CASE TimePasses
    <2>1. Recovers(debit_digest(seen, call), seen.depositor)' <=> Recovers(debit_digest(seen, call), seen.depositor)
      BY <1>6 DEF TimePasses, Recovers, debit_digest
    <2>2. UNCHANGED <<chan, collected, moves, pc, call, seen>> /\ now' = now + 1
      BY <1>6 DEF TimePasses
    <2>3. DebitDeadline(chan) \in Nat
      BY AdmissionConstants DEF DebitDeadline, Channels
    <2>4. now > DebitDeadline(chan) => now' > DebitDeadline(chan)
      BY <2>2, <2>3
    <2>5. DebitDeadline(chan)' = DebitDeadline(chan)
      BY <2>2 DEF DebitDeadline
    <2> QED
      BY <2>1, <2>2, <2>4, <2>5 DEF ReadsHold, OwesUs
  <1>7. CASE ChainMoves
    <2>1. moves' # 0 /\ UNCHANGED <<pc, call, seen>>
      BY <1>7 DEF ChainMoves
    <2>2. Recovers(debit_digest(seen, call), seen.depositor)' <=> Recovers(debit_digest(seen, call), seen.depositor)
      BY <2>1 DEF Recovers, debit_digest
    <2>3. \/ chan'.hub = Us /\ chan'.used_amount > 0
          \/ chan'.hub = chan.hub /\ chan'.used_amount = chan.used_amount
      BY <1>7, DebitedChannel, ClosedChannel DEF ChainMoves
    <2> QED
      BY <2>1, <2>2, <2>3 DEF ReadsHold, OwesUs
  <1>8. CASE UNCHANGED vars
    <2>1. UNCHANGED <<chan, collected, now, moves, pc, call, seen>>
      BY <1>8 DEF vars, world
    <2>2. Recovers(debit_digest(seen, call), seen.depositor)' <=> Recovers(debit_digest(seen, call), seen.depositor)
      BY <2>1 DEF Recovers, debit_digest
    <2> QED
      BY <2>1, <2>2 DEF ReadsHold, OwesUs, DebitDeadline
  <1> QED
    BY <1>1, <1>2, <1>3, <1>4, <1>5, <1>6, <1>7, <1>8 DEF Next

\* What the request relies on of its reads is so as long as the chain has not moved.
LEMMA ReadsHoldAlways == Spec => []ReadInv
  BY InitReads, ReadsKept, GatesHold, PTL DEF Spec

\* Neither time nor the chain makes a lawful channel an unlawful one.
LEMMA StaysLawful ==
    ASSUME LawfulScenarios
    PROVE  Spec => []LawfulChannel(chan)
  <1>1. Init => LawfulChannel(chan)
    BY DEF Init, LawfulScenarios
  <1>2. GateInv /\ LawfulChannel(chan) /\ [Next]_vars => LawfulChannel(chan)'
    <2> SUFFICES ASSUME GateInv, LawfulChannel(chan), [Next]_vars PROVE LawfulChannel(chan)'
      OBVIOUS
    <2>1. CASE ChainMoves
      <3>1. chan'.depositor = chan.depositor /\ chan'.expires_at = chan.expires_at /\ chan.depositor # Unbound
        BY <2>1, DebitedChannel, ClosedChannel DEF ChainMoves, GateInv, Typed
      <3> QED
        BY <3>1 DEF LawfulChannel
    <2>2. CASE ~ChainMoves
      <3>1. chan' = chan
        BY <2>2 DEF Next, ParseEnvelope, Dispatch, Decode, CheckFields, ReadChannel, ReadReceipt, Recover,
                    Estimate, RpcDown, TimePasses, world, vars
      <3> QED
        BY <3>1 DEF LawfulChannel
    <2> QED
      BY <2>1, <2>2
  <1> QED
    BY <1>1, <1>2, GatesHold, PTL DEF Spec

\* The checks anticipate the contract, for every channel of either version, every
\* request and every setting of the bands: unless the chain or the clock moved, a
\* request that passed them all is one the contract accepts.
THEOREM ChecksSuffice ==
    ASSUME LawfulScenarios
    PROVE  Spec => []ChecksAnticipateContract
  <1>1. GateInv /\ ReadInv /\ LawfulChannel(chan) => ChecksAnticipateContract
    <2> SUFFICES ASSUME GateInv, ReadInv, LawfulChannel(chan), pc = "estimate", StillAsRead PROVE Accepts
      BY DEF ChecksAnticipateContract
    <2>1. moves = 0 /\ seen = get_channel(Words(chan)) /\ chan.status = 0 /\ chan \in Channels
      BY DEF StillAsRead, ReadInv, ReadsHold, GateInv, Typed
    <2>2. CASE IsDebit
      <3>1. seen.token = chan.token /\ seen.nonce = chan.nonce /\ seen.depositor = chan.depositor
        BY <2>1, ReadsWords
      <3>2. debit_digest(seen, call) = debit_digest(chan, call)
        BY <3>1 DEF debit_digest
      <3>3. Recovers(debit_digest(chan, call), chan.depositor)
        BY <2>2, <3>1, <3>2 DEF ReadInv, ReadsHold
      <3>4. /\ chan.depositor # Unbound /\ chan.balance >= call.amount /\ chan.hub \in {Unbound, Us}
            /\ ~collected
        BY <2>1, <2>2 DEF ReadInv, ReadsHold
      <3>5. check_signature_shape(call.signature) = "none"
        BY <2>2 DEF GateInv, Gates
      <3>6. now <= call.deadline /\ now <= DebitDeadline(chan)
        BY <2>2 DEF StillAsRead
      <3> QED
        BY <2>1, <2>2, <3>3, <3>4, <3>5, <3>6 DEF Accepts, AcceptsDebit
    <2>3. CASE ~IsDebit
      <3>1. chan.used_amount > 0 /\ (chan.expires_at = 0 \/ now > DebitDeadline(chan))
        BY <2>1, <2>3 DEF ReadInv, ReadsHold, OwesUs
      <3>2. chan.depositor # Unbound /\ chan.expires_at > 0
        BY <3>1 DEF LawfulChannel
      <3> QED
        BY <2>1, <2>3, <3>1, <3>2 DEF Accepts, AcceptsExpire
    <2> QED
      BY <2>2, <2>3
  <1> QED
    BY <1>1, ReadsHoldAlways, StaysLawful, GatesHold, PTL

\* At no moment does a channel admit both a debit and its expiry, for every expiry,
\* settle window and margin: the last second of the one and the first of the other
\* do not meet.
THEOREM NeverBothDebitAndExpiry ==
    ASSUME LawfulScenarios
    PROVE  Spec => []DebitOrExpiry
  <1>1. GateInv /\ ReadInv /\ LawfulChannel(chan) => DebitOrExpiry
    <2> DEFINE ch == get_channel(Words(chan))
    <2> SUFFICES ASSUME GateInv, ReadInv, LawfulChannel(chan), NEW amount \in Bytes,
                        Passes(ChannelRules(ch, [amount |-> amount])), Passes(CollectRules(ch))
                 PROVE  FALSE
      BY DEF DebitOrExpiry
    <2>1. chan \in Channels /\ now \in Nat
      BY DEF GateInv, Typed
    <2>2. /\ ch.expires_at = chan.expires_at /\ ch.v2 = chan.v2
          /\ (ch.exists <=> chan.depositor # Unbound)
      BY <2>1, ReadsWords
    <2> DEFINE c == [amount |-> amount]
    <2>3. FirstBreach(ChannelRules(ch, c)) = "none" /\ FirstBreach(CollectRules(ch)) = "none"
      BY DEF Passes
    <2> HIDE DEF ch, c
    <2>4. ch.exists /\ DebitDeadline(ch) > now + MinRemaining
      BY <2>3, ChannelBreach
    <2>5. ch.expires_at = 0 \/ now > DebitDeadline(ch)
      BY <2>3, CollectBreach
    <2>6. ch.expires_at > 0
      BY <2>2, <2>4 DEF LawfulChannel
    <2>7. DebitDeadline(ch) \in Nat /\ MinRemaining \in Nat
      <3>1. chan.expires_at \in Nat /\ SettleWindow \in Nat /\ MinRemaining \in Nat
        BY <2>1, AdmissionConstants DEF Channels
      <3> QED
        BY <2>2, <3>1 DEF DebitDeadline
    <2> QED
      BY <2>1, <2>4, <2>5, <2>6, <2>7
  <1> QED
    BY <1>1, ReadsHoldAlways, StaysLawful, GatesHold, PTL

\* Every step that admits a request admits one that pays us.
LEMMA PaysKept == GateInv /\ ReadInv /\ AdmittedPaysUs /\ [Next]_vars => AdmittedPaysUs'
  <1> SUFFICES ASSUME GateInv, ReadInv, AdmittedPaysUs, [Next]_vars, reason' = "admitted"
               PROVE  IF IsDebit THEN ~collected' /\ chan'.hub \in {Unbound, Us}
                      ELSE chan'.hub = Us /\ chan'.used_amount > 0
    BY RequestKept DEF AdmittedPaysUs
  <1>1. CASE Estimate
    <2>1. pc = "estimate" /\ UNCHANGED <<chan, collected>> /\ Accepts
      BY <1>1 DEF Estimate, Answer, world
    <2> QED
      BY <2>1 DEF Accepts, AcceptsDebit, ReadInv, OwesUs
  <1>2. CASE reason' = reason
    <2>1. pc = "done"
      BY <1>2 DEF GateInv, Gates
    <2>2. UNCHANGED vars
      BY <2>1 DEF Next, ParseEnvelope, Dispatch, Decode, CheckFields, ReadChannel, ReadReceipt, Recover,
                  Estimate, RpcDown, TimePasses, ChainMoves, Reading
    <2> QED
      BY <1>2, <2>2 DEF vars, world, AdmittedPaysUs
  <1> QED
    BY <1>1, <1>2, Answers DEF EarlyCodes, LaterCodes, DecoderCodes

\* What is admitted pays us, whatever the chain does between the reads: a debit of a
\* receipt not yet collected from a channel no other hub is bound to, or the
\* expiry of a channel that is bound to us and owes us something.
THEOREM AdmittedPays == Spec => []AdmittedPaysUs
  <1>1. Init => AdmittedPaysUs
    BY DEF Init, AdmittedPaysUs
  <1> QED
    BY <1>1, PaysKept, ReadsHoldAlways, GatesHold, PTL DEF Spec

=============================================================================
