----------------------------- MODULE ChainProofs -----------------------------
(***************************************************************************)
(* Theorems about the hash chains of the books and about the migration     *)
(* (modules AuditChain and Rebaseline), for books of any length, any       *)
(* number of crashes, edits and removals and any number of runs of the     *)
(* migration.                                                              *)
(***************************************************************************)
EXTENDS Rebaseline, OrderLemmas, SequenceTheorems

-----------------------------------------------------------------------------
(***************************************************************************)
(* Tables.                                                                 *)
(***************************************************************************)

\* a table: a sequence, of whatever rows
IsRows(s) == \E S : s \in Seq(S)

\* appending a row
LEMMA AppendRows ==
    ASSUME NEW s, IsRows(s), NEW e, NEW t, t = Append(s, e)
    PROVE  /\ IsRows(t) /\ Len(s) \in Nat /\ DOMAIN s = 1..Len(s) /\ DOMAIN t = 1..Len(t)
           /\ Len(t) = Len(s) + 1 /\ t[Len(s) + 1] = e
           /\ \A i \in 1..Len(s) : t[i] = s[i]
  <1>1. PICK S : s \in Seq(S)
    BY DEF IsRows
  <1> DEFINE T == S \cup {e}
  <1>2. s \in Seq(T) /\ e \in T
    BY <1>1, SeqMonotonic
  <1> HIDE DEF T
  <1>3. t \in Seq(T)
    BY <1>2
  <1> QED
    BY <1>2, <1>3 DEF IsRows

\* replacing a row
LEMMA ExceptRows ==
    ASSUME NEW s, IsRows(s), NEW i \in DOMAIN s, NEW e, NEW t, t = [s EXCEPT ![i] = e]
    PROVE  /\ IsRows(t) /\ Len(s) \in Nat /\ DOMAIN s = 1..Len(s) /\ DOMAIN t = 1..Len(t)
           /\ Len(t) = Len(s) /\ t[i] = e
           /\ \A j \in 1..Len(s) : j # i => t[j] = s[j]
  <1>1. PICK S : s \in Seq(S)
    BY DEF IsRows
  <1> DEFINE T == S \cup {e}
  <1>2. s \in Seq(T) /\ e \in T
    BY <1>1, SeqMonotonic
  <1> HIDE DEF T
  <1>3. t \in Seq(T)
    BY <1>2
  <1> QED
    BY <1>2, <1>3 DEF IsRows

\* removing a row
LEMMA RemoveRows ==
    ASSUME NEW s, IsRows(s), NEW i \in DOMAIN s, NEW t, t = RemoveAt(s, i)
    PROVE  /\ IsRows(t) /\ Len(s) \in Nat /\ DOMAIN s = 1..Len(s) /\ DOMAIN t = 1..Len(t)
           /\ Len(t) = Len(s) - 1
           /\ \A j \in 1..Len(t) : t[j] = s[j] \/ (j + 1 \in 1..Len(s) /\ t[j] = s[j + 1])
  <1>1. PICK S : s \in Seq(S)
    BY DEF IsRows
  <1>2. Len(s) \in Nat /\ DOMAIN s = 1..Len(s) /\ i \in 1..Len(s)
    BY <1>1
  <1> DEFINE a == SubSeq(s, 1, i - 1)
             b == SubSeq(s, i + 1, Len(s))
  <1>3. a \in Seq(S) /\ Len(a) = i - 1 /\ \A j \in 1..Len(a) : a[j] = s[j]
    BY <1>1, <1>2
  <1>4. b \in Seq(S) /\ Len(b) = Len(s) - i /\ \A j \in 1..Len(b) : b[j] = s[i + j]
    BY <1>1, <1>2
  <1> HIDE DEF a, b
  <1>5. t = a \o b
    BY DEF RemoveAt, a, b
  <1>6. /\ t \in Seq(S) /\ Len(t) = Len(a) + Len(b)
        /\ \A j \in 1..(Len(a) + Len(b)) : t[j] = IF j <= Len(a) THEN a[j] ELSE b[j - Len(a)]
    BY <1>3, <1>4, <1>5, ConcatProperties
  <1>7. \A j \in 1..Len(t) : t[j] = s[j] \/ (j + 1 \in 1..Len(s) /\ t[j] = s[j + 1])
    <2> TAKE j \in 1..Len(t)
    <2>1. CASE j <= Len(a)
      BY <1>2, <1>3, <1>4, <1>6, <2>1
    <2>2. CASE j > Len(a)
      <3>1. j - Len(a) \in 1..Len(b) /\ i + (j - Len(a)) = j + 1 /\ j + 1 \in 1..Len(s)
        BY <1>2, <1>3, <1>4, <1>6, <2>2
      <3> QED
        BY <1>3, <1>4, <1>6, <2>2, <3>1
    <2> QED
      BY <1>2, <1>3, <1>6, <2>1, <2>2
  <1> QED
    BY <1>2, <1>3, <1>4, <1>6, <1>7 DEF IsRows

\* a table rebuilt row by row
LEMMA MapRows ==
    ASSUME NEW n \in Nat, NEW t, t = [i \in 1..n |-> t[i]]
    PROVE  IsRows(t) /\ Len(t) = n /\ DOMAIN t = 1..n
  <1> DEFINE S == {t[i] : i \in 1..n}
  <1>1. \A i \in 1..n : t[i] \in S
    OBVIOUS
  <1> HIDE DEF S
  <1>2. t \in Seq(S)
    BY <1>1
  <1> QED
    BY <1>2 DEF IsRows

-----------------------------------------------------------------------------
(***************************************************************************)
(* The walk of verify_chains.                                              *)
(***************************************************************************)

\* The walk over n payloads is what its definition says.
LEMMA WalkDefined ==
    ASSUME NEW p, NEW n \in Nat
    PROVE  Walk(p, n) = [i \in 0..n |-> IF i = 0 THEN Genesis ELSE RowHash(Walk(p, n)[i - 1], p[i])]
  <1> DEFINE step(h, m) == [i \in 0..m |-> IF i = 0 THEN Genesis ELSE RowHash(h[i - 1], p[i])]
             P == {m \in Nat : \E h : h = step(h, m)}
  <1>1. 0 \in P
    <2> DEFINE h == [i \in 0..0 |-> Genesis]
    <2>1. \A i \in 0..0 : i = 0
      OBVIOUS
    <2>2. h = step(h, 0)
      BY <2>1
    <2> QED
      BY <2>2, Zenon
  <1>2. ASSUME NEW m \in Nat, m \in P PROVE m + 1 \in P
    <2>1. PICK h : h = step(h, m)
      BY <1>2
    <2> DEFINE g == [i \in 0..(m + 1) |-> IF i = m + 1 THEN RowHash(h[m], p[m + 1]) ELSE h[i]]
    <2>2. ASSUME NEW i \in 0..(m + 1)
          PROVE  g[i] = IF i = 0 THEN Genesis ELSE RowHash(g[i - 1], p[i])
      <3>1. CASE i = 0
        BY <2>1, <3>1
      <3>2. CASE i = m + 1
        BY <3>2
      <3>3. CASE i # 0 /\ i # m + 1
        <4>1. i \in 0..m /\ i - 1 \in 0..m /\ i - 1 \in 0..(m + 1) /\ i - 1 # m + 1
          BY <3>3
        <4>2. g[i] = h[i] /\ g[i - 1] = h[i - 1]
          BY <3>3, <4>1
        <4>3. h[i] = step(h, m)[i]
          BY <2>1
        <4>4. step(h, m)[i] = RowHash(h[i - 1], p[i])
          BY <3>3, <4>1
        <4> QED
          BY <3>3, <4>2, <4>3, <4>4
      <3> QED
        BY <3>1, <3>2, <3>3
    <2>3. g = step(g, m + 1)
      <3>1. DOMAIN g = 0..(m + 1) /\ g = [i \in 0..(m + 1) |-> g[i]]
        OBVIOUS
      <3> HIDE DEF g
      <3> QED
        BY <2>2, <3>1
    <2> HIDE DEF g
    <2>4. m + 1 \in Nat
      OBVIOUS
    <2> QED
      BY <2>3, <2>4, Zenon
  <1>3. n \in P
    <2> HIDE DEF P
    <2> QED
      BY <1>1, <1>2, NatSetInduction
  <1>4. \E h : h = step(h, n)
    BY <1>3
  <1>5. Walk(p, n) = CHOOSE h : h = step(h, n)
    BY Zenon DEF Walk
  <1> HIDE DEF step
  <1>6. Walk(p, n) = step(Walk(p, n), n)
    BY <1>4, <1>5, Zenon
  <1> QED
    BY <1>6 DEF step

\* its values, one by one
LEMMA WalkValues ==
    ASSUME NEW p, NEW n \in Nat
    PROVE  /\ Walk(p, n)[0] = Genesis
           /\ \A i \in 1..n : Walk(p, n)[i] = RowHash(Walk(p, n)[i - 1], p[i])
  <1> DEFINE w == Walk(p, n)
  <1>1. w = [i \in 0..n |-> IF i = 0 THEN Genesis ELSE RowHash(w[i - 1], p[i])]
    BY WalkDefined
  <1> HIDE DEF w
  <1>2. w[0] = Genesis
    BY <1>1
  <1>3. ASSUME NEW i \in 1..n PROVE w[i] = RowHash(w[i - 1], p[i])
    <2>1. i \in 0..n /\ i # 0
      OBVIOUS
    <2> QED
      BY <1>1, <2>1
  <1> QED
    BY <1>2, <1>3 DEF w

\* the walk over a table that agrees with the payloads so far
LEMMA WalkFollows ==
    ASSUME NEW p, NEW n \in Nat, NEW h, h[0] = Genesis, NEW m \in Nat, m <= n,
           \A i \in 1..m : h[i] = RowHash(h[i - 1], p[i])
    PROVE  \A i \in 0..m : h[i] = Walk(p, n)[i]
  <1> DEFINE w == Walk(p, n)
             P == {i \in Nat : i <= m => h[i] = w[i]}
  <1>1. w[0] = Genesis /\ \A i \in 1..n : w[i] = RowHash(w[i - 1], p[i])
    BY WalkValues
  <1> HIDE DEF w
  <1>2. 0 \in P
    BY <1>1
  <1>3. ASSUME NEW i \in Nat, i \in P PROVE i + 1 \in P
    <2> SUFFICES ASSUME i + 1 <= m PROVE h[i + 1] = w[i + 1]
      OBVIOUS
    <2>1. i + 1 \in 1..m /\ i + 1 \in 1..n /\ (i + 1) - 1 = i /\ i <= m
      OBVIOUS
    <2>2. h[i] = w[i]
      BY <1>3, <2>1
    <2> QED
      BY <1>1, <2>1, <2>2
  <1>4. Nat \subseteq P
    <2> HIDE DEF P
    <2> QED
      BY <1>2, <1>3, NatSetInduction
  <1> QED
    BY <1>4 DEF w

\* the hashes of a whole table
LEMMA WalkIs ==
    ASSUME NEW p, NEW n \in Nat, NEW h, h[0] = Genesis,
           \A i \in 1..n : h[i] = RowHash(h[i - 1], p[i])
    PROVE  \A i \in 0..n : h[i] = Walk(p, n)[i]
  <1>1. n <= n
    OBVIOUS
  <1> QED
    BY <1>1, WalkFollows

\* the walk over a longer table goes the same way for as long as the payloads agree
LEMMA WalkAgrees ==
    ASSUME NEW p, NEW n \in Nat, NEW q, NEW m \in Nat, n <= m, \A i \in 1..n : p[i] = q[i]
    PROVE  \A i \in 0..n : Walk(p, n)[i] = Walk(q, m)[i]
  <1>1. PICK h : h = Walk(p, n)
    OBVIOUS
  <1>2. h[0] = Genesis /\ \A i \in 1..n : h[i] = RowHash(h[i - 1], p[i])
    BY <1>1, WalkValues
  <1>3. \A i \in 1..n : h[i] = RowHash(h[i - 1], q[i])
    BY <1>2
  <1>4. \A i \in 0..n : h[i] = Walk(q, m)[i]
    BY <1>2, <1>3, WalkFollows
  <1> QED
    BY <1>1, <1>4

\* two walks that arrive at the same hash went the same way
LEMMA WalkInjective ==
    ASSUME NEW p, NEW n \in Nat, NEW q, NEW m \in Nat,
           NEW i \in 0..n, NEW k \in 0..m, Walk(p, n)[i] = Walk(q, m)[k]
    PROVE  i = k /\ \A j \in 1..i : p[j] = q[j]
  <1> DEFINE v == Walk(p, n)
             w == Walk(q, m)
             P == {a \in Nat : a <= n => \A b \in 0..m : v[a] = w[b] => a = b /\ \A j \in 1..a : p[j] = q[j]}
  <1>1. v[0] = Genesis /\ \A a \in 1..n : v[a] = RowHash(v[a - 1], p[a])
    BY WalkValues
  <1>2. w[0] = Genesis /\ \A a \in 1..m : w[a] = RowHash(w[a - 1], q[a])
    BY WalkValues
  <1>3. v[i] = w[k]
    OBVIOUS
  <1> HIDE DEF v, w
  <1>a. \A x, y : RowHash(x, y) # Genesis
    BY DEF RowHash, Genesis
  <1>4. 0 \in P
    <2> SUFFICES ASSUME NEW b \in 0..m, v[0] = w[b] PROVE 0 = b
      OBVIOUS
    <2>1. b # 0 => b \in 1..m
      OBVIOUS
    <2> QED
      BY <1>1, <1>2, <1>a, <2>1
  <1>5. ASSUME NEW a \in Nat, a \in P PROVE a + 1 \in P
    <2> SUFFICES ASSUME a + 1 <= n, NEW b \in 0..m, v[a + 1] = w[b]
                 PROVE  a + 1 = b /\ \A j \in 1..(a + 1) : p[j] = q[j]
      OBVIOUS
    <2>1. a + 1 \in 1..n /\ (a + 1) - 1 = a /\ a <= n
      OBVIOUS
    <2>2. v[a + 1] = RowHash(v[a], p[a + 1])
      BY <1>1, <2>1
    <2>3. b # 0
      BY <1>2, <1>a, <2>2
    <2>4. b \in 1..m /\ b - 1 \in 0..m
      BY <2>3
    <2>5. v[a] = w[b - 1] /\ p[a + 1] = q[b]
      <3>1. RowHash(v[a], p[a + 1]) = RowHash(w[b - 1], q[b])
        BY <1>2, <2>2, <2>4
      <3> QED
        BY <3>1 DEF RowHash
    <2>6. a = b - 1 /\ \A j \in 1..a : p[j] = q[j]
      BY <1>5, <2>1, <2>4, <2>5
    <2>7. b = a + 1
      BY <2>6
    <2>8. ASSUME NEW j \in 1..(a + 1) PROVE p[j] = q[j]
      <3>1. j \in 1..a \/ j = a + 1
        OBVIOUS
      <3> QED
        BY <2>5, <2>6, <2>7, <3>1
    <2> QED
      BY <2>7, <2>8
  <1>6. Nat \subseteq P
    <2> HIDE DEF P
    <2> QED
      BY <1>4, <1>5, NatSetInduction
  <1> QED
    BY <1>3, <1>6

\* the hash row i of a table has to follow
Before(rows, i) == IF i = 1 THEN Genesis ELSE rows[i - 1].hash

\* every row hashes its payload over the row before it
Linked(rows, payloads) ==
    \A i \in 1..Len(rows) : rows[i].hash = RowHash(Before(rows, i), payloads[i])

\* A table verifies if and only if its rows are linked, and then the walk ends
\* at the hash of its last row.
LEMMA IntactIsLinked ==
    ASSUME NEW rows, Len(rows) \in Nat, NEW p
    PROVE  /\ Intact(rows, p) <=> Linked(rows, p)
           /\ Intact(rows, p) => Walk(p, Len(rows))[Len(rows)] = Before(rows, Len(rows) + 1)
  <1>1. PICK n \in Nat : n = Len(rows)
    OBVIOUS
  <1> DEFINE w == Walk(p, n)
  <1>2. w[0] = Genesis /\ \A i \in 1..n : w[i] = RowHash(w[i - 1], p[i])
    BY <1>1, WalkValues
  <1>3. Intact(rows, p) <=> \A i \in 1..n : rows[i].hash = w[i]
    BY <1>1 DEF Intact
  <1>4. Linked(rows, p) <=> \A i \in 1..n : rows[i].hash = RowHash(Before(rows, i), p[i])
    BY <1>1 DEF Linked
  <1>5. ASSUME \A i \in 1..n : rows[i].hash = w[i]
        PROVE  /\ \A i \in 1..n : rows[i].hash = RowHash(Before(rows, i), p[i])
               /\ w[n] = Before(rows, n + 1)
    <2> HIDE DEF w
    <2>1. ASSUME NEW i \in 1..(n + 1) PROVE Before(rows, i) = w[i - 1]
      <3>1. CASE i = 1
        BY <1>2, <3>1 DEF Before
      <3>2. CASE i # 1
        <4>1. i - 1 \in 1..n
          BY <1>1, <3>2
        <4> QED
          BY <1>5, <3>2, <4>1 DEF Before
      <3> QED
        BY <3>1, <3>2
    <2>2. ASSUME NEW i \in 1..n PROVE rows[i].hash = RowHash(Before(rows, i), p[i])
      <3>1. i \in 1..(n + 1)
        BY <1>1
      <3> QED
        BY <1>2, <1>5, <2>1, <3>1
    <2>3. n + 1 \in 1..(n + 1) /\ (n + 1) - 1 = n
      BY <1>1
    <2> QED
      BY <2>1, <2>2, <2>3
  <1>6. ASSUME \A i \in 1..n : rows[i].hash = RowHash(Before(rows, i), p[i])
        PROVE  \A i \in 1..n : rows[i].hash = w[i]
    <2>0. PICK h : h = [i \in 0..n |-> IF i = 0 THEN Genesis ELSE rows[i].hash]
      OBVIOUS
    <2>1. h[0] = Genesis /\ \A i \in 1..n : h[i] = rows[i].hash
      BY <1>1, <2>0
    <2> HIDE DEF w
    <2>2. ASSUME NEW i \in 1..n PROVE h[i - 1] = Before(rows, i)
      <3>1. CASE i = 1
        BY <2>1, <3>1 DEF Before
      <3>2. CASE i # 1
        <4>1. i - 1 \in 1..n
          BY <1>1, <3>2
        <4>2. h[i - 1] = rows[i - 1].hash
          BY <2>1, <4>1, Zenon
        <4> QED
          BY <3>2, <4>2 DEF Before
      <3> QED
        BY <3>1, <3>2
    <2>3. ASSUME NEW i \in 1..n PROVE h[i] = RowHash(h[i - 1], p[i])
      <3>1. h[i] = rows[i].hash /\ h[i - 1] = Before(rows, i)
        BY <2>1, <2>2
      <3>2. rows[i].hash = RowHash(Before(rows, i), p[i])
        BY <1>6
      <3> QED
        BY <3>1, <3>2
    <2>4. \A i \in 0..n : h[i] = Walk(p, n)[i]
      <3>1. n <= n /\ h[0] = Genesis
        BY <1>1, <2>1
      <3>2. \A i \in 1..n : h[i] = RowHash(h[i - 1], p[i])
        BY <2>3
      <3> HIDE <2>3
      <3> QED
        BY <3>1, <3>2, WalkIs
    <2>5. \A i \in 1..n : i \in 0..n
      BY <1>1
    <2> QED
      BY <2>1, <2>4, <2>5 DEF w
  <1> HIDE DEF w
  <1>7. Intact(rows, p) <=> Linked(rows, p)
    BY <1>3, <1>4, <1>5, <1>6
  <1>8. Intact(rows, p) => w[n] = Before(rows, n + 1)
    BY <1>3, <1>5
  <1> QED
    BY <1>1, <1>7, <1>8 DEF w

-----------------------------------------------------------------------------
(***************************************************************************)
(* What a step does to the spend table, row by row.                        *)
(***************************************************************************)

\* a row has the columns of the table
IsRow(row) ==
    row = [receipt |-> row.receipt, amount |-> row.amount, attempt |-> row.attempt,
           prev |-> row.prev, hash |-> row.hash]

\* The shape of the books.  A process that is not up is neither serving nor writing.
TableInv ==
    /\ IsRows(spendRows) /\ IsRows(auditRows) /\ IsRows(written)
    /\ \A i \in 1..Len(spendRows) : IsRow(spendRows[i]) /\ spendRows[i].attempt \in {1, 2}
    /\ edits \in Nat /\ removals \in Nat
    /\ born \in {"wide", "narrow"} /\ rule \in {"wide", "narrow"}
    /\ born = "narrow" => rule = "narrow"
    /\ ~up => ~ready /\ ~writing

\* the spend table stays as it is
Kept ==
    /\ UNCHANGED <<spendRows, spendHead, written, edits, removals>>
    /\ (rule' = "narrow" /\ ready') => rule = "narrow" /\ (ready \/ SpendIntact)
    /\ last' = "refused" => last = "refused" \/ \E i \in 1..Len(spendRows) : ~Authentic(i)

\* a reservation
Added ==
    LET n   == Len(spendRows)
        m   == Len(written)
        row == spendRows'[n + 1]
    IN  /\ UNCHANGED <<edits, removals, rule, last>> /\ ready
        /\ Len(spendRows') = n + 1 /\ \A i \in 1..n : spendRows'[i] = spendRows[i]
        /\ Len(written') = m + 1 /\ \A i \in 1..m : written'[i] = written[i]
        /\ written'[m + 1] = <<row.receipt, row.amount>>
        /\ row.attempt = 1 /\ row.prev = spendHead /\ row.hash = spendHead'
        /\ \/ rule = "narrow" /\ row.hash = RowHash(spendHead, SpendPayload(row))
           \/ rule = "wide" /\ row.hash = RowHash(spendHead, wide_payload(row))

\* a row is revived, or edited by hand
Touched(i) ==
    /\ UNCHANGED <<spendHead, written, removals, rule, last>>
    /\ Len(spendRows') = Len(spendRows)
    /\ \A j \in 1..Len(spendRows) : j # i => spendRows'[j] = spendRows[j]
    /\ spendRows'[i].receipt = spendRows[i].receipt
    /\ spendRows'[i].prev = spendRows[i].prev /\ spendRows'[i].hash = spendRows[i].hash
    /\ \/ edits' = edits /\ spendRows'[i].amount = spendRows[i].amount /\ spendRows'[i].attempt = 2
       \/ edits' = edits + 1 /\ spendRows'[i].attempt = spendRows[i].attempt

\* a row is removed by hand
Dropped ==
    /\ UNCHANGED <<spendHead, written, edits, rule, last>> /\ removals' = removals + 1
    /\ Len(spendRows') \in Nat
    /\ \A j \in 1..Len(spendRows') : \E k \in 1..Len(spendRows) : spendRows'[j] = spendRows[k]

\* every row was authentic and gets the tag of the narrow rule
Retags ==
    /\ Len(spendRows') = Len(spendRows)
    /\ \A i \in 1..Len(spendRows) :
          /\ spendRows'[i].receipt = spendRows[i].receipt /\ spendRows'[i].amount = spendRows[i].amount
          /\ spendRows'[i].attempt = spendRows[i].attempt /\ spendRows'[i].hash = Narrow[i]
          /\ Authentic(i)
    /\ spendHead' = Narrow[Len(spendRows)]
    /\ \E i \in 1..Len(spendRows) : ~AlreadyNarrow(i)

\* the migration applies its plan
Applied ==
    Retags /\ UNCHANGED <<written, edits, removals, rule, ready, up>> /\ ~up /\ last' = "applied"

\* a table has a length, and its rows are numbered from one
LEMMA RowsNumbered ==
    ASSUME NEW s, IsRows(s)
    PROVE  Len(s) \in Nat /\ DOMAIN s = 1..Len(s)
  BY DEF IsRows

\* A reservation under either rule adds a row hashed over the head.
LEMMA ReserveAdds ==
    ASSUME TableInv, NEW r, NEW amount, NEW hash, ready,
           spendRows' = Append(spendRows, Chained(NewRow(r, amount), hash)),
           spendHead' = hash, written' = Append(written, <<r, amount>>),
           UNCHANGED <<edits, removals, rule, last>>,
           \/ rule = "narrow" /\ hash = RowHash(spendHead, SpendPayload(NewRow(r, amount)))
           \/ rule = "wide" /\ hash = RowHash(spendHead, wide_payload(NewRow(r, amount)))
    PROVE  /\ Added /\ IsRows(spendRows') /\ IsRows(written')
           /\ \A i \in 1..Len(spendRows') : IsRow(spendRows'[i]) /\ spendRows'[i].attempt \in {1, 2}
  <1> DEFINE row == Chained(NewRow(r, amount), hash)
  <1>1. /\ row.receipt = r /\ row.amount = amount /\ row.attempt = 1 /\ row.prev = spendHead
        /\ row.hash = hash /\ IsRow(row)
    BY DEF Chained, NewRow, IsRow
  <1>2. /\ SpendPayload(NewRow(r, amount)) = SpendPayload(row)
        /\ wide_payload(NewRow(r, amount)) = wide_payload(row)
    BY <1>1 DEF SpendPayload, wide_payload, NewRow
  <1> HIDE DEF row
  <1>3. /\ IsRows(spendRows') /\ Len(spendRows) \in Nat /\ Len(spendRows') = Len(spendRows) + 1
        /\ spendRows'[Len(spendRows) + 1] = row
        /\ \A i \in 1..Len(spendRows) : spendRows'[i] = spendRows[i]
    <2>1. IsRows(spendRows) /\ spendRows' = Append(spendRows, row)
      BY DEF TableInv, row
    <2>2. /\ IsRows(spendRows') /\ Len(spendRows) \in Nat /\ Len(spendRows') = Len(spendRows) + 1
          /\ spendRows'[Len(spendRows) + 1] = row
      BY <2>1, AppendRows, Zenon
    <2>3. \A i \in 1..Len(spendRows) : spendRows'[i] = spendRows[i]
      BY <2>1, AppendRows
    <2> QED
      BY <2>2, <2>3
  <1>4. /\ IsRows(written') /\ Len(written) \in Nat /\ Len(written') = Len(written) + 1
        /\ written'[Len(written) + 1] = <<r, amount>>
        /\ \A i \in 1..Len(written) : written'[i] = written[i]
    <2>1. IsRows(written) /\ written' = Append(written, <<r, amount>>)
      BY DEF TableInv
    <2>2. /\ IsRows(written') /\ Len(written) \in Nat /\ Len(written') = Len(written) + 1
          /\ written'[Len(written) + 1] = <<r, amount>>
      BY <2>1, AppendRows, Zenon
    <2>3. \A i \in 1..Len(written) : written'[i] = written[i]
      BY <2>1, AppendRows
    <2> QED
      BY <2>2, <2>3
  <1>5. Added
    BY <1>1, <1>2, <1>3, <1>4 DEF Added
  <1>6. ASSUME NEW i \in 1..Len(spendRows') PROVE IsRow(spendRows'[i]) /\ spendRows'[i].attempt \in {1, 2}
    <2>1. i \in 1..Len(spendRows) \/ i = Len(spendRows) + 1
      BY <1>3
    <2> QED
      BY <1>1, <1>3, <2>1 DEF TableInv
  <1> QED
    BY <1>3, <1>4, <1>5, <1>6

\* A revival or an edit changes one row and leaves its hash as it was.
LEMMA ReviveOrEditTouches ==
    ASSUME TableInv, NEW i \in DOMAIN spendRows, NEW row,
           spendRows' = [spendRows EXCEPT ![i] = row],
           UNCHANGED <<spendHead, written, removals, rule, last>>,
           \/ edits' = edits /\ row = [spendRows[i] EXCEPT !.attempt = 2]
           \/ edits' = edits + 1 /\ row = [spendRows[i] EXCEPT !.amount = 0]
    PROVE  /\ i \in 1..Len(spendRows) /\ Touched(i) /\ IsRows(spendRows')
           /\ \A j \in 1..Len(spendRows') : IsRow(spendRows'[j]) /\ spendRows'[j].attempt \in {1, 2}
  <1>1. IsRows(spendRows) /\ Len(spendRows) \in Nat /\ DOMAIN spendRows = 1..Len(spendRows)
    BY RowsNumbered DEF TableInv
  <1>2. IsRow(spendRows[i]) /\ spendRows[i].attempt \in {1, 2}
    BY <1>1 DEF TableInv
  <1>3. IsRows(spendRows') /\ Len(spendRows') = Len(spendRows) /\ spendRows'[i] = row
    <2>1. spendRows' = [spendRows EXCEPT ![i] = row]
      OBVIOUS
    <2>2. IsRows(spendRows')
      <3>1. IsRows([spendRows EXCEPT ![i] = row])
        BY <1>1, ExceptRows, Zenon
      <3> QED
        BY <2>1, <3>1, Zenon
    <2>3. Len(spendRows') = Len(spendRows)
      BY <1>1, <2>1, ExceptRows
    <2>4. spendRows'[i] = row
      BY <1>1, <2>1
    <2> QED
      BY <2>2, <2>3, <2>4
  <1>4. \A j \in 1..Len(spendRows) : j # i => spendRows'[j] = spendRows[j]
    BY <1>1, ExceptRows
  <1>5. /\ row.receipt = spendRows[i].receipt /\ row.prev = spendRows[i].prev
        /\ row.hash = spendRows[i].hash /\ IsRow(row)
        /\ \/ edits' = edits /\ row.amount = spendRows[i].amount /\ row.attempt = 2
           \/ edits' = edits + 1 /\ row.attempt = spendRows[i].attempt
    <2> DEFINE old == spendRows[i]
    <2>1. old = [receipt |-> old.receipt, amount |-> old.amount, attempt |-> old.attempt,
                 prev |-> old.prev, hash |-> old.hash]
      BY <1>2 DEF IsRow
    <2>2. \/ edits' = edits /\ row = [old EXCEPT !.attempt = 2]
          \/ edits' = edits + 1 /\ row = [old EXCEPT !.amount = 0]
      OBVIOUS
    <2> HIDE DEF old
    <2>3. CASE edits' = edits /\ row = [old EXCEPT !.attempt = 2]
      <3>1. row = [receipt |-> old.receipt, amount |-> old.amount, attempt |-> 2,
                   prev |-> old.prev, hash |-> old.hash]
        BY <2>1, <2>3
      <3> QED
        BY <2>3, <3>1 DEF IsRow, old
    <2>4. CASE edits' = edits + 1 /\ row = [old EXCEPT !.amount = 0]
      <3>1. row = [receipt |-> old.receipt, amount |-> 0, attempt |-> old.attempt,
                   prev |-> old.prev, hash |-> old.hash]
        BY <2>1, <2>4
      <3> QED
        BY <2>4, <3>1 DEF IsRow, old
    <2> QED
      BY <2>2, <2>3, <2>4
  <1>6. Touched(i)
    BY <1>3, <1>4, <1>5 DEF Touched
  <1>7. ASSUME NEW j \in 1..Len(spendRows') PROVE IsRow(spendRows'[j]) /\ spendRows'[j].attempt \in {1, 2}
    <2>1. CASE j = i
      BY <1>2, <1>3, <1>5, <2>1
    <2>2. CASE j # i
      BY <1>3, <1>4, <2>2 DEF TableInv
    <2> QED
      BY <2>1, <2>2
  <1> QED
    BY <1>1, <1>3, <1>6, <1>7

\* A removal drops one row and leaves the others with their hashes.
LEMMA RemoveDrops ==
    ASSUME TableInv, NEW i \in DOMAIN spendRows, RemoveRow(i), UNCHANGED <<rule, last>>
    PROVE  /\ Dropped /\ IsRows(spendRows')
           /\ \A j \in 1..Len(spendRows') : IsRow(spendRows'[j]) /\ spendRows'[j].attempt \in {1, 2}
  <1>1. IsRows(spendRows) /\ spendRows' = RemoveAt(spendRows, i)
    BY DEF TableInv, RemoveRow
  <1>2. IsRows(spendRows') /\ Len(spendRows) \in Nat /\ Len(spendRows') = Len(spendRows) - 1
    BY <1>1, RemoveRows, Zenon
  <1>3. \A j \in 1..Len(spendRows') :
           \/ spendRows'[j] = spendRows[j]
           \/ j + 1 \in 1..Len(spendRows) /\ spendRows'[j] = spendRows[j + 1]
    BY <1>1, RemoveRows
  <1>4. Len(spendRows') \in Nat
    BY <1>2, RowsNumbered
  <1>5. ASSUME NEW j \in 1..Len(spendRows')
        PROVE  \E k \in 1..Len(spendRows) : spendRows'[j] = spendRows[k]
    <2>1. j \in 1..Len(spendRows)
      BY <1>2
    <2> QED
      BY <1>3, <2>1
  <1>6. Dropped
    BY <1>4, <1>5 DEF Dropped, RemoveRow
  <1> QED
    BY <1>2, <1>5, <1>6 DEF TableInv

\* An applied migration keeps every row but its hash.
LEMMA MigrationRetags ==
    ASSUME TableInv, MigrateApplies
    PROVE  /\ Retags /\ IsRows(spendRows')
           /\ \A j \in 1..Len(spendRows') : IsRow(spendRows'[j]) /\ spendRows'[j].attempt \in {1, 2}
  <1> DEFINE n == Len(spendRows)
  <1>1. n \in Nat /\ DOMAIN spendRows = 1..n
    BY RowsNumbered DEF TableInv
  <1>2. spendRows' = [i \in 1..n |-> IF i \in Plan THEN Retagged(i) ELSE spendRows[i]]
    BY <1>1 DEF MigrateApplies
  <1> HIDE DEF n
  <1>3. IsRows(spendRows') /\ Len(spendRows') = n
    <2>1. spendRows' = [i \in 1..n |-> spendRows'[i]]
      BY <1>2
    <2> QED
      BY <1>1, <2>1, MapRows
  <1>4. ASSUME NEW i \in 1..n
        PROVE  /\ spendRows'[i].receipt = spendRows[i].receipt /\ spendRows'[i].amount = spendRows[i].amount
               /\ spendRows'[i].attempt = spendRows[i].attempt /\ spendRows'[i].hash = Narrow[i]
               /\ Authentic(i) /\ IsRow(spendRows'[i]) /\ spendRows'[i].attempt \in {1, 2}
    <2> DEFINE old == spendRows[i]
               new == spendRows'[i]
    <2>1. old.attempt \in {1, 2} /\ IsRow(old)
      BY DEF TableInv, n
    <2>2. Authentic(i)
      BY <1>1 DEF MigrateApplies
    <2>3. CASE i \in Plan
      <3>1. new = [old EXCEPT !.hash = Narrow[i], !.prev = Narrow[i - 1]]
        BY <1>2, <2>3 DEF Retagged
      <3>2. old = [receipt |-> old.receipt, amount |-> old.amount, attempt |-> old.attempt,
                   prev |-> old.prev, hash |-> old.hash]
        BY <2>1 DEF IsRow
      <3> HIDE DEF old, new
      <3>3. new = [receipt |-> old.receipt, amount |-> old.amount, attempt |-> old.attempt,
                   prev |-> Narrow[i - 1], hash |-> Narrow[i]]
        BY <3>1, <3>2
      <3>4. /\ new.receipt = old.receipt /\ new.amount = old.amount /\ new.attempt = old.attempt
            /\ new.hash = Narrow[i] /\ IsRow(new)
        BY <3>3 DEF IsRow
      <3> QED
        BY <2>1, <2>2, <3>4 DEF old, new
    <2>4. CASE i \notin Plan
      <3>1. new = old
        BY <1>2, <2>4
      <3>2. old.hash = Narrow[i]
        BY <1>1, <2>4 DEF Plan, AlreadyNarrow
      <3> QED
        BY <2>1, <2>2, <3>1, <3>2
    <2> QED
      BY <2>3, <2>4
  <1>5. \E i \in 1..n : ~AlreadyNarrow(i)
    BY <1>1 DEF MigrateApplies, Plan
  <1>6. spendHead' = Narrow[n]
    BY DEF MigrateApplies, n
  <1>7. Retags
    BY <1>3, <1>4, <1>5, <1>6 DEF Retags, n
  <1> QED
    BY <1>3, <1>4, <1>7

\* An audit row is one row more in its table.
LEMMA AuditRows ==
    ASSUME IsRows(auditRows), NEW row, auditRows' = Append(auditRows, row)
    PROVE  IsRows(auditRows')
  BY AppendRows, Zenon

\* A step keeps the shape of the books, and does one of five things to the spend
\* table.
LEMMA TableStep ==
    ASSUME TableInv, [RNext]_rvars
    PROVE  /\ TableInv' /\ born' = born
           /\ \/ Kept \/ Added \/ Dropped \/ Applied
              \/ \E i \in 1..Len(spendRows) : Touched(i)
  <1> DEFINE Rows == IsRows(spendRows') /\ \A j \in 1..Len(spendRows') : IsRow(spendRows'[j]) /\ spendRows'[j].attempt \in {1, 2}
             Rest == /\ IsRows(auditRows') /\ IsRows(written') /\ edits' \in Nat /\ removals' \in Nat
                     /\ born' = born /\ rule' \in {"wide", "narrow"} /\ (born' = "narrow" => rule' = "narrow")
                     /\ (~up' => ~ready' /\ ~writing')
  <1>0. spendRows' = spendRows => Rows
    BY DEF TableInv
  <1>1. CASE UNCHANGED rvars
    <2>1. Kept /\ Rest
      BY <1>1 DEF rvars, vars, Kept, TableInv
    <2> QED
      BY <1>0, <1>1, <2>1 DEF TableInv, rvars, vars
  <1>2. CASE UNCHANGED <<born, rule, last>> /\ \E i \in DOMAIN spendRows : Revive(i)
    <2>1. PICK i \in DOMAIN spendRows : Revive(i)
      BY <1>2
    <2>2. PICK row : row = [spendRows[i] EXCEPT !.attempt = 2]
      OBVIOUS
    <2>3. spendRows' = [spendRows EXCEPT ![i] = row]
      BY <2>1, <2>2 DEF Revive, Revived
    <2>4. UNCHANGED <<spendHead, written, removals, rule, last>> /\ edits' = edits
      BY <1>2, <2>1 DEF Revive
    <2>5. i \in 1..Len(spendRows) /\ Touched(i) /\ Rows
      BY <2>2, <2>3, <2>4, ReviveOrEditTouches
    <2>6. (\E j \in 1..Len(spendRows) : Touched(j)) /\ Rows
      BY <2>5
    <2>7. Rest
      BY <1>2, <2>1 DEF Revive, TableInv
    <2> QED
      BY <2>6, <2>7 DEF TableInv
  <1>3. CASE UNCHANGED <<born, rule, last>> /\ \E field \in Fields : AuditInsert(field)
    <2>1. PICK field \in Fields : AuditInsert(field)
      BY <1>3
    <2>2. IsRows(auditRows')
      BY <2>1, AuditRows DEF AuditInsert, TableInv
    <2>3. Kept /\ Rest
      BY <1>3, <2>1, <2>2 DEF AuditInsert, Idle, Kept, TableInv
    <2>4. Rows
      BY <1>0, <2>1 DEF AuditInsert
    <2> QED
      BY <2>3, <2>4 DEF TableInv
  <1>4. CASE UNCHANGED <<born, rule, last>> /\ AuditHead
    <2>1. Kept /\ Rest
      BY <1>4 DEF AuditHead, Kept, TableInv
    <2>2. Rows
      BY <1>0, <1>4 DEF AuditHead
    <2> QED
      BY <2>1, <2>2 DEF TableInv
  <1>5. CASE UNCHANGED <<born, rule, last>> /\ Crash
    <2>1. Kept /\ Rest
      BY <1>5 DEF Crash, Kept, TableInv
    <2>2. Rows
      BY <1>0, <1>5 DEF Crash
    <2> QED
      BY <2>1, <2>2 DEF TableInv
  <1>6. CASE UNCHANGED <<born, rule, last>> /\ \E i \in DOMAIN spendRows : Edit(i)
    <2>1. PICK i \in DOMAIN spendRows : Edit(i)
      BY <1>6
    <2>2. PICK row : row = [spendRows[i] EXCEPT !.amount = 0]
      OBVIOUS
    <2>3. spendRows' = [spendRows EXCEPT ![i] = row]
      BY <2>1, <2>2 DEF Edit
    <2>4. UNCHANGED <<spendHead, written, removals, rule, last>> /\ edits' = edits + 1
      BY <1>6, <2>1 DEF Edit
    <2>5. i \in 1..Len(spendRows) /\ Touched(i) /\ Rows
      BY <2>2, <2>3, <2>4, ReviveOrEditTouches
    <2>6. (\E j \in 1..Len(spendRows) : Touched(j)) /\ Rows
      BY <2>5
    <2>7. Rest
      BY <1>6, <2>1 DEF Edit, TableInv
    <2> QED
      BY <2>6, <2>7 DEF TableInv
  <1>7. CASE UNCHANGED <<born, rule, last>> /\ \E i \in DOMAIN spendRows : RemoveRow(i)
    <2>1. PICK i \in DOMAIN spendRows : RemoveRow(i)
      BY <1>7
    <2>2. Dropped /\ Rows
      BY <1>7, <2>1, RemoveDrops
    <2>3. Rest
      BY <1>7, <2>1 DEF RemoveRow, TableInv
    <2> QED
      BY <2>2, <2>3 DEF TableInv
  <1>8. CASE UNCHANGED <<born, rule, last>> /\ WideBoot
    <2>1. Kept /\ Rest
      BY <1>8 DEF WideBoot, Kept, TableInv
    <2>2. Rows
      BY <1>0, <1>8 DEF WideBoot
    <2> QED
      BY <2>1, <2>2 DEF TableInv
  <1>9. CASE UNCHANGED <<born, rule, last>> /\ \E r \in Receipts, amount \in Amounts : WideReserve(r, amount)
    <2>1. PICK r \in Receipts, amount \in Amounts : WideReserve(r, amount)
      BY <1>9
    <2>2. PICK hash : hash = RowHash(spendHead, wide_payload(NewRow(r, amount)))
      OBVIOUS
    <2>3. /\ spendRows' = Append(spendRows, Chained(NewRow(r, amount), hash))
          /\ spendHead' = hash /\ written' = Append(written, <<r, amount>>)
          /\ UNCHANGED <<edits, removals, rule, last>> /\ ready /\ rule = "wide"
      BY <1>9, <2>1, <2>2 DEF WideReserve
    <2>4. Added /\ Rows /\ IsRows(written')
      BY <2>2, <2>3, ReserveAdds
    <2>5. Rest
      BY <1>9, <2>1, <2>4 DEF WideReserve, TableInv
    <2> QED
      BY <2>4, <2>5 DEF TableInv
  <1>10. CASE UNCHANGED <<born, rule, last>> /\ rule = "narrow" /\ Boot
    <2>1. Kept /\ Rest
      BY <1>10 DEF Boot, VerifyChains, Kept, TableInv
    <2>2. Rows
      BY <1>0, <1>10 DEF Boot
    <2> QED
      BY <2>1, <2>2 DEF TableInv
  <1>11. CASE UNCHANGED <<born, rule, last>> /\ rule = "narrow" /\ \E r \in Receipts, amount \in Amounts : Reserve(r, amount)
    <2>1. PICK r \in Receipts, amount \in Amounts : Reserve(r, amount)
      BY <1>11
    <2>2. PICK hash : hash = RowHash(spendHead, SpendPayload(NewRow(r, amount)))
      OBVIOUS
    <2>3. /\ spendRows' = Append(spendRows, Chained(NewRow(r, amount), hash))
          /\ spendHead' = hash /\ written' = Append(written, <<r, amount>>)
          /\ UNCHANGED <<edits, removals, rule, last>> /\ ready /\ rule = "narrow"
      BY <1>11, <2>1, <2>2 DEF Reserve
    <2>4. Added /\ Rows /\ IsRows(written')
      BY <2>2, <2>3, ReserveAdds
    <2>5. Rest
      BY <1>11, <2>1, <2>4 DEF Reserve, TableInv
    <2> QED
      BY <2>4, <2>5 DEF TableInv
  <1>12. CASE Upgrade
    <2>1. Kept /\ Rest
      BY <1>12 DEF Upgrade, vars, Kept, TableInv
    <2>2. Rows
      BY <1>0, <1>12 DEF Upgrade, vars
    <2> QED
      BY <2>1, <2>2 DEF TableInv
  <1>13. CASE Migrate /\ (MigrateReports \/ MigrateRefuses)
    <2>1. UNCHANGED vars /\ UNCHANGED <<born, rule>> /\ ~up
      BY <1>13 DEF Migrate, MigrateReports, MigrateRefuses
    <2>2. DOMAIN spendRows = 1..Len(spendRows)
      BY RowsNumbered DEF TableInv
    <2>3. last' = "refused" => \E i \in 1..Len(spendRows) : ~Authentic(i)
      BY <1>13, <2>2 DEF MigrateReports, MigrateRefuses
    <2>4. Kept /\ Rest
      BY <2>1, <2>3 DEF vars, Kept, TableInv
    <2>5. Rows
      BY <1>0, <2>1 DEF vars
    <2> QED
      BY <2>4, <2>5 DEF TableInv
  <1>14. CASE Migrate /\ MigrateApplies
    <2>1. Retags /\ Rows
      BY <1>14, MigrationRetags
    <2>2. Applied
      BY <1>14, <2>1 DEF Applied, Migrate, MigrateApplies
    <2>3. IsRows(auditRows')
      BY <1>14, AuditRows DEF MigrateApplies, AuditsItself, TableInv
    <2>4. Rest
      BY <1>14, <2>3 DEF Migrate, MigrateApplies, TableInv
    <2> QED
      BY <2>1, <2>2, <2>4 DEF TableInv
  <1> QED
    BY <1>1, <1>2, <1>3, <1>4, <1>5, <1>6, <1>7, <1>8, <1>9, <1>10, <1>11, <1>12, <1>13, <1>14
       DEF RNext, Common, Migrate

\* The tables keep their shape.
LEMMA TableInvHolds == RSpec => []TableInv
  <1>1. RInit => TableInv
    <2> SUFFICES ASSUME RInit PROVE TableInv
      OBVIOUS
    <2>1. IsRows(<<>>)
      BY DEF IsRows
    <2>2. Len(spendRows) = 0
      BY DEF RInit, Init
    <2> QED
      BY <2>1, <2>2 DEF RInit, Init, TableInv
  <1>2. TableInv /\ [RNext]_rvars => TableInv'
    BY TableStep
  <1> QED
    BY <1>1, <1>2, PTL DEF RSpec

-----------------------------------------------------------------------------
(***************************************************************************)
(* The audit chain.                                                        *)
(***************************************************************************)

\* Unless a process died inside audit: the rows are linked, and the head is that of
\* the last row, or of the row before it between the two statements of audit.
AuditInv ==
    ~torn =>
        /\ \A i \in 1..Len(auditRows) :
              auditRows[i].hash = RowHash(Before(auditRows, i), AuditPayload(auditRows[i]))
        /\ writing => Len(auditRows) > 0 /\ auditHead = Before(auditRows, Len(auditRows))
        /\ ~writing => auditHead = Before(auditRows, Len(auditRows) + 1)

\* one row more, hashed over the head
LEMMA AuditAdded ==
    ASSUME IsRows(auditRows), NEW row, auditRows' = Append(auditRows, row),
           row.hash = RowHash(auditHead, AuditPayload(row)), AuditInv, ~torn, ~writing
    PROVE  LET n == Len(auditRows')
           IN  /\ n \in Nat /\ n > 0 /\ auditRows'[n] = row /\ auditHead = Before(auditRows', n)
               /\ \A i \in 1..n : auditRows'[i].hash = RowHash(Before(auditRows', i), AuditPayload(auditRows'[i]))
  <1> DEFINE n == Len(auditRows)
  <1>1. n \in Nat /\ Len(auditRows') = n + 1 /\ auditRows'[n + 1] = row
    BY AppendRows, Zenon
  <1>2. \A i \in 1..n : auditRows'[i] = auditRows[i]
    BY AppendRows
  <1> HIDE DEF n
  <1>3. ASSUME NEW i \in 1..(n + 1) PROVE Before(auditRows', i) = Before(auditRows, i)
    <2>1. CASE i = 1
      BY <2>1 DEF Before
    <2>2. CASE i # 1
      <3>1. i - 1 \in 1..n
        BY <1>1, <2>2
      <3> QED
        BY <1>2, <2>2, <3>1 DEF Before
    <2> QED
      BY <2>1, <2>2
  <1>4. n + 1 \in 1..(n + 1)
    BY <1>1
  <1>5. auditHead = Before(auditRows, n + 1)
    BY DEF AuditInv, n
  <1>6. auditHead = Before(auditRows', n + 1)
    BY <1>3, <1>4, <1>5
  <1>7. ASSUME NEW i \in 1..(n + 1)
        PROVE  auditRows'[i].hash = RowHash(Before(auditRows', i), AuditPayload(auditRows'[i]))
    <2>1. CASE i = n + 1
      BY <1>1, <1>6, <2>1
    <2>2. CASE i # n + 1
      <3>1. i \in 1..n
        BY <1>1, <2>2
      <3>2. auditRows[i].hash = RowHash(Before(auditRows, i), AuditPayload(auditRows[i]))
        BY <3>1 DEF AuditInv, n
      <3>3. auditRows'[i] = auditRows[i]
        BY <1>2, <3>1
      <3> QED
        BY <1>3, <3>2, <3>3
    <2> QED
      BY <2>1, <2>2
  <1> QED
    BY <1>1, <1>6, <1>7

\* The audit chain stays linked up to a crash inside audit.
LEMMA AuditInvHolds == RSpec => []AuditInv
  <1>1. RInit => AuditInv
    <2> SUFFICES ASSUME RInit PROVE AuditInv
      OBVIOUS
    <2>1. Len(auditRows) = 0 /\ ~writing /\ auditHead = Genesis
      BY DEF RInit, Init
    <2> QED
      BY <2>1 DEF AuditInv, Before
  <1>2. AuditInv /\ TableInv /\ [RNext]_rvars => AuditInv'
    <2> SUFFICES ASSUME AuditInv, TableInv, [RNext]_rvars, ~torn' PROVE AuditInv'
      BY DEF AuditInv
    <2>0. UNCHANGED <<auditRows, auditHead, writing, torn>> => AuditInv'
      BY DEF AuditInv, Before
    <2>1. ASSUME NEW field \in Fields, AuditInsert(field) PROVE AuditInv'
      <3>1. AuditRow(field).hash = RowHash(auditHead, AuditPayload(AuditRow(field)))
        BY DEF AuditRow, AuditPayload
      <3>2. ~torn /\ ~writing /\ IsRows(auditRows) /\ writing' /\ auditHead' = auditHead
        BY <2>1 DEF AuditInsert, Idle, TableInv
      <3>3. auditRows' = Append(auditRows, AuditRow(field))
        BY <2>1 DEF AuditInsert
      <3> QED
        BY <3>1, <3>2, <3>3, AuditAdded DEF AuditInv
    <2>2. CASE AuditHead
      <3>1. writing /\ ~torn /\ ~writing' /\ auditRows' = auditRows /\ auditHead' = auditRows[Len(auditRows)].hash
        BY <2>2 DEF AuditHead
      <3>2. Len(auditRows) \in Nat /\ Len(auditRows) > 0
        BY <3>1, RowsNumbered DEF AuditInv, TableInv
      <3>3. Before(auditRows, Len(auditRows) + 1) = auditRows[Len(auditRows)].hash
        BY <3>2 DEF Before
      <3>4. auditHead' = Before(auditRows', Len(auditRows') + 1)
        BY <3>1, <3>3
      <3>5. \A i \in 1..Len(auditRows') :
               auditRows'[i].hash = RowHash(Before(auditRows', i), AuditPayload(auditRows'[i]))
        BY <3>1 DEF AuditInv
      <3> QED
        BY <3>1, <3>4, <3>5 DEF AuditInv
    <2>3. CASE Crash
      <3>1. ~torn /\ ~writing /\ ~writing' /\ auditRows' = auditRows /\ auditHead' = auditHead
        BY <2>3 DEF Crash
      <3> QED
        BY <3>1 DEF AuditInv, Before
    <2>4. CASE Migrate /\ MigrateApplies
      <3>1. MigrationRow.hash = RowHash(auditHead, AuditPayload(MigrationRow))
        BY DEF MigrationRow, AuditPayload
      <3>2. ~torn /\ ~writing /\ IsRows(auditRows) /\ ~writing'
        BY <2>4 DEF Migrate, MigrateApplies, TableInv
      <3>3. auditRows' = Append(auditRows, MigrationRow) /\ auditHead' = MigrationRow.hash
        BY <2>4 DEF MigrateApplies, AuditsItself
      <3> DEFINE n == Len(auditRows')
      <3>4. /\ n \in Nat /\ n > 0 /\ auditRows'[n] = MigrationRow
            /\ \A i \in 1..n : auditRows'[i].hash = RowHash(Before(auditRows', i), AuditPayload(auditRows'[i]))
        BY <3>1, <3>2, <3>3, AuditAdded
      <3>5. auditHead' = Before(auditRows', n + 1)
        BY <3>3, <3>4 DEF Before
      <3> QED
        BY <3>2, <3>4, <3>5 DEF AuditInv
    <2>5. CASE Migrate /\ (MigrateReports \/ MigrateRefuses)
      BY <2>0, <2>5 DEF Migrate, MigrateReports, MigrateRefuses, vars
    <2>6. CASE UNCHANGED rvars \/ Upgrade
      BY <2>0, <2>6 DEF rvars, vars, Upgrade
    <2>7. CASE WideBoot \/ Boot
      BY <2>0, <2>7 DEF WideBoot, Boot
    <2>8. ASSUME NEW r \in Receipts, NEW amount \in Amounts, WideReserve(r, amount) \/ Reserve(r, amount)
          PROVE  AuditInv'
      BY <2>0, <2>8 DEF WideReserve, Reserve
    <2>9. ASSUME NEW i \in DOMAIN spendRows, Revive(i) \/ Edit(i) \/ RemoveRow(i) PROVE AuditInv'
      BY <2>0, <2>9 DEF Revive, Edit, RemoveRow
    <2> QED
      BY <2>1, <2>2, <2>3, <2>4, <2>5, <2>6, <2>7, <2>8, <2>9 DEF RNext, Common, Migrate
  <1> QED
    BY <1>1, <1>2, TableInvHolds, PTL DEF RSpec

\* The audit chain verifies as long as no process died between the two statements of
\* Ledger.audit, however often the code was upgraded, the migration run or the
\* process stopped elsewhere.
THEOREM AuditVerifiesUnlessTorn == RSpec => []UntornAuditVerifies
  <1>1. AuditInv /\ TableInv => UntornAuditVerifies
    <2> SUFFICES ASSUME AuditInv, TableInv, ~torn PROVE AuditIntact
      BY DEF UntornAuditVerifies
    <2> DEFINE p == [i \in DOMAIN auditRows |-> AuditPayload(auditRows[i])]
    <2>1. Len(auditRows) \in Nat /\ DOMAIN auditRows = 1..Len(auditRows)
      BY RowsNumbered DEF TableInv
    <2>2. \A i \in 1..Len(auditRows) : p[i] = AuditPayload(auditRows[i])
      BY <2>1
    <2> HIDE DEF p
    <2>3. Linked(auditRows, p)
      BY <2>2 DEF AuditInv, Linked
    <2>4. Intact(auditRows, p)
      BY <2>1, <2>3, IntactIsLinked
    <2> QED
      BY <2>4 DEF AuditIntact, p
  <1> QED
    BY <1>1, AuditInvHolds, TableInvHolds, PTL

-----------------------------------------------------------------------------
(***************************************************************************)
(* The spend chain.                                                        *)
(***************************************************************************)

AllLinked ==
    \A i \in 1..Len(spendRows) :
        spendRows[i].hash = RowHash(Before(spendRows, i), SpendPayload(spendRows[i]))

HeadIsLast == spendHead = Before(spendRows, Len(spendRows) + 1)

\* the running head of the migration, row by row
LEMMA NarrowValues ==
    TableInv => /\ Narrow[0] = Genesis
                /\ \A i \in 1..Len(spendRows) : Narrow[i] = RowHash(Narrow[i - 1], SpendPayload(spendRows[i]))
  <1> SUFFICES ASSUME TableInv
               PROVE  /\ Narrow[0] = Genesis
                      /\ \A i \in 1..Len(spendRows) : Narrow[i] = RowHash(Narrow[i - 1], SpendPayload(spendRows[i]))
    OBVIOUS
  <1>1. Len(spendRows) \in Nat /\ DOMAIN spendRows = 1..Len(spendRows)
    BY RowsNumbered DEF TableInv
  <1>2. \A i \in 1..Len(spendRows) : SpendPayloads[i] = SpendPayload(spendRows[i])
    BY <1>1 DEF SpendPayloads
  <1>3. /\ Narrow[0] = Genesis
        /\ \A i \in 1..Len(spendRows) : Narrow[i] = RowHash(Narrow[i - 1], SpendPayloads[i])
    BY <1>1, WalkValues DEF Narrow
  <1> QED
    BY <1>2, <1>3

\* What verify_chains accepts, in three forms.
LEMMA SpendLinked ==
    TableInv => /\ SpendIntact <=> AllLinked
                /\ SpendIntact <=> \A i \in 1..Len(spendRows) : AlreadyNarrow(i)
                /\ SpendIntact => Narrow[Len(spendRows)] = Before(spendRows, Len(spendRows) + 1)
  <1> SUFFICES ASSUME TableInv
               PROVE  /\ SpendIntact <=> AllLinked
                      /\ SpendIntact <=> \A i \in 1..Len(spendRows) : AlreadyNarrow(i)
                      /\ SpendIntact => Narrow[Len(spendRows)] = Before(spendRows, Len(spendRows) + 1)
    OBVIOUS
  <1>1. Len(spendRows) \in Nat /\ DOMAIN spendRows = 1..Len(spendRows)
    BY RowsNumbered DEF TableInv
  <1>2. \A i \in 1..Len(spendRows) : SpendPayloads[i] = SpendPayload(spendRows[i])
    BY <1>1 DEF SpendPayloads
  <1>3. AllLinked <=> Linked(spendRows, SpendPayloads)
    BY <1>2 DEF AllLinked, Linked
  <1>4. /\ SpendIntact <=> Linked(spendRows, SpendPayloads)
        /\ SpendIntact => Narrow[Len(spendRows)] = Before(spendRows, Len(spendRows) + 1)
    BY <1>1, IntactIsLinked DEF SpendIntact, Narrow
  <1>5. SpendIntact <=> \A i \in 1..Len(spendRows) : AlreadyNarrow(i)
    BY DEF SpendIntact, Intact, AlreadyNarrow, Narrow
  <1> QED
    BY <1>3, <1>4, <1>5

\* The running head depends on the chained fields only.
LEMMA NarrowSame ==
    ASSUME TableInv, TableInv', NEW n \in Nat, n = Len(spendRows), n <= Len(spendRows'),
           \A i \in 1..n : SpendPayload(spendRows'[i]) = SpendPayload(spendRows[i])
    PROVE  \A i \in 0..n : Narrow[i] = Narrow'[i]
  <1>1. PICK m \in Nat : m = Len(spendRows')
    BY RowsNumbered DEF TableInv
  <1>2. DOMAIN spendRows' = 1..m
    BY <1>1, RowsNumbered DEF TableInv
  <1>3. PICK q : q = SpendPayloads'
    OBVIOUS
  <1>4. PICK p : p = SpendPayloads
    OBVIOUS
  <1>5. ASSUME NEW i \in 1..n PROVE p[i] = q[i]
    <2>1. i \in 1..m /\ DOMAIN spendRows = 1..n
      BY <1>1, RowsNumbered DEF TableInv
    <2>2. q[i] = SpendPayload(spendRows'[i])
      BY <1>2, <1>3, <2>1 DEF SpendPayloads
    <2>3. p[i] = SpendPayload(spendRows[i])
      BY <1>4, <2>1 DEF SpendPayloads
    <2> QED
      BY <2>2, <2>3
  <1>6. n <= m
    BY <1>1
  <1>7. \A i \in 0..n : Walk(p, n)[i] = Walk(q, m)[i]
    BY <1>5, <1>6, WalkAgrees
  <1>8. Narrow = Walk(p, n) /\ Narrow' = Walk(q, m)
    BY <1>1, <1>3, <1>4 DEF Narrow
  <1> QED
    BY <1>7, <1>8

\* A reservation follows the last row.
LEMMA AddedFollows ==
    ASSUME TableInv, Added, HeadIsLast
    PROVE  HeadIsLast' /\ (AllLinked /\ rule = "narrow" => AllLinked')
  <1> DEFINE n == Len(spendRows)
  <1>1. n \in Nat /\ Len(spendRows') = n + 1 /\ (\A i \in 1..n : spendRows'[i] = spendRows[i])
        /\ spendRows'[n + 1].hash = spendHead'
    BY RowsNumbered DEF TableInv, Added
  <1>2. spendHead = Before(spendRows, n + 1)
    BY DEF HeadIsLast
  <1>3. rule = "narrow" => spendRows'[n + 1].hash = RowHash(spendHead, SpendPayload(spendRows'[n + 1]))
    BY DEF Added
  <1>4. AllLinked => \A i \in 1..n : spendRows[i].hash = RowHash(Before(spendRows, i), SpendPayload(spendRows[i]))
    BY DEF AllLinked
  <1> HIDE DEF n
  <1>5. HeadIsLast'
    <2>1. Before(spendRows', (n + 1) + 1) = spendRows'[n + 1].hash
      BY <1>1 DEF Before
    <2> QED
      BY <1>1, <2>1 DEF HeadIsLast
  <1>6. ASSUME NEW i \in 1..(n + 1) PROVE Before(spendRows', i) = Before(spendRows, i)
    <2>1. CASE i = 1
      BY <2>1 DEF Before
    <2>2. CASE i # 1
      <3>1. i - 1 \in 1..n
        BY <1>1, <2>2
      <3> QED
        BY <1>1, <2>2, <3>1 DEF Before
    <2> QED
      BY <2>1, <2>2
  <1>7. ASSUME AllLinked, rule = "narrow", NEW i \in 1..(n + 1)
        PROVE  spendRows'[i].hash = RowHash(Before(spendRows', i), SpendPayload(spendRows'[i]))
    <2>1. CASE i = n + 1
      BY <1>2, <1>3, <1>6, <1>7, <2>1
    <2>2. CASE i # n + 1
      <3>1. i \in 1..n
        BY <1>1, <2>2
      <3>2. spendRows'[i] = spendRows[i]
        BY <1>1, <3>1
      <3>3. spendRows[i].hash = RowHash(Before(spendRows, i), SpendPayload(spendRows[i]))
        BY <1>4, <1>7, <3>1
      <3> QED
        BY <1>6, <3>2, <3>3
    <2> QED
      BY <2>1, <2>2
  <1> QED
    BY <1>1, <1>5, <1>7 DEF AllLinked

\* A touched row keeps its tag.
LEMMA TouchedKeepsTags ==
    ASSUME TableInv, NEW i \in 1..Len(spendRows), Touched(i)
    PROVE  /\ Len(spendRows) \in Nat /\ Len(spendRows') = Len(spendRows)
           /\ \A j \in 1..Len(spendRows) : spendRows'[j].hash = spendRows[j].hash
           /\ \A j \in 1..(Len(spendRows) + 1) : Before(spendRows', j) = Before(spendRows, j)
           /\ edits' = edits => \A j \in 1..Len(spendRows) : SpendPayload(spendRows'[j]) = SpendPayload(spendRows[j])
  <1>1. Len(spendRows) \in Nat
    BY RowsNumbered DEF TableInv
  <1>2. \A j \in 1..Len(spendRows) : spendRows'[j].hash = spendRows[j].hash
    BY DEF Touched
  <1>3. ASSUME NEW j \in 1..(Len(spendRows) + 1) PROVE Before(spendRows', j) = Before(spendRows, j)
    <2>1. j # 1 => j - 1 \in 1..Len(spendRows)
      BY <1>1
    <2> QED
      BY <1>2, <2>1 DEF Before
  <1>4. ASSUME edits' = edits, NEW j \in 1..Len(spendRows)
        PROVE  SpendPayload(spendRows'[j]) = SpendPayload(spendRows[j])
    <2>1. CASE j # i
      BY <2>1 DEF Touched
    <2>2. CASE j = i
      <3>1. edits + 1 # edits
        BY DEF TableInv
      <3>2. spendRows'[i].receipt = spendRows[i].receipt /\ spendRows'[i].amount = spendRows[i].amount
        BY <1>4, <3>1 DEF Touched
      <3> QED
        BY <2>2, <3>2 DEF SpendPayload
    <2> QED
      BY <2>1, <2>2
  <1> QED
    BY <1>1, <1>2, <1>3, <1>4 DEF Touched

\* The migration links every row and moves the head to the last one.
LEMMA RetagsLinks ==
    ASSUME TableInv, Retags
    PROVE  AllLinked' /\ HeadIsLast'
  <1> DEFINE n == Len(spendRows)
  <1>1. /\ n \in Nat /\ Len(spendRows') = n /\ spendHead' = Narrow[n]
        /\ \A i \in 1..n : /\ spendRows'[i].hash = Narrow[i]
                           /\ SpendPayload(spendRows'[i]) = SpendPayload(spendRows[i])
    BY RowsNumbered DEF TableInv, Retags, SpendPayload
  <1>2. Narrow[0] = Genesis /\ \A i \in 1..n : Narrow[i] = RowHash(Narrow[i - 1], SpendPayload(spendRows[i]))
    BY NarrowValues
  <1> HIDE DEF n
  <1>3. ASSUME NEW i \in 1..(n + 1) PROVE Before(spendRows', i) = Narrow[i - 1]
    <2>1. CASE i = 1
      BY <1>2, <2>1 DEF Before
    <2>2. CASE i # 1
      <3>1. i - 1 \in 1..n
        BY <1>1, <2>2
      <3> QED
        BY <1>1, <2>2, <3>1 DEF Before
    <2> QED
      BY <2>1, <2>2
  <1>4. HeadIsLast'
    <2>1. n + 1 \in 1..(n + 1) /\ (n + 1) - 1 = n
      BY <1>1
    <2> QED
      BY <1>1, <1>3, <2>1 DEF HeadIsLast
  <1>5. ASSUME NEW i \in 1..n
        PROVE  spendRows'[i].hash = RowHash(Before(spendRows', i), SpendPayload(spendRows'[i]))
    <2>1. i \in 1..(n + 1)
      BY <1>1
    <2> QED
      BY <1>1, <1>2, <1>3, <2>1
  <1> QED
    BY <1>1, <1>4, <1>5 DEF AllLinked

\* The head of the spend chain is the tag of the last row unless a row was removed,
\* and books that began under the narrow rule and that nobody touched are linked.
LawfulInv ==
    /\ removals = 0 => HeadIsLast
    /\ (born = "narrow" /\ edits = 0 /\ removals = 0) => AllLinked

\* Every step keeps lawful books linked.
LEMMA LawfulStep ==
    ASSUME TableInv, LawfulInv, [RNext]_rvars
    PROVE  LawfulInv'
  <1>1. /\ TableInv' /\ born' = born
        /\ \/ Kept \/ Added \/ Dropped \/ Applied
           \/ \E i \in 1..Len(spendRows) : Touched(i)
    BY TableStep
  <1>2. CASE Kept
    BY <1>1, <1>2 DEF Kept, LawfulInv, HeadIsLast, AllLinked, Before
  <1>3. CASE Added
    <2>1. edits' = edits /\ removals' = removals
      BY <1>3 DEF Added
    <2>2. born = "narrow" => rule = "narrow"
      BY DEF TableInv
    <2> QED
      BY <1>1, <1>3, <2>1, <2>2, AddedFollows DEF LawfulInv
  <1>4. CASE Dropped
    <2>1. removals' # 0
      BY <1>4 DEF Dropped, TableInv
    <2> QED
      BY <2>1 DEF LawfulInv
  <1>5. CASE Applied
    BY <1>5, RetagsLinks DEF LawfulInv, Applied
  <1>6. ASSUME NEW i \in 1..Len(spendRows), Touched(i) PROVE LawfulInv'
    <2>1. /\ Len(spendRows) \in Nat /\ Len(spendRows') = Len(spendRows)
          /\ \A j \in 1..Len(spendRows) : spendRows'[j].hash = spendRows[j].hash
          /\ \A j \in 1..(Len(spendRows) + 1) : Before(spendRows', j) = Before(spendRows, j)
          /\ edits' = edits => \A j \in 1..Len(spendRows) : SpendPayload(spendRows'[j]) = SpendPayload(spendRows[j])
      BY <1>6, TouchedKeepsTags
    <2>2. spendHead' = spendHead /\ removals' = removals
      BY <1>6 DEF Touched
    <2>3. HeadIsLast => HeadIsLast'
      <3>1. Len(spendRows) + 1 \in 1..(Len(spendRows) + 1)
        BY <2>1
      <3> QED
        BY <2>1, <2>2, <3>1 DEF HeadIsLast
    <2>4. AllLinked /\ edits' = edits => AllLinked'
      <3> SUFFICES ASSUME AllLinked, edits' = edits, NEW j \in 1..Len(spendRows)
                   PROVE  spendRows'[j].hash = RowHash(Before(spendRows', j), SpendPayload(spendRows'[j]))
        BY <2>1 DEF AllLinked
      <3>1. j \in 1..(Len(spendRows) + 1)
        BY <2>1
      <3> QED
        BY <2>1, <3>1 DEF AllLinked
    <2>5. edits' = 0 => edits' = edits
      BY <1>6 DEF Touched, TableInv
    <2> QED
      BY <1>1, <2>2, <2>3, <2>4, <2>5 DEF LawfulInv
  <1> QED
    BY <1>1, <1>2, <1>3, <1>4, <1>5, <1>6

\* Lawful books are linked in every reachable state.
LEMMA LawfulInvHolds == RSpec => []LawfulInv
  <1>1. RInit => LawfulInv
    <2> SUFFICES ASSUME RInit PROVE LawfulInv
      OBVIOUS
    <2>1. Len(spendRows) = 0 /\ spendHead = Genesis
      BY DEF RInit, Init
    <2> QED
      BY <2>1 DEF LawfulInv, HeadIsLast, AllLinked, Before
  <1>2. TableInv /\ LawfulInv /\ [RNext]_rvars => LawfulInv'
    BY LawfulStep
  <1> QED
    BY <1>1, <1>2, TableInvHolds, PTL DEF RSpec

\* Reservations, revivals, audit rows, crashes, boots and the migration leave the
\* spend chain of books that began under the narrow rule one that verify_chains
\* accepts.
THEOREM LawfulBooksVerify == RSpec => []LawfulSpendVerifies
  <1>1. TableInv /\ LawfulInv => LawfulSpendVerifies
    BY SpendLinked DEF LawfulInv, LawfulSpendVerifies
  <1> QED
    BY <1>1, TableInvHolds, LawfulInvHolds, PTL

\* Whatever rows it found, of either rule, edited or not, the books the
\* migration has written are books that verify_chains accepts.
THEOREM MigratedBooksVerify == RSpec => AppliedVerifies
  <1>1. TableInv /\ TableInv' /\ [RNext]_rvars => [MigrateApplies => SpendIntact']_rvars
    <2> SUFFICES ASSUME TableInv, TableInv', MigrateApplies PROVE SpendIntact'
      OBVIOUS
    <2>1. Retags
      BY MigrationRetags
    <2>2. AllLinked'
      BY <2>1, RetagsLinks
    <2>3. (TableInv => (SpendIntact <=> AllLinked))'
      BY SpendLinked, PTL
    <2> QED
      BY <2>2, <2>3
  <1> QED
    BY <1>1, TableInvHolds, PTL DEF RSpec, AppliedVerifies

\* Nobody touched the books and no row was revived.
Clean == edits = 0 /\ removals = 0 /\ \A i \in 1..Len(spendRows) : spendRows[i].attempt = 1

\* Books that are clean hold authentic rows only, were never refused, and are linked
\* while the narrow rule serves on them.
CauseInv ==
    Clean => /\ last # "refused"
             /\ \A i \in 1..Len(spendRows) : Authentic(i)
             /\ rule = "narrow" /\ ready => AllLinked

\* Every step keeps clean books authentic and unrefused.
LEMMA CauseStep ==
    ASSUME TableInv, LawfulInv, CauseInv, [RNext]_rvars
    PROVE  CauseInv'
  <1> SUFFICES ASSUME Clean'
               PROVE  /\ last' # "refused"
                      /\ \A i \in 1..Len(spendRows') : Authentic(i)'
                      /\ rule' = "narrow" /\ ready' => AllLinked'
    BY DEF CauseInv
  <1>1. /\ TableInv'
        /\ \/ Kept \/ Added \/ Dropped \/ Applied
           \/ \E i \in 1..Len(spendRows) : Touched(i)
    BY TableStep
  <1>2. Len(spendRows) \in Nat /\ Len(spendRows') \in Nat
    BY <1>1, RowsNumbered DEF TableInv
  <1>3. CASE Kept
    <2>1. Clean /\ spendRows' = spendRows
      BY <1>3 DEF Clean, Kept
    <2>2. /\ last # "refused"
          /\ \A i \in 1..Len(spendRows) : Authentic(i)
          /\ rule = "narrow" /\ (ready \/ SpendIntact) => AllLinked
      BY <2>1, SpendLinked DEF CauseInv
    <2>3. \A i \in 1..Len(spendRows') : Authentic(i)'
      BY <2>1, <2>2 DEF Authentic, AlreadyNarrow, Wide, Narrow, SpendPayloads
    <2>4. last' # "refused"
      BY <1>3, <2>2 DEF Kept
    <2>5. AllLinked => AllLinked'
      BY <2>1 DEF AllLinked, Before
    <2> QED
      BY <1>3, <2>2, <2>3, <2>4, <2>5 DEF Kept
  <1>4. CASE Added
    <2>0. PICK n \in Nat : n = Len(spendRows)
      BY <1>2
    <2>1. /\ Len(spendRows') = n + 1 /\ \A i \in 1..n : spendRows'[i] = spendRows[i]
          /\ edits' = edits /\ removals' = removals /\ last' = last /\ rule' = rule /\ ready
      BY <1>4, <2>0 DEF Added
    <2>2. Clean
      BY <2>0, <2>1 DEF Clean
    <2>3. last' # "refused"
      BY <2>1, <2>2 DEF CauseInv
    <2>4. HeadIsLast
      BY <2>2 DEF Clean, LawfulInv
    <2>5. rule = "narrow" => AllLinked /\ AllLinked'
      BY <1>4, <2>1, <2>2, <2>4, AddedFollows DEF CauseInv
    <2>6. \A i \in 0..n : Narrow[i] = Narrow'[i]
      <3>1. n <= Len(spendRows') /\ \A i \in 1..n : SpendPayload(spendRows'[i]) = SpendPayload(spendRows[i])
        BY <2>1
      <3> QED
        BY <1>1, <2>0, <3>1, NarrowSame
    <2>7. ASSUME NEW i \in 1..n PROVE Authentic(i)'
      <3>1. Authentic(i) /\ spendRows'[i] = spendRows[i] /\ Narrow[i] = Narrow'[i]
        BY <2>0, <2>1, <2>2, <2>6 DEF CauseInv
      <3> QED
        BY <3>1 DEF Authentic, AlreadyNarrow, Wide
    <2>8. Authentic(n + 1)'
      <3> DEFINE row == spendRows'[n + 1]
      <3>1. CASE rule = "narrow"
        <4>1. \A i \in 1..Len(spendRows') : AlreadyNarrow(i)'
          <5>1. (TableInv => /\ SpendIntact <=> AllLinked
                             /\ SpendIntact <=> \A i \in 1..Len(spendRows) : AlreadyNarrow(i))'
            BY SpendLinked, PTL
          <5> QED
            BY <1>1, <2>5, <3>1, <5>1
        <4>2. n + 1 \in 1..Len(spendRows')
          BY <2>1
        <4> QED
          BY <4>1, <4>2 DEF Authentic
      <3>2. CASE rule = "wide"
        <4>1. row.hash = RowHash(row.prev, wide_payload(row))
          BY <1>4, <2>0, <3>2 DEF Added
        <4> QED
          BY <4>1 DEF Authentic, Wide
      <3> QED
        BY <3>1, <3>2 DEF TableInv
    <2>9. ASSUME NEW i \in 1..Len(spendRows') PROVE Authentic(i)'
      <3>1. i \in 1..n \/ i = n + 1
        BY <2>1
      <3> QED
        BY <2>7, <2>8, <3>1
    <2> QED
      BY <2>1, <2>3, <2>5, <2>9
  <1>5. CASE Dropped
    <2>1. removals' # 0
      BY <1>5 DEF Dropped, TableInv
    <2> QED
      BY <2>1 DEF Clean
  <1>6. CASE Applied
    <2>1. Retags /\ ~up /\ ready' = ready /\ last' = "applied"
      BY <1>6 DEF Applied
    <2>2. ~ready'
      BY <2>1 DEF TableInv
    <2>3. AllLinked'
      BY <2>1, RetagsLinks
    <2>4. \A i \in 1..Len(spendRows') : AlreadyNarrow(i)'
      <3>1. (TableInv => /\ SpendIntact <=> AllLinked
                         /\ SpendIntact <=> \A i \in 1..Len(spendRows) : AlreadyNarrow(i))'
        BY SpendLinked, PTL
      <3> QED
        BY <1>1, <2>3, <3>1
    <2> QED
      BY <2>1, <2>2, <2>4 DEF Authentic
  <1>7. ASSUME NEW i \in 1..Len(spendRows), Touched(i) PROVE FALSE
    <2>1. edits' # 0 \/ spendRows'[i].attempt = 2
      BY <1>7 DEF Touched, TableInv
    <2>2. i \in 1..Len(spendRows')
      BY <1>7 DEF Touched
    <2> QED
      BY <2>1, <2>2 DEF Clean
  <1> QED
    BY <1>1, <1>3, <1>4, <1>5, <1>6, <1>7

\* Clean books are authentic and were never refused.
LEMMA CauseInvHolds == RSpec => []CauseInv
  <1>1. RInit => CauseInv
    <2> SUFFICES ASSUME RInit PROVE CauseInv
      OBVIOUS
    <2>1. Len(spendRows) = 0 /\ last = "none"
      BY DEF RInit, Init
    <2> QED
      BY <2>1 DEF CauseInv, AllLinked
  <1>2. TableInv /\ LawfulInv /\ CauseInv /\ [RNext]_rvars => CauseInv'
    BY CauseStep
  <1> QED
    BY <1>1, <1>2, TableInvHolds, LawfulInvHolds, PTL DEF RSpec

\* The migration refuses books only if somebody edited them or removed a row, or if
\* a row was revived: books written by either version of the code, or first by the
\* old one and then by the new one, are never turned away.
THEOREM RefusalHasCause == RSpec => []RefusedOnlyWithCause
  <1>1. TableInv /\ CauseInv => RefusedOnlyWithCause
    <2> SUFFICES ASSUME TableInv, CauseInv, last = "refused"
                 PROVE  \/ edits > 0 \/ removals > 0
                        \/ \E i \in DOMAIN spendRows : spendRows[i].attempt = 2
      BY DEF RefusedOnlyWithCause
    <2>1. ~Clean
      BY DEF CauseInv
    <2>2. DOMAIN spendRows = 1..Len(spendRows)
      BY RowsNumbered DEF TableInv
    <2> QED
      BY <2>1, <2>2 DEF Clean, TableInv
  <1> QED
    BY <1>1, TableInvHolds, CauseInvHolds, PTL

\* The hashes of everything that was ever reserved, in order, as the narrow rule
\* would have them.
Reserved == Walk(written, Len(written))

\* the wide payload of what was written
WideOf(w) == <<w[1], w[2], 1, "reserved">>

\* While no row was removed, every tag covers what the reservation of its row wrote,
\* under one rule or the other.  In books that began under the narrow rule every tag
\* is one of the chain of everything that was ever reserved, and the head is its end.
TagInv ==
    /\ \A i \in 1..Len(written) : written[i] = <<written[i][1], written[i][2]>>
    /\ removals = 0 =>
          /\ Len(spendRows) = Len(written)
          /\ \A i \in 1..Len(spendRows) : spendRows[i].hash[2] \in {written[i], WideOf(written[i])}
    /\ born = "narrow" =>
          /\ spendHead = Reserved[Len(written)]
          /\ \A i \in 1..Len(spendRows) : \E k \in 1..Len(written) : spendRows[i].hash = Reserved[k]

\* a pair is never a wide payload, and a wide payload says what it covers
LEMMA PairsAreNotWide ==
    ASSUME NEW w, w = <<w[1], w[2]>>, NEW row
    PROVE  /\ w # wide_payload(row)
           /\ SpendPayload(row) # WideOf(w)
           /\ wide_payload(row) = WideOf(w) => SpendPayload(row) = w
  <1>1. w # wide_payload(row)
    BY DEF wide_payload
  <1>2. SpendPayload(row) # WideOf(w)
    BY DEF SpendPayload, WideOf
  <1>3. wide_payload(row) = WideOf(w) => row.receipt = w[1] /\ row.amount = w[2]
    BY DEF wide_payload, WideOf
  <1> QED
    BY <1>1, <1>2, <1>3 DEF SpendPayload

\* the second half of a hash is the payload it covers
LEMMA HashCovers ==
    ASSUME NEW prev, NEW payload, NEW hash, hash = RowHash(prev, payload)
    PROVE  hash[2] = payload
  BY DEF RowHash

\* The chain of everything reserved, link by link.
LEMMA ReservedValues ==
    ASSUME TableInv
    PROVE  /\ Len(written) \in Nat
           /\ \A k \in 1..Len(written) : Reserved[k] = RowHash(Reserved[k - 1], written[k])
  <1>1. Len(written) \in Nat
    BY RowsNumbered DEF TableInv
  <1> QED
    BY <1>1, WalkValues DEF Reserved

\* what was reserved before is hashed as before
LEMMA ReservedGrows ==
    ASSUME NEW m \in Nat, m = Len(written), Len(written') = m + 1,
           \A i \in 1..m : written'[i] = written[i]
    PROVE  /\ \A k \in 0..m : Reserved'[k] = Reserved[k]
           /\ Reserved'[m + 1] = RowHash(Reserved[m], written'[m + 1])
  <1>1. PICK p : p = written
    OBVIOUS
  <1>2. PICK q : q = written'
    OBVIOUS
  <1>3. m + 1 \in Nat /\ m <= m + 1 /\ \A i \in 1..m : p[i] = q[i]
    BY <1>1, <1>2
  <1>4. \A k \in 0..m : Walk(p, m)[k] = Walk(q, m + 1)[k]
    BY <1>3, WalkAgrees
  <1>5. Walk(q, m + 1)[m + 1] = RowHash(Walk(q, m + 1)[m], q[m + 1])
    <2>1. m + 1 \in 1..(m + 1) /\ (m + 1) - 1 = m
      OBVIOUS
    <2> QED
      BY <1>3, <2>1, WalkValues
  <1>6. Reserved = Walk(p, m) /\ Reserved' = Walk(q, m + 1)
    BY <1>1, <1>2 DEF Reserved
  <1>7. m \in 0..m
    OBVIOUS
  <1> QED
    BY <1>2, <1>4, <1>5, <1>6, <1>7

\* A reservation tags its row with what it writes.
LEMMA TagAdded ==
    ASSUME TableInv, TableInv', TagInv, Added, born' = born
    PROVE  TagInv'
  <1>1. PICK n \in Nat : n = Len(spendRows)
    BY RowsNumbered DEF TableInv
  <1>2. PICK m \in Nat : m = Len(written)
    BY RowsNumbered DEF TableInv
  <1>3. PICK row : row = spendRows'[n + 1]
    OBVIOUS
  <1>4. /\ removals' = removals
        /\ Len(spendRows') = n + 1 /\ \A i \in 1..n : spendRows'[i] = spendRows[i]
        /\ Len(written') = m + 1 /\ \A i \in 1..m : written'[i] = written[i]
        /\ written'[m + 1] = <<row.receipt, row.amount>>
        /\ row.attempt = 1 /\ row.hash = spendHead'
        /\ \/ rule = "narrow" /\ row.hash = RowHash(spendHead, SpendPayload(row))
           \/ rule = "wide" /\ row.hash = RowHash(spendHead, wide_payload(row))
    BY <1>1, <1>2, <1>3 DEF Added
  <1>5. \A i \in 1..Len(written') : written'[i] = <<written'[i][1], written'[i][2]>>
    <2> TAKE i \in 1..Len(written')
    <2>1. CASE i = m + 1
      BY <1>4, <2>1
    <2>2. CASE i # m + 1
      <3>1. i \in 1..m
        BY <1>4, <2>2
      <3>2. written[i] = <<written[i][1], written[i][2]>> /\ written'[i] = written[i]
        BY <1>2, <1>4, <3>1 DEF TagInv
      <3> QED
        BY <3>2
    <2> QED
      BY <2>1, <2>2
  <1>6. ASSUME removals = 0
        PROVE  /\ Len(spendRows') = Len(written')
               /\ \A i \in 1..Len(spendRows') : spendRows'[i].hash[2] \in {written'[i], WideOf(written'[i])}
    <2>1. n = m /\ \A i \in 1..n : spendRows[i].hash[2] \in {written[i], WideOf(written[i])}
      BY <1>1, <1>2, <1>6 DEF TagInv
    <2>2. row.hash[2] \in {SpendPayload(row), wide_payload(row)}
      BY <1>4, HashCovers
    <2>3. SpendPayload(row) = written'[m + 1] /\ wide_payload(row) = WideOf(written'[m + 1])
      BY <1>4 DEF SpendPayload, wide_payload, WideOf
    <2>4. ASSUME NEW i \in 1..(n + 1) PROVE spendRows'[i].hash[2] \in {written'[i], WideOf(written'[i])}
      <3>1. CASE i = n + 1
        BY <1>3, <2>1, <2>2, <2>3, <3>1
      <3>2. CASE i # n + 1
        <4>1. i \in 1..n /\ i \in 1..m
          BY <2>1, <3>2
        <4>2. spendRows'[i] = spendRows[i] /\ written'[i] = written[i]
          BY <1>4, <4>1
        <4> QED
          BY <2>1, <4>1, <4>2
      <3> QED
        BY <3>1, <3>2
    <2> QED
      BY <1>4, <2>1, <2>4
  <1>7. ASSUME born = "narrow"
        PROVE  /\ spendHead' = Reserved'[Len(written')]
               /\ \A i \in 1..Len(spendRows') : \E k \in 1..Len(written') : spendRows'[i].hash = Reserved'[k]
    <2>1. rule = "narrow"
      BY <1>7 DEF TableInv
    <2>2. row.hash = RowHash(spendHead, <<row.receipt, row.amount>>)
      BY <1>4, <2>1 DEF SpendPayload
    <2>3. /\ spendHead = Reserved[m]
          /\ \A i \in 1..n : \E k \in 1..m : spendRows[i].hash = Reserved[k]
      BY <1>1, <1>2, <1>7 DEF TagInv
    <2>4. /\ \A k \in 0..m : Reserved'[k] = Reserved[k]
          /\ Reserved'[m + 1] = RowHash(Reserved[m], written'[m + 1])
      BY <1>2, <1>4, ReservedGrows
    <2>5. row.hash = Reserved'[m + 1]
      BY <1>4, <2>2, <2>3, <2>4
    <2>6. ASSUME NEW i \in 1..(n + 1) PROVE \E k \in 1..(m + 1) : spendRows'[i].hash = Reserved'[k]
      <3>1. CASE i = n + 1
        <4>1. m + 1 \in 1..(m + 1)
          OBVIOUS
        <4> QED
          BY <1>3, <2>5, <3>1, <4>1
      <3>2. CASE i # n + 1
        <4>1. i \in 1..n
          BY <3>2
        <4>2. PICK k \in 1..m : spendRows[i].hash = Reserved[k]
          BY <2>3, <4>1
        <4>3. k \in 1..(m + 1) /\ k \in 0..m
          OBVIOUS
        <4>4. spendRows'[i].hash = Reserved'[k]
          BY <1>4, <2>4, <4>1, <4>2, <4>3
        <4> QED
          BY <4>3, <4>4
      <3> QED
        BY <3>1, <3>2
    <2> QED
      BY <1>4, <2>5, <2>6
  <1> QED
    BY <1>4, <1>5, <1>6, <1>7 DEF TagInv

\* The migration tags a row with what was written: what it accepted covered that.
LEMMA TagRetagged ==
    ASSUME TableInv, TagInv, Applied, born' = born
    PROVE  TagInv'
  <1>1. PICK n \in Nat : n = Len(spendRows)
    BY RowsNumbered DEF TableInv
  <1>2. /\ written' = written /\ removals' = removals /\ Len(spendRows') = n
        /\ \A i \in 1..n : spendRows'[i].hash = Narrow[i] /\ Authentic(i)
        /\ \E i \in 1..n : ~AlreadyNarrow(i)
    BY <1>1 DEF Applied, Retags
  <1>3. \A i \in 1..n : Narrow[i] = RowHash(Narrow[i - 1], SpendPayload(spendRows[i]))
    BY <1>1, NarrowValues
  <1>4. ASSUME removals = 0, NEW i \in 1..n
        PROVE  spendRows'[i].hash[2] = written[i]
    <2>1. /\ n = Len(written)
          /\ spendRows[i].hash[2] \in {written[i], WideOf(written[i])}
          /\ written[i] = <<written[i][1], written[i][2]>>
      BY <1>1, <1>4 DEF TagInv
    <2>2. PICK w : w = written[i]
      OBVIOUS
    <2>3. PICK row : row = spendRows[i]
      OBVIOUS
    <2>4. /\ w # wide_payload(row) /\ SpendPayload(row) # WideOf(w)
          /\ wide_payload(row) = WideOf(w) => SpendPayload(row) = w
      BY <2>1, <2>2, PairsAreNotWide
    <2>5. row.hash[2] \in {SpendPayload(row), wide_payload(row)}
      <3>1. row.hash = RowHash(Narrow[i - 1], SpendPayload(row)) \/ row.hash = RowHash(row.prev, wide_payload(row))
        BY <1>2, <1>3, <2>3 DEF Authentic, AlreadyNarrow, Wide
      <3> QED
        BY <3>1, HashCovers
    <2>6. SpendPayload(row) = w
      BY <2>1, <2>2, <2>3, <2>4, <2>5
    <2>7. spendRows'[i].hash = RowHash(Narrow[i - 1], SpendPayload(row))
      BY <1>2, <1>3, <2>3
    <2>8. spendRows'[i].hash[2] = SpendPayload(row)
      BY <2>7, HashCovers
    <2> QED
      BY <2>2, <2>6, <2>8
  <1>5. born # "narrow"
    <2> SUFFICES ASSUME born = "narrow" PROVE FALSE
      OBVIOUS
    <2>1. PICK i \in 1..n : ~AlreadyNarrow(i)
      BY <1>2
    <2>2. spendRows[i].hash = RowHash(spendRows[i].prev, wide_payload(spendRows[i]))
      BY <1>2, <2>1 DEF Authentic, Wide
    <2>3. PICK k \in 1..Len(written) : spendRows[i].hash = Reserved[k]
      BY <1>1 DEF TagInv
    <2>4. Reserved[k] = RowHash(Reserved[k - 1], written[k])
      BY ReservedValues
    <2>5. written[k] = wide_payload(spendRows[i])
      BY <2>2, <2>3, <2>4 DEF RowHash
    <2>6. written[k] = <<written[k][1], written[k][2]>>
      BY DEF TagInv
    <2> QED
      BY <2>5, <2>6, PairsAreNotWide
  <1> QED
    BY <1>1, <1>2, <1>4, <1>5 DEF TagInv

\* Every step keeps the tags those of what was reserved.
LEMMA TagStep ==
    ASSUME TableInv, TagInv, [RNext]_rvars
    PROVE  TagInv'
  <1>1. /\ TableInv' /\ born' = born
        /\ \/ Kept \/ Added \/ Dropped \/ Applied
           \/ \E i \in 1..Len(spendRows) : Touched(i)
    BY TableStep
  <1>2. CASE Kept
    BY <1>1, <1>2 DEF Kept, TagInv, Reserved
  <1>3. CASE Added
    BY <1>1, <1>3, TagAdded
  <1>4. CASE Dropped
    <2>1. removals' # 0 /\ written' = written /\ spendHead' = spendHead
      BY <1>4 DEF Dropped, TableInv
    <2>2. Reserved' = Reserved
      BY <2>1 DEF Reserved
    <2>3. ASSUME born = "narrow", NEW j \in 1..Len(spendRows')
          PROVE  \E k \in 1..Len(written) : spendRows'[j].hash = Reserved[k]
      <3>1. PICK i \in 1..Len(spendRows) : spendRows'[j] = spendRows[i]
        BY <1>4 DEF Dropped
      <3> QED
        BY <2>3, <3>1 DEF TagInv
    <2> QED
      BY <1>1, <2>1, <2>2, <2>3 DEF TagInv
  <1>5. CASE Applied
    BY <1>1, <1>5, TagRetagged
  <1>6. ASSUME NEW i \in 1..Len(spendRows), Touched(i) PROVE TagInv'
    <2>1. /\ Len(spendRows') = Len(spendRows)
          /\ \A j \in 1..Len(spendRows) : spendRows'[j].hash = spendRows[j].hash
      BY <1>6, TouchedKeepsTags
    <2>2. removals' = removals /\ written' = written /\ spendHead' = spendHead
      BY <1>6 DEF Touched
    <2>3. Reserved' = Reserved
      BY <2>2 DEF Reserved
    <2> QED
      BY <1>1, <2>1, <2>2, <2>3 DEF TagInv
  <1> QED
    BY <1>1, <1>2, <1>3, <1>4, <1>5, <1>6

\* The tags are those of what was reserved, in every reachable state.
LEMMA TagInvHolds == RSpec => []TagInv
  <1>1. RInit => TagInv
    <2> SUFFICES ASSUME RInit PROVE TagInv
      OBVIOUS
    <2>1. Len(spendRows) = 0 /\ Len(written) = 0 /\ spendHead = Genesis
      BY DEF RInit, Init
    <2>2. Reserved[0] = Genesis
      BY <2>1, WalkValues DEF Reserved
    <2> QED
      BY <2>1, <2>2 DEF TagInv
  <1>2. TableInv /\ TagInv /\ [RNext]_rvars => TagInv'
    BY TagStep
  <1> QED
    BY <1>1, <1>2, TableInvHolds, PTL DEF RSpec

\* Books that verify_chains of the new code accepts are an initial piece of what was
\* reserved, whatever was edited, removed, revived, migrated or appended meanwhile:
\* neither a boot nor the migration launders a row nobody reserved.  Removals from
\* books that began under the wide rule are the exception.
THEOREM NothingLaundered == RSpec => []NothingIsPaperedOver
  <1>1. TableInv /\ TagInv => NothingIsPaperedOver
    <2> SUFFICES ASSUME TableInv, TagInv, rule = "narrow", SpendIntact, born = "wide" => removals = 0
                 PROVE  IsPrefix(OnFile, written)
      BY DEF NothingIsPaperedOver
    <2>1. PICK n \in Nat : n = Len(spendRows) /\ DOMAIN spendRows = 1..n
      BY RowsNumbered DEF TableInv
    <2>2. PICK m \in Nat : m = Len(written) /\ DOMAIN written = 1..m
      BY RowsNumbered DEF TableInv
    <2>3. \A i \in 1..n : OnFile[i] = SpendPayload(spendRows[i])
      BY <2>1 DEF OnFile, SpendPayload
    <2>4. \A i \in 1..n : spendRows[i].hash = Narrow[i]
      BY <2>1, SpendLinked DEF AlreadyNarrow
    <2>5. n <= m /\ \A i \in 1..n : OnFile[i] = written[i]
      <3>1. CASE removals = 0
        <4>1. n = m
          BY <2>1, <2>2, <3>1 DEF TagInv
        <4>2. ASSUME NEW i \in 1..n PROVE OnFile[i] = written[i]
          <5>1. spendRows[i].hash[2] \in {written[i], WideOf(written[i])} /\ written[i] = <<written[i][1], written[i][2]>>
            BY <2>1, <2>2, <3>1, <4>1 DEF TagInv
          <5>2. Narrow[i] = RowHash(Narrow[i - 1], SpendPayload(spendRows[i]))
            BY <2>1, NarrowValues
          <5>3. spendRows[i].hash[2] = SpendPayload(spendRows[i])
            BY <2>4, <5>2, HashCovers
          <5>4. SpendPayload(spendRows[i]) # WideOf(written[i])
            BY <5>1, PairsAreNotWide
          <5> QED
            BY <2>3, <5>1, <5>3, <5>4
        <4> QED
          BY <4>1, <4>2
      <3>2. CASE born = "narrow"
        <4>1. PICK p : p = SpendPayloads
          OBVIOUS
        <4>2. PICK q : q = written
          OBVIOUS
        <4>3. Narrow = Walk(p, n) /\ Reserved = Walk(q, m)
          BY <2>1, <2>2, <4>1, <4>2 DEF Narrow, Reserved
        <4>4. ASSUME NEW i \in 1..n PROVE i <= m /\ \A j \in 1..i : p[j] = q[j]
          <5>1. PICK k \in 1..m : spendRows[i].hash = Reserved[k]
            BY <2>1, <2>2, <3>2 DEF TagInv
          <5>2. Walk(p, n)[i] = Walk(q, m)[k] /\ i \in 0..n /\ k \in 0..m
            BY <2>4, <4>3, <5>1
          <5>3. i = k /\ \A j \in 1..i : p[j] = q[j]
            BY <5>2, WalkInjective
          <5> QED
            BY <5>3
        <4>5. \A i \in 1..n : p[i] = SpendPayload(spendRows[i])
          BY <2>1, <4>1 DEF SpendPayloads
        <4>6. n <= m
          BY <4>4
        <4>7. ASSUME NEW i \in 1..n PROVE OnFile[i] = written[i]
          <5>1. i \in 1..i
            OBVIOUS
          <5> QED
            BY <2>3, <4>2, <4>4, <4>5, <5>1
        <4> QED
          BY <4>6, <4>7
      <3> QED
        BY <3>1, <3>2 DEF TableInv
    <2>6. IsRows(OnFile) /\ Len(OnFile) = n
      <3>1. OnFile = [i \in 1..n |-> OnFile[i]]
        BY <2>1 DEF OnFile
      <3> QED
        BY <3>1, MapRows
    <2>7. SubSeq(OnFile, 1, n) = SubSeq(written, 1, n)
      <3>1. PICK S : OnFile \in Seq(S)
        BY <2>6 DEF IsRows
      <3>2. PICK T : written \in Seq(T)
        BY DEF TableInv, IsRows
      <3>3. \A i \in 1..n : i \in 1..m /\ i + 1 - 1 = i
        BY <2>5
      <3> QED
        BY <2>2, <2>5, <2>6, <3>1, <3>2, <3>3
    <2> QED
      BY <2>2, <2>5, <2>6, <2>7 DEF IsPrefix
  <1> QED
    BY <1>1, TableInvHolds, TagInvHolds, PTL

=============================================================================
