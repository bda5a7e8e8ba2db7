----------------------------- MODULE FeeProofs -----------------------------
(***************************************************************************)
(* What the chain may take from the key in a day, for every limit an       *)
(* operator may write, every quote, every base fee and any number of       *)
(* transactions.                                                           *)
(***************************************************************************)
EXTENDS FeeGuard, OrderLemmas

-----------------------------------------------------------------------------
(***************************************************************************)
(* The inductive invariant.                                                *)
(***************************************************************************)

\* a row of the day
Rows == [estimate : Nat, gas : Nat, max_fee : Nat, gas_only : BOOLEAN,
         state : {"live", "mined", "dead"}, charge : Nat, ok : BOOLEAN, spent : Nat]

ExposureOf == [i \in DOMAIN rows |-> Exposure(rows[i])]

ChargeOf == [i \in DOMAIN rows |-> rows[i].charge]

\* The chain charges a row no more than it reserved, the fee on the books is
\* what the chain charged, and none is there before the chain charged any.
RowsInv ==
    \A i \in DOMAIN rows :
        /\ rows[i].charge <= Reserved(rows[i])
        /\ rows[i].spent \in {0, rows[i].charge}
        /\ rows[i].state = "live" => rows[i].spent = 0
        /\ rows[i].charge = 0 => rows[i].state = "live"

\* Limits are in force before the first row, as they were written.
LimitsInv ==
    /\ rows # <<>> => status = "serving"
    /\ status = "serving" =>
           /\ settings.fee_wei_24h = Cap(env.fee_wei_24h)
           /\ settings.fee_wei_24h # Refused
           /\ settings.priority_fee_wei \in Int
    /\ rows # <<>> => settings.priority_fee_wei >= 0

\* The fee window stays within the limit in force.
WindowInv ==
    status = "serving" =>
        \A v : SumOver(v, ExposureOf, Live) => Within(settings.fee_wei_24h, v)

FeeInv ==
    /\ env \in [CapVars \cup {"max_gas_only"} -> Raws]
    /\ rows \in Seq(Rows)
    /\ RowsInv
    /\ LimitsInv
    /\ WindowInv

-----------------------------------------------------------------------------
(***************************************************************************)
(* The two sums.                                                           *)
(***************************************************************************)

\* The rows of a day are finitely many.
LEMMA LiveFinite ==
    ASSUME rows \in Seq(Rows)
    PROVE  IsFiniteSet(Live) /\ Live \subseteq DOMAIN rows
<1>1. DOMAIN rows = 1..Len(rows) /\ Len(rows) \in Nat
  OBVIOUS
<1>2. IsFiniteSet(DOMAIN rows)
  BY <1>1, FS_Interval
<1>3. Live \subseteq DOMAIN rows
  BY DEF Live
<1> QED BY <1>2, <1>3, FS_Subset

\* fee_wei_window adds up the exposures of the rows that were not released.
LEMMA WindowIsSum ==
    ASSUME rows \in Seq(Rows)
    PROVE  SumOver(fee_wei_window, ExposureOf, Live)
<1> DEFINE Unf(h) == [s \in SUBSET Live |-> IF s = {} THEN 0
                                ELSE Exposure(rows[Chosen(s)]) + h[s \ {Chosen(s)}]]
<1>1. IsFiniteSet(Live) /\ Live \subseteq DOMAIN rows
  BY LiveFinite
<1>2. PICK g : g = Unfolded(g, ExposureOf, Live)
  BY <1>1, SumExists
<1>3. \A s \in SUBSET Live : s # {} => ExposureOf[Chosen(s)] = Exposure(rows[Chosen(s)])
  <2>1. ASSUME NEW s \in SUBSET Live, s # {} PROVE Chosen(s) \in DOMAIN rows
    BY <1>1, <2>1, ChosenIn
  <2> QED BY <2>1 DEF ExposureOf
<1>4. g = Unf(g)
  BY <1>2, <1>3 DEF Unfolded
<1>5. PICK h : h = Unf(h) /\ fee_wei_window = h[Live]
  <2>1. fee_wei_window = (CHOOSE h : h = Unf(h))[Live]
    BY Zenon DEF fee_wei_window, MapThenSumSet, MapThenFoldSet, Chosen
  <2>2. PICK h : h = CHOOSE h1 : h1 = Unf(h1)
    OBVIOUS
  <2>3. h = Unf(h)
    BY <1>4, <2>2
  <2> QED BY <2>1, <2>2, <2>3
<1>6. IsSum(h, ExposureOf, Live)
  BY <1>3, <1>5 DEF IsSum
<1> QED BY <1>5, <1>6 DEF SumOver

\* Paid adds up the charges of the same rows.
LEMMA PaidIsSum ==
    ASSUME rows \in Seq(Rows)
    PROVE  SumOver(Paid, ChargeOf, Live)
<1> DEFINE Unf(h) == [s \in SUBSET Live |-> IF s = {} THEN 0
                                ELSE rows[Chosen(s)].charge + h[s \ {Chosen(s)}]]
<1>1. IsFiniteSet(Live) /\ Live \subseteq DOMAIN rows
  BY LiveFinite
<1>2. PICK g : g = Unfolded(g, ChargeOf, Live)
  BY <1>1, SumExists
<1>3. \A s \in SUBSET Live : s # {} => ChargeOf[Chosen(s)] = rows[Chosen(s)].charge
  <2>1. ASSUME NEW s \in SUBSET Live, s # {} PROVE Chosen(s) \in DOMAIN rows
    BY <1>1, <2>1, ChosenIn
  <2> QED BY <2>1 DEF ChargeOf
<1>4. g = Unf(g)
  BY <1>2, <1>3 DEF Unfolded
<1>5. PICK h : h = Unf(h) /\ Paid = h[Live]
  <2>1. Paid = (CHOOSE h : h = Unf(h))[Live]
    BY Zenon DEF Paid, MapThenSumSet, MapThenFoldSet, Chosen
  <2>2. PICK h : h = CHOOSE h1 : h1 = Unf(h1)
    OBVIOUS
  <2>3. h = Unf(h)
    BY <1>4, <2>2
  <2> QED BY <2>1, <2>2, <2>3
<1>6. IsSum(h, ChargeOf, Live)
  BY <1>3, <1>5 DEF IsSum
<1> QED BY <1>5, <1>6 DEF SumOver

\* A product of naturals grows with its factors.
LEMMA ProductGrows ==
    ASSUME NEW a \in Nat, NEW b \in Nat, NEW c \in Nat, NEW d \in Nat, a <= b, c <= d
    PROVE  a * c \in Nat /\ b * d \in Nat /\ a * c <= b * d
<1>1. a * c \in Nat /\ b * d \in Nat /\ b * c \in Nat
  OBVIOUS
<1>2. a * c <= b * c
  OBVIOUS
<1>3. b * c <= b * d
  OBVIOUS
<1> QED BY <1>1, <1>2, <1>3

\* What a row holds of the fee window is a number of wei.
LEMMA ExposureType ==
    ASSUME NEW row \in Rows
    PROVE  Exposure(row) \in Nat /\ Reserved(row) \in Nat
<1>1. row.gas \in Nat /\ row.max_fee \in Nat /\ row.spent \in Nat
  BY DEF Rows
<1>2. row.gas * row.max_fee \in Nat
  BY <1>1, ProductGrows
<1> QED BY <1>1, <1>2 DEF Exposure, Reserved

-----------------------------------------------------------------------------
(***************************************************************************)
(* The steps.                                                              *)
(***************************************************************************)

\* A number no larger than one within a limit is within it.
LEMMA WithinLess ==
    ASSUME NEW limit \in Int, NEW m \in Nat, NEW n \in Nat, n <= m, Within(limit, m)
    PROVE  Within(limit, n)
BY DEF Within

\* What _cap makes of a value: a limit, none, or a refusal.
LEMMA CapType ==
    ASSUME NEW raw \in Raws
    PROVE  /\ Cap(raw) \in Int
           /\ raw.text = "int" /\ Cap(raw) # Refused => Cap(raw) = raw.n /\ raw.n > 0
BY FeeConstants DEF Cap, Refused

\* An exposure is a natural number.
LEMMA ExposuresType ==
    ASSUME rows \in Seq(Rows)
    PROVE  \A i \in DOMAIN rows : ExposureOf[i] \in Nat
<1>1. ASSUME NEW i \in DOMAIN rows PROVE rows[i] \in Rows
  OBVIOUS
<1> QED BY <1>1, ExposureType DEF ExposureOf

\* A step after which no row is exposed more, and no row is new, keeps the
\* window within the limit.
LEMMA WindowKept ==
    ASSUME FeeInv, rows' \in Seq(Rows), status' = status, settings' = settings,
           Live' \subseteq Live,
           \A i \in Live' : ExposureOf'[i] <= ExposureOf[i]
    PROVE  WindowInv'
<1> SUFFICES ASSUME status = "serving", NEW v, SumOver(v, ExposureOf', Live')
             PROVE  Within(settings.fee_wei_24h, v)
  BY DEF WindowInv
<1>1. PICK S : S = Live'
  OBVIOUS
<1>2. PICK T : T = Live
  OBVIOUS
<1>3. PICK f : f = ExposureOf'
  OBVIOUS
<1>4. PICK g : g = ExposureOf
  OBVIOUS
<1>5. PICK u : u = fee_wei_window
  OBVIOUS
<1>6. IsFiniteSet(T) /\ S \subseteq T
  BY <1>1, <1>2, LiveFinite DEF FeeInv
<1>7. \A y \in S : f[y] \in Nat
  <2>1. \A i \in DOMAIN rows' : Exposure(rows'[i]) \in Nat
    BY ExposureType
  <2>2. S \subseteq DOMAIN rows'
    BY <1>1 DEF Live
  <2> QED BY <1>3, <2>1, <2>2 DEF ExposureOf, Exposure, Reserved
<1>8. \A y \in T : g[y] \in Nat
  BY <1>2, <1>4, LiveFinite, ExposuresType DEF FeeInv
<1>9. \A y \in S : f[y] <= g[y]
  BY <1>1, <1>3, <1>4
<1>10. SumOver(v, f, S)
  BY <1>1, <1>3
<1>11. SumOver(u, g, T)
  BY <1>2, <1>4, <1>5, WindowIsSum DEF FeeInv
<1>12. v \in Nat /\ u \in Nat /\ v <= u
  BY <1>6, <1>7, <1>8, <1>9, <1>10, <1>11, SumWithin
<1>13. Within(settings.fee_wei_24h, u)
  BY <1>2, <1>4, <1>11 DEF FeeInv, WindowInv
<1>14. settings.fee_wei_24h \in Int
  <2>1. env.fee_wei_24h \in Raws
    BY DEF FeeInv, CapVars
  <2> QED BY <2>1, CapType DEF FeeInv, LimitsInv
<1> QED BY <1>12, <1>13, <1>14, WithinLess

\* Nothing is exposed before the first row.
LEMMA NoRowsNoWindow ==
    ASSUME rows = <<>>, NEW v, SumOver(v, ExposureOf, Live)
    PROVE  v = 0
<1>1. Live = {}
  BY DEF Live
<1> QED BY <1>1 DEF SumOver, IsSum

\* A day begins with no row and no limit in force.
LEMMA FeeInvInit == Init => FeeInv
<1> SUFFICES ASSUME Init PROVE FeeInv
  OBVIOUS
<1>1. rows \in Seq(Rows) /\ rows = <<>> /\ status = "off"
  BY DEF Init
<1>2. env \in [CapVars \cup {"max_gas_only"} -> Raws]
  BY DEF Init
<1> QED BY <1>1, <1>2 DEF FeeInv, RowsInv, LimitsInv, WindowInv

\* The limits come into force as they were written, or not at all.
LEMMA LoadKeeps == FeeInv /\ Load => FeeInv'
<1> SUFFICES ASSUME FeeInv, Load PROVE FeeInv'
  OBVIOUS
<1>1. status = "off" /\ env' = env /\ rows' = rows /\ rows = <<>>
  BY DEF Load, FeeInv, LimitsInv
<1>2. ASSUME status' = "serving"
      PROVE  /\ settings'.fee_wei_24h = Cap(env.fee_wei_24h)
             /\ settings'.priority_fee_wei = Cap(env.priority_fee_wei)
             /\ Cap(env.fee_wei_24h) # Refused
  <2>1. \A v \in Windows : Cap(env[v]) # Refused
    BY <1>2 DEF Load
  <2>2. settings' = [v \in CapVars \cup {"max_gas_only"} |->
                       IF v \in CapVars THEN Cap(env[v]) ELSE GasOnlyLimit]
    BY <1>2 DEF Load
  <2> QED BY <2>1, <2>2 DEF Windows, CapVars
<1>3. Cap(env.priority_fee_wei) \in Int /\ Cap(env.fee_wei_24h) \in Int
  <2>1. env.priority_fee_wei \in Raws /\ env.fee_wei_24h \in Raws
    BY DEF FeeInv, CapVars
  <2> QED BY <2>1, CapType
<1>4. LimitsInv'
  BY <1>1, <1>2, <1>3 DEF LimitsInv, Cap
<1>5. WindowInv'
  <2> SUFFICES ASSUME status' = "serving", NEW v, SumOver(v, ExposureOf', Live')
               PROVE  Within(settings'.fee_wei_24h, v)
    BY DEF WindowInv
  <2>1. SumOver(v, ExposureOf, Live)
    BY <1>1 DEF ExposureOf, Live, Exposure, Reserved
  <2>2. v = 0
    BY <1>1, <2>1, NoRowsNoWindow
  <2>3. Cap(env.fee_wei_24h) = -1 \/ Cap(env.fee_wei_24h) >= 0
    <3>1. env.fee_wei_24h \in Raws
      BY DEF FeeInv, CapVars
    <3> QED BY <3>1, FeeConstants DEF Cap, Refused
  <2> QED BY <1>2, <2>2, <2>3, <1>3 DEF Within
<1> QED BY <1>1, <1>4, <1>5 DEF FeeInv, RowsInv, Reserved

\* A row that is signed was counted with its whole ceiling.
LEMMA SpendKeeps ==
    ASSUME FeeInv, NEW estimate \in Estimates, NEW base \in BaseFees,
           NEW gas_only \in BOOLEAN, Spend(estimate, base, gas_only)
    PROVE  FeeInv'
<1>1. PICK row : row = Row(estimate, base, gas_only)
  OBVIOUS
<1>2. /\ status = "serving" /\ status' = status /\ settings' = settings /\ env' = env
      /\ rows' = rows \/ /\ rows' = Append(rows, row)
                         /\ Breach(row) = "none" /\ Signable(row)
  <2>1. Breach(row) # "signed"
    BY DEF Breach
  <2> QED BY <1>1, <2>1 DEF Spend
<1>3. CASE rows' = rows
  <2>1. ExposureOf' = ExposureOf /\ Live' = Live
    BY <1>3 DEF ExposureOf, Live, Exposure, Reserved
  <2> QED BY <1>2, <1>3, <2>1 DEF FeeInv, RowsInv, LimitsInv, WindowInv, Reserved, Cap
<1>4. CASE rows' = Append(rows, row) /\ Breach(row) = "none" /\ Signable(row)
  <2>1. settings.priority_fee_wei \in Nat /\ row.max_fee \in Nat
    <3>1. settings.priority_fee_wei \in Int /\ base \in Nat
      BY <1>2, FeeConstants DEF FeeInv, LimitsInv
    <3>2. row.max_fee = 2 * base + settings.priority_fee_wei
      BY <1>1 DEF Row, MaxFee
    <3> QED BY <1>4, <3>1, <3>2 DEF Signable
  <2>2. GasLimit(estimate) \in Nat
    <3>1. estimate \in Nat /\ GasCap \in Nat
      BY FeeConstants
    <3>2. (estimate * 5) \div 4 \in Nat
      BY <3>1
    <3>3. PICK q \in Nat : q = (estimate * 5) \div 4
      BY <3>2
    <3>4. Min({q, GasCap}) \in {q, GasCap}
      BY <3>1, MinIsLeast
    <3> QED BY <3>1, <3>3, <3>4 DEF GasLimit
  <2>3. row \in Rows /\ row.charge = 0 /\ row.spent = 0 /\ row.state = "live"
    BY <1>1, <2>1, <2>2, FeeConstants DEF Row, Rows
  <2>4. PICK n \in Nat : n = Len(rows)
    BY DEF FeeInv
  <2>5. /\ rows' \in Seq(Rows)
        /\ DOMAIN rows' = DOMAIN rows \cup {n + 1} /\ n + 1 \notin DOMAIN rows
        /\ rows'[n + 1] = row
        /\ \A i \in DOMAIN rows : rows'[i] = rows[i]
    BY <1>4, <2>3, <2>4 DEF FeeInv
  <2>6. Reserved(row) \in Nat /\ Exposure(row) = Reserved(row)
    BY <2>3, ExposureType DEF Exposure
  <2>7. RowsInv'
    <3> SUFFICES ASSUME NEW i \in DOMAIN rows'
                 PROVE  /\ rows'[i].charge <= Reserved(rows'[i])
                        /\ rows'[i].spent \in {0, rows'[i].charge}
                        /\ rows'[i].state = "live" => rows'[i].spent = 0
                        /\ rows'[i].charge = 0 => rows'[i].state = "live"
      BY DEF RowsInv, Reserved
    <3>1. CASE i = n + 1
      BY <2>3, <2>5, <2>6, <3>1
    <3>2. CASE i \in DOMAIN rows
      BY <2>5, <3>2 DEF FeeInv, RowsInv
    <3> QED BY <2>5, <3>1, <3>2
  <2>8. LimitsInv'
    BY <1>2, <2>1 DEF FeeInv, LimitsInv, Cap
  <2>9. WindowInv'
    <3> SUFFICES ASSUME NEW v, SumOver(v, ExposureOf', Live')
                 PROVE  Within(settings.fee_wei_24h, v)
      BY <1>2 DEF WindowInv
    <3>1. PICK S : S = Live'
      OBVIOUS
    <3>2. PICK T : T = Live
      OBVIOUS
    <3>3. PICK f : f = ExposureOf'
      OBVIOUS
    <3>4. PICK g : g = ExposureOf
      OBVIOUS
    <3>5. PICK u : u = fee_wei_window
      OBVIOUS
    <3>6. PICK x : x = n + 1
      OBVIOUS
    <3>7. S \subseteq T \cup {x} /\ T \subseteq DOMAIN rows /\ S \subseteq DOMAIN rows'
      BY <2>5, <3>1, <3>2, <3>6 DEF Live
    <3>8. IsFiniteSet(T)
      BY <3>2, LiveFinite DEF FeeInv
    <3>9. f[x] = Reserved(row)
      BY <2>5, <2>6, <3>3, <3>6 DEF ExposureOf, Exposure, Reserved
    <3>10. \A y \in DOMAIN rows : f[y] = g[y]
      BY <2>5, <3>3, <3>4 DEF ExposureOf, Exposure, Reserved
    <3>11. \A y \in T : g[y] \in Nat
      BY <3>4, <3>7, ExposuresType DEF FeeInv
    <3>12. \A y \in S \ {x} : f[y] <= g[y]
      BY <3>7, <3>10, <3>11
    <3>13. f[x] \in Nat
      BY <2>6, <3>9
    <3>14. \A y \in S : f[y] \in Nat
      BY <3>7, <3>10, <3>11, <3>13
    <3>15. SumOver(v, f, S)
      BY <3>1, <3>3
    <3>16. SumOver(u, g, T)
      BY <3>2, <3>4, <3>5, WindowIsSum DEF FeeInv
    <3>17. v \in Nat /\ u \in Nat /\ v <= u + f[x]
      BY <3>7, <3>8, <3>11, <3>12, <3>13, <3>14, <3>15, <3>16, SumWithOneMore
    <3>18. Within(settings.fee_wei_24h, u + f[x])
      BY <1>4, <3>5, <3>9 DEF Breach
    <3>19. settings.fee_wei_24h \in Int
      <4>1. env.fee_wei_24h \in Raws
        BY DEF FeeInv, CapVars
      <4> QED BY <1>2, <4>1, CapType DEF FeeInv, LimitsInv
    <3>20. u + f[x] \in Nat
      BY <3>13, <3>17
    <3> QED BY <3>17, <3>18, <3>19, <3>20, WithinLess
  <2> QED BY <1>2, <2>5, <2>7, <2>8, <2>9 DEF FeeInv
<1> QED BY <1>2, <1>3, <1>4

\* The chain charges for gas up to the signed limit, at a price up to the
\* signed fee: no more than the row reserved.
LEMMA IncludedKeeps ==
    ASSUME FeeInv, NEW i \in DOMAIN rows, NEW base \in BaseFees, NEW gas \in 1..GasCap,
           NEW ok \in BOOLEAN, Included(i, base, gas, ok)
    PROVE  FeeInv'
<1>1. rows[i] \in Rows /\ rows[i].gas \in Nat /\ rows[i].max_fee \in Nat
  <2>1. rows[i] \in Rows
    BY DEF FeeInv
  <2> QED BY <2>1 DEF Rows
<1>2. settings.priority_fee_wei \in Nat /\ base \in Nat /\ gas \in Nat
  BY FeeConstants DEF FeeInv, LimitsInv
<1>3. PICK price : price = Min({rows[i].max_fee, base + settings.priority_fee_wei})
  OBVIOUS
<1>4. price \in Nat /\ price <= rows[i].max_fee
  <2>1. PICK p \in Nat : p = base + settings.priority_fee_wei
    BY <1>2
  <2>2. PICK m \in Nat : m = rows[i].max_fee
    BY <1>1
  <2>3. Min({m, p}) \in {m, p} /\ \A s \in {m, p} : Min({m, p}) <= s
    BY MinIsLeast
  <2> QED BY <1>3, <2>1, <2>2, <2>3
<1>5. PICK charge : charge = gas * price
  OBVIOUS
<1>6. charge \in Nat /\ charge <= Reserved(rows[i])
  <2>1. gas <= rows[i].gas
    BY DEF Included
  <2> QED BY <1>1, <1>2, <1>4, <1>5, <2>1, ProductGrows DEF Reserved
<1>7. /\ rows' = [rows EXCEPT ![i] = [rows[i] EXCEPT !.charge = charge, !.ok = ok]]
      /\ env' = env /\ status' = status /\ settings' = settings
      /\ rows[i].charge = 0
  BY <1>3, <1>5 DEF Included, FeeInv
<1>8. [rows[i] EXCEPT !.charge = charge, !.ok = ok] \in Rows
  BY <1>1, <1>6 DEF Rows
<1>9. /\ rows' \in Seq(Rows) /\ DOMAIN rows' = DOMAIN rows
      /\ rows'[i] = [rows[i] EXCEPT !.charge = charge, !.ok = ok]
      /\ \A j \in DOMAIN rows \ {i} : rows'[j] = rows[j]
  BY <1>7, <1>8 DEF FeeInv
<1>10. /\ rows'[i].gas = rows[i].gas /\ rows'[i].max_fee = rows[i].max_fee
       /\ rows'[i].spent = rows[i].spent /\ rows'[i].state = rows[i].state
       /\ rows'[i].charge = charge
  BY <1>1, <1>9 DEF Rows
<1>11. rows[i].spent = 0 /\ rows[i].state = "live"
  BY <1>7 DEF FeeInv, RowsInv
<1>12. RowsInv'
  <2> SUFFICES ASSUME NEW j \in DOMAIN rows'
               PROVE  /\ rows'[j].charge <= Reserved(rows'[j])
                      /\ rows'[j].spent \in {0, rows'[j].charge}
                      /\ rows'[j].state = "live" => rows'[j].spent = 0
                      /\ rows'[j].charge = 0 => rows'[j].state = "live"
    BY DEF RowsInv, Reserved
  <2>1. CASE j = i
    <3>1. Reserved(rows'[j]) = Reserved(rows[i])
      BY <1>10, <2>1 DEF Reserved
    <3> QED BY <1>6, <1>10, <1>11, <2>1, <3>1
  <2>2. CASE j # i
    BY <1>9, <2>2 DEF FeeInv, RowsInv
  <2> QED BY <2>1, <2>2
<1>13. Live' \subseteq Live
  BY <1>9, <1>10 DEF Live
<1>14. \A j \in DOMAIN rows : Exposure(rows'[j]) = Exposure(rows[j])
  BY <1>9, <1>10 DEF Exposure, Reserved
<1>15. \A j \in Live' : ExposureOf'[j] <= ExposureOf[j]
  <2>1. \A j \in DOMAIN rows : ExposureOf'[j] = ExposureOf[j]
    BY <1>9, <1>14 DEF ExposureOf, Exposure, Reserved
  <2>2. Live' \subseteq DOMAIN rows
    BY <1>9 DEF Live
  <2> QED BY <2>1, <2>2, ExposuresType DEF FeeInv
<1>16. WindowInv'
  BY <1>7, <1>9, <1>13, <1>15, WindowKept
<1>17. LimitsInv'
  BY <1>7, <1>9 DEF FeeInv, LimitsInv, Cap
<1> QED BY <1>7, <1>9, <1>12, <1>16, <1>17 DEF FeeInv

\* Learning the fee lowers the exposure of a row, and a release ends it.
LEMMA ReconciledKeeps ==
    ASSUME FeeInv, NEW i \in DOMAIN rows, NEW feeKnown \in BOOLEAN, Reconciled(i, feeKnown)
    PROVE  FeeInv'
<1>1. rows[i] \in Rows
  BY DEF FeeInv
<1>2. PICK state : state = IF rows[i].ok THEN "mined" ELSE "dead"
  OBVIOUS
<1>3. PICK spent : spent = IF rows[i].ok /\ feeKnown THEN rows[i].charge ELSE 0
  OBVIOUS
<1>4. /\ rows' = [rows EXCEPT ![i] = [rows[i] EXCEPT !.state = state, !.spent = spent]]
      /\ env' = env /\ status' = status /\ settings' = settings
      /\ rows[i].state = "live" /\ rows[i].charge > 0
  BY <1>2, <1>3 DEF Reconciled, FeeInv
<1>5. rows[i].charge \in Nat /\ state \in {"mined", "dead"} /\ spent \in {0, rows[i].charge}
  <2>1. rows[i].charge \in Nat
    BY <1>1 DEF Rows
  <2>2. state \in {"mined", "dead"}
    BY <1>2, Zenon
  <2>3. spent \in {0, rows[i].charge}
    BY <1>3, Zenon
  <2> QED BY <2>1, <2>2, <2>3
<1>6. [rows[i] EXCEPT !.state = state, !.spent = spent] \in Rows
  <2>1. spent \in Nat /\ state \in {"live", "mined", "dead"}
    BY <1>5
  <2> QED BY <1>1, <2>1 DEF Rows
<1>7. /\ rows' \in Seq(Rows) /\ DOMAIN rows' = DOMAIN rows
      /\ rows'[i] = [rows[i] EXCEPT !.state = state, !.spent = spent]
      /\ \A j \in DOMAIN rows \ {i} : rows'[j] = rows[j]
  BY <1>4, <1>6 DEF FeeInv
<1>8. /\ rows'[i].gas = rows[i].gas /\ rows'[i].max_fee = rows[i].max_fee
      /\ rows'[i].spent = spent /\ rows'[i].state = state
      /\ rows'[i].charge = rows[i].charge
  BY <1>1, <1>7 DEF Rows
<1>9. Reserved(rows'[i]) = Reserved(rows[i])
  BY <1>8 DEF Reserved
<1>10. rows[i].charge <= Reserved(rows[i]) /\ rows[i].spent = 0
  BY <1>4 DEF FeeInv, RowsInv
<1>11. RowsInv'
  <2> SUFFICES ASSUME NEW j \in DOMAIN rows'
               PROVE  /\ rows'[j].charge <= Reserved(rows'[j])
                      /\ rows'[j].spent \in {0, rows'[j].charge}
                      /\ rows'[j].state = "live" => rows'[j].spent = 0
                      /\ rows'[j].charge = 0 => rows'[j].state = "live"
    BY DEF RowsInv, Reserved
  <2>1. CASE j = i
    BY <1>4, <1>5, <1>8, <1>9, <1>10, <2>1
  <2>2. CASE j # i
    BY <1>7, <2>2 DEF FeeInv, RowsInv
  <2> QED BY <2>1, <2>2
<1>12. Live' \subseteq Live
  BY <1>4, <1>7 DEF Live
<1>13. Exposure(rows'[i]) <= Exposure(rows[i])
  <2>1. Exposure(rows[i]) = Reserved(rows[i]) /\ Reserved(rows[i]) \in Nat
    BY <1>1, <1>10, ExposureType DEF Exposure
  <2>2. Exposure(rows'[i]) = IF spent > 0 THEN spent ELSE Reserved(rows[i])
    BY <1>8, <1>9 DEF Exposure
  <2> QED BY <1>5, <1>10, <2>1, <2>2
<1>14. \A j \in Live' : ExposureOf'[j] <= ExposureOf[j]
  <2>1. ASSUME NEW j \in DOMAIN rows PROVE Exposure(rows'[j]) <= Exposure(rows[j])
    <3>1. CASE j = i
      BY <1>13, <3>1
    <3>2. CASE j # i
      <4>1. rows'[j] = rows[j] /\ Exposure(rows[j]) \in Nat
        BY <1>7, <3>2, ExposureType DEF FeeInv
      <4> QED BY <4>1
    <3> QED BY <3>1, <3>2
  <2>2. Live' \subseteq DOMAIN rows
    BY <1>7 DEF Live
  <2>3. \A j \in DOMAIN rows : /\ ExposureOf'[j] = Exposure(rows'[j])
                               /\ ExposureOf[j] = Exposure(rows[j])
    BY <1>7 DEF ExposureOf, Exposure, Reserved
  <2> QED BY <2>1, <2>2, <2>3
<1>15. WindowInv'
  BY <1>4, <1>7, <1>12, <1>14, WindowKept
<1>16. LimitsInv'
  BY <1>4, <1>7 DEF FeeInv, LimitsInv, Cap
<1> QED BY <1>4, <1>7, <1>11, <1>15, <1>16 DEF FeeInv

\* Every step of the day preserves the invariant.
LEMMA FeeInvNext == FeeInv /\ [Next]_vars => FeeInv'
<1> SUFFICES ASSUME FeeInv, [Next]_vars PROVE FeeInv'
  OBVIOUS
<1>1. CASE UNCHANGED vars
  <2>1. rows' = rows /\ env' = env /\ status' = status /\ settings' = settings
    BY <1>1 DEF vars
  <2>2. ExposureOf' = ExposureOf /\ Live' = Live
    BY <2>1 DEF ExposureOf, Live, Exposure, Reserved
  <2> QED BY <2>1, <2>2 DEF FeeInv, RowsInv, LimitsInv, WindowInv, Reserved, Cap
<1> QED BY <1>1, LoadKeeps, SpendKeeps, IncludedKeeps, ReconciledKeeps DEF Next

\* The invariant bounds what the chain took by the figure that was written.
LEMMA FeeInvSuffices == FeeInv => PaidWithinFeeCap
<1> SUFFICES ASSUME FeeInv, env.fee_wei_24h.text = "int"
             PROVE  Paid = 0 \/ Paid <= env.fee_wei_24h.n
  BY DEF PaidWithinFeeCap
<1>1. rows \in Seq(Rows)
  BY DEF FeeInv
<1>2. CASE rows = <<>>
  <2>1. Live = {}
    BY <1>2 DEF Live
  <2>2. SumOver(Paid, ChargeOf, {})
    BY <1>1, <2>1, PaidIsSum
  <2> QED BY <2>2 DEF SumOver, IsSum
<1>3. CASE rows # <<>>
  <2>1. /\ settings.fee_wei_24h = Cap(env.fee_wei_24h)
        /\ settings.fee_wei_24h # Refused
        /\ status = "serving"
    BY <1>3 DEF FeeInv, LimitsInv
  <2>2. settings.fee_wei_24h = env.fee_wei_24h.n /\ env.fee_wei_24h.n > 0
    <3>1. env.fee_wei_24h \in Raws
      BY DEF FeeInv, CapVars
    <3> QED BY <2>1, <3>1, CapType
  <2>3. PICK g : g = ExposureOf
    OBVIOUS
  <2>4. PICK f : f = ChargeOf
    OBVIOUS
  <2>5. PICK T : T = Live
    OBVIOUS
  <2>6. PICK u : u = fee_wei_window
    OBVIOUS
  <2>7. PICK v : v = Paid
    OBVIOUS
  <2>8. IsFiniteSet(T) /\ T \subseteq DOMAIN rows /\ T \subseteq T
    BY <1>1, <2>5, LiveFinite
  <2>9. SumOver(v, f, T)
    BY <1>1, <2>4, <2>5, <2>7, PaidIsSum
  <2>10. SumOver(u, g, T)
    BY <1>1, <2>3, <2>5, <2>6, WindowIsSum
  <2>11. ASSUME NEW i \in DOMAIN rows
         PROVE  /\ rows[i].charge \in Nat /\ Exposure(rows[i]) \in Nat
                /\ rows[i].charge <= Exposure(rows[i])
    <3>1. rows[i] \in Rows
      BY <1>1
    <3>2. rows[i].charge \in Nat /\ Exposure(rows[i]) \in Nat
      BY <3>1, ExposureType DEF Rows
    <3>3. rows[i].charge <= Reserved(rows[i]) /\ rows[i].spent \in {0, rows[i].charge}
      BY DEF FeeInv, RowsInv
    <3> QED BY <3>2, <3>3 DEF Exposure
  <2>12. \A y \in T : f[y] \in Nat
    BY <2>4, <2>8, <2>11 DEF ChargeOf
  <2>13. \A y \in T : g[y] \in Nat
    BY <2>3, <2>8, <2>11 DEF ExposureOf
  <2>14. \A y \in T : f[y] <= g[y]
    BY <2>3, <2>4, <2>8, <2>11 DEF ChargeOf, ExposureOf
  <2>15. v \in Nat /\ u \in Nat /\ v <= u
    BY <2>8, <2>9, <2>10, <2>12, <2>13, <2>14, SumWithin
  <2>16. Within(settings.fee_wei_24h, u)
    BY <2>1, <2>3, <2>5, <2>10 DEF FeeInv, WindowInv
  <2>17. u <= env.fee_wei_24h.n
    BY <2>2, <2>16 DEF Within
  <2>18. env.fee_wei_24h.n \in Int
    BY FeeConstants DEF FeeInv, CapVars
  <2> QED BY <2>7, <2>15, <2>17, <2>18
<1> QED BY <1>2, <1>3

\* For the calls that were not released, the chain never takes more gas money
\* from the key in a day than the figure the operator wrote for
\* SIGNER_CAP_FEE_WEI_24H (_cap, the quote in handle, fee_wei_window in reserve).
THEOREM PaidBounded == Spec => []PaidWithinFeeCap
BY FeeInvInit, FeeInvNext, FeeInvSuffices, PTL DEF Spec

============================================================================
