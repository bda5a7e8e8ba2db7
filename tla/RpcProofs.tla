------------------------------ MODULE RpcProofs ------------------------------
(***************************************************************************)
(* Theorems about the RPC pool (module RpcPool): what is answered is true, *)
(* and one endpoint that works is enough, for every number of endpoints    *)
(* and receipts.                                                           *)
(***************************************************************************)
EXTENDS RpcPool, TLAPS

USE DEF Word, Exchange, Ask, Return

-----------------------------------------------------------------------------
(***************************************************************************)
(* Type correctness.                                                       *)
(***************************************************************************)

\* The pool begins in its type.
LEMMA InitTyped == Init => TypeOK
  <1>1. Endpoints \in Nat /\ Endpoints >= 1 /\ MaxSpurious \in Nat
    BY PoolConstants
  <1>2. Init => v1_escrows \in BOOLEAN
    BY Zenon DEF Init
  <1> QED
    BY <1>1, <1>2 DEF Init, TypeOK

\* Every exchange keeps the types.
LEMMA TypeKept == TypeOK /\ [Next]_vars => TypeOK'
  <1> SUFFICES ASSUME TypeOK, [Next]_vars PROVE TypeOK'
    OBVIOUS
  <1>0. Endpoints \in Nat /\ Endpoints >= 1 /\ MaxSpurious \in Nat
    BY PoolConstants
  <1> USE <1>0 DEF TypeOK
  <1>1. ASSUME NEW r \in Receipts \cup Labels, receipt_used(r) PROVE TypeOK'
    BY <1>1 DEF receipt_used
  <1>2. CASE Rotates
    BY <1>2 DEF Rotates
  <1>3. CASE Reverts
    <2>1. v1_escrows' \in BOOLEAN
      BY <1>3, Zenon DEF Reverts
    <2> QED
      BY <1>3, <2>1 DEF Reverts
  <1>4. CASE Answers
    BY <1>4 DEF Answers
  <1>5. ASSUME NEW r \in Receipts, Collected(r) PROVE TypeOK'
    BY <1>5 DEF Collected
  <1>6. CASE Restart
    <2>1. v1_escrows' \in BOOLEAN
      BY <1>6, Zenon DEF Restart
    <2> QED
      BY <1>6, <2>1 DEF Restart
  <1>7. CASE UNCHANGED vars
    BY <1>7 DEF vars
  <1> QED
    BY <1>1, <1>2, <1>3, <1>4, <1>5, <1>6, <1>7 DEF Next, call_method

\* Rotation never leaves the list of endpoints, whatever its length: the index
\* call_method tries is always that of a configured URL.
THEOREM PoolTypeCorrect == Spec => []TypeOK
  BY InitTyped, TypeKept, PTL DEF Spec

-----------------------------------------------------------------------------
(***************************************************************************)
(* One endpoint that works is enough.                                      *)
(***************************************************************************)

OnlyOutages == world.working # {} /\ world.faults = {"failed"}

\* while a call is tried, a working endpoint is still ahead; and nothing but a V1
\* escrow reverts
StillAhead ==
    OnlyOutages =>
        /\ answer # "unavailable"
        /\ call # "none" => \E w \in world.working : url <= w
        /\ call = "SETTLE_WINDOW" => world.version = 1

\* What a world says of its endpoints.
LEMMA WorldTyped ==
    ASSUME TypeOK
    PROVE  /\ world.version \in {1, 2}
           /\ world.working \subseteq 1..Endpoints
           /\ world.faults \subseteq {"failed", "revert", "empty"}
  BY PoolConstants DEF TypeOK

\* an honest answer is a word or a revert, and a revert is a V1 escrow's
LEMMA HonestAnswers ==
    ASSUME TypeOK, call # "none"
    PROVE  /\ Honest \in {"nonzero", "zero", "revert"}
           /\ Honest = "revert" => world.version = 1 /\ call # "usedReceipts"
           /\ world.version = 1 /\ call # "usedReceipts" => Honest = "revert"
           /\ world.version = 2 /\ call = "isReceiptUsed" => Honest = Word(asked \in used)
           /\ call = "usedReceipts" => Honest = Word(world.version = 1 /\ asked \in used)
  BY WorldTyped DEF Honest, TypeOK

\* Every exchange leaves a working endpoint ahead, or has asked one.
LEMMA AheadKept == TypeOK /\ StillAhead /\ [Next]_vars => StillAhead'
  <1> SUFFICES ASSUME TypeOK, StillAhead, [Next]_vars, OnlyOutages' PROVE StillAhead'
    BY DEF StillAhead
  <1>0. world' = world /\ OnlyOutages
    BY DEF Next, call_method, receipt_used, Rotates, Reverts, Answers, Collected, Restart, vars, OnlyOutages
  <1>1. PICK w \in world.working : w \in 1..Endpoints
    BY <1>0, WorldTyped DEF OnlyOutages
  <1>2. \A said \in Says : said = Honest \/ (said = "failed" /\ url \notin world.working)
    BY <1>0 DEF Says, OnlyOutages
  <1> USE <1>0 DEF StillAhead
  <1>3. ASSUME NEW r \in Receipts \cup Labels, receipt_used(r) PROVE StillAhead'
    BY <1>1, <1>3 DEF receipt_used
  <1>4. CASE Rotates
    <2>1. url \notin world.working
      BY <1>2, <1>4, HonestAnswers DEF Rotates
    <2>2. PICK u \in world.working : url <= u
      BY <1>4 DEF Rotates
    <2>3. u \in 1..Endpoints /\ url \in 1..Endpoints /\ u # url /\ Endpoints \in Nat
      BY <2>1, WorldTyped, PoolConstants DEF TypeOK
    <2>4. url < Endpoints /\ url + 1 <= u
      BY <2>2, <2>3
    <2> QED
      BY <1>4, <2>4 DEF Rotates
  <1>5. CASE Reverts
    <2>1. world.version = 1 /\ call # "usedReceipts"
      BY <1>2, <1>5, HonestAnswers DEF Reverts
    <2> QED
      BY <1>1, <1>5, <2>1 DEF Reverts
  <1>6. CASE Answers
    <2>1. Honest # "revert" /\ Honest # "empty" /\ "empty" \notin Says
      BY <1>2, <1>6, HonestAnswers DEF Answers
    <2>2. call # "SETTLE_WINDOW"
      BY <2>1, <1>6, HonestAnswers DEF Answers
    <2> QED
      BY <1>6, <2>1, <2>2 DEF Answers
  <1>7. ASSUME NEW r \in Receipts, Collected(r) PROVE StillAhead'
    BY <1>7 DEF Collected
  <1>8. CASE Restart
    BY <1>8 DEF Restart
  <1>9. CASE UNCHANGED vars
    BY <1>9 DEF vars
  <1> QED
    BY <1>3, <1>4, <1>5, <1>6, <1>7, <1>8, <1>9 DEF Next, call_method

\* With one endpoint that works and others that only fail, receipt_used is never
\* unavailable: for every number of endpoints, wherever the working one stands in
\* the list, and however many of the V1 and V2 questions the answer takes.
THEOREM OneWorkingEndpoint == Spec => []OneEndpointIsEnough
  <1>1. Init => StillAhead
    BY DEF Init, StillAhead
  <1>2. StillAhead => OneEndpointIsEnough
    BY DEF StillAhead, OneEndpointIsEnough, OnlyOutages
  <1> QED
    BY <1>1, <1>2, AheadKept, PoolTypeCorrect, PTL DEF Spec

-----------------------------------------------------------------------------
(***************************************************************************)
(* What is answered is true.                                               *)
(***************************************************************************)

\* What receipt_used relies on and the pool cannot see: no endpoint gives a V1
\* escrow's answer without bytes (int of an empty string reads as unused), and no
\* two spurious reverts meet within one question about a V2 escrow.
ReadableAnswers ==
    /\ MaxSpurious <= 1
    /\ \A w \in Worlds : w.version = 1 => "empty" \notin w.faults

\* a V2 escrow is never remembered as V1, and is asked the V1 question only about
\* what is no receipt; SETTLE_WINDOW is asked after the one spurious revert
Remembers ==
    world.version = 2 =>
        /\ ~v1_escrows
        /\ call = "SETTLE_WINDOW" => spurious = 1
        /\ call = "usedReceipts" => asked \in Labels

\* a question is open exactly while a call of it is tried
OpenWhileCalling ==
    /\ call # "none" => asked \in Receipts \cup Labels /\ answer = "none"
    /\ call = "none" /\ asked # NoReceipt => answer # "none"

PoolInv == TypeOK /\ Remembers /\ OpenWhileCalling

\* The pool begins with nothing remembered and nothing asked.
LEMMA InitPool == Init => PoolInv
  BY InitTyped DEF Init, PoolInv, Remembers, OpenWhileCalling

\* Every exchange keeps what is remembered true.
LEMMA PoolKept ==
    ASSUME ReadableAnswers
    PROVE  PoolInv /\ [Next]_vars => PoolInv'
  <1> SUFFICES ASSUME PoolInv, [Next]_vars PROVE Remembers' /\ OpenWhileCalling'
    BY TypeKept DEF PoolInv
  <1>0. spurious \in Nat /\ spurious <= MaxSpurious /\ MaxSpurious \in {0, 1}
    BY PoolConstants DEF PoolInv, TypeOK, ReadableAnswers
  <1> USE <1>0 DEF PoolInv, Remembers, OpenWhileCalling
  <1>1. ASSUME NEW r \in Receipts \cup Labels, receipt_used(r) PROVE Remembers' /\ OpenWhileCalling'
    BY <1>1 DEF receipt_used
  <1>2. CASE Rotates
    BY <1>2 DEF Rotates
  <1>3. CASE Reverts
    <2>1. world.version = 2 => Honest # "revert"
      BY <1>3, HonestAnswers DEF Reverts
    <2> QED
      BY <1>3, <2>1 DEF Reverts
  <1>4. CASE Answers
    BY <1>4 DEF Answers
  <1>5. ASSUME NEW r \in Receipts, Collected(r) PROVE Remembers' /\ OpenWhileCalling'
    BY <1>5 DEF Collected
  <1>6. CASE Restart
    BY <1>6 DEF Restart
  <1>7. CASE UNCHANGED vars
    BY <1>7 DEF vars
  <1> QED
    BY <1>1, <1>2, <1>3, <1>4, <1>5, <1>6, <1>7 DEF Next, call_method

\* each step of the pool is a step of the oracle or none of its business
LEMMA PoolSteps ==
    ASSUME ReadableAnswers, PoolInv, [Next]_vars
    PROVE  [Oracle!ONext]_(Oracle!ovars)
  <1> USE DEF Oracle!ovars
  <1>1. ASSUME NEW r \in Receipts \cup Labels, receipt_used(r) PROVE Oracle!ONext
    BY <1>1 DEF receipt_used, Oracle!ONext, Oracle!Question, Oracle!Pending, PoolInv, OpenWhileCalling
  <1>2. asked \in Receipts \cup Labels => asked # NoReceipt
    BY PoolConstants
  <1>3. CASE Rotates
    BY <1>2, <1>3 DEF Rotates, Oracle!ONext, Oracle!Reply, Oracle!Pending, PoolInv, OpenWhileCalling
  <1>4. CASE Reverts
    BY <1>2, <1>4 DEF Reverts, Oracle!ONext, Oracle!Reply, Oracle!Pending, PoolInv, OpenWhileCalling
  <1>5. CASE Answers
    <2>1. PICK said \in {"nonzero", "zero", "empty"} :
            /\ Exchange(said)
            /\ Return(IF call = "SETTLE_WINDOW" \/ (call = "isReceiptUsed" /\ said = "empty")
                      THEN "unavailable"
                      ELSE IF said = "nonzero" THEN "used" ELSE "unused")
      BY <1>5 DEF Answers
    <2>2. /\ call # "none" /\ said \in {Honest} \cup world.faults
          /\ world.version = 1 => "empty" \notin world.faults
          /\ world.faults \subseteq {"failed", "revert", "empty"} /\ world.version \in {1, 2}
      BY <2>1, WorldTyped DEF Says, PoolInv, TypeOK, ReadableAnswers
    <2>3. answer' \in {Oracle!Truth(asked), "unavailable"}
      <3>1. CASE call = "SETTLE_WINDOW" \/ (call = "isReceiptUsed" /\ said = "empty")
        BY <2>1, <3>1
      <3>2. CASE call = "isReceiptUsed" /\ said # "empty"
        <4>1. said = Honest /\ said # "revert"
          BY <2>2, <3>2
        <4>2. said = Word(asked \in used)
          BY <2>2, <3>2, <4>1, HonestAnswers DEF PoolInv
        <4> QED
          BY <2>1, <3>2, <4>2 DEF Oracle!Truth
      <3>3. CASE call = "usedReceipts" /\ said # "empty"
        <4>1. said = Word(world.version = 1 /\ asked \in used)
          BY <2>2, <3>3, HonestAnswers DEF PoolInv
        <4>2. world.version = 2 => asked \notin used
          BY <3>3, PoolConstants DEF PoolInv, Remembers, TypeOK
        <4> QED
          BY <2>1, <2>2, <3>3, <4>1, <4>2 DEF Oracle!Truth
      <3>4. CASE call = "usedReceipts" /\ said = "empty"
        <4>1. world.version = 2
          BY <2>2, <3>4, HonestAnswers DEF PoolInv
        <4>2. asked \notin used
          BY <3>4, <4>1, PoolConstants DEF PoolInv, Remembers, TypeOK
        <4> QED
          BY <2>1, <3>4, <4>2 DEF Oracle!Truth
      <3> QED
        BY <2>2, <3>1, <3>2, <3>3, <3>4 DEF PoolInv, TypeOK
    <2>4. Oracle!Pending /\ UNCHANGED <<used, asked>>
      BY <1>2, <1>5, <2>2 DEF Answers, Oracle!Pending, PoolInv, OpenWhileCalling
    <2> QED
      BY <2>3, <2>4 DEF Oracle!ONext, Oracle!Reply
  <1>6. ASSUME NEW r \in Receipts, Collected(r) PROVE Oracle!ONext
    BY <1>6 DEF Collected, Oracle!ONext, Oracle!Collects
  <1>7. CASE Restart
    BY <1>7 DEF Restart, Oracle!ONext, Oracle!Forgets
  <1>8. CASE UNCHANGED vars
    BY <1>8 DEF vars
  <1> QED
    BY <1>1, <1>3, <1>4, <1>5, <1>6, <1>7, <1>8 DEF Next, call_method

\* Every answer of receipt_used is the truth of the moment or "unavailable": the
\* pool implements the safety part of the oracle, for every list of endpoints,
\* every number of questions and restarts, and outages and spurious reverts
\* wherever they come.
THEOREM AnswersAreTrue ==
    ASSUME ReadableAnswers
    PROVE  Spec => Oracle!OSafe
  <1>1. Init => Oracle!OInit
    BY DEF Init, Oracle!OInit
  <1> QED
    BY <1>1, InitPool, PoolKept, PoolSteps, PTL DEF Spec, Oracle!OSafe

=============================================================================
