----------------------------- MODULE ServerProofs -----------------------------
(***************************************************************************)
(* The slots, the read deadline and the signing lock of the server, for    *)
(* any number of clients and slots.                                        *)
(***************************************************************************)
EXTENDS HttpServer, FiniteSetTheorems, TLAPS

-----------------------------------------------------------------------------
(***************************************************************************)
(* The inductive invariant.                                                *)
(***************************************************************************)

\* The lock is held by exactly the thread that is inside it.
LockInv ==
    /\ \A c \in Conns : conn[c] \in {"signing", "replying"} <=> lock = c
    /\ sweeping = "sweeping" <=> lock = Sweeper

\* A deadline runs from setup to the end of the reading, or until finish.
TimerInv ==
    \A c \in Conns : timer[c] = "armed" => conn[c] \in {"reading", "refused", "closing"}

ServerInv == TypeOK /\ SlotsConserved /\ LockInv /\ TimerInv

-----------------------------------------------------------------------------
(***************************************************************************)
(* The slots.                                                              *)
(***************************************************************************)

\* The connections that hold a slot are finitely many.
LEMMA InUseFinite == IsFiniteSet(InUse) /\ Cardinality(InUse) \in Nat
<1>1. InUse \subseteq Conns
  BY DEF InUse
<1> QED BY <1>1, ServerConstants, FS_Subset, FS_CardinalityType

\* A step that moves a thread without taking or giving a slot.
LEMMA SlotKept ==
    ASSUME ServerInv, free' = free, NEW c \in Conns, NEW place \in Places,
           conn[c] # "none", place # "none", Goto(c, place)
    PROVE  free' \in 0..Slots /\ SlotsConserved'
<1>1. InUse' = InUse
  BY DEF InUse, At, Goto, ServerInv, TypeOK
<1> QED BY <1>1 DEF ServerInv, TypeOK, SlotsConserved

\* process_request takes a slot for a connection it had none for.
LEMMA SlotTaken ==
    ASSUME ServerInv, free > 0, free' = free - 1, NEW c \in Conns, NEW place \in Places,
           conn[c] = "none", place # "none", Goto(c, place)
    PROVE  free' \in 0..Slots /\ SlotsConserved'
<1>1. InUse' = InUse \cup {c} /\ c \notin InUse
  BY DEF InUse, At, Goto, ServerInv, TypeOK
<1>2. Cardinality(InUse \cup {c}) = Cardinality(InUse) + 1
  BY <1>1, InUseFinite, FS_AddElement
<1>3. free \in 0..Slots /\ Slots \in Nat /\ free + Cardinality(InUse) = Slots
  BY ServerConstants DEF ServerInv, TypeOK, SlotsConserved
<1>4. free' + Cardinality(InUse') = Slots
  BY <1>1, <1>2, <1>3, InUseFinite
<1> QED BY <1>3, <1>4 DEF SlotsConserved

\* A thread that ends, or never started, gives the slot back.
LEMMA SlotGivenBack ==
    ASSUME ServerInv, free' = free + 1, NEW c \in Conns, conn[c] # "none", Goto(c, "none")
    PROVE  free' \in 0..Slots /\ SlotsConserved'
<1>1. InUse' = InUse \ {c} /\ c \in InUse
  BY DEF InUse, At, Goto, ServerInv, TypeOK
<1>2. Cardinality(InUse \ {c}) = Cardinality(InUse) - 1
  BY <1>1, InUseFinite, FS_RemoveElement
<1>3. free \in 0..Slots /\ Slots \in Nat /\ free + Cardinality(InUse) = Slots
  BY ServerConstants DEF ServerInv, TypeOK, SlotsConserved
<1>4. IsFiniteSet(InUse \ {c}) /\ Cardinality(InUse \ {c}) \in Nat
  BY InUseFinite, FS_RemoveElement, FS_CardinalityType
<1>5. free' + Cardinality(InUse') = Slots
  BY <1>1, <1>2, <1>3, InUseFinite
<1>6. free' \in 0..Slots
  BY <1>2, <1>3, <1>4, InUseFinite
<1> QED BY <1>5, <1>6 DEF SlotsConserved

-----------------------------------------------------------------------------
(***************************************************************************)
(* The invariant is inductive.                                             *)
(***************************************************************************)

\* The server begins with every slot free and the lock open.
LEMMA ServerInvInit == Init => ServerInv
<1> SUFFICES ASSUME Init PROVE ServerInv
  OBVIOUS
<1>1. TypeOK
  BY ServerConstants DEF Init, TypeOK, Places
<1>2. InUse = {} /\ Cardinality({}) = 0
  BY FS_EmptySet DEF Init, InUse, At
<1>3. SlotsConserved
  BY <1>2, ServerConstants DEF Init, SlotsConserved
<1>4. LockInv /\ TimerInv
  BY ServerConstants DEF Init, LockInv, TimerInv
<1> QED BY <1>1, <1>3, <1>4 DEF ServerInv

\* What a thread does keeps the slots; process_request, a failed start and
\* finish are the steps that move one.
LEMMA SlotsStep ==
    ASSUME ServerInv, Next
    PROVE  free' \in 0..Slots /\ SlotsConserved'
<1>a. \A p \in Places \ {"none"} : p # "none"
  OBVIOUS
<1>1. CASE UNCHANGED <<conn, free>>
  <2>1. InUse' = InUse
    BY <1>1 DEF InUse, At
  <2> QED BY <1>1, <2>1 DEF ServerInv, TypeOK, SlotsConserved
<1>2. CASE Deadlines \/ SweepWakes \/ SweepEnters \/ SweepLeaves
  BY <1>1, <1>2 DEF Deadlines, GoesOff, _expire, SweepWakes, SweepEnters, SweepLeaves
<1>3. ASSUME NEW c \in Conns, Thread(c) \/ Client(c) \/ Enters(c)
      PROVE  free' \in 0..Slots /\ SlotsConserved'
  <2>1. CASE Accept(c)
    BY <2>1, SlotTaken DEF Accept, At, Places
  <2>2. CASE StartFails(c) \/ Finishes(c)
    BY <2>2, SlotGivenBack DEF StartFails, Finishes, At
  <2>3. CASE Starts(c)
    BY <2>3, SlotKept DEF Starts, At, Places
  <2>4. CASE ReadEnds(c) \/ HangsUp(c) \/ Reads(c) \/ ReadsOther(c)
    BY <2>4, SlotKept DEF ReadEnds, HangsUp, Reads, ReadsOther, At, Places
  <2>5. CASE Refuses(c) \/ Decides(c) \/ Replies(c) \/ Enters(c)
    BY <2>5, SlotKept DEF Refuses, Decides, Replies, Enters, At, Places
  <2> QED BY <1>3, <2>1, <2>2, <2>3, <2>4, <2>5 DEF Thread, Client
<1> QED BY <1>2, <1>3 DEF Next

\* Every step keeps the lock with the thread that is inside it.
LEMMA LockStep ==
    ASSUME ServerInv, Next
    PROVE  /\ conn' \in [Conns -> Places]
           /\ lock' \in Conns \cup {Sweeper, NoOne}
           /\ sweeping' \in {"asleep", "waiting", "sweeping"}
           /\ LockInv'
<1> USE DEF At, Goto, Places
<1>a. /\ conn \in [Conns -> Places] /\ LockInv
      /\ lock \in Conns \cup {Sweeper, NoOne}
      /\ sweeping \in {"asleep", "waiting", "sweeping"}
  BY DEF ServerInv, TypeOK
<1>1. CASE UNCHANGED <<conn, lock, sweeping>>
  BY <1>1, <1>a DEF LockInv
<1>2. CASE Deadlines
  BY <1>1, <1>2 DEF Deadlines, GoesOff, _expire
<1>3. CASE SweepWakes \/ SweepEnters \/ SweepLeaves
  BY <1>3, <1>a, ServerConstants DEF SweepWakes, SweepEnters, SweepLeaves, LockInv
<1>4. ASSUME NEW c \in Conns, Thread(c) \/ Client(c),
             UNCHANGED <<lock, sweeping>>,
             NEW p \in Places, conn' = [conn EXCEPT ![c] = p],
             p \in {"signing", "replying"} <=> conn[c] \in {"signing", "replying"}
      PROVE  conn' \in [Conns -> Places] /\ LockInv'
  <2>1. \A d \in Conns : conn'[d] \in {"signing", "replying"} <=> conn[d] \in {"signing", "replying"}
    BY <1>4, <1>a
  <2> QED BY <1>4, <1>a, <2>1 DEF LockInv
<1>5. ASSUME NEW c \in Conns, Thread(c) \/ Client(c) \/ Enters(c)
      PROVE  /\ conn' \in [Conns -> Places]
             /\ lock' \in Conns \cup {Sweeper, NoOne}
             /\ sweeping' \in {"asleep", "waiting", "sweeping"}
             /\ LockInv'
  <2>1. CASE Accept(c) \/ StartFails(c) \/ Starts(c) \/ Finishes(c)
    BY <1>4, <1>a, <2>1 DEF Accept, StartFails, Starts, Finishes, Thread, Client
  <2>2. CASE ReadEnds(c) \/ HangsUp(c) \/ Reads(c) \/ ReadsOther(c)
    BY <1>4, <1>a, <2>2 DEF ReadEnds, HangsUp, Reads, ReadsOther, Thread, Client
  <2>3. CASE Refuses(c) \/ Decides(c)
    BY <1>4, <1>a, <2>3 DEF Refuses, Decides, Thread
  <2>4. CASE Enters(c)
    BY <1>a, <2>4, ServerConstants DEF Enters, LockInv
  <2>5. CASE Replies(c)
    <3>1. lock = c
      BY <1>a, <2>5 DEF Replies, LockInv
    <3> QED BY <1>a, <2>5, <3>1, ServerConstants DEF Replies, LockInv
  <2> QED BY <1>5, <2>1, <2>2, <2>3, <2>4, <2>5 DEF Thread, Client
<1> QED BY <1>2, <1>a, <1>3, <1>5 DEF Next

\* Every step keeps the deadlines to the reading.
LEMMA TimerStep ==
    ASSUME ServerInv, Next
    PROVE  /\ timer' \in [Conns -> {"off", "armed", "expiring"}]
           /\ shut' \subseteq Conns
           /\ TimerInv'
<1> USE DEF At, Goto, Cancel
<1>a. /\ timer \in [Conns -> {"off", "armed", "expiring"}] /\ shut \subseteq Conns
      /\ conn \in [Conns -> Places] /\ TimerInv
  BY DEF ServerInv, TypeOK
<1>1. CASE SweepWakes \/ SweepEnters \/ SweepLeaves
  BY <1>1, <1>a DEF SweepWakes, SweepEnters, SweepLeaves, TimerInv
<1>2. CASE Deadlines
  BY <1>2, <1>a DEF Deadlines, GoesOff, _expire, TimerInv
<1>3. ASSUME NEW c \in Conns, Thread(c) \/ Client(c) \/ Enters(c)
      PROVE  /\ timer' \in [Conns -> {"off", "armed", "expiring"}]
             /\ shut' \subseteq Conns
             /\ TimerInv'
  <2>1. CASE Accept(c) \/ StartFails(c) \/ Starts(c) \/ Finishes(c)
    BY <1>a, <2>1 DEF Accept, StartFails, Starts, Finishes, TimerInv
  <2>2. CASE ReadEnds(c) \/ HangsUp(c) \/ Reads(c) \/ ReadsOther(c)
    BY <1>a, <2>2 DEF ReadEnds, HangsUp, Reads, ReadsOther, TimerInv
  <2>3. CASE Refuses(c) \/ Decides(c)
    BY <1>a, <2>3 DEF Refuses, Decides, TimerInv
  <2>4. CASE Enters(c) \/ Replies(c)
    BY <1>a, <2>4 DEF Enters, Replies, TimerInv
  <2> QED BY <1>3, <2>1, <2>2, <2>3, <2>4 DEF Thread, Client
<1> QED BY <1>1, <1>2, <1>3 DEF Next

\* Every step preserves the invariant.
LEMMA ServerInvNext == ServerInv /\ [Next]_vars => ServerInv'
<1>1. ASSUME ServerInv, Next PROVE ServerInv'
  BY <1>1, SlotsStep, LockStep, TimerStep DEF ServerInv, TypeOK
<1>2. ASSUME ServerInv, UNCHANGED vars PROVE ServerInv'
  BY <1>2 DEF vars, ServerInv, TypeOK, SlotsConserved, InUse, At, LockInv, TimerInv
<1> QED BY <1>1, <1>2

\* The invariant holds in every reachable state.
LEMMA ServerInvHolds == Spec => []ServerInv
BY ServerInvInit, ServerInvNext, PTL DEF Spec

-----------------------------------------------------------------------------
(***************************************************************************)
(* The theorems.                                                           *)
(***************************************************************************)

\* The server's threads, timers and lock hold values of their types: the
\* semaphore never goes below zero or above its value.
THEOREM ServerTypeCorrect == Spec => []TypeOK
<1>1. ServerInv => TypeOK
  BY DEF ServerInv
<1> QED BY <1>1, ServerInvHolds, PTL

\* process_request, process_request_thread and finish take and give back every
\* slot exactly once, whatever clients, timers and failed starts do.
THEOREM EverySlotComesBackOnce == Spec => []SlotsConserved
<1>1. ServerInv => SlotsConserved
  BY DEF ServerInv
<1> QED BY <1>1, ServerInvHolds, PTL

\* The deadline _expire enforces goes off only while a request is being read or
\* its connection closed, never under or before the signing lock.
THEOREM DeadlineSparesSigning == Spec => DeadlineOnlyWhileReading
<1>1. ServerInv /\ [Next]_vars =>
          [\A c \in Conns :
              (timer[c] = "armed" /\ timer'[c] = "expiring")
                  => conn[c] \notin {"waiting", "signing", "replying"}]_vars
  BY DEF ServerInv, TimerInv
<1> QED BY <1>1, ServerInvHolds, PTL DEF Spec, DeadlineOnlyWhileReading

\* Requests and sweeps run one at a time: the signing lock implements the
\* abstract OneSigner (its safety part).
THEOREM SignsOneAtATime == Spec => Signer!SSafe
<1>1. Init => Signer!SInit
  BY DEF Init, Signer!SInit, Inside
<1>2. ServerInv /\ [Next]_vars => [Signer!SNext]_Inside
  <2> SUFFICES ASSUME ServerInv, Next, Inside' # Inside PROVE Signer!SNext
    BY DEF vars, Inside
  <2>a. LockInv /\ conn \in [Conns -> Places] /\ lock \in Conns \cup {Sweeper, NoOne}
    BY DEF ServerInv, TypeOK
  <2>b. LockInv'
    BY LockStep
  <2>1. \A a \in Conns \cup {Sweeper} : a \in Inside <=> lock = a
    BY <2>a, ServerConstants DEF LockInv, Inside
  <2>2. \A a \in Conns \cup {Sweeper} : a \in Inside' <=> lock' = a
    BY <2>b, ServerConstants DEF LockInv, Inside
  <2>3. Inside \subseteq Conns \cup {Sweeper} /\ Inside' \subseteq Conns \cup {Sweeper}
    BY DEF Inside
  <2>4. lock' = lock \/ (lock = NoOne /\ lock' \in Conns \cup {Sweeper}) \/ lock' = NoOne
    BY DEF Next, Deadlines, GoesOff, _expire, Thread, Client, Accept, StartFails, Starts,
           ReadEnds, Refuses, Decides, Replies, Finishes, Reads, ReadsOther, HangsUp, Enters,
           SweepWakes, SweepEnters, SweepLeaves
  <2>5. CASE lock' = lock
    BY <2>1, <2>2, <2>3, <2>5
  <2>6. CASE lock = NoOne /\ lock' \in Conns \cup {Sweeper}
    <3>1. Inside = {} /\ Inside' = {lock'}
      BY <2>1, <2>2, <2>3, <2>6, ServerConstants
    <3> QED BY <2>6, <3>1 DEF Signer!SNext, Signer!Enter
  <2>7. CASE lock' = NoOne /\ lock # NoOne
    <3>1. Inside = {lock} /\ Inside' = {} /\ lock \in Conns \cup {Sweeper}
      BY <2>a, <2>1, <2>2, <2>3, <2>7, ServerConstants
    <3> QED BY <3>1 DEF Signer!SNext, Signer!Leave
  <2> QED BY <2>4, <2>5, <2>6, <2>7
<1> QED BY <1>1, <1>2, ServerInvHolds, PTL DEF Spec, Signer!SSafe

=============================================================================
