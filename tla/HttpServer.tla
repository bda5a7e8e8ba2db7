------------------------------ MODULE HttpServer ------------------------------
(***************************************************************************)
(* The HTTP surface (escrow_signer/server.py) and the sweep thread of      *)
(* __main__.py: one thread per connection, a bounded number of them, and   *)
(* one signing lock.  What is done under the lock is module PolicySigner;  *)
(* here it is one step that ends.                                          *)
(*                                                                         *)
(* Every connection has a timer of its own.  Cancelling a timer that has   *)
(* already gone off does nothing, so its _expire may still run later.      *)
(***************************************************************************)
EXTENDS Naturals, FiniteSets

CONSTANTS
    Conns,    \* clients; each has at most one connection
    Drippers, \* clients that send a byte within every socket timeout
    Slots,    \* the value of the semaphore
    Sweeper, NoOne

ASSUME ServerConstants ==
    /\ IsFiniteSet(Conns) /\ Drippers \subseteq Conns /\ Slots \in Nat \ {0}
    /\ Sweeper \notin Conns /\ NoOne \notin Conns \cup {Sweeper}

VARIABLES
    conn,    \* where the thread of a connection is
    timer,   \* its read deadline
    shut,    \* connections _expire has shut down
    free,    \* slots the semaphore has left
    lock,    \* who holds the signing lock
    sweeping \* where the sweep thread is

vars == <<conn, timer, shut, free, lock, sweeping>>

Places == {"none", "accepted", "reading", "refused", "waiting", "signing", "replying", "closing"}

TypeOK ==
    /\ conn \in [Conns -> Places]
    /\ timer \in [Conns -> {"off", "armed", "expiring"}]
    /\ shut \subseteq Conns
    /\ free \in 0..Slots
    /\ lock \in Conns \cup {Sweeper, NoOne}
    /\ sweeping \in {"asleep", "waiting", "sweeping"}

Init ==
    /\ conn = [c \in Conns |-> "none"]
    /\ timer = [c \in Conns |-> "off"]
    /\ shut = {}
    /\ free = Slots
    /\ lock = NoOne
    /\ sweeping = "asleep"

-----------------------------------------------------------------------------

At(c, place) == conn[c] = place

Goto(c, place) == conn' = [conn EXCEPT ![c] = place]

\* Timer.cancel: too late for one that has gone off
Cancel(c) == timer' = [timer EXCEPT ![c] = IF @ = "armed" THEN "off" ELSE @]

\* process_request, in the accepting thread; without a slot the socket is closed
Accept(c) ==
    /\ At(c, "none")
    /\ \A d \in Conns : ~At(d, "accepted")
    /\ free > 0
    /\ free' = free - 1
    /\ Goto(c, "accepted")
    /\ UNCHANGED <<timer, shut, lock, sweeping>>

\* Mutant: the slot is not given back when the thread cannot be started.
StartFailsKeepsSlot(c) ==
    /\ At(c, "accepted")
    /\ Goto(c, "none")
    /\ UNCHANGED <<timer, shut, free, lock, sweeping>>

StartFails(c) ==
    /\ At(c, "accepted")
    /\ free' = free + 1
    /\ Goto(c, "none")
    /\ UNCHANGED <<timer, shut, lock, sweeping>>

\* Mutant: only the socket timeout guards the read.
StartsUntimed(c) ==
    /\ At(c, "accepted")
    /\ Goto(c, "reading")
    /\ UNCHANGED <<timer, shut, free, lock, sweeping>>

\* the thread runs, and setup arms the deadline
Starts(c) ==
    /\ At(c, "accepted")
    /\ Goto(c, "reading")
    /\ timer' = [timer EXCEPT ![c] = "armed"]
    /\ UNCHANGED <<shut, free, lock, sweeping>>

GoesOff(c) ==
    /\ timer[c] = "armed"
    /\ timer' = [timer EXCEPT ![c] = "expiring"]
    /\ UNCHANGED <<conn, shut, free, lock, sweeping>>

_expire(c) ==
    /\ timer[c] = "expiring"
    /\ timer' = [timer EXCEPT ![c] = "off"]
    /\ shut' = shut \cup {c}
    /\ UNCHANGED <<conn, free, lock, sweeping>>

\* Mutant: the deadline keeps running while the request waits for the lock.
ReadsUncancelled(c) ==
    /\ At(c, "reading")
    /\ c \notin shut
    /\ Goto(c, "waiting")
    /\ UNCHANGED <<timer, shut, free, lock, sweeping>>

\* an authorized POST has arrived in full
Reads(c) ==
    /\ At(c, "reading")
    /\ c \notin shut
    /\ Goto(c, "waiting")
    /\ Cancel(c)
    /\ UNCHANGED <<shut, free, lock, sweeping>>

\* a GET, or one of 400, 401, 404, 413: answered without the lock
ReadsOther(c) ==
    /\ At(c, "reading")
    /\ c \notin shut
    /\ Goto(c, "refused")
    /\ UNCHANGED <<timer, shut, free, lock, sweeping>>

\* the client hangs up
HangsUp(c) ==
    /\ At(c, "reading")
    /\ Goto(c, "closing")
    /\ UNCHANGED <<timer, shut, free, lock, sweeping>>

\* nothing more comes: the socket is shut, or the client was silent for a timeout
ReadEnds(c) ==
    /\ At(c, "reading")
    /\ c \in shut \/ c \notin Drippers
    /\ Goto(c, "closing")
    /\ UNCHANGED <<timer, shut, free, lock, sweeping>>

\* _send, outside the lock
Refuses(c) ==
    /\ At(c, "refused")
    /\ Goto(c, "closing")
    /\ Cancel(c)
    /\ UNCHANGED <<shut, free, lock, sweeping>>

\* with self.server.signing_lock
Enters(c) ==
    /\ At(c, "waiting")
    /\ lock = NoOne
    /\ lock' = c
    /\ Goto(c, "signing")
    /\ UNCHANGED <<timer, shut, free, sweeping>>

\* handle returned or raised, and the decision is audited
Decides(c) ==
    /\ At(c, "signing")
    /\ Goto(c, "replying")
    /\ UNCHANGED <<timer, shut, free, lock, sweeping>>

\* _send, still under the lock: it ends by the socket timeout, or fails on a shut socket
Replies(c) ==
    /\ At(c, "replying")
    /\ lock' = NoOne
    /\ Goto(c, "closing")
    /\ Cancel(c)
    /\ UNCHANGED <<shut, free, sweeping>>

\* Mutant: a connection that timed out gives its slot back twice.
FinishesTwice(c) ==
    /\ At(c, "closing")
    /\ Goto(c, "none")
    /\ timer' = [timer EXCEPT ![c] = "off"]
    /\ shut' = shut \ {c}
    /\ free' = IF c \in shut THEN free + 2 ELSE free + 1
    /\ UNCHANGED <<lock, sweeping>>

\* Mutant: the slot comes back only after a reply that went out.
FinishesKeepingSlot(c) ==
    /\ At(c, "closing")
    /\ Goto(c, "none")
    /\ timer' = [timer EXCEPT ![c] = "off"]
    /\ shut' = shut \ {c}
    /\ free' = IF c \in shut THEN free ELSE free + 1
    /\ UNCHANGED <<lock, sweeping>>

\* finish, and the finally of process_request_thread
Finishes(c) ==
    /\ At(c, "closing")
    /\ Goto(c, "none")
    /\ timer' = [timer EXCEPT ![c] = "off"]
    /\ shut' = shut \ {c}
    /\ free' = free + 1
    /\ UNCHANGED <<lock, sweeping>>

\* run_sweeps
SweepWakes ==
    /\ sweeping = "asleep"
    /\ sweeping' = "waiting"
    /\ UNCHANGED <<conn, timer, shut, free, lock>>

\* Mutant: the sweep does not take the request path's lock.
SweepEntersUnlocked ==
    /\ sweeping = "waiting"
    /\ sweeping' = "sweeping"
    /\ UNCHANGED <<conn, timer, shut, free, lock>>

SweepEnters ==
    /\ sweeping = "waiting"
    /\ lock = NoOne
    /\ lock' = Sweeper
    /\ sweeping' = "sweeping"
    /\ UNCHANGED <<conn, timer, shut, free>>

\* an exception ends the sweep, never the loop
SweepLeaves ==
    /\ sweeping = "sweeping"
    /\ lock' = NoOne
    /\ sweeping' = "asleep"
    /\ UNCHANGED <<conn, timer, shut, free>>

-----------------------------------------------------------------------------

Deadlines == \E c \in Conns : GoesOff(c) \/ _expire(c)

\* what a connection's thread does without waiting for its client or the lock
Thread(c) ==
    \/ Starts(c) \/ StartFails(c) \/ ReadEnds(c) \/ Refuses(c)
    \/ Decides(c) \/ Replies(c) \/ Finishes(c)

Client(c) == Accept(c) \/ Reads(c) \/ ReadsOther(c) \/ HangsUp(c)

Next ==
    \/ Deadlines
    \/ \E c \in Conns : Thread(c) \/ Client(c) \/ Enters(c)
    \/ SweepWakes \/ SweepEnters \/ SweepLeaves

\* Fair: timers and threads.  A free lock goes to some waiting request, not to a
\* given one, and the sweep cannot keep it from them all, since it sleeps an
\* interval after every cycle.  Not fair: clients.
Spec ==
    /\ Init /\ [][Next]_vars
    /\ \A c \in Conns : WF_vars(GoesOff(c)) /\ WF_vars(_expire(c)) /\ WF_vars(Thread(c))
    /\ SF_vars(\E c \in Conns : Enters(c))
    /\ WF_vars(SweepLeaves)

-----------------------------------------------------------------------------

InUse == {c \in Conns : ~At(c, "none")}

\* A slot is held by exactly the connections being served: no path through
\* accepting, a failed thread start, a timeout or a lost reply gives one back
\* twice or keeps it.
SlotsConserved == free + Cardinality(InUse) = Slots

\* No client keeps a slot by sending slowly: every read ends.
EveryReadEnds == \A c \in Conns : At(c, "reading") ~> ~At(c, "reading")

\* The server never stays full: however clients behave, a slot is free again and
\* again.
SlotsComeBack == []<>(free > 0)

\* The read deadline is for reading: it never starts to cut off a request that has
\* arrived in full and waits for the lock, is being signed or is being answered.
\* One that went off during the read may still shut the socket later: the work is
\* then done and only its answer is lost.
DeadlineOnlyWhileReading ==
    [][\A c \in Conns :
        (timer[c] = "armed" /\ timer'[c] = "expiring")
            => conn[c] \notin {"waiting", "signing", "replying"}]_vars

\* who runs handle or sweep_proceeds
Inside ==
    {c \in Conns : conn[c] \in {"signing", "replying"}}
        \cup {a \in {Sweeper} : sweeping = "sweeping"}

Signer == INSTANCE OneSigner WITH Actors <- Conns \cup {Sweeper}, inside <- Inside

\* Requests and sweeps are signed one at a time, and each of them lets the next
\* one in: what module PolicySigner takes for granted.
OneAtATime == Signer!SSpec

=============================================================================
