----------------------------- MODULE AuditChain -----------------------------
(***************************************************************************)
(* The two hash chains of the books, statement by statement.               *)
(*                                                                         *)
(* A spend row and the head of its chain are written in the transaction of *)
(* reserve.  An audit row and the head of its chain are two autocommitted  *)
(* statements of audit, and the process may stop between them.  Boot       *)
(* recomputes both chains (verify_chains) and refuses to serve on a        *)
(* mismatch.  Somebody with the file may edit a row or remove one.         *)
(***************************************************************************)
EXTENDS Integers, Sequences, SequencesExt, TLC

CONSTANTS
    Receipts,   \* keys of spend rows
    Amounts,    \* amounts a row may be written with
    MaxRows,    \* bound: audit rows
    MaxCrashes, \* bound: how often the process may die
    MaxEdits,   \* bound: how often a row is edited by hand
    MaxRemovals \* bound: how often a row is removed by hand

ASSUME ChainBounds ==
    Amounts \subseteq Nat \ {0} /\ MaxRows \in Nat /\ MaxCrashes \in Nat /\ MaxEdits \in Nat /\ MaxRemovals \in Nat

VARIABLES
    spendRows,  \* the spend table ORDER BY seq
    spendHead,  \* chain_head of the spend chain
    auditRows,  \* the audit table ORDER BY seq
    auditHead,  \* chain_head of the audit chain
    writing,    \* audit has inserted its row and not yet moved the head
    up, ready,  \* the process runs; boot found both chains intact
    torn,       \* history: a process died while writing
    written,    \* history: what every reservation wrote, in order
    crashes, edits, removals

vars == <<spendRows, spendHead, auditRows, auditHead, writing, up, ready, torn, written, crashes, edits, removals>>

-----------------------------------------------------------------------------

\* '0x00'
Genesis == <<>>

\* keccak(prev + canonical json): injective
RowHash(prev, payload) == <<prev, payload>>

\* Mutant: the amount is not among the chained fields.
SpendPayloadWithoutAmount(row) == <<row.receipt>>

\* _CHAINED_FIELDS: who and how much, never the parameters of one attempt
SpendPayload(row) == <<row.receipt, row.amount>>

AuditPayload(row) == row.decision

\* what a caller passes to audit, and what the coercions store of it
Fields == {"signed", "none"}

Stored(field) == IF field = "none" THEN "refused" ELSE field

\* the hashes the walk of verify_chains computes from the payloads of a table
Walk(payloads, n) ==
    LET head[i \in 0..n] == IF i = 0 THEN Genesis ELSE RowHash(head[i - 1], payloads[i])
    IN  head

Intact(rows, payloads) ==
    LET head == Walk(payloads, Len(rows))
    IN  \A i \in 1..Len(rows) : rows[i].hash = head[i]

SpendPayloads == [i \in DOMAIN spendRows |-> SpendPayload(spendRows[i])]

SpendIntact == Intact(spendRows, SpendPayloads)

AuditIntact == Intact(auditRows, [i \in DOMAIN auditRows |-> AuditPayload(auditRows[i])])

VerifyChains == SpendIntact /\ AuditIntact

-----------------------------------------------------------------------------

Init ==
    /\ spendRows = <<>> /\ spendHead = Genesis
    /\ auditRows = <<>> /\ auditHead = Genesis
    /\ writing = FALSE
    /\ up = FALSE /\ ready = FALSE
    /\ torn = FALSE /\ written = <<>>
    /\ crashes = 0 /\ edits = 0 /\ removals = 0

\* the books may serve refusing: refusals are audited all the same
Boot ==
    /\ ~up
    /\ up' = TRUE
    /\ ready' = VerifyChains
    /\ UNCHANGED <<spendRows, spendHead, auditRows, auditHead, writing, torn, written, crashes, edits, removals>>

Idle == up /\ ~writing

InLedger(r) == \E i \in DOMAIN spendRows : spendRows[i].receipt = r

NewRow(r, amount) == [receipt |-> r, amount |-> amount, attempt |-> 1]

\* the columns of the INSERT: the row, the head it follows and its own hash
Chained(row, hash) ==
    [receipt |-> row.receipt, amount |-> row.amount, attempt |-> row.attempt,
     prev |-> spendHead, hash |-> hash]

\* BEGIN IMMEDIATE .. COMMIT: the row and the head, or neither
Reserve(r, amount) ==
    /\ Idle /\ ready
    /\ ~InLedger(r)
    /\ LET row  == NewRow(r, amount)
           hash == RowHash(spendHead, SpendPayload(row))
       IN  /\ spendRows' = Append(spendRows, Chained(row, hash))
           /\ spendHead' = hash
           /\ written' = Append(written, <<r, amount>>)
    /\ UNCHANGED <<auditRows, auditHead, writing, up, ready, torn, crashes, edits, removals>>

\* Mutant: reviving rewrites a chained field.
RevivedElsewhere(row) == [row EXCEPT !.attempt = 2, !.amount = 0]

\* a revived row is a new attempt on the old row; the spend head stays
Revived(row) == [row EXCEPT !.attempt = 2]

Revive(i) ==
    /\ Idle /\ ready
    /\ spendRows[i].attempt = 1
    /\ spendRows' = [spendRows EXCEPT ![i] = Revived(@)]
    /\ UNCHANGED <<spendHead, auditRows, auditHead, writing, up, ready, torn, written, crashes, edits, removals>>

\* Mutant: the hash covers the caller's fields.
AuditRowHashedRaw(field) ==
    [decision |-> Stored(field), hash |-> RowHash(auditHead, field)]

\* the hash covers the values that are stored
AuditRow(field) == [decision |-> Stored(field), hash |-> RowHash(auditHead, Stored(field))]

\* INSERT INTO audit
AuditInsert(field) ==
    /\ Idle
    /\ Len(auditRows) < MaxRows
    /\ auditRows' = Append(auditRows, AuditRow(field))
    /\ writing' = TRUE
    /\ UNCHANGED <<spendRows, spendHead, auditHead, up, ready, torn, written, crashes, edits, removals>>

\* UPDATE chain_head
AuditHead ==
    /\ up /\ writing
    /\ auditHead' = auditRows[Len(auditRows)].hash
    /\ writing' = FALSE
    /\ UNCHANGED <<spendRows, spendHead, auditRows, up, ready, torn, written, crashes, edits, removals>>

Crash ==
    /\ up
    /\ crashes < MaxCrashes
    /\ crashes' = crashes + 1
    /\ up' = FALSE /\ ready' = FALSE
    /\ torn' = (torn \/ writing)
    /\ writing' = FALSE
    /\ UNCHANGED <<spendRows, spendHead, auditRows, auditHead, written, edits, removals>>

\* somebody changes an amount in the file, to one that nobody reserved, and leaves
\* the hashes alone; they have no key, so nothing could tell an editor who computes
\* them anew
Edit(i) ==
    /\ edits < MaxEdits
    /\ edits' = edits + 1
    /\ spendRows' = [spendRows EXCEPT ![i].amount = 0]
    /\ UNCHANGED <<spendHead, auditRows, auditHead, writing, up, ready, torn, written, crashes, removals>>

\* somebody deletes a row; chain_head is another table
RemoveRow(i) ==
    /\ removals < MaxRemovals
    /\ removals' = removals + 1
    /\ spendRows' = RemoveAt(spendRows, i)
    /\ UNCHANGED <<spendHead, auditRows, auditHead, writing, up, ready, torn, written, crashes, edits>>

Next ==
    \/ Boot
    \/ \E r \in Receipts, amount \in Amounts : Reserve(r, amount)
    \/ \E i \in DOMAIN spendRows : Revive(i)
    \/ \E field \in Fields : AuditInsert(field)
    \/ AuditHead
    \/ Crash
    \/ \E i \in DOMAIN spendRows : Edit(i) \/ RemoveRow(i)

Spec == Init /\ [][Next]_vars

-----------------------------------------------------------------------------

\* the books as they stand, row by row
OnFile == [i \in DOMAIN spendRows |-> <<spendRows[i].receipt, spendRows[i].amount>>]

\* As long as no process died inside audit, the audit chain verifies, with the
\* fields a caller leaves out coerced on the way in.
UntornAuditVerifies == ~torn => AuditIntact

\* The audit chain of books nobody edited verifies at every boot.
AuditVerifies == AuditIntact

=============================================================================
