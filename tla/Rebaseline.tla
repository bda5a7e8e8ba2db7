----------------------------- MODULE Rebaseline -----------------------------
(***************************************************************************)
(* migrations/001_narrow_chain_rebaseline.py: spend rows tagged under the  *)
(* retired wide rule are tagged again under the narrow one, so that books  *)
(* written by the old code verify for the new.                             *)
(*                                                                         *)
(* The old code is not in the repository; its writer and its verifier are  *)
(* modelled from what the migration says of them.  Everything else is      *)
(* module AuditChain.                                                      *)
(***************************************************************************)
EXTENDS AuditChain

VARIABLES
    born, \* the rule of the code the books began with
    rule, \* the rule of the deployed code
    last  \* how the last run of the migration ended

rvars == <<vars, born, rule, last>>

-----------------------------------------------------------------------------
(***************************************************************************)
(* The old code.                                                           *)
(***************************************************************************)

\* the immutable fields, the parameters of the attempt, and a hardcoded state
wide_payload(row) == <<row.receipt, row.amount, row.attempt, "reserved">>

WideIntact == Intact(spendRows, [i \in DOMAIN spendRows |-> wide_payload(spendRows[i])])

WideBoot ==
    /\ rule = "wide"
    /\ ~up
    /\ up' = TRUE
    /\ ready' = (WideIntact /\ AuditIntact)
    /\ UNCHANGED <<spendRows, spendHead, auditRows, auditHead, writing, torn, written, crashes,
                   edits, removals>>

WideReserve(r, amount) ==
    /\ rule = "wide"
    /\ Idle /\ ready
    /\ ~InLedger(r)
    /\ LET row  == NewRow(r, amount)
           hash == RowHash(spendHead, wide_payload(row))
       IN  /\ spendRows' = Append(spendRows, Chained(row, hash))
           /\ spendHead' = hash
           /\ written' = Append(written, <<r, amount>>)
    /\ UNCHANGED <<auditRows, auditHead, writing, up, ready, torn, crashes, edits, removals>>

\* the new code is deployed on the old books
Upgrade ==
    /\ rule = "wide" /\ ~up
    /\ rule' = "narrow"
    /\ UNCHANGED <<vars, born, last>>

-----------------------------------------------------------------------------
(***************************************************************************)
(* The migration, with the signer stopped.                                 *)
(***************************************************************************)

\* the running head: every row's narrow tag over the narrow tag before it
Narrow == Walk(SpendPayloads, Len(spendRows))

\* Mutant: the wide tag is looked for over the running narrow head.
WideOverRunningHead(i) == RowHash(Narrow[i - 1], wide_payload(spendRows[i]))

\* over the row's own stored link, which is what its writer hashed against
Wide(i) == RowHash(spendRows[i].prev, wide_payload(spendRows[i]))

AlreadyNarrow(i) == spendRows[i].hash = Narrow[i]

\* Mutant: whatever is not narrow yet is taken for a wide row.
AuthenticUnchecked(i) == TRUE

Authentic(i) == AlreadyNarrow(i) \/ spendRows[i].hash = Wide(i)

Plan == {i \in DOMAIN spendRows : ~AlreadyNarrow(i)}

\* Mutant: a row keeps the link it was written with.
RetaggedOverOldLink(i) ==
    [spendRows[i] EXCEPT !.hash = RowHash(spendRows[i].prev, SpendPayload(spendRows[i]))]

Retagged(i) == [spendRows[i] EXCEPT !.hash = Narrow[i], !.prev = Narrow[i - 1]]

\* nothing to do, or a report only
MigrateReports ==
    /\ \A i \in DOMAIN spendRows : Authentic(i)
    /\ last' = "reported"
    /\ UNCHANGED vars

\* a row verifies under neither rule
MigrateRefuses ==
    /\ \E i \in DOMAIN spendRows : ~Authentic(i)
    /\ last' = "refused"
    /\ UNCHANGED vars

MigrationRow == [decision |-> "rebaseline", hash |-> RowHash(auditHead, "rebaseline")]

\* Mutant: the head of the audit chain is left where it was.
AuditsItselfHeadless == auditRows' = Append(auditRows, MigrationRow) /\ UNCHANGED auditHead

AuditsItself == auditRows' = Append(auditRows, MigrationRow) /\ auditHead' = MigrationRow.hash

\* --apply, one transaction: the tags, the spend head, an audit row and its head
MigrateApplies ==
    /\ \A i \in DOMAIN spendRows : Authentic(i)
    /\ Plan # {}
    /\ spendRows' = [i \in DOMAIN spendRows |-> IF i \in Plan THEN Retagged(i) ELSE spendRows[i]]
    /\ spendHead' = Narrow[Len(spendRows)]
    /\ AuditsItself
    /\ last' = "applied"
    /\ UNCHANGED <<writing, up, ready, torn, written, crashes, edits, removals>>

Migrate ==
    /\ rule = "narrow" /\ ~up
    /\ MigrateReports \/ MigrateRefuses \/ MigrateApplies
    /\ UNCHANGED <<born, rule>>

-----------------------------------------------------------------------------

RInit == Init /\ born \in {"wide", "narrow"} /\ rule = born /\ last = "none"

\* what both versions of the code, and everybody else, do alike
Common ==
    \/ \E i \in DOMAIN spendRows : Revive(i)
    \/ \E field \in Fields : AuditInsert(field)
    \/ AuditHead
    \/ Crash
    \/ \E i \in DOMAIN spendRows : Edit(i) \/ RemoveRow(i)

RNext ==
    \/ /\ \/ Common
          \/ WideBoot
          \/ \E r \in Receipts, amount \in Amounts : WideReserve(r, amount)
          \/ rule = "narrow" /\ Boot
          \/ rule = "narrow" /\ \E r \in Receipts, amount \in Amounts : Reserve(r, amount)
       /\ UNCHANGED <<born, rule, last>>
    \/ Upgrade
    \/ Migrate

RSpec == RInit /\ [][RNext]_rvars

-----------------------------------------------------------------------------

\* Reservations, revivals, crashes and the migration never break the spend chain of
\* books that began under the narrow rule, and neither does a stop of the process
\* anywhere: a lawful retry stays distinguishable from a row edited by hand.
LawfulSpendVerifies == (born = "narrow" /\ edits = 0 /\ removals = 0) => SpendIntact

\* "A row is re-tagged only if its stored tag is correct under the rule that wrote
\* it" and the script "must never paper over" tampering: books that verify are an
\* initial piece of what was reserved, whatever was edited before, between or after
\* the runs of the migration, and whatever was appended or revived since.  In books
\* that began under the narrow rule a row removed before another one is found too.
\* An edit here leaves the stored hashes alone (AuditChain!Edit): the hashes have no
\* key, and an editor who computes them anew is outside this property.
NothingIsPaperedOver ==
    (rule = "narrow" /\ SpendIntact /\ (born = "wide" => removals = 0)) => IsPrefix(OnFile, written)

\* An applied migration leaves books the new code accepts, whatever was revived,
\* edited or removed before it.  The new code serves no wide books, so at an applied
\* migration the rows were all written under one rule.
AppliedVerifies == [][MigrateApplies => SpendIntact']_rvars

\* Books nobody touched, and no row of which was revived under the wide rule, are
\* never refused, however many rows they hold.
RefusedOnlyWithCause ==
    last = "refused" =>
        \/ edits > 0 \/ removals > 0
        \/ \E i \in DOMAIN spendRows : spendRows[i].attempt = 2

=============================================================================
