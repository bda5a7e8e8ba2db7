# escrow-signer: TLA+ verification project

`escrow_signer` holds one hot key that an escrow contract trusts. It signs three kinds of
transaction: `debitChannel` for a receipt a buyer signed, `expireChannel` for a channel that
owes it money, and a transfer of its own proceeds to the treasury. It keeps its own books in
one SQLite file, caps what it signs, and after a crash or a lost answer it works out from the
chain what became of every transaction. This directory models that system, model-checks it
with TLC and proves with TLAPS, for every value of the constants, each safety property that the
passing runs check on a small instance.

## 1. The system

| Part | State | Operations | Talks to |
|---|---|---|---|
| Ledger (`ledger.py`) | spend rows, tx attempts, nonce allocator, clock guard and halt, heads of two hash chains | `reserve`, `reserve_gas_only`, `mark_signed/broadcast/mined/dead`, `set_next_nonce`, `audit`, `verify_chains`, `clear_halt` | SQLite, the host's clock |
| Policy (`policy.py`) | `ready` | `boot`, `_reconcile`, `handle`, `_handle_expire`, `_replay`, `sweep_proceeds` | ledger, RPC pool |
| Server (`server.py`) | the signing lock, 32 connection slots, read deadlines | `process_request`, `_expire`, `do_POST`, `_decide`, `do_GET` | policy; ledger for audit rows and reads |
| Sweep timer (`run_sweeps`) | none | one sweep per interval, under the signing lock | policy |
| RPC pool (`chainio.py`) | which escrows are known to be V1 | `call_method` over several endpoints, `receipt_used`, `get_channel` | nodes |
| Codec, EIP-712 (`calldata.py`, `eip712.py`) | none | strict encoding and decoding, digest and recovery | - |
| Configuration (`config.py`) | the limits in force | `load`, `_cap` | the environment |
| Migration (`migrations/001_...py`) | none of its own | report, refuse, `--apply` | the SQLite file, signer stopped |
| Chain (external) | account nonce, pool, blocks, receipts, channels | inclusion, simulation, receipts, fees | - |

**What is hard here.** A transaction leaves the process and cannot be called back, while the
books are several autocommitted statements: every crash point between reserving, signing,
sending and recording leaves another picture to reconcile. Evidence from the chain is read one
call at a time, with blocks in between, from nodes that need not agree. The account nonce is a
single sequence handed out by three doors, given back in some cases and re-read at boot. The
host's clock decides windows, deadlines and the halt, and it may step back. `PROJECT.json`
lists these hazards line by line with the properties that watch them.

**What makes each part correct.**

- *Ledger*: one live owner per nonce; no window over its cap; books that never forget a
  transaction that may be out.
- *Policy*: a released debit cannot land any more; a debit that landed holds budget; one
  transaction per receipt; a 200 names our own transaction; no reservation that never
  reached the key leaves its nonce unfilled; the signing lock is always released.
- *Request checks*: the decoder reads exactly the canonical encodings; a forbidden request
  raises the alarm; what passes is what the contract would accept; what is admitted pays us.
- *Fees*: the chain takes no more gas money than the operator allowed.
- *RPC pool*: an answer is the truth or no answer; one endpoint that works is enough.
- *Server*: one signer at a time; a slot always comes back; a slow client cannot keep one.
- *Hash chains and migration*: lawful histories verify, edits do not, and the migration never
  launders one.

## 2. Modules

| Module | Models | Uses |
|---|---|---|
| `Requests` | the three kinds of ledger key, what identifies a signed transaction | - |
| `Ledger` | the books: one action per ledger method; also `LedgerSpec`, the abstract specification of the books under any caller that respects the order of calls | `Requests` |
| `EscrowChain` | external: the account on chain, pool, inclusion, receipts | `Requests` |
| `PolicySigner` | the process: boot, reconcile, request, expiry and sweep paths | `Ledger`, `EscrowChain` |
| `Calldata` | the calldata codec, as operators | - |
| `Admission` | the checks of one request, from the envelope to the gas estimate | `Calldata` |
| `FeeGuard` | limits as read, fee quotes, the fee window, what the chain charges | - |
| `RpcPool` | rotation over endpoints and `receipt_used` with its V1 memory | `ReceiptOracle` |
| `ReceiptOracle` | abstract: the truth of the moment, or unavailable | - |
| `HttpServer` | connections, slots, deadlines, the signing lock, the sweep thread | `OneSigner` |
| `OneSigner` | abstract: one signer at a time, who leaves again | - |
| `AuditChain` | the two hash chains, statement by statement | - |
| `Rebaseline` | the retired rule, the upgrade and the migration | `AuditChain` |
| `OrderLemmas` | lemmas: least and greatest numbers, induction, sums over finite sets | - |
| `LedgerProofs` | theorems about the books | `Ledger`, `OrderLemmas` |
| `SignerProofs` | theorems about the process | `PolicySigner`, `LedgerProofs` |
| `AdmissionProofs` | theorems about the request checks | `Admission`, `OrderLemmas` |
| `FeeProofs` | theorem about what the chain charges | `FeeGuard`, `OrderLemmas` |
| `RpcProofs`, `ServerProofs` | theorems about the pool and the server | `RpcPool`; `HttpServer` |
| `ChainProofs` | theorems about the hash chains and the migration | `Rebaseline`, `OrderLemmas` |
| `MCLedger`, `MCSigner`, `MCAdmission`, `MCFees`, `MCRpc`, `MCServer`, `MCRebaseline`, `MCAudit` | small instances for TLC | - |

How they fit: `HttpServer` shows that requests and sweeps are one at a time (`OneSigner`), which
is why `PolicySigner` has one control state; `RpcPool` shows that a read is the truth or an
outage (`ReceiptOracle`), which is what `PolicySigner` assumes of `receipt_used`; `Admission` and
`FeeGuard` are the inside of its step `Preflight`; `PolicySigner` shows that it drives the books
as `LedgerSpec` allows, so that what is proved of the books holds of the process.

### Ledger

`spend` is a function from keys to rows; state `"none"` is an absent row. A row's `fee` is the
exposure `fee_wei_window` sums: the receipt's fee once one was stored, the ceiling before that.
`tx` is `tx_hash`, identified with the transaction's content. The ledger's re-entrant mutex
makes a method atomic towards other threads, so a method is one action; towards a crash only
the transaction of `reserve` is, so `TornMarkSigned` and `TornMarkDead` stop after the first
statement. Every method that audits needs the clock: if the clock is behind `max_ts` by more
than the tolerance, the method's first statement stays, the halt is written and the rest does
not happen (`Tick`). `max_seq` counts only the values a row or an attempt stores, since audit rows
only make it grow.

Left out of the rows: chain id, escrow and token (pinned by the configuration), depositor,
channel nonce, gas limit and calldata hash (functions of the key and amount), and the state
`superseded`, which no code writes. The guarded INSERT repeats checks made under the same mutex
by the only writer, so `cap_race` cannot happen and is not an action of its own.

`LedgerSpec` is the promise of the books: reserve when the checks pass; sign a reserved row;
broadcast a signed one; resolve a live one; set the allocator above the live rows; the clock
moves at will.

### PolicySigner

One signing lock serialises POST requests and sweeps, so `pc` is the control state of whoever
holds it. A step is what runs between two points where somebody else may act: an RPC read, a
ledger method, a crash. `rec` is the loop of `_reconcile` or of the sweep's settling, with the
time it read at its start, the rows to do and the attempts found absent. The reads that can only
refuse (identity, channel state, signature, gas and fee quotes) are one step, `Preflight`, that
may refuse for any reason and otherwise found the call executable. The simulation, signing,
sending and recording steps are shared by the three kinds, as in the code.

`send_raw` tries every endpoint, so three outcomes are possible, each with the transaction in
some pool or not: accepted, rejected, no answer. `RejectsAreFinal` says whether a rejection
excludes that an earlier endpoint took it; `MayRevert` whether an included call may revert after
its simulation passed; `NodesLag` whether a read may be answered from before the last block.

Boot verifies the chains (`AuditChain`), then the chain's identity, reconciles, sets the
allocator and writes its audit row; an unreachable chain at any read leaves it serving and
refusing, and a clock error or a chain that disagrees ends the process, which `Crash` covers. The
server listens only after boot (`Listening`).

`Crash` may hit at any `pc`, and inside `mark_signed` and `mark_dead` at the calls the code
makes there. `ClockStepsBack` moves the host's clock without the blocks' clock. `AuditOnly` is a
request refused before the signing lock: it only ticks the clock guard, from another thread.

### Calldata and Admission

The codec's layout is the code's with every size scaled: selector and word are one byte, a
signature is the three bytes r, s and v. `Admission` takes one request through the rules in the
order of the code; `FirstBreach` gives the reason code of the first one broken. The steps that
read the chain or the clock are steps of their own, with `TimePasses` and `ChainMoves` between
them (before the first such step they could not be told apart). The channel is read through the
words `getChannel` returns, so the V1 and V2 layouts are really parsed. The digest is the record
of the fields it hashes and recovery the inverse of signing. What the contract accepts is
external, taken from the comments and the error list of the code. The replay of a known receipt
is in `PolicySigner`.

### FeeGuard

All rows of a day, so there are no windows in time here. The limits come from raw text through
`_cap` (and a plain `int()` for the gas-only limit, where junk, and a variable that is set and
empty, is an uncaught `ValueError` while one that is not set means 24), in the order of `load`. A quote is 1.25 times the estimate, capped, at twice the base fee and the tip;
inclusion charges at most what was signed, at whatever base fee the block has, and also for a
revert; reconciliation learns the fee, or not (a debit known only by its receipt id).

### RpcPool

One step is one HTTP exchange with one endpoint: an outage rotates, a revert ends the call,
bytes are an answer. `receipt_used` asks the V2 question, and only after two reverts of different
calls the V1 question, which it then remembers. `Worlds` fixes the escrow's version and what the
endpoints may do. The other helpers of the pool are one `call_method` and a number read from hex.

### HttpServer

A thread per connection with its timer. A timer that has gone off cannot be cancelled, so
`_expire` may run while the request is already waiting for the lock; it shuts the socket and
nothing else. The reply is sent inside the lock. The sweep thread takes the same lock.

### AuditChain and Rebaseline

Hashes are injective pairs. A reservation and the head of the spend chain are one transaction;
an audit row and the head of its chain are two statements with a crash between them. `Walk` is the
loop of `verify_chains` and of the migration, as the hash after each row. `Edit` changes an amount
in the file and leaves the stored hashes alone: they have no key, so an editor who computes them
anew is beyond what any check of the file could find. `RemoveRow` deletes a row. A field a caller leaves out is coerced
before it is hashed. `Rebaseline` starts with books of the narrow or of the retired wide rule
(whose writer is modelled from the migration's `wide_payload`), upgrades the code and runs the
migration any number of times while the signer is stopped; `--apply` is one transaction.

### EscrowChain

Modelled from how `chainio.py` asks and `policy.py` relies on the answers: a receipt is
collected once and not after its deadline; an expiry succeeds once; a token transfer has no
condition of its own; a block includes the account's next nonce and kills every other
transaction at it. A pooled transaction may stay there forever, so eviction needs no action.
`PendingCounts` is any count a node with part of the pool could give.

## 3. Runs

| Run | Instance | Shows |
|---|---|---|
| `ledger_caps` | 2 debits, 2 sweeps, 2 nonces, 3 clock values, tolerance 1, windows 1/1/2 | nonce ownership and every kind of window cap, under any order of calls, torn methods and clock jumps |
| `signer_crashes` | 2 debits with deadlines 2 and 3, 2 crashes, time 1..3 | records, counting, releases, one transaction per receipt, no nonce lost without a signature |
| `signer_answers` | 1 debit with two amounts, 1 expiry, 1 crash, reverts, non-final rejections, lagging nodes | a 200 names our own transaction |
| `signer_refines` | 1 debit, 1 sweep, 1 crash, 1 clock step, reverts, non-final rejections, lagging nodes | the process implements `LedgerSpec`; it always serves again; nonces given back are unknown to every node |
| `books_edited` | 3 receipts, either rule at the start, 2 audit rows, 2 crashes, 1 edit, 1 removal | lawful histories verify, tampering is not papered over, the migration refuses only with a cause and leaves chains that verify |
| `admission_checks` | every string of 3 byte values of lengths 0..3 and around the canonical one; 96 envelopes; 15 debits and an expiry against 147 channels, one step of the chain, time 1..5 | the seven properties of `Admission` |
| `fees_paid` | 5 limits of 7 raw values each, 2 transactions, estimates below and above the cap, 2 base fees, reverts | the fee cap holds against what the chain charges |
| `rpc_faults` | 2 receipts, 1 sweep, 4 endpoints; V1 and V2, failures, reverts, empty answers | the pool implements `ReceiptOracle`; one endpoint is enough |
| `server_slots` | 3 clients of which 2 drip, 2 slots, the sweep thread | slots conserved and returned, reads end, no deadline starts to go off after the read, `OneSigner` implemented |
| `sweep_twice`, `stale_revert`, `audit_crash` | as above, smaller | disagreements between the code and what it says of itself (section 5) |

**Bounds, and why they are enough.** Nonce conflicts, gaps and give-backs need two rows; a row
released and revived needs two nonces; the crash runs need one crash to leave a live row and a
second during the reconciliation it causes. Time 1..3 puts a debit before, at and past its
deadline with another one still in time. In `ledger_caps` every cap is small enough to refuse:
one unit and one debit per hour, two per day, one sweep per day, and a fee cap under which a
second call fits only after a receipt has shown the first to be cheaper than its ceiling; time
0..2 against windows of 1 and 2 lets rows leave a window. `MaxSeq` bounds rows and attempts
there. Keys are symmetric only in `ledger_caps`, where all debits share a channel and a deadline
plays no part, and in `books_edited`. The signer runs use no caps (they are the subject of
`ledger_caps` and of the theorems) and check deadlock. In `books_edited` three rows put one between
two others; the second crash is the stop before the migration, the first one before the upgrade or
inside `audit`. In `admission_checks` the three byte values are zero and the two words the
layout fixes, so every fixed word also appears where it does not belong; the group order 7 puts the
low-s boundary between two values; a settle window of 3 and expiries at 1..4 put both kinds of
deadline before, at and after the clock. In `fees_paid` the limit 9 lies between one and two
reservations. In `rpc_faults` the endpoint that works is the last of four, and a spurious
revert may hit one of the two calls that decide the version. In `server_slots` the two slots can
both be held by clients that drip. An applied migration is reached with one to three wide rows:
the new code serves no wide books, so rows of both rules never stand in one file. `books_edited`,
`admission_checks`, `fees_paid` and `audit_crash` stop once their bounded rows, requests or crashes are used up, so deadlock is not checked there.

**Assumptions of the signer runs.** `ClockAhead = 0`: the host's clock does not run ahead of
block timestamps (R24's deadline test needs it; a host ahead of the chain releases too early).
`signer_crashes` assumes final rejections, no reverts and reads that are current, the three things
whose failure `stale_revert` and section 5 show. A sweep's key is fresh because it
hashes the second it starts in. An expiry is asked for channels already past their settle window.
An operator clears a halt only once the clock is right again. `rpc_faults` allows at most one
spurious revert per question and leaves out the empty answer to the V1 question (section 5).
`admission_checks` states its agreement with the contract for a chain that has not moved since it
was read; `AdmittedPaysUs` holds while it moves, and for a debit rests on the estimate, the last read,
which executes the call. `DeadlineOnlyWhileReading` says that no timer starts to go off after the
read: one that went off during it may still shut the socket of a request that waits or is being
signed, whose work is then done and whose answer is lost.

**Fairness.** `AlwaysServesAgain` assumes weak fairness of the process only: the container is
restarted when it has died (`restart: unless-stopped` in `docker-compose.yml`), and the thread
that holds the signing lock keeps running, since every RPC call ends by its timeout. `RpcPool`
assumes the same of one exchange. `HttpServer` assumes that timers go off, that threads run, and
that the lock, when it is free again and again, goes to some waiting request (strong fairness: the
sweep thread sleeps an interval after every cycle, so it cannot always be first), not to a given
one. Nothing is assumed of requests, clients, blocks, time, the operator or the clock.

**Abstract specifications.** `signer_refines` checks `LedgerSpec` as a property of `PolicySigner`;
`rpc_faults` checks `ReceiptOracle!OSpec` and `server_slots` checks `OneSigner!SSpec`, liveness
included, under the mappings at the end of `RpcPool` and `HttpServer`. The safety parts of all
three are also proved.

## 4. Proofs

Every invariant and every action property of the passing runs is a theorem for all values of the
constants, under the named assumptions of the modules (finite sets of keys and clients, numbers
that are numbers, windows in order) and the hypotheses named below. `PROJECT.json` lists the
theorems; this is how they are argued.

**Books (`LedgerProofs`, over `LedgerSpec`).** `LTypeOK` and `NonceOwnership` are inductive
together. The delicate step is `mark_dead`: giving a nonce back is safe because the allocator was
exactly one above it and every other live row holds another nonce below it. The caps share one
argument: only a reservation brings a row into a window (`OnlyReserveTakesBudget`), and the window
it checks ends at the wall clock, so it contains whatever the window ending at the newest
timestamp contains (`ReservedWindow`). `DebitCountsBounded`, `GasOnlyBounded` and `TokensBounded` are
that argument for the counts and for the sums of tokens, `FeesReservedBounded` for the fee
exposure of the step. The gas-only count goes by amount, so `GasOnlyInv` adds that rows of expiries
and sweeps carry none. The token caps are proved in the form `SumsWithinCaps`, which bounds every
number that is the sum of a window, and a revived row re-enters with the very amount that is
checked (`ReservedValues`).

**Process (`SignerProofs`).** `SignerInv` says which row every control state works on and in which
state it is (`ProcessInv`), that rows and attempts name transactions of our key for that receipt
and amount, and that what nodes know is recorded (`BooksInv`). With it every step is a step of
`LedgerSpec` or leaves the books alone: `SignerRefinesLedger` carries the theorems about the books
over to the process (`SignerOwnsNonces`, `SignerWithinCaps`). There are far more actions than things
an action can do to the books, so steps are first sorted by their effect (nothing, an audit row,
taking, signing, sending, resolving a row, setting the allocator, a block), and the other
invariants are proved per effect: `KnownIsRecorded`, `AnswersAreOurs`, `GiveBackIsUnknown` without
further hypotheses, and

- under `TrustedNodes` (rejections are final, a call fails only if the contract refuses it, the
  host's clock is not ahead of the blocks): `OneTransactionPerReceipt` and `ReleasedCannotLand`, by
  `CollectionInv`: a debit a node knows of is the one its row names or is past collecting, and
  between the checks and the sending nobody knows of it; with current reads (`~NodesLag`) also
  `CollectedIsCounted`, by `CollectedInv`. `policy.py` releases rows on exactly this evidence; the
  runs `stale_revert` and `sweep_twice` and section 5 show what happens without it;
- under `SteadyClock` (the host's clock is not stepped back): `OnlySigningSpendsNonces`, by `NonceInv`:
  below every live row and, once boot has set it, below the allocator each nonce the chain waits for
  is held by a live row or was signed for, an unsigned row is the newest one and is the one being
  worked on. It does not say that there is no hole: a transaction that was signed and then rejected
  keeps its nonce spent by design (`tests/test_nonce_release.py:246`), and later ones wait behind it
  until boot re-reads the chain. A clock behind the books makes a method
  raise half-way and halts the ledger.

The constants of `signer_crashes` satisfy all of these hypotheses.

**Request checks (`AdmissionProofs`).** For byte strings of any length over any alphabet: the
decoders accept exactly the encodings (`ExactlyTheEncodings`), their last assertion cannot fail
(`AssertionNeverSpeaks`), of a signature and its twin one gets through (`OneCalldata`), and forbidden
requests raise the alarm (`ForbiddenAlwaysAlarms`). `GateInv` records what holds behind each check,
`ReadInv` what holds of the reads while the chain has not moved. `ChecksSuffice` and
`NeverBothDebitAndExpiry` need `LawfulScenarios`: an open channel has an expiry and an absent one
holds nothing, as the contract creates them (an expiry of 0 passes the code's expiry rule at any
time). `AdmittedPays` needs nothing.

**Fees (`FeeProofs`).** `PaidBounded`: `FeeInv` says that the limits in force are those that were
written, that the chain charges a row at most its ceiling, that the fee on the books is the one
charged, and that the fee window is within the limit. The window is at least what was paid, row by
row. The quote's gas limit is what is both signed and counted, which is why moving base fees do
no harm.

**Pool and server (`RpcProofs`, `ServerProofs`).** `OneWorkingEndpoint` for lists of any length:
while a call is tried a working endpoint is still ahead. `AnswersAreTrue` is the safety part of
`ReceiptOracle` under `ReadableAnswers` (at most one spurious revert in a question, no empty answer
from a V1 escrow; section 5): a V2 escrow is never remembered as V1. `ServerInv` (slots, the lock
with the thread inside it, deadlines only while reading) gives `EverySlotComesBackOnce`,
`DeadlineSparesSigning` (no deadline starts to go off after the read) and, as the safety part of `OneSigner`, `SignsOneAtATime`, for every number of
clients and slots.

**Hash chains (`ChainProofs`, over `RSpec`, the books with upgrade and migration).** `Walk` is
determined by its links (`WalkIs`), and equal ends mean equal beginnings, as hashes are injective
(`WalkInjective`). A step keeps the spend table, adds a row, touches one, drops one or migrates all
(`TableStep`). On these effects rest `AuditInv`, `LawfulInv`, `CauseInv` (books nobody touched are
authentic and were never refused) and `TagInv` (every hash covers what a reservation wrote), and on
those `AuditVerifiesUnlessTorn`, `LawfulBooksVerify`, `MigratedBooksVerify`, `RefusalHasCause` and
`NothingLaundered`.

**Sums and walks.** Facts about sums (`MapThenSumSet`) and about `Walk` hold for data of any size.
They are inductions in the form of sets: the numbers for which the claim holds contain 0 and with
each number the next (`NatSetInduction`), over the size of the set (`SumIsNat`, `SumSplits`, `SumGrows`)
or the length of the table. The recursion of a sum has a solution (`SumExists`), so the function
`MapThenSumSet` chooses is one.

**Only model-checked**: the liveness properties, and with them the fairness part of the two
abstract specifications `ReceiptOracle` and `OneSigner`, since the prover reasons neither about
`ENABLED` nor from fairness. The three runs that expect a violation are counterexamples and have
nothing to prove.

## 5. Findings

Shown by runs:

- `sweep_twice`: rows without a deadline store 0; a boot or a replay releases a pending sweep as
  "past its deadline" and the next cycle signs a second one beside it.
- `stale_revert`: the reverted receipt of an earlier attempt releases a row whose current
  transaction is pending and in time.
- `audit_crash`: a process that dies between the two statements of `audit` leaves an audit chain
  that no later boot accepts.

Further disagreements between the code and what it says of itself, met while modelling and shown
by no run here:

- Boot looks only at the pending count and at live rows (`policy.py:132`), so the nonce of a signed
  transaction that was released and that no node holds is handed out again, which
  `tests/test_nonce_release.py:14` and `policy.py:37` say never happens. Two transactions with one
  nonce cannot both land, so the money properties of `signer_crashes` hold all the same.
- The sweep loop does not look at the halt (`policy.py:567`), so it signs on a halted ledger once
  the clock has caught up, although a regression "halts signing until an operator clears it"
  (`ledger.py:163`).
- A revived row keeps its first timestamp (`ledger.py:598`), so a debit retried after the hour is
  reserved and signed now and counted in windows that are over, although "budget is counted from
  the moment of reservation" (`ledger.py:8`). The caps of `Ledger` hold by the stored timestamps.
- An endpoint takes the transaction, its answer is lost and the next one rejects it: the row is
  released (`policy.py:388`) with its transaction pending and in time, although "the caller must have
  proved the deadline passed AND the receipt is unused" (`ledger.py:857`). `DeadCannotLand` needs final
  rejections: with `RejectsAreFinal = FALSE` in `SignerCrashes.cfg` TLC shows a violation.
- A node that is behind can make `_reconcile` release, past its deadline, a debit that has landed
  (`policy.py:204`). `LandedIsCounted` needs current reads: with `NodesLag = TRUE` in
  `SignerCrashes.cfg` TLC shows a violation.
- The reply is sent inside the signing lock (`server.py:190`), so a request may wait for another
  client to read its answer, although "untrusted sockets never hold the signing lock"
  (`server.py:10`). `SlotsComeBack` shows that the wait ends, by the socket's timeout, not how long it is.
- A reverted call is released without its fee (`policy.py:187`), so its gas leaves the fee window and a
  day can cost more than the cap. `PaidWithinFeeCap` therefore speaks of the calls that were not
  released.
- `unlimited` becomes -1 in the fee ceiling too, where it refuses every quote (`policy.py:326`), and
  in the tip, where it cannot be signed; `config.py:92` calls it "the only way to switch one off".
- On an escrow remembered as V1 an empty result is read as "unused" (`chainio.py:231`), although
  failures are "unavailability, never false" (`chainio.py:8`).
- A process whose chain read failed at boot refuses until it is restarted (`__main__.py:47`), and one
  whose chain disagrees with its pins dies at every boot instead of refusing, since `boot` does not
  catch `ChainUnverified` (`policy.py:126`).
- A refusal whose audit row could not be written is sent unchanged (`server.py:205`), against the
  comment at `server.py:202`.
- `verify_chains` does not compare its last hash with `chain_head` (`ledger.py:917`), so rows removed
  from the tail are not noticed; `NothingIsPaperedOver` speaks of an initial piece for that reason.
- The migration verifies a wide row over its own stored link (`001_...py:94`), so a wide row removed
  from the middle is re-linked away; `NothingIsPaperedOver` leaves removals from wide books out. A
  wide row that was lawfully revived is refused. `--dry-run` in its usage text is not an option.

## 6. Plan

Done: the books, the process, the request checks, fees and limits, the RPC pool, the server, the
hash chains and the migration; a theorem for every safety property of the passing runs; the
refinement of the books by the process.

Next:

1. Weaker hypotheses where the code allows them: which part of `OneTransactionPerReceipt` survives a
   host clock that runs ahead, and `OnlySigningSpendsNonces` across a clock step whose halt was cleared.
2. The fee window of `Ledger` and of `FeeGuard` related: the former has the time, the latter what the
   chain charges.

## 7. Not modelled

keccak and curve arithmetic (no control flow, out of TLC's reach); settings that are text checks
(key, paths, URLs, addresses) and end in `ConfigError`; `encode_transfer`; log lines and the
witness file (best effort, read by nobody); `record_attempt_status` (its column is read by
nobody); the bodies of the GET routes; firewall and tunnel units of the host.

## 8. Running it

    tlc -config SignerCrashes.cfg MCSigner
    tlc -config LedgerCaps.cfg MCLedger
    tlapm LedgerProofs.tla

The proofs are in `OrderLemmas`, `LedgerProofs`, `SignerProofs`, `AdmissionProofs`, `FeeProofs`,
`RpcProofs`, `ServerProofs` and `ChainProofs`; `SignerProofs` takes about five minutes.

Comments that begin with `Mutant:` mark variants of a definition, each a plausible bug; replacing
the definition after it by the variant makes TLC find the property named in `PROJECT.json`
violated.
