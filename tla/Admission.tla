------------------------------ MODULE Admission ------------------------------
(***************************************************************************)
(* The checks a request passes before anything is reserved: the envelope,  *)
(* the dispatch on the selector, the strict decoding, the fields, the      *)
(* channel as read from chain, and the depositor's signature               *)
(* (escrow_signer/policy.py, with get_channel of chainio.py and the digest *)
(* of eip712.py).  Module PolicySigner sums these up as one                *)
(* nondeterministic refusal.                                               *)
(*                                                                         *)
(* The chain and the clock move between any two checks that read them.     *)
(* The contract is external: what it accepts is taken from the comments    *)
(* and the error list of the code.                                         *)
(***************************************************************************)
EXTENDS Calldata

CONSTANTS
    Scenarios,    \* families of requests, each with the channel it names
    Addresses,    \* of accounts and of tokens
    Us,           \* the signer's address
    Token,        \* cfg.TOKEN
    Unbound,      \* the zero address, as a channel's hub
    GasCap, MinAmount, MaxAmount, Cent, MinSkew, MaxTtl, MinRemaining, SettleWindow,
    MaxTime,      \* bound: the clock
    MaxMoves      \* bound: steps of the chain during one request

\* a channel in the escrow's storage
Channels ==
    [depositor : Addresses, hub : Addresses, token : Addresses, balance : Nat, used_amount : Nat,
     expires_at : Nat, closable_at : Nat, nonce : Nat, status : Nat, v2 : BOOLEAN]

ASSUME AdmissionConstants ==
    /\ {GasCap, MinAmount, MaxAmount, MinSkew, MaxTtl, SettleWindow, MaxTime, MaxMoves} \subseteq Nat
    /\ Cent \in Nat \ {0} /\ MinRemaining \in Nat
    /\ {Us, Token, Unbound} \subseteq Addresses /\ Us # Unbound
    /\ \A family \in DOMAIN Scenarios : \A s \in Scenarios[family] :
           s.data \in Seq(Bytes) /\ s.chan \in Channels

VARIABLES
    header, data, \* the envelope, and the bytes it carries
    signed,       \* who made the signature in them, and over what
    chan,         \* the channel it names
    collected,    \* the escrow has paid its receipt
    now, moves,
    pc,
    call,         \* what the decoder returned
    seen,         \* the channel as get_channel returned it
    reason        \* the answer: a reason code, or "admitted"

request == <<header, data, signed>>

world == <<chan, collected, now, moves>>

vars == <<request, world, pc, call, seen, reason>>

-----------------------------------------------------------------------------
(***************************************************************************)
(* The rules, in the order of the code.                                    *)
(***************************************************************************)

AlarmCodes == {"selector_not_allowed", "to_not_escrow", "value_not_zero", "wrong_chain",
               "hub_gas_anomalous"}

\* _parse_envelope: R3 to R6 (a body that is no JSON is a bad shape too)
EnvelopeRules(h) == <<
    <<h.shape, "envelope_invalid">>,
    <<h.value = 0, "value_not_zero">>,
    <<h.chain, "wrong_chain">>,
    <<h.escrow, "to_not_escrow">>,
    <<h.hex, "calldata_length">>,
    <<h.gas > 0, "envelope_invalid">> >>

\* data[0:4]
Selects(selector) == data # <<>> /\ data[1] = selector

IsDebit == Selects(DebitSelector)

Allowed == IsDebit \/ Selects(ExpireSelector)

\* Mutant: length first, as when one selector was allowed.
DispatchRulesLengthFirst == <<
    <<Len(data) = CanonicalLen, "calldata_length">>,
    <<Allowed, "selector_not_allowed">> >>

\* R27: the selector, before any length
DispatchRules == << <<Allowed, "selector_not_allowed">> >>

\* _field_sanity, then R18a
DebitRules(c) == <<
    <<c.amount >= MinAmount /\ c.amount <= MaxAmount, "amount_out_of_band">>,
    <<c.amount % Cent = 0, "amount_out_of_band">>,
    <<c.receipt_id # 0, "receipt_id_zero">>,
    <<c.channel_id # 0, "channel_id_zero">>,
    <<c.deadline >= now + MinSkew, "deadline_out_of_band">>,
    <<c.deadline <= now + MaxTtl, "deadline_out_of_band">> >>

GasRules == << <<header.gas <= GasCap, "hub_gas_anomalous">> >>

\* _debit_deadline
DebitDeadline(ch) == ch.expires_at + (IF ch.v2 THEN SettleWindow ELSE 0)

\* _channel_state: R14
ChannelRules(ch, c) == <<
    <<ch.exists, "channel_not_found">>,
    <<ch.status = 0, "channel_not_open">>,
    <<DebitDeadline(ch) > now + MinRemaining, "channel_expiring">>,
    <<ch.balance >= c.amount, "insufficient_balance">>,
    <<ch.token = Token, "token_not_allowed">>,
    <<ch.hub \in {Unbound, Us}, "channel_bound_elsewhere">> >>

\* Mutant: the settle window of V2 is forgotten.
CollectRulesV1(ch) == <<
    <<ch.status = 0, "channel_not_open">>,
    <<ch.used_amount > 0, "channel_owes_nothing">>,
    <<ch.hub = Us, "channel_not_ours">>,
    <<ch.expires_at = 0 \/ now > ch.expires_at, "channel_not_expired">> >>

\* Mutant: a channel bound to another hub is collected with our gas.
CollectRulesAnyHub(ch) == <<
    <<ch.status = 0, "channel_not_open">>,
    <<ch.used_amount > 0, "channel_owes_nothing">>,
    <<ch.expires_at = 0 \/ now > DebitDeadline(ch), "channel_not_expired">> >>

\* R31: spend gas only where the contract pays us
CollectRules(ch) == <<
    <<ch.status = 0, "channel_not_open">>,
    <<ch.used_amount > 0, "channel_owes_nothing">>,
    <<ch.hub = Us, "channel_not_ours">>,
    <<ch.expires_at = 0 \/ now > DebitDeadline(ch), "channel_not_expired">> >>

-----------------------------------------------------------------------------
(***************************************************************************)
(* What is read from chain.                                                *)
(***************************************************************************)

\* the words getChannel returns, the deposited amount left out: V2 has closableAt
\* before the status
Words(ch) ==
    <<ch.depositor, ch.hub, ch.token, ch.balance, ch.used_amount, ch.expires_at, ch.nonce>>
        \o (IF ch.v2 THEN <<ch.closable_at, ch.status>> ELSE <<ch.status>>)

\* Mutant: the word after the nonce is the status, as in the V1 layout.
GetChannelV1Layout(words) ==
    [depositor |-> words[1], hub |-> words[2], token |-> words[3], balance |-> words[4],
     used_amount |-> words[5], expires_at |-> words[6], nonce |-> words[7], status |-> words[8],
     closable_at |-> 0, v2 |-> Len(words) = 9, exists |-> words[1] # Unbound]

\* get_channel: the number of words tells the versions apart
get_channel(words) ==
    LET v2 == Len(words) = 9
    IN  [depositor |-> words[1], hub |-> words[2], token |-> words[3], balance |-> words[4],
         used_amount |-> words[5], expires_at |-> words[6], nonce |-> words[7],
         status |-> words[IF v2 THEN 9 ELSE 8], closable_at |-> IF v2 THEN words[8] ELSE 0,
         v2 |-> v2, exists |-> words[1] # Unbound]

\* debit_digest: injective in what it hashes; hub is our own address
debit_digest(ch, c) ==
    [channel_id |-> c.channel_id, hub |-> Us, token |-> ch.token, amount |-> c.amount,
     receipt_id |-> c.receipt_id, nonce |-> ch.nonce, deadline |-> c.deadline]

\* recover: the signer, if the signature is over this digest, and somebody else otherwise
Recovers(digest, who) == signed.over = digest /\ signed.by = who

\* debitChannel, sent by us: the fields, and the signature over the channel's storage
AcceptsDebit(ch, c) ==
    /\ ch.depositor # Unbound /\ ch.status = 0
    /\ now <= c.deadline /\ now <= DebitDeadline(ch)
    /\ ch.balance >= c.amount
    /\ ~collected
    /\ ch.hub \in {Unbound, Us}
    /\ check_signature_shape(c.signature) = "none"
    /\ Recovers(debit_digest(ch, c), ch.depositor)

\* expireChannel: anybody's call, after the last moment for debits
AcceptsExpire(ch) == ch.depositor # Unbound /\ ch.status = 0 /\ now > DebitDeadline(ch)

Accepts == IF IsDebit THEN AcceptsDebit(chan, call) ELSE AcceptsExpire(chan)

-----------------------------------------------------------------------------

NoCall == [none |-> TRUE]

NotRead == [v2 |-> FALSE]

Init ==
    /\ \E family \in DOMAIN Scenarios : \E s \in Scenarios[family] :
        header = s.header /\ data = s.data /\ signed = s.signed /\ chan = s.chan /\ collected = s.collected
    /\ now = 1 /\ moves = 0
    /\ pc = "envelope" /\ call = NoCall /\ seen = NotRead /\ reason = "none"

Answer(code) == reason' = code /\ pc' = "done"

\* go on unless a reason was found not to
Proceed(code, next) == IF code = "none" THEN pc' = next /\ UNCHANGED reason ELSE Answer(code)

Apply(rules, next) == Proceed(FirstBreach(rules), next)

ParseEnvelope ==
    /\ pc = "envelope"
    /\ Apply(EnvelopeRules(header), "dispatch")
    /\ UNCHANGED <<request, world, call, seen>>

Dispatch ==
    /\ pc = "dispatch"
    /\ Apply(DispatchRules, "decode")
    /\ UNCHANGED <<request, world, call, seen>>

Decoded(code, c) == call' = IF code = "none" THEN c ELSE NoCall

Decode ==
    /\ pc = "decode"
    /\ IF IsDebit
       THEN LET code == decode_debit(data)
            IN  /\ Proceed(IF code = "none" THEN check_signature_shape(DebitCall(data).signature) ELSE code,
                           "fields")
                /\ Decoded(code, DebitCall(data))
       ELSE Proceed(decode_expire(data), "fields") /\ Decoded(decode_expire(data), ExpireCall(data))
    /\ UNCHANGED <<request, world, seen>>

CheckFields ==
    /\ pc = "fields"
    /\ Apply(IF IsDebit THEN DebitRules(call) \o GasRules ELSE GasRules, "channel")
    /\ UNCHANGED <<request, world, call, seen>>

ReadChannel ==
    /\ pc = "channel"
    /\ seen' = get_channel(Words(chan))
    /\ IF IsDebit
       THEN Apply(ChannelRules(seen', call), "receipt")
       ELSE Apply(CollectRules(seen'), "estimate")
    /\ UNCHANGED <<request, world, call>>

ReadReceipt ==
    /\ pc = "receipt"
    /\ Apply(<< <<~collected, "receipt_already_used">> >>, "recover")
    /\ UNCHANGED <<request, world, call, seen>>

Recover ==
    /\ pc = "recover"
    /\ Apply(<< <<Recovers(debit_digest(seen, call), seen.depositor),
                  "signature_not_depositor">> >>, "estimate")
    /\ UNCHANGED <<request, world, call, seen>>

\* eth_estimateGas executes the call
Estimate ==
    /\ pc = "estimate"
    /\ Answer(IF Accepts THEN "admitted" ELSE "simulation_reverted")
    /\ UNCHANGED <<request, world, call, seen>>

\* an endpoint that does not answer
RpcDown ==
    /\ pc \in {"channel", "receipt", "estimate"}
    /\ Answer("rpc_unavailable")
    /\ UNCHANGED <<request, world, call, seen>>

\* from the first check that reads the clock on
Reading == pc \in {"fields", "channel", "receipt", "recover", "estimate"}

TimePasses ==
    /\ Reading
    /\ now < MaxTime
    /\ now' = now + 1
    /\ UNCHANGED <<request, chan, collected, moves, pc, call, seen, reason>>

\* somebody else's debit of the channel, this receipt perhaps, or its closing
ChainMoves ==
    /\ Reading
    /\ moves < MaxMoves
    /\ moves' = moves + 1
    /\ chan.depositor # Unbound /\ chan.status = 0
    /\ \/ /\ chan.balance > 0 /\ now <= DebitDeadline(chan)
          /\ chan' = [chan EXCEPT !.balance = @ - 1, !.used_amount = @ + 1, !.nonce = @ + 1, !.hub = Us]
          /\ chan.hub \in {Unbound, Us}
          /\ collected' \in {collected, TRUE}
       \/ chan' = [chan EXCEPT !.status = 1] /\ UNCHANGED collected
    /\ UNCHANGED <<request, now, pc, call, seen, reason>>

Next ==
    \/ ParseEnvelope \/ Dispatch \/ Decode \/ CheckFields
    \/ ReadChannel \/ ReadReceipt \/ Recover \/ Estimate \/ RpcDown
    \/ TimePasses \/ ChainMoves

Spec == Init /\ [][Next]_vars

-----------------------------------------------------------------------------

Forbidden == header.value # 0 \/ ~header.chain \/ ~header.escrow \/ ~Allowed

\* A well-formed request for another contract, chain, value or function always
\* ends in a reason code that raises the alarm, whatever else is wrong with it.
ForbiddenIsAlarmed ==
    (pc = "done" /\ header.shape /\ header.hex /\ header.gas > 0 /\ Forbidden)
        => reason \in AlarmCodes

\* The decoders return a call from its encoding and from no other string: not a
\* byte more or less, and nothing two decoders could read differently.
AcceptsExactlyEncodings ==
    /\ call # NoCall => data \in IF IsDebit THEN DebitEncodings ELSE ExpireEncodings
    /\ (header.hex /\ reason \in {"calldata_length", "calldata_noncanonical"})
           => data \notin DebitEncodings /\ data \notin ExpireEncodings

\* "Unreachable through the checks above": what was read always encodes to what
\* was given, so the assertion that compares them never speaks.
ReencodingMatches == reason # "reencode_mismatch"

Admits(d) == decode_debit(d) = "none" /\ check_signature_shape(DebitCall(d).signature) = "none"

\* One authorisation has one calldata: of a signature and its twin at most one gets
\* past the decoding, so a retry with the other one cannot pass as the same request.
OneCalldataPerAuthorisation ==
    (pc = "fields" /\ IsDebit) => \A d \in Twins(data) : ~Admits(d)

\* the chain has not moved since the request came in, and the clock not beyond
\* what the bands leave
StillAsRead == moves = 0 /\ (IsDebit => now <= call.deadline /\ now <= DebitDeadline(chan))

\* The checks anticipate the contract: a request that passed them all is one the
\* contract accepts, for both versions of the escrow, unless the chain or the
\* clock has moved meanwhile.  No gas estimate, reservation or nonce is spent on a
\* debit that was doomed when it was read.
ChecksAnticipateContract == (pc = "estimate" /\ StillAsRead) => Accepts

Passes(rules) == FirstBreach(rules) = "none"

\* At no moment does a channel admit both a debit and its expiry: the last second
\* of one and the first of the other do not meet, with or without a settle window.
DebitOrExpiry ==
    LET ch == get_channel(Words(chan))
    IN  \A amount \in Bytes :
            ~(Passes(ChannelRules(ch, [amount |-> amount])) /\ Passes(CollectRules(ch)))

\* What is admitted pays us, also when the chain moved between the reads: a debit
\* is of a receipt not yet collected, from a channel that no other hub is bound to,
\* and an expiry is of a channel bound to us that owes us something.
AdmittedPaysUs ==
    reason = "admitted" =>
        IF IsDebit
        THEN ~collected /\ chan.hub \in {Unbound, Us}
        ELSE chan.hub = Us /\ chan.used_amount > 0

=============================================================================
