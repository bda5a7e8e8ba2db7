------------------------------ MODULE FeeGuard ------------------------------
(***************************************************************************)
(* What the hot key may spend on gas in a day: the limits as they are read *)
(* from the environment (config.py), the quote of every transaction        *)
(* (policy.py) and the fee window of the books (ledger.py) against what    *)
(* the chain charges.  Module Ledger has the windows over time; here all   *)
(* rows fall into one day.                                                 *)
(*                                                                         *)
(* A raw value is [text, n]: "unset", "empty" (set to blanks),             *)
(* "unlimited", "junk" or "int" with its number.  The tx window stands for every window of Caps that is not  *)
(* the fee window; the other settings are text checks, left out.           *)
(***************************************************************************)
EXTENDS Integers, Sequences, FiniteSetsExt

CONSTANTS
    Raws,         \* values an operator may write for a limit
    Estimates,    \* answers of eth_estimateGas
    BaseFees,     \* base fees of blocks
    GasCap,       \* GAS_HARD_CAP
    MaxRows       \* bound: transactions of the day

ASSUME FeeConstants ==
    /\ Raws \subseteq [text : {"unset", "empty", "unlimited", "junk", "int"}, n : Int]
    /\ Estimates \subseteq Nat \ {0} /\ BaseFees \subseteq Nat
    /\ GasCap \in Nat /\ MaxRows \in Nat

VARIABLES
    env,       \* the limits as written
    status,    \* "off", "refused" (exit 2), "died" (an uncaught ValueError) or "serving"
    settings,  \* the limits in force; -1 is none
    rows,      \* the day's rows
    answer     \* the last answer

vars == <<env, status, settings, rows, answer>>

CapVars == {"priority_fee_wei", "max_fee_wei_ceiling", "fee_wei_24h", "tx_24h"}

\* the fields of Caps; the other two are settings of their own
Windows == {"fee_wei_24h", "tx_24h"}

-----------------------------------------------------------------------------

Refused == 0

\* Mutant: zero and negative values mean no limit.
CapZeroIsOff(raw) ==
    CASE raw.text \in {"unset", "empty", "junk"} -> Refused
      [] raw.text = "unlimited" \/ raw.n <= 0 -> -1
      [] OTHER -> raw.n

\* _cap: no value is a limit that was not written; 0 is a ConfigError here, as no
\* limit in force can be 0
Cap(raw) ==
    CASE raw.text \in {"unset", "empty", "junk"} -> Refused
      [] raw.text = "unlimited" -> -1
      [] raw.n <= 0 -> Refused
      [] OTHER -> raw.n

DefaultGasOnly == 24

\* SIGNER_MAX_GAS_ONLY_PER_24H is a plain int(): "unlimited" is a ValueError, and so
\* is a variable that is set and empty
GasOnlyRaises == env.max_gas_only.text \in {"empty", "unlimited", "junk"}

\* the default is for a variable that is not set at all
GasOnlyLimit == IF env.max_gas_only.text = "unset" THEN DefaultGasOnly ELSE env.max_gas_only.n

\* load, called by main: settings are built in the order of the variables, the
\* gas-only limit before the windows
Load ==
    /\ status = "off"
    /\ LET fees == {"priority_fee_wei", "max_fee_wei_ceiling"}
           bad(names) == \E v \in names : Cap(env[v]) = Refused
       IN  status' = CASE bad(fees) -> "refused"
                       [] ~bad(fees) /\ GasOnlyRaises -> "died"
                       [] ~bad(fees) /\ ~GasOnlyRaises /\ bad(Windows) -> "refused"
                       [] OTHER -> "serving"
    /\ settings' = IF status' = "serving"
                   THEN [v \in CapVars \cup {"max_gas_only"} |->
                           IF v \in CapVars THEN Cap(env[v]) ELSE GasOnlyLimit]
                   ELSE settings
    /\ UNCHANGED <<env, rows, answer>>

-----------------------------------------------------------------------------

Within(limit, total) == limit = -1 \/ total <= limit

\* 1.25 times the estimate, in integers
GasLimit(estimate) == Min({(estimate * 5) \div 4, GasCap})

MaxFee(base) == 2 * base + settings.priority_fee_wei

\* Mutant: the window counts the estimate, not the limit that is signed.
ReservedForEstimate(row) == row.estimate * row.max_fee

\* the ceiling a row authorises
Reserved(row) == row.gas * row.max_fee

\* spent where known, the ceiling otherwise
Exposure(row) == IF row.spent > 0 THEN row.spent ELSE Reserved(row)

\* the rows that were not released
Live == {i \in DOMAIN rows : rows[i].state # "dead"}

fee_wei_window == MapThenSumSet(LAMBDA i : Exposure(rows[i]), Live)

GasOnlyRows == {i \in Live : rows[i].gas_only}

Row(estimate, base, gas_only) ==
    [estimate |-> estimate, gas |-> GasLimit(estimate), max_fee |-> MaxFee(base),
     gas_only |-> gas_only, state |-> "live", charge |-> 0, ok |-> FALSE, spent |-> 0]

\* R18, R19 and the caps of reserve and reserve_gas_only, in order
Breach(row) ==
    CASE row.estimate > GasCap -> "gas_estimate_over_cap"
      [] row.max_fee > settings.max_fee_wei_ceiling -> "fee_ceiling"
      [] ~row.gas_only /\ ~Within(settings.tx_24h, Cardinality(Live) + 1) -> "cap_tx_24h"
      [] row.gas_only /\ ~Within(settings.max_gas_only, Cardinality(GasOnlyRows) + 1) -> "cap_gas_only_24h"
      [] ~Within(settings.fee_wei_24h, fee_wei_window + Reserved(row)) -> "cap_fee_wei_24h"
      [] OTHER -> "none"

\* the signing library encodes no negative number
Signable(row) == settings.priority_fee_wei >= 0 /\ row.max_fee >= 0

\* a debit, an expiry or a sweep, from its quote to the broadcast
Spend(estimate, base, gas_only) ==
    LET row    == Row(estimate, base, gas_only)
        breach == Breach(row)
    IN  /\ status = "serving"
        /\ Len(rows) < MaxRows
        /\ answer' = CASE breach # "none" -> breach
                       [] breach = "none" /\ ~Signable(row) -> "signing_failed"
                       [] OTHER -> "signed"
        /\ rows' = IF answer' = "signed" THEN Append(rows, row) ELSE rows
        /\ UNCHANGED <<env, status, settings>>

\* a block includes the call: EIP-1559 charges the base fee and the tip, up to the
\* fee that was signed, for any gas up to the limit, and also for a revert
Included(i, base, gas, ok) ==
    /\ rows[i].charge = 0
    /\ base <= rows[i].max_fee
    /\ gas <= rows[i].gas
    /\ LET price == Min({rows[i].max_fee, base + settings.priority_fee_wei})
       IN  rows' = [rows EXCEPT ![i].charge = gas * price, ![i].ok = ok]
    /\ UNCHANGED <<env, status, settings, answer>>

\* _reconcile and the sweep's settling read its receipt: mark_mined with the fee, or
\* mark_dead; a debit known only by its receipt id is mined without a fee
Reconciled(i, feeKnown) ==
    /\ rows[i].state = "live" /\ rows[i].charge > 0
    /\ rows' = [rows EXCEPT ![i].state = IF rows[i].ok THEN "mined" ELSE "dead",
                            ![i].spent = IF rows[i].ok /\ feeKnown THEN rows[i].charge ELSE 0]
    /\ UNCHANGED <<env, status, settings, answer>>

-----------------------------------------------------------------------------

Init ==
    /\ env \in [CapVars \cup {"max_gas_only"} -> Raws]
    /\ status = "off"
    /\ settings = [v \in {} |-> 0]
    /\ rows = <<>>
    /\ answer = "none"

Next ==
    \/ Load
    \/ \E estimate \in Estimates, base \in BaseFees, gas_only \in BOOLEAN :
           Spend(estimate, base, gas_only)
    \/ \E i \in DOMAIN rows : \E base \in BaseFees, gas \in 1..GasCap, ok \in BOOLEAN :
           Included(i, base, gas, ok)
    \/ \E i \in DOMAIN rows, feeKnown \in BOOLEAN : Reconciled(i, feeKnown)

Spec == Init /\ [][Next]_vars

-----------------------------------------------------------------------------

\* wei the chain has taken from the key for calls the books have not released
Paid == MapThenSumSet(LAMBDA i : rows[i].charge, Live)

\* The chain never takes more gas money from the key in a day than the figure the
\* operator wrote for it, whatever was quoted, however the base fee moves between
\* the quote and the block, and before or after the books learn the real fee.  The
\* gas of a call that reverted stops counting when its row is released.
PaidWithinFeeCap ==
    env.fee_wei_24h.text = "int" => Paid = 0 \/ Paid <= env.fee_wei_24h.n

=============================================================================
