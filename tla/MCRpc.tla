-------------------------------- MODULE MCRpc --------------------------------
(***************************************************************************)
(* Two receipts of debits and one sweep, over four endpoints.              *)
(***************************************************************************)
EXTENDS RpcPool

CONSTANTS r1, r2, sweep, none

World(version, working, faults) == [version |-> version, working |-> working, faults |-> faults]

\* one endpoint that works, the last to be tried, or none; an empty answer from a
\* V1 escrow's endpoint is left out, since it is read as a number
MCWorlds ==
    {World(v, {Endpoints}, {"failed"}) : v \in {1, 2}}
    \cup {World(1, {}, {"failed", "revert"}), World(2, {}, {"failed", "revert", "empty"})}

=============================================================================
