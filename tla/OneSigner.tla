------------------------------ MODULE OneSigner ------------------------------
(***************************************************************************)
(* "One signature and account-nonce allocation at a time remains a hard    *)
(* invariant" (the docstring of escrow_signer/server.py).  PolicySigner is *)
(* written for such a world: it has one control state for all requests and *)
(* sweeps.                                                                 *)
(***************************************************************************)
CONSTANT Actors

VARIABLE inside \* who runs handle or sweep_proceeds

SInit == inside = {}

Enter(a) == inside = {} /\ inside' = {a}

Leave(a) == a \in inside /\ inside' = inside \ {a}

SNext == \E a \in Actors : Enter(a) \/ Leave(a)

SSafe == SInit /\ [][SNext]_inside

\* whoever is inside leaves again
SSpec == SSafe /\ WF_inside(\E a \in Actors : Leave(a))

=============================================================================
