----------------------------- MODULE DeploymentGate -----------------------------
(***************************************************************************)
(* The mutation gate, one row of deployment_control.  A deployer that holds*)
(* its lease keeps every other process from committing; a lease that ran   *)
(* out keeps nobody out but stays in the row.  Every operation is one      *)
(* serialised transaction.  A lease token is the fence generation it was   *)
(* issued with: both are new with every acquisition.                       *)
(***************************************************************************)
EXTENDS Naturals

CONSTANTS Deployers,   \* processes with an owner name of their own
          NoDeployer

VARIABLES gate,        \* the row
          lease        \* the last token of each deployer, 0 for none

gateVars == <<gate, lease>>

Released(fence) == [state |-> "OPEN", owner |-> NoDeployer, token |-> 0,
                    live |-> FALSE, fence |-> fence]

GateInit == gate = Released(0) /\ lease = [d \in Deployers |-> 0]

\* checkMutationAllowedTx, without the operation that the context carries.
MutationAllowed == ~(gate.state = "LOCKED" /\ gate.live)

AcquireMutationGate(d) ==
    /\ MutationAllowed \/ gate.owner = d
    /\ gate' = [state |-> "LOCKED", owner |-> d, token |-> gate.fence + 1,
                live |-> TRUE, fence |-> gate.fence + 1]
    /\ lease' = [lease EXCEPT ![d] = gate.fence + 1]

\* A deployer gives its token or none; anybody may release what ran out.
ReleaseMutationGate(d, token) ==
    /\ gate.state = "LOCKED"
    /\ \/ gate.owner = d /\ token \in {0, gate.token}
       \/ ~gate.live
    /\ gate' = Released(gate.fence + 1)
    /\ UNCHANGED lease

\* Does not look at the expiry: a lease that ran out is taken up again as long
\* as nobody else acquired or released the gate.
RenewMutationGate(d) ==
    /\ gate.state = "LOCKED" /\ gate.owner = d /\ gate.token = lease[d]
    /\ gate' = [gate EXCEPT !.live = TRUE]
    /\ UNCHANGED lease

ForceUnlockMutationGate ==
    /\ gate.state = "LOCKED"
    /\ gate' = Released(gate.fence + 1)
    /\ UNCHANGED lease

LeaseRunsOut ==
    /\ gate.state = "LOCKED" /\ gate.live
    /\ gate' = [gate EXCEPT !.live = FALSE]
    /\ UNCHANGED lease
=============================================================================
