----------------------------- MODULE ProviderConfig -----------------------------
(***************************************************************************)
(* The managed payOS credentials and the operations that use them.  An     *)
(* operation is admitted in a transaction that copies the configuration    *)
(* (pin) and leaves a lease in the database; it then talks to payOS and    *)
(* commits, one transaction each, as long as its lease and the gate allow. *)
(* Keys are changed only while no lease is live.  A process may die or be  *)
(* suspended for longer than its lease at any point.                       *)
(***************************************************************************)
EXTENDS DeploymentGate

CONSTANTS Ops,          \* the operations under way at the same time
          WorkerOps,    \* those that run in the worker; the others in gateways
          Duties,       \* the kinds of operation that each may be
          Drafts,       \* what owners may save: client, api, sum, enabled
          Blank,        \* a credential left empty
          LegacyClient, \* the channel of orders older than the configuration
          LegacySums,   \* the checksum keys that signed their callbacks
          FirstKeys,    \* the credentials that a configured system starts with
          Budget        \* bound on what owners, deployers and operators do

\* Operations: order (CreateOrder), confirm (ConfirmProviderWebhook), callback
\* (HandleWebhook) and reconcile (reconcileOrder, CancelOrder).
Kinds == {"order", "confirm", "callback", "reconcile"}

ASSUME WorkerOpsAssumption == WorkerOps \subseteq Ops
ASSUME DutiesAssumption ==
    /\ Duties \in [Ops -> SUBSET Kinds]
    /\ \A o \in WorkerOps : Duties[o] \subseteq {"reconcile"}

VARIABLES
    cfg,        \* payment_provider_config: revision, keys, enabled, confirmed
    versions,   \* payment_provider_credential_versions
    paused,     \* payment_provider_runtime.quiesced
    halted,     \* reconcile.quiesced of the worker
    ops,        \* the operations, each with its row of payment_provider_operations
    orders,     \* the keys under which payment_orders were reserved
    links,      \* history: the keys of all links that payOS was asked for; it
                \* may issue one from then on, however late, or never
    confirmed,  \* history: the keys whose webhook payOS confirmed
    budget

providerVars == <<cfg, versions, paused, halted, ops, orders, links, confirmed, budget>>

NoKeys == [client |-> Blank, api |-> Blank, sum |-> Blank]
NoOp   == [kind |-> "none", pc |-> "idle", rev |-> 0, keys |-> NoKeys,
           ready |-> FALSE, live |-> FALSE]

Unconfigured == [rev |-> 0, keys |-> NoKeys, enabled |-> FALSE, confirmed |-> FALSE]
Configured   == [rev |-> 1, keys |-> FirstKeys, enabled |-> TRUE, confirmed |-> TRUE]

\* Of the credentials of an earlier release only the channel is stored.
LegacyKeys == {[NoKeys EXCEPT !.client = LegacyClient, !.sum = s] : s \in LegacySums}

\* An upgrade finds no configuration, and orders with and without links.
ProviderInit ==
    /\ GateInit
    /\ paused = FALSE /\ halted = FALSE
    /\ ops = [o \in Ops |-> NoOp]
    /\ budget = Budget
    /\ \/ /\ cfg = Unconfigured /\ versions = {} /\ confirmed = {}
          /\ orders \in SUBSET LegacyKeys /\ links \in SUBSET orders
       \/ /\ cfg = Configured /\ confirmed = {FirstKeys}
          /\ orders = {} /\ links = {}
          /\ versions = {[rev |-> 1, keys |-> FirstKeys]}

Spend == budget > 0 /\ budget' = budget - 1

-----------------------------------------------------------------------------
(* Owners save.                                                            *)

\* Another client is refused once there is an order, unless it is the first
\* save and the orders are of that client.
ChannelFree(keys) ==
    \/ keys.client = cfg.keys.client
    \/ /\ cfg.keys = NoKeys
       /\ \A k \in orders : k.client = keys.client
    \/ orders = {}

Inherited(new, old, keys) == IF new = Blank /\ keys.client = cfg.keys.client
                             THEN old ELSE new

\* The keys that a draft stands for.
Merged(d) == [client |-> d.client, api |-> Inherited(d.api, cfg.keys.api, d),
              sum |-> Inherited(d.sum, cfg.keys.sum, d)]

Idle == \A o \in Ops : ~ops[o].live

KeptConfirmed(keys) == cfg.confirmed   \* faulty variant: new keys stay confirmed

StillConfirmed(keys) == cfg.confirmed /\ keys = cfg.keys

Unrecorded(keys) == versions   \* faulty variant: old keys are not kept

Recorded(keys) == IF keys = cfg.keys THEN versions
                  ELSE versions \cup {[rev |-> cfg.rev + 1, keys |-> keys]}

SavePaymentProviderConfig(d) ==
    LET keys == Merged(d)
    IN  /\ MutationAllowed
        /\ ChannelFree(keys)
        /\ Blank \notin {keys.client, keys.api, keys.sum}
        /\ keys # cfg.keys => Idle
        /\ cfg' = [rev |-> cfg.rev + 1, keys |-> keys, enabled |-> d.enabled,
                   confirmed |-> StillConfirmed(keys)]
        /\ versions' = Recorded(keys)
        /\ UNCHANGED <<gateVars, paused, halted, ops, orders, links, confirmed>>

\* The handler, behind SaveProviderConfig; the reconciler that it wakes may
\* begin at any time as it is.
savePaymentProviderConfig(d) == Spend /\ SavePaymentProviderConfig(d)

-----------------------------------------------------------------------------
(* Operations.                                                             *)

Become(o, pc) == ops' = [ops EXCEPT ![o].pc = pc]

\* Nothing but the operations changes.
OpsOnly == UNCHANGED <<gateVars, cfg, versions, paused, halted, orders, links,
                       confirmed, budget>>

AnyTime(o) == MutationAllowed   \* faulty variant: the lease is not looked at

\* checkMutationAllowedTx and CheckMutationAllowed with o's token.
OperationAllowed(o) == ops[o].live /\ MutationAllowed

BeginPaymentProviderOperation ==
    /\ MutationAllowed
    /\ ~paused
    /\ cfg.keys.client # Blank

\* Config().Ready of a snapshot: READY, not DISABLED or WEBHOOK_UNCONFIRMED.
Ready == cfg.enabled /\ cfg.confirmed

\* The service holds the configuration as it was in the transaction.
snapshot(kind) ==
    [kind |-> kind, pc |-> "pinned", rev |-> cfg.rev, keys |-> cfg.keys,
     ready |-> Ready, live |-> TRUE]

pin(o, kind) ==
    /\ ops[o].pc = "idle"
    /\ kind \in Duties[o]
    /\ BeginPaymentProviderOperation
    /\ ops' = [ops EXCEPT ![o] = snapshot(kind)]
    /\ OpsOnly

\* verifyWebhook: the pinned key, and those that the channel had before.
VerificationSums(keys, rev) ==
    {keys.sum} \cup {v.keys.sum : v \in {w \in versions :
                        w.rev < rev /\ w.keys.client = keys.client}}

\* What precedes beginPaymentRequest.
MayRequest(o) ==
    CASE ops[o].kind = "order"    -> ops[o].ready
      [] ops[o].kind = "callback" ->
            \E k \in links : k.sum \in VerificationSums(ops[o].keys, ops[o].rev)
      [] OTHER -> TRUE

beginPaymentRequest(o) ==
    /\ ops[o].pc = "pinned"
    /\ MayRequest(o)
    /\ ~(o \in WorkerOps /\ halted)
    /\ OperationAllowed(o)
    /\ Become(o, "admitted")
    /\ OpsOnly

ReservePaymentOrder(o) ==
    /\ ops[o].pc = "admitted" /\ ops[o].kind = "order"
    /\ OperationAllowed(o)
    /\ Become(o, "reserved")
    /\ orders' = orders \cup {ops[o].keys}
    /\ UNCHANGED <<gateVars, cfg, versions, paused, halted, links, confirmed, budget>>

\* recoverCreate, after the Get: an order of the channel without a usable link
\* is asked for again, under the keys of this operation, confirmed or not.
RenewPaymentOrderOperation(o) ==
    /\ ops[o].pc = "asked" /\ ops[o].kind = "reconcile"
    /\ OperationAllowed(o)
    /\ \E k \in orders : k.client = ops[o].keys.client
    /\ Become(o, "reserved")
    /\ OpsOnly

\* CreateOrder and recoverCreate ask for a link.  payOS may do it when the
\* request has timed out, the operation has ended and its process is dead.
Create(o) ==
    /\ ops[o].pc = "reserved"
    /\ links' = links \cup {ops[o].keys}
    /\ Become(o, "asked")
    /\ UNCHANGED <<gateVars, cfg, versions, paused, halted, orders, confirmed, budget>>

\* payOS calls the webhook with a sample and confirms its address.
Confirm(o) ==
    /\ ops[o].pc = "admitted" /\ ops[o].kind = "confirm"
    /\ confirmed' = confirmed \cup {ops[o].keys}
    /\ Become(o, "asked")
    /\ UNCHANGED <<gateVars, cfg, versions, paused, halted, orders, links, budget>>

\* providerSlot and the Get, and again for each further request: a transaction,
\* a wait and a second look.
PaymentProviderRequestSlot(o) ==
    /\ ops[o].pc \in {"admitted", "asked"} /\ ops[o].kind = "reconcile"
    /\ OperationAllowed(o)
    /\ ~paused
    /\ Become(o, "slot")
    /\ OpsOnly

providerSlot(o) ==
    /\ ops[o].pc = "slot"
    /\ OperationAllowed(o)
    /\ Become(o, "asked")
    /\ OpsOnly

\* CompletePaymentOrderOperation and SettlePayment: the money is written.
CommitOutcome(o) ==
    /\ \/ ops[o].pc = "asked" /\ ops[o].kind \in {"order", "reconcile"}
       \/ ops[o].pc = "admitted" /\ ops[o].kind = "callback"
    /\ OperationAllowed(o)
    /\ Become(o, "done")
    /\ OpsOnly

ConfirmPaymentProviderWebhook(o) ==
    /\ ops[o].pc = "asked" /\ ops[o].kind = "confirm"
    /\ OperationAllowed(o)
    /\ cfg.rev = ops[o].rev
    /\ cfg' = [cfg EXCEPT !.confirmed = TRUE]
    /\ Become(o, "done")
    /\ UNCHANGED <<gateVars, versions, paused, halted, orders, links, confirmed, budget>>

\* The operation is over and leaves its row.
Dead(op) == IF op.live THEN [NoOp EXCEPT !.pc = "dead", !.live = TRUE] ELSE NoOp

\* EndPaymentProviderOperation, after success, an error or a cancelled context;
\* its own failure is ignored.
EndOperation(o) ==
    /\ ops[o].pc \notin {"idle", "dead"}
    /\ ops' \in {[ops EXCEPT ![o] = NoOp], [ops EXCEPT ![o] = Dead(@)]}
    /\ OpsOnly

\* No renewal in time, or the process is dead: the lease ends, and
\* RenewPaymentProviderOperation does not bring it back.
LeaseLapses(o) ==
    /\ ops[o].live
    /\ ops' = [ops EXCEPT ![o] = IF @.pc = "dead" THEN NoOp ELSE [@ EXCEPT !.live = FALSE]]
    /\ OpsOnly

GatewayDies ==
    /\ Spend
    /\ ops' = [o \in Ops |-> IF o \in WorkerOps THEN ops[o] ELSE Dead(ops[o])]
    /\ UNCHANGED <<gateVars, cfg, versions, paused, halted, orders, links, confirmed>>

Operation(o) ==
    \/ \E kind \in Kinds : pin(o, kind)
    \/ beginPaymentRequest(o) \/ ReservePaymentOrder(o) \/ Create(o) \/ Confirm(o)
    \/ PaymentProviderRequestSlot(o) \/ providerSlot(o)
    \/ RenewPaymentOrderOperation(o) \/ CommitOutcome(o)
    \/ ConfirmPaymentProviderWebhook(o) \/ EndOperation(o) \/ LeaseLapses(o)

Deployer(d) ==
    /\ \/ Spend /\ AcquireMutationGate(d)
       \/ /\ \/ \E t \in {0, lease[d]} : ReleaseMutationGate(d, t)
             \/ RenewMutationGate(d)
          /\ UNCHANGED budget
    /\ UNCHANGED <<cfg, versions, paused, halted, ops, orders, links, confirmed>>

Gate == (ForceUnlockMutationGate \/ LeaseRunsOut) /\ UNCHANGED providerVars

ProviderNext ==
    \/ \E d \in Drafts : savePaymentProviderConfig(d)
    \/ \E o \in Ops : Operation(o)
    \/ \E d \in Deployers : Deployer(d)
    \/ Gate \/ GatewayDies

-----------------------------------------------------------------------------
(* Properties.                                                             *)

Commits(o) == ops[o].pc # ops'[o].pc /\ ops'[o].pc \in {"reserved", "done"}

(* Whatever an operation commits, it commits under the keys in force at    *)
(* that moment, although it copied them long before and owners save and    *)
(* processes are suspended in between; and never while a deployer's lease  *)
(* is live (checkMutationAllowedTx, SavePaymentProviderConfig).            *)
CommitsCovered ==
    [][\A o \in Ops : Commits(o) => ops[o].keys = cfg.keys /\ MutationAllowed]_ops

(* A configuration that says its webhook is confirmed has keys that payOS  *)
(* confirmed, and orders are reserved under confirmed keys only            *)
(* (ConfirmProviderWebhook, CreateOrder).  It says nothing of links: the   *)
(* recovery of an order may ask for one under keys saved since.            *)
ConfirmedByPayOS ==
    /\ cfg.confirmed => cfg.keys \in confirmed
    /\ orders \ LegacyKeys \subseteq confirmed

\* Some version has the channel and the checksum key of k.
Named(k) == \E v \in versions : v.keys.client = k.client /\ v.keys.sum = k.sum

(* Every order belongs to the channel that is configured, and the callbacks*)
(* of every link are accepted under the configuration in force and by every*)
(* operation that may still commit, whether CreateOrder or the recovery    *)
(* asked for it, and however late payOS issues it.  The exception are links*)
(* older than the configuration, until an owner has saved their checksum   *)
(* key once (verifyWebhook, SavePaymentProviderConfig).                    *)
CallbacksVerifiable ==
    /\ cfg # Unconfigured => \A k \in orders : k.client = cfg.keys.client
    /\ \A k \in links : k \notin LegacyKeys \/ Named(k) =>
         /\ k.sum \in VerificationSums(cfg.keys, cfg.rev)
         /\ \A o \in Ops : ops[o].live /\ ops[o].pc # "dead"
              => k.sum \in VerificationSums(ops[o].keys, ops[o].rev)
=============================================================================
