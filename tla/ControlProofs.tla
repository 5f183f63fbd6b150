----------------------------- MODULE ControlProofs -----------------------------
(***************************************************************************)
(* For any operations, deployers, callers, drafts and budget: operations   *)
(* commit under the keys in force, confirmed means confirmed by payOS, and *)
(* no save makes callbacks unverifiable.  Nothing is assumed of the keys   *)
(* that owners may save.                                                   *)
(***************************************************************************)
EXTENDS WorkerLifecycle, TLAPS

-----------------------------------------------------------------------------
(* The inductive invariant.                                                *)

IsOp(r) == /\ r = [kind |-> r.kind, pc |-> r.pc, rev |-> r.rev, keys |-> r.keys,
                   ready |-> r.ready, live |-> r.live]
           /\ r.live \in BOOLEAN

Shaped == /\ ops = [o \in Ops |-> ops[o]]
          /\ \A o \in Ops : IsOp(ops[o])
          /\ cfg = [rev |-> cfg.rev, keys |-> cfg.keys, enabled |-> cfg.enabled,
                    confirmed |-> cfg.confirmed]
          /\ cfg.rev \in Nat

Working(op) == op.pc \notin {"idle", "dead"}

\* Keys change only while no lease is live.
LeaseHoldsKeys == \A o \in Ops : ops[o].live /\ Working(ops[o]) => ops[o].keys = cfg.keys

\* What an operation has passed so far.
OpConfirmed(op) ==
    /\ op.ready => op.keys \in confirmed
    /\ op.kind = "order" /\ op.pc \notin {"idle", "pinned", "dead"} => op.ready
    /\ op.kind = "confirm" /\ op.pc \in {"asked", "done"} => op.keys \in confirmed
    /\ op.pc = "reserved" => op.kind # "confirm"
    /\ op.pc = "slot" => op.kind = "reconcile"

OpsConfirmed == \A o \in Ops : OpConfirmed(ops[o])

Covered == Shaped /\ LeaseHoldsKeys /\ OpsConfirmed /\ ConfirmedByPayOS

\* No later keys than the present ones had been recorded at revision r.
Fresh(r) == /\ r \in Nat
            /\ \A v \in versions : v.rev <= r /\ (v.rev = r => v.keys = cfg.keys)

Kept(k) == k = cfg.keys \/ \E v \in versions : v.keys = k /\ v.rev < cfg.rev

VersionsKept == /\ Fresh(cfg.rev)
                /\ \A v \in versions : v.rev \in Nat
                /\ cfg.rev # 0 => \E v \in versions : v.keys = cfg.keys
                /\ cfg.rev = 0 => cfg = Unconfigured /\ versions = {}

\* There is an order of the channel of k.
Ordered(k) == \E j \in orders : j.client = k.client

OpKept(op) ==
    /\ op.pc = "idle" => ~op.live
    /\ Working(op) => /\ cfg.rev # 0
                      /\ Kept(op.keys)
                      /\ op.pc = "reserved" => Ordered(op.keys)
                      /\ op.live => Fresh(op.rev)

LinksKept == \A k \in links : /\ Ordered(k)
                              /\ k \in LegacyKeys \/ (cfg.rev # 0 /\ Kept(k))

Channel == cfg.rev # 0 => \A k \in orders : k.client = cfg.keys.client

Verifiable == /\ VersionsKept /\ LinksKept /\ Channel
              /\ \A o \in Ops : OpKept(ops[o])

-----------------------------------------------------------------------------
(* Operations move one at a time.                                          *)

LEMMA NoOpShape ==
  /\ IsOp(NoOp) /\ ~NoOp.live /\ ~Working(NoOp) /\ NoOp.pc = "idle"
  /\ ~NoOp.ready /\ NoOp.kind = "none"
  BY DEF NoOp, IsOp, Working

LEMMA MovedOp ==
  ASSUME NEW r, IsOp(r), NEW pc
  PROVE  LET m == [r EXCEPT !.pc = pc]
         IN  /\ IsOp(m) /\ m.pc = pc /\ m.kind = r.kind /\ m.rev = r.rev
             /\ m.keys = r.keys /\ m.ready = r.ready /\ m.live = r.live
  BY DEF IsOp

LEMMA LapsedOp ==
  ASSUME NEW r, IsOp(r), NEW b, b \in BOOLEAN
  PROVE  LET m == [r EXCEPT !.live = b]
         IN  /\ IsOp(m) /\ m.pc = r.pc /\ m.kind = r.kind /\ m.rev = r.rev
             /\ m.keys = r.keys /\ m.ready = r.ready /\ m.live = b
  BY DEF IsOp

LEMMA DeadOp ==
  ASSUME NEW r
  PROVE  /\ IsOp(Dead(r)) /\ ~Working(Dead(r)) /\ Dead(r).pc \in {"idle", "dead"}
         /\ ~Dead(r).ready /\ Dead(r).kind = "none"
  BY DEF Dead, NoOp, IsOp, Working

\* An operation that ended, or whose lease did, kept what it copied.
Ended(old, new) ==
    \/ ~Working(new) /\ ~new.ready /\ new.kind = "none"
    \/ /\ new.pc = old.pc /\ new.kind = old.kind /\ new.rev = old.rev
       /\ new.keys = old.keys /\ new.ready = old.ready /\ (new.live => old.live)

\* Every step leaves all operations but one as they are or ends them.
LEMMA OneOp ==
  ASSUME Shaped, NEW o \in Ops, NEW r, IsOp(r), ops' = [ops EXCEPT ![o] = r]
  PROVE  /\ ops' = [x \in Ops |-> ops'[x]]
         /\ \A x \in Ops : IsOp(ops'[x])
         /\ ops'[o] = r
         /\ \A x \in Ops \ {o} : ops'[x] = ops[x]
  BY DEF Shaped

LEMMA MoveStep ==
  ASSUME Shaped, NEW o \in Ops, NEW pc, Become(o, pc)
  PROVE  /\ ops' = [x \in Ops |-> ops'[x]]
         /\ \A x \in Ops : IsOp(ops'[x])
         /\ \A x \in Ops \ {o} : ops'[x] = ops[x]
         /\ ops'[o].pc = pc /\ ops'[o].kind = ops[o].kind /\ ops'[o].rev = ops[o].rev
         /\ ops'[o].keys = ops[o].keys /\ ops'[o].ready = ops[o].ready
         /\ ops'[o].live = ops[o].live
  <1> DEFINE r == [ops[o] EXCEPT !.pc = pc]
  <1>1. IsOp(ops[o])
    BY DEF Shaped
  <1>2. /\ IsOp(r) /\ r.pc = pc /\ r.kind = ops[o].kind /\ r.rev = ops[o].rev
        /\ r.keys = ops[o].keys /\ r.ready = ops[o].ready /\ r.live = ops[o].live
    BY <1>1, MovedOp
  <1>3. ops' = [ops EXCEPT ![o] = r]
    BY DEF Become, Shaped
  <1> HIDE DEF r
  <1> QED BY <1>2, <1>3, OneOp

-----------------------------------------------------------------------------
(* Every step preserves Covered.                                           *)

\* Steps that end operations or leave them alone.
LEMMA EndedKeeps ==
  ASSUME Covered, UNCHANGED <<cfg, orders, confirmed>>,
         ops' = [x \in Ops |-> ops'[x]],
         \A x \in Ops : IsOp(ops'[x]) /\ Ended(ops[x], ops'[x])
  PROVE  Covered'
  <1>1. Shaped'
    BY DEF Covered, Shaped
  <1>2. LeaseHoldsKeys'
    BY DEF Covered, LeaseHoldsKeys, Ended, Working
  <1>3. OpsConfirmed'
    BY DEF Covered, OpsConfirmed, OpConfirmed, Ended, Working
  <1>4. ConfirmedByPayOS'
    BY DEF Covered, ConfirmedByPayOS
  <1> QED BY <1>1, <1>2, <1>3, <1>4 DEF Covered

LEMMA SameOpsKeep ==
  ASSUME Covered, UNCHANGED <<cfg, orders, confirmed, ops>>
  PROVE  Covered'
  BY EndedKeeps DEF Covered, Shaped, Ended

\* One operation moves on with what it copied.
LEMMA MoveKeeps ==
  ASSUME Covered, UNCHANGED cfg, NEW o \in Ops, NEW pc, Become(o, pc),
         Working(ops[o]),
         confirmed \subseteq confirmed',
         orders' \subseteq orders \cup confirmed',
         ops[o].kind = "order" /\ pc \notin {"idle", "pinned", "dead"} => ops[o].ready,
         ops[o].kind = "confirm" /\ pc \in {"asked", "done"} => ops[o].keys \in confirmed',
         pc = "reserved" => ops[o].kind # "confirm",
         pc = "slot" => ops[o].kind = "reconcile"
  PROVE  Covered'
  <1>0. Shaped
    BY DEF Covered
  <1>1. /\ ops' = [x \in Ops |-> ops'[x]]
        /\ \A x \in Ops : IsOp(ops'[x])
        /\ \A x \in Ops \ {o} : ops'[x] = ops[x]
        /\ ops'[o].pc = pc /\ ops'[o].kind = ops[o].kind
        /\ ops'[o].keys = ops[o].keys /\ ops'[o].ready = ops[o].ready
        /\ ops'[o].live = ops[o].live
    BY <1>0, MoveStep
  <1>2. Shaped'
    BY <1>1 DEF Covered, Shaped
  <1>3. LeaseHoldsKeys'
    BY <1>1 DEF Covered, LeaseHoldsKeys, Working
  <1>4. OpConfirmed(ops[o]) /\ \A x \in Ops : OpConfirmed(ops[x])
    BY DEF Covered, OpsConfirmed
  <1>5. OpConfirmed(ops[o])'
    BY <1>1, <1>4 DEF OpConfirmed
  <1>6. \A x \in Ops \ {o} : OpConfirmed(ops[x])'
    BY <1>1, <1>4 DEF OpConfirmed
  <1>7. OpsConfirmed'
    BY <1>5, <1>6 DEF OpsConfirmed
  <1>8. ConfirmedByPayOS'
    BY DEF Covered, ConfirmedByPayOS
  <1> QED BY <1>2, <1>3, <1>7, <1>8 DEF Covered

LEMMA PinKeeps ==
  ASSUME Covered, NEW o \in Ops, NEW kind, pin(o, kind)
  PROVE  Covered'
  <1> DEFINE r == snapshot(kind)
  <1>1. /\ IsOp(r) /\ r.pc = "pinned" /\ r.kind = kind /\ r.keys = cfg.keys
        /\ r.ready = Ready /\ r.live = TRUE
    BY DEF snapshot, IsOp
  <1>2. ops' = [ops EXCEPT ![o] = r] /\ UNCHANGED <<cfg, orders, confirmed>>
    BY DEF pin, OpsOnly
  <1>3. Ready => cfg.keys \in confirmed
    BY DEF Ready, Covered, ConfirmedByPayOS
  <1> HIDE DEF r
  <1>4. /\ ops' = [x \in Ops |-> ops'[x]]
        /\ \A x \in Ops : IsOp(ops'[x])
        /\ ops'[o] = r
        /\ \A x \in Ops \ {o} : ops'[x] = ops[x]
    BY <1>1, <1>2, OneOp DEF Covered
  <1>5. Shaped'
    BY <1>2, <1>4 DEF Covered, Shaped
  <1>6. LeaseHoldsKeys'
    BY <1>1, <1>2, <1>4 DEF Covered, LeaseHoldsKeys, Working
  <1>7. OpConfirmed(ops[o])'
    BY <1>1, <1>2, <1>3, <1>4 DEF OpConfirmed
  <1>8. OpsConfirmed'
    BY <1>2, <1>4, <1>7 DEF Covered, OpsConfirmed, OpConfirmed
  <1>9. ConfirmedByPayOS'
    BY <1>2 DEF Covered, ConfirmedByPayOS
  <1> QED BY <1>5, <1>6, <1>8, <1>9 DEF Covered

LEMMA ConfirmKeeps ==
  ASSUME Covered, NEW o \in Ops, ConfirmPaymentProviderWebhook(o)
  PROVE  Covered'
  <1>1. /\ Shaped /\ ops[o].live /\ Working(ops[o]) /\ ops[o].keys = cfg.keys
        /\ ops[o].keys \in confirmed
    BY DEF Covered, ConfirmPaymentProviderWebhook, OperationAllowed, LeaseHoldsKeys,
       OpsConfirmed, OpConfirmed, Working
  <1>2. cfg' = [cfg EXCEPT !.confirmed = TRUE] /\ UNCHANGED <<orders, confirmed>>
    BY DEF ConfirmPaymentProviderWebhook
  <1>3. /\ cfg' = [rev |-> cfg.rev, keys |-> cfg.keys, enabled |-> cfg.enabled,
                   confirmed |-> TRUE]
    BY <1>1, <1>2 DEF Shaped
  <1>4. cfg'.rev = cfg.rev /\ cfg'.keys = cfg.keys /\ cfg'.enabled = cfg.enabled
        /\ cfg'.confirmed = TRUE
    BY <1>3
  <1>5. /\ ops' = [x \in Ops |-> ops'[x]]
        /\ \A x \in Ops : IsOp(ops'[x])
        /\ \A x \in Ops \ {o} : ops'[x] = ops[x]
        /\ ops'[o].pc = "done" /\ ops'[o].kind = ops[o].kind
        /\ ops'[o].keys = ops[o].keys /\ ops'[o].ready = ops[o].ready
        /\ ops'[o].live = ops[o].live
    BY <1>1, MoveStep DEF ConfirmPaymentProviderWebhook
  <1>6. Shaped'
    BY <1>1, <1>3, <1>4, <1>5 DEF Shaped
  <1>7. LeaseHoldsKeys'
    BY <1>1, <1>4, <1>5 DEF Covered, LeaseHoldsKeys, Working
  <1>8. OpConfirmed(ops[o])'
    BY <1>1, <1>2, <1>5 DEF Covered, OpsConfirmed, OpConfirmed, Working, ConfirmPaymentProviderWebhook
  <1>9. OpsConfirmed'
    BY <1>2, <1>5, <1>8 DEF Covered, OpsConfirmed, OpConfirmed
  <1>10. ConfirmedByPayOS'
    BY <1>1, <1>2, <1>4 DEF Covered, ConfirmedByPayOS
  <1> QED BY <1>6, <1>7, <1>9, <1>10 DEF Covered

LEMMA SaveKeeps ==
  ASSUME Covered, NEW d, SavePaymentProviderConfig(d)
  PROVE  Covered'
  <1> DEFINE keys == Merged(d)
  <1>1. /\ keys # cfg.keys => Idle
        /\ cfg' = [rev |-> cfg.rev + 1, keys |-> keys, enabled |-> d.enabled,
                   confirmed |-> StillConfirmed(keys)]
        /\ UNCHANGED <<ops, orders, confirmed>>
    BY DEF SavePaymentProviderConfig
  <1> HIDE DEF keys
  <1>2. cfg'.rev = cfg.rev + 1 /\ cfg'.keys = keys /\ cfg'.enabled = d.enabled
        /\ cfg'.confirmed = StillConfirmed(keys)
    BY <1>1
  <1>3. Shaped'
    BY <1>1, <1>2 DEF Covered, Shaped
  <1>4. LeaseHoldsKeys'
    BY <1>1, <1>2 DEF Covered, LeaseHoldsKeys, Idle
  <1>5. OpsConfirmed'
    BY <1>1 DEF Covered, OpsConfirmed, OpConfirmed
  <1>6. StillConfirmed(keys) => keys \in confirmed
    BY DEF StillConfirmed, Covered, ConfirmedByPayOS
  <1>7. ConfirmedByPayOS'
    BY <1>1, <1>2, <1>6 DEF Covered, ConfirmedByPayOS
  <1> QED BY <1>3, <1>4, <1>5, <1>7 DEF Covered

LEMMA EndKeeps ==
  ASSUME Covered, NEW o \in Ops, EndOperation(o) \/ LeaseLapses(o)
  PROVE  Covered'
  <1>1. Shaped /\ IsOp(ops[o]) /\ UNCHANGED <<cfg, orders, confirmed>>
    BY DEF Covered, Shaped, EndOperation, LeaseLapses, OpsOnly
  <1>2. PICK r \in {NoOp, Dead(ops[o]), [ops[o] EXCEPT !.live = FALSE]} :
          ops' = [ops EXCEPT ![o] = r]
    <2>1. CASE EndOperation(o)
      BY <1>1, <2>1 DEF EndOperation, Shaped
    <2>2. CASE LeaseLapses(o)
      BY <1>1, <2>2 DEF LeaseLapses, Shaped
    <2> QED BY <2>1, <2>2
  <1>3. IsOp(r) /\ Ended(ops[o], r)
    <2>1. CASE r = [ops[o] EXCEPT !.live = FALSE]
      BY <1>1, <2>1, LapsedOp DEF Ended
    <2> QED BY <1>2, <2>1, NoOpShape, DeadOp DEF Ended
  <1>4. /\ ops' = [x \in Ops |-> ops'[x]]
        /\ \A x \in Ops : IsOp(ops'[x])
        /\ ops'[o] = r
        /\ \A x \in Ops \ {o} : ops'[x] = ops[x]
    BY <1>1, <1>2, <1>3, OneOp
  <1>5. \A x \in Ops : Ended(ops[x], ops'[x])
    BY <1>3, <1>4 DEF Ended
  <1> QED BY <1>1, <1>4, <1>5, EndedKeeps

\* The steps of an operation on its way.
Moving(o) ==
    \/ beginPaymentRequest(o) \/ ReservePaymentOrder(o) \/ Create(o) \/ Confirm(o)
    \/ PaymentProviderRequestSlot(o) \/ providerSlot(o)
    \/ RenewPaymentOrderOperation(o) \/ CommitOutcome(o)

LEMMA MovingKeeps ==
  ASSUME Covered, NEW o \in Ops, Moving(o)
  PROVE  Covered'
  <1>1. OpConfirmed(ops[o])
    BY DEF Covered, OpsConfirmed
  <1>2. CASE beginPaymentRequest(o)
    <2>1. ops[o].kind = "order" => ops[o].ready
      BY <1>2 DEF beginPaymentRequest, MayRequest
    <2> QED BY <1>2, <2>1, MoveKeeps DEF beginPaymentRequest, OpsOnly, Working
  <1>3. CASE ReservePaymentOrder(o)
    BY <1>1, <1>3, MoveKeeps DEF ReservePaymentOrder, OpConfirmed, Working
  <1>4. CASE Create(o)
    BY <1>1, <1>4, MoveKeeps DEF Create, OpConfirmed, Working
  <1>5. CASE Confirm(o)
    BY <1>1, <1>5, MoveKeeps DEF Confirm, OpConfirmed, Working
  <1>6. CASE PaymentProviderRequestSlot(o)
    BY <1>1, <1>6, MoveKeeps DEF PaymentProviderRequestSlot, OpsOnly, Working
  <1>7. CASE providerSlot(o)
    BY <1>1, <1>7, MoveKeeps DEF providerSlot, OpsOnly, OpConfirmed, Working
  <1>8. CASE CommitOutcome(o)
    BY <1>1, <1>8, MoveKeeps DEF CommitOutcome, OpsOnly, OpConfirmed, Working
  <1>9. CASE RenewPaymentOrderOperation(o)
    BY <1>1, <1>9, MoveKeeps DEF RenewPaymentOrderOperation, OpsOnly, OpConfirmed, Working
  <1> QED BY <1>2, <1>3, <1>4, <1>5, <1>6, <1>7, <1>8, <1>9 DEF Moving

\* A process that dies ends its operations.
LEMMA DeathKeeps ==
  ASSUME Covered, UNCHANGED <<cfg, orders, confirmed>>, NEW S,
         ops' = [o \in Ops |-> IF o \in S THEN Dead(ops[o]) ELSE ops[o]]
  PROVE  Covered'
  <1>1. \A x \in Ops : IsOp(ops'[x]) /\ Ended(ops[x], ops'[x])
    BY DeadOp DEF Covered, Shaped, Ended
  <1> QED BY <1>1, EndedKeeps

LEMMA ProviderKeeps ==
  ASSUME Covered, ProviderNext
  PROVE  Covered'
  <1>1. CASE \E d \in Drafts : savePaymentProviderConfig(d)
    BY <1>1, SaveKeeps DEF savePaymentProviderConfig
  <1>2. CASE \E o \in Ops : Operation(o)
    BY <1>2, PinKeeps, MovingKeeps, ConfirmKeeps, EndKeeps DEF Operation, Moving
  <1>3. CASE (\E d \in Deployers : Deployer(d)) \/ Gate
    BY <1>3, SameOpsKeep DEF Deployer, Gate, providerVars
  <1>4. CASE GatewayDies
    <2>1. ops' = [o \in Ops |-> IF o \in Ops \ WorkerOps THEN Dead(ops[o]) ELSE ops[o]]
      BY <1>4 DEF GatewayDies
    <2> QED BY <1>4, <2>1, DeathKeeps DEF GatewayDies
  <1> QED BY <1>1, <1>2, <1>3, <1>4 DEF ProviderNext

\* The calls and the life of the worker touch operations only when it ends.
LEMMA WorkerSteps ==
  ASSUME Next, ~(ProviderNext /\ WorkerOpsStop /\ UNCHANGED workerVars)
  PROVE  UNCHANGED <<cfg, versions, orders, links, confirmed>> /\ (UNCHANGED ops \/ Gone)
  <1>1. CASE \E c \in Callers : Request(c)
    BY <1>1 DEF Request, Enter
  <1>2. ASSUME NEW c \in DOMAIN calls, Call(c)
        PROVE  UNCHANGED <<cfg, versions, orders, links, confirmed, ops>>
    BY <1>2 DEF Call, CoordinatorQuiesce, CoordinatorQuiesced, SetPaymentProviderQuiesced,
       PaymentsDrained, LocalDrained, Quiesced, QuiesceFails, CoordinatorResume,
       CoordinatorResumed, ResumeServices, ResumePayments, ResumeReconciler,
       CoordinatorDrain, CoordinatorStop, Others
  <1>3. CASE Shutdown \/ WorkerStarts \/ SetReady
    BY <1>3 DEF Shutdown, Enter, WorkerStarts, SetReady, Others
  <1>4. CASE WorkerDies \/ WorkerExits \/ SetReadyFails
    BY <1>4 DEF WorkerDies, WorkerExits, SetReadyFails, Gone
  <1> QED BY <1>1, <1>2, <1>3, <1>4 DEF Next

LEMMA CoveredStep ==
  ASSUME Covered, [Next]_vars
  PROVE  Covered'
  <1>1. CASE UNCHANGED vars
    BY <1>1, SameOpsKeep DEF vars, providerVars
  <1>2. CASE ProviderNext
    BY <1>2, ProviderKeeps
  <1>3. CASE Next /\ ~(ProviderNext /\ WorkerOpsStop /\ UNCHANGED workerVars)
    <2>1. UNCHANGED <<cfg, orders, confirmed>> /\ (UNCHANGED ops \/ Gone)
      BY <1>3, WorkerSteps
    <2>2. CASE Gone
      BY <2>1, <2>2, DeathKeeps DEF Gone
    <2> QED BY <2>1, <2>2, SameOpsKeep
  <1> QED BY <1>1, <1>2, <1>3

LEMMA CoveredInit ==
  ASSUME Init
  PROVE  Covered
  <1>1. /\ ops = [o \in Ops |-> NoOp] /\ cfg \in {Unconfigured, Configured}
        /\ \/ cfg = Unconfigured /\ orders \subseteq LegacyKeys
           \/ cfg = Configured /\ orders = {} /\ confirmed = {FirstKeys}
    BY DEF Init, ProviderInit
  <1>2. Shaped
    BY <1>1, NoOpShape DEF Shaped, Unconfigured, Configured
  <1>3. LeaseHoldsKeys /\ OpsConfirmed
    BY <1>1, NoOpShape DEF LeaseHoldsKeys, OpsConfirmed, OpConfirmed, Working
  <1>4. ConfirmedByPayOS
    BY <1>1 DEF ConfirmedByPayOS, Unconfigured, Configured
  <1> QED BY <1>2, <1>3, <1>4 DEF Covered

-----------------------------------------------------------------------------
(* Commits.                                                                *)

LEMMA CommitStep ==
  ASSUME Covered, [Next]_vars, NEW o \in Ops, Commits(o)
  PROVE  ops[o].keys = cfg.keys /\ MutationAllowed
  <1>1. ops'[o].pc # ops[o].pc /\ ops'[o].pc \in {"reserved", "done"} /\ Shaped
    BY DEF Commits, Covered
  <1>2. ~Ended(ops[o], ops'[o])
    BY <1>1 DEF Ended, Working
  <1>3. PICK x \in Ops : Operation(x)
    <2>1. ~UNCHANGED ops
      BY <1>1
    <2>2. ~Gone /\ ~GatewayDies
      BY <1>2, DeadOp DEF Gone, GatewayDies, Ended
    <2>3. ProviderNext
      BY <2>1, <2>2, WorkerSteps DEF vars, providerVars
    <2> QED BY <2>1, <2>2, <2>3 DEF ProviderNext, savePaymentProviderConfig,
               SavePaymentProviderConfig, Deployer, Gate, providerVars
  <1>4. ASSUME NEW pc, Become(x, pc)
        PROVE  x = o /\ pc = ops'[o].pc
    BY <1>1, <1>4, MoveStep
  <1>5. ASSUME NEW r, IsOp(r), ops' = [ops EXCEPT ![x] = r]
        PROVE  x = o /\ r = ops'[o]
    BY <1>1, <1>5, OneOp
  <1>6. \A kind : ~pin(x, kind)
    <2> SUFFICES ASSUME NEW kind, pin(x, kind)
                 PROVE  FALSE
      OBVIOUS
    <2>1. IsOp(snapshot(kind)) /\ snapshot(kind).pc = "pinned"
      BY DEF snapshot, IsOp
    <2> QED BY <1>1, <1>5, <2>1 DEF pin
  <1>7. ~EndOperation(x)
    BY <1>1, <1>2, <1>5, NoOpShape, DeadOp DEF EndOperation, Shaped, Ended
  <1>8. ~LeaseLapses(x)
    <2> DEFINE r == [ops[x] EXCEPT !.live = FALSE]
    <2>1. IsOp(r) /\ r.pc = ops[x].pc
      BY <1>1, LapsedOp DEF Shaped
    <2> HIDE DEF r
    <2>2. LeaseLapses(x) => ops' \in {[ops EXCEPT ![x] = NoOp], [ops EXCEPT ![x] = r]}
      BY <1>1 DEF LeaseLapses, Shaped, r
    <2> QED BY <1>1, <1>2, <1>5, <2>1, <2>2, NoOpShape DEF Ended
  <1>9. \/ ReservePaymentOrder(x) \/ RenewPaymentOrderOperation(x)
        \/ CommitOutcome(x) \/ ConfirmPaymentProviderWebhook(x)
    BY <1>1, <1>3, <1>4, <1>6, <1>7, <1>8 DEF Operation, beginPaymentRequest, Create, Confirm,
       PaymentProviderRequestSlot, providerSlot
  <1>10. x = o /\ OperationAllowed(o) /\ Working(ops[o])
    BY <1>4, <1>9 DEF ReservePaymentOrder, RenewPaymentOrderOperation, CommitOutcome,
       ConfirmPaymentProviderWebhook, Working
  <1> QED BY <1>10 DEF OperationAllowed, Covered, LeaseHoldsKeys

\* Confirmed means confirmed by payOS, and orders are reserved under confirmed
\* keys only, whatever owners save (SavePaymentProviderConfig, pin,
\* ConfirmPaymentProviderWebhook).
THEOREM ConfirmationsReal == Spec => []ConfirmedByPayOS
  <1>1. Init => Covered
    BY CoveredInit
  <1>2. Covered /\ [Next]_vars => Covered'
    BY CoveredStep
  <1>3. Covered => ConfirmedByPayOS
    BY DEF Covered
  <1> QED BY <1>1, <1>2, <1>3, PTL DEF Spec

\* What an operation commits is committed under the keys in force and an open
\* gate: checkMutationAllowedTx tests the lease, and SavePaymentProviderConfig
\* changes the keys only while there is none.
THEOREM CommitsUnderKeysInForce == Spec => CommitsCovered
  <1>1. Init => Covered
    BY CoveredInit
  <1>2. Covered /\ [Next]_vars => Covered'
    BY CoveredStep
  <1>3. Covered /\ [Next]_vars
        => [\A o \in Ops : Commits(o) => ops[o].keys = cfg.keys /\ MutationAllowed]_ops
    BY CommitStep
  <1> QED BY <1>1, <1>2, <1>3, PTL DEF Spec, CommitsCovered

-----------------------------------------------------------------------------
(* Callbacks.                                                              *)

LEMMA LegacyKeysFixed == LegacyKeys' = LegacyKeys
  BY DEF LegacyKeys, NoKeys

\* Orders are kept, so a channel that has some goes on having them.
LEMMA OrderedStays ==
  ASSUME orders \subseteq orders', NEW k, Ordered(k)
  PROVE  Ordered(k)'
  BY DEF Ordered

\* Steps that keep the configuration, and reserve or ask under kept keys.
LEMMA KeptSteps ==
  ASSUME Verifiable, UNCHANGED <<cfg, versions>>,
         orders \subseteq orders', links \subseteq links',
         \A k \in orders' \ orders : k.client = cfg.keys.client,
         \A k \in links' \ links : Ordered(k)' /\ Kept(k) /\ cfg.rev # 0,
         \A o \in Ops : ops'[o] = ops[o] \/ OpKept(ops[o])'
  PROVE  Verifiable'
  <1>1. \A k : Kept(k)' <=> Kept(k)
    BY DEF Kept
  <1>2. \A r : Fresh(r)' <=> Fresh(r)
    BY DEF Fresh
  <1>3. VersionsKept'
    BY <1>2 DEF Verifiable, VersionsKept
  <1>4. LinksKept'
    <2>1. LegacyKeys' = LegacyKeys
      BY LegacyKeysFixed
    <2>2. ASSUME NEW k \in links'
          PROVE  Ordered(k)' /\ (k \in LegacyKeys \/ (cfg.rev # 0 /\ Kept(k)))
      BY <2>2, OrderedStays DEF Verifiable, LinksKept
    <2> QED BY <1>1, <2>1, <2>2 DEF LinksKept
  <1>5. Channel'
    BY DEF Verifiable, Channel
  <1>6. ASSUME NEW o \in Ops, ops'[o] = ops[o]
        PROVE  OpKept(ops[o])'
    <2>1. OpKept(ops[o])
      BY DEF Verifiable
    <2>2. Ordered(ops[o].keys) => Ordered(ops[o].keys)'
      BY <1>6 DEF Ordered
    <2>3. Kept(ops[o].keys)' <=> Kept(ops[o].keys)
      BY <1>6 DEF Kept
    <2>4. Fresh(ops[o].rev)' <=> Fresh(ops[o].rev)
      BY <1>6 DEF Fresh
    <2> QED BY <1>6, <2>1, <2>2, <2>3, <2>4 DEF OpKept, Working
  <1> QED BY <1>3, <1>4, <1>5, <1>6 DEF Verifiable

LEMMA EndedKept ==
  ASSUME NEW old, NEW new, OpKept(old), Ended(old, new), new.pc = "idle" => ~new.live
  PROVE  OpKept(new)
  BY DEF OpKept, Ended, Working

LEMMA EndedVerifiable ==
  ASSUME Verifiable, UNCHANGED <<cfg, versions, orders, links>>,
         \A x \in Ops : Ended(ops[x], ops'[x]) /\ (ops'[x].pc = "idle" => ~ops'[x].live)
  PROVE  Verifiable'
  <1>1. \A x \in Ops : OpKept(ops'[x])
    BY EndedKept DEF Verifiable
  <1>2. \A x \in Ops : OpKept(ops[x])'
    BY <1>1 DEF OpKept, Kept, Fresh, Ordered
  <1> QED BY <1>2, KeptSteps

\* One operation moves on; what it must not forget.
LEMMA MoveVerifiable ==
  ASSUME Covered, Verifiable, UNCHANGED <<cfg, versions>>, NEW o \in Ops, NEW pc,
         Become(o, pc), Working(ops[o]), pc # "idle",
         pc = "reserved" => Ordered(ops[o].keys)',
         orders \subseteq orders', links \subseteq links',
         \A k \in orders' \ orders : k.client = cfg.keys.client,
         \A k \in links' \ links : k = ops[o].keys /\ Ordered(k)'
  PROVE  Verifiable'
  <1>1. /\ \A x \in Ops \ {o} : ops'[x] = ops[x]
        /\ ops'[o].pc = pc /\ ops'[o].rev = ops[o].rev
        /\ ops'[o].keys = ops[o].keys /\ ops'[o].live = ops[o].live
    BY MoveStep DEF Covered
  <1>2. cfg.rev # 0 /\ Kept(ops[o].keys) /\ (ops[o].live => Fresh(ops[o].rev))
    BY DEF Verifiable, OpKept
  <1>3. OpKept(ops[o])'
    <2>1. Kept(ops[o].keys)' /\ (ops[o].live => Fresh(ops[o].rev))'
          /\ (pc = "reserved" => Ordered(ops[o].keys)')
      BY <1>1, <1>2 DEF Kept, Fresh, Ordered
    <2> QED BY <1>1, <1>2, <2>1 DEF OpKept
  <1> QED BY <1>1, <1>2, <1>3, KeptSteps

LEMMA MovingVerifiable ==
  ASSUME Covered, Verifiable, NEW o \in Ops, Moving(o)
  PROVE  Verifiable'
  <1>1. CASE ReservePaymentOrder(o)
    <2>1. ops[o].keys = cfg.keys
      BY <1>1 DEF ReservePaymentOrder, OperationAllowed, Covered, LeaseHoldsKeys, Working
    <2>2. Ordered(ops[o].keys)'
      BY <1>1, MoveStep DEF ReservePaymentOrder, Covered, Ordered
    <2> QED BY <1>1, <2>1, <2>2, MoveVerifiable DEF ReservePaymentOrder, Working
  <1>2. CASE Create(o)
    <2>1. Ordered(ops[o].keys)
      BY <1>2 DEF Create, Verifiable, OpKept, Working
    <2>2. Ordered(ops[o].keys)'
      BY <1>2, <2>1, MoveStep DEF Create, Covered, Ordered
    <2>3. \A k \in links' \ links : k = ops[o].keys /\ Ordered(k)'
      BY <1>2, <2>1 DEF Create, Ordered
    <2>4. /\ UNCHANGED <<cfg, versions, orders>> /\ links \subseteq links'
          /\ Become(o, "asked") /\ Working(ops[o])
      BY <1>2 DEF Create, Working
    <2> QED BY <2>2, <2>3, <2>4, MoveVerifiable
  <1>3. CASE Confirm(o)
    BY <1>3, MoveVerifiable DEF Confirm, Working
  <1>4. CASE beginPaymentRequest(o)
    BY <1>4, MoveVerifiable DEF beginPaymentRequest, OpsOnly, Working
  <1>5. CASE PaymentProviderRequestSlot(o) \/ providerSlot(o)
    BY <1>5, MoveVerifiable DEF PaymentProviderRequestSlot, providerSlot, OpsOnly, Working
  <1>6. CASE CommitOutcome(o)
    BY <1>6, MoveVerifiable DEF CommitOutcome, OpsOnly, Working
  <1>7. CASE RenewPaymentOrderOperation(o)
    <2>1. Ordered(ops[o].keys)'
      BY <1>7, MoveStep DEF RenewPaymentOrderOperation, OpsOnly, Covered, Ordered
    <2> QED BY <1>7, <2>1, MoveVerifiable DEF RenewPaymentOrderOperation, OpsOnly, Working
  <1> QED BY <1>1, <1>2, <1>3, <1>4, <1>5, <1>6, <1>7 DEF Moving

LEMMA PinVerifiable ==
  ASSUME Covered, Verifiable, NEW o \in Ops, NEW kind, pin(o, kind)
  PROVE  Verifiable'
  <1> DEFINE r == snapshot(kind)
  <1>1. IsOp(r) /\ r.pc = "pinned" /\ r.keys = cfg.keys /\ r.rev = cfg.rev /\ r.live = TRUE
    BY DEF snapshot, IsOp
  <1>2. /\ ops' = [ops EXCEPT ![o] = r] /\ UNCHANGED <<cfg, versions, orders, links>>
        /\ cfg.keys.client # Blank
    BY DEF pin, OpsOnly, BeginPaymentProviderOperation
  <1> HIDE DEF r
  <1>3. ops'[o] = r /\ \A x \in Ops \ {o} : ops'[x] = ops[x]
    BY <1>1, <1>2, OneOp DEF Covered
  <1>4. cfg.rev # 0
    BY <1>2 DEF Verifiable, VersionsKept, Unconfigured, NoKeys
  <1>5. OpKept(r)
    BY <1>1, <1>4 DEF OpKept, Kept, Verifiable, VersionsKept
  <1>6. OpKept(ops[o])'
    BY <1>2, <1>3, <1>5 DEF OpKept, Kept, Fresh, Ordered
  <1> QED BY <1>2, <1>3, <1>6, KeptSteps

\* The confirmation changes no key, revision, order or link.
LEMMA ConfirmVerifiable ==
  ASSUME Covered, Verifiable, NEW o \in Ops, ConfirmPaymentProviderWebhook(o)
  PROVE  Verifiable'
  <1>1. cfg'.rev = cfg.rev /\ cfg'.keys = cfg.keys
    BY DEF ConfirmPaymentProviderWebhook, Covered, Shaped
  <1>2. UNCHANGED <<versions, orders, links>> /\ Become(o, "done") /\ ops[o].pc = "asked"
    BY DEF ConfirmPaymentProviderWebhook
  <1>3. \A k : Kept(k)' <=> Kept(k)
    BY <1>1, <1>2 DEF Kept
  <1>4. \A r : Fresh(r)' <=> Fresh(r)
    BY <1>1, <1>2 DEF Fresh
  <1>5. /\ \A x \in Ops \ {o} : ops'[x] = ops[x]
        /\ ops'[o].pc = "done" /\ ops'[o].rev = ops[o].rev
        /\ ops'[o].keys = ops[o].keys /\ ops'[o].live = ops[o].live
    BY <1>2, MoveStep DEF Covered
  <1>. cfg.rev # 0
    BY <1>2 DEF Verifiable, OpKept, Working
  <1>6. \A k : Ordered(k)' <=> Ordered(k)
    BY <1>2 DEF Ordered
  <1>7. VersionsKept' /\ LinksKept' /\ Channel'
    <2>1. VersionsKept' /\ Channel'
      BY <1>1, <1>2, <1>4 DEF Verifiable, VersionsKept, Channel
    <2>2. LinksKept'
      BY <1>1, <1>2, <1>3, <1>6, LegacyKeysFixed DEF Verifiable, LinksKept
    <2> QED BY <2>1, <2>2
  <1>8. ASSUME NEW x \in Ops \ {o}
        PROVE  OpKept(ops[x])'
    <2>1. OpKept(ops[x]) /\ ops'[x] = ops[x]
      BY <1>5 DEF Verifiable
    <2>2. Ordered(ops[x].keys) => Ordered(ops[x].keys)'
      BY <1>2, <2>1 DEF Ordered
    <2> QED BY <1>1, <1>2, <1>3, <1>4, <2>1, <2>2 DEF OpKept, Working
  <1>9. OpKept(ops[o])'
    BY <1>1, <1>2, <1>3, <1>4, <1>5 DEF Verifiable, OpKept, Working
  <1> QED BY <1>7, <1>8, <1>9 DEF Verifiable

\* Keys that are replaced stay among the versions, below the new revision.
LEMMA SaveVerifiable ==
  ASSUME Covered, Verifiable, NEW d, SavePaymentProviderConfig(d)
  PROVE  Verifiable'
  <1> DEFINE keys == Merged(d)
             new == [rev |-> cfg.rev + 1, keys |-> keys]
  <1>1. /\ keys # cfg.keys => Idle
        /\ cfg' = [rev |-> cfg.rev + 1, keys |-> keys, enabled |-> d.enabled,
                   confirmed |-> StillConfirmed(keys)]
        /\ ChannelFree(keys) /\ keys.client # Blank
        /\ versions' = IF keys = cfg.keys THEN versions ELSE versions \cup {new}
        /\ UNCHANGED <<ops, orders, links>>
    BY DEF SavePaymentProviderConfig, Recorded
  <1>2. new.rev = cfg.rev + 1 /\ new.keys = keys
    OBVIOUS
  <1> HIDE DEF keys, new
  <1>3. cfg'.rev = cfg.rev + 1 /\ cfg'.keys = keys
    BY <1>1
  <1>4. cfg.rev \in Nat /\ cfg'.rev \in Nat /\ cfg'.rev # 0 /\ cfg.rev < cfg'.rev
    BY <1>3 DEF Covered, Shaped
  <1>5. cfg.rev = 0 => keys # cfg.keys /\ keys.client # cfg.keys.client
    BY <1>1 DEF Verifiable, VersionsKept, Unconfigured, NoKeys
  <1>6. VersionsKept'
    <2>1. \A v \in versions : v.rev \in Nat /\ v.rev <= cfg.rev
      BY DEF Verifiable, VersionsKept, Fresh
    <2>2. \A v \in versions' : v.rev \in Nat /\ v.rev <= cfg'.rev
                              /\ (v.rev = cfg'.rev => v.keys = keys)
      BY <1>1, <1>2, <1>3, <1>4, <2>1
    <2>3. \E v \in versions' : v.keys = keys
      BY <1>1, <1>2, <1>5 DEF Verifiable, VersionsKept
    <2> QED BY <1>3, <1>4, <2>2, <2>3 DEF VersionsKept, Fresh
  <1>7. ASSUME NEW k, Kept(k), cfg.rev # 0
        PROVE  Kept(k)'
    <2>1. CASE k = cfg.keys
      <3>1. PICK v \in versions : v.keys = cfg.keys
        BY <1>7 DEF Verifiable, VersionsKept
      <3>2. v \in versions' /\ v.rev \in Nat /\ v.rev <= cfg.rev
        BY <1>1 DEF Verifiable, VersionsKept, Fresh
      <3> QED BY <1>4, <2>1, <3>1, <3>2 DEF Kept
    <2>2. ASSUME NEW v \in versions, v.keys = k, v.rev < cfg.rev
          PROVE  Kept(k)'
      <3>1. v \in versions' /\ v.rev \in Nat
        BY <1>1 DEF Verifiable, VersionsKept
      <3> QED BY <1>4, <2>2, <3>1 DEF Kept
    <2> QED BY <1>7, <2>1, <2>2 DEF Kept
  <1>8. LinksKept'
    <2>1. \A k : Ordered(k)' <=> Ordered(k)
      BY <1>1 DEF Ordered
    <2>2. \A k \in links : Ordered(k) /\ (k \in LegacyKeys \/ (cfg.rev # 0 /\ Kept(k)))
      BY DEF Verifiable, LinksKept
    <2>3. \A k \in links : k \in LegacyKeys \/ Kept(k)'
      BY <1>7, <2>2
    <2> QED BY <1>1, <1>4, <2>1, <2>2, <2>3, LegacyKeysFixed DEF LinksKept
  <1>9. Channel'
    BY <1>1, <1>3, <1>5 DEF Verifiable, Channel, ChannelFree
  <1>10. ASSUME NEW o \in Ops
         PROVE  OpKept(ops[o])'
    <2>1. OpKept(ops[o])
      BY DEF Verifiable
    <2>2. ASSUME Working(ops[o]), ops[o].live
          PROVE  Fresh(ops[o].rev)'
      BY <1>1, <1>3, <2>1, <2>2 DEF OpKept, Fresh, Idle
    <2>3. Ordered(ops[o].keys) => Ordered(ops[o].keys)'
      BY <1>1 DEF Ordered
    <2>4. Working(ops[o]) => Kept(ops[o].keys)'
      BY <1>1, <1>7, <2>1 DEF OpKept, Kept
    <2> QED BY <1>1, <1>4, <2>1, <2>2, <2>3, <2>4 DEF OpKept, Working
  <1> QED BY <1>6, <1>8, <1>9, <1>10 DEF Verifiable

LEMMA DeadNotIdle ==
  ASSUME NEW r
  PROVE  Dead(r).pc = "idle" => ~Dead(r).live
  BY DEF Dead, NoOp

LEMMA EndVerifiable ==
  ASSUME Covered, Verifiable, NEW o \in Ops, EndOperation(o) \/ LeaseLapses(o)
  PROVE  Verifiable'
  <1>1. Shaped /\ IsOp(ops[o]) /\ UNCHANGED <<cfg, versions, orders, links>>
    BY DEF Covered, Shaped, EndOperation, LeaseLapses, OpsOnly
  <1>2. PICK r \in {NoOp, Dead(ops[o]), [ops[o] EXCEPT !.live = FALSE]} :
          ops' = [ops EXCEPT ![o] = r]
    <2>1. CASE EndOperation(o)
      BY <1>1, <2>1 DEF EndOperation, Shaped
    <2>2. CASE LeaseLapses(o)
      BY <1>1, <2>2 DEF LeaseLapses, Shaped
    <2> QED BY <2>1, <2>2
  <1>3. IsOp(r) /\ Ended(ops[o], r) /\ (r.pc = "idle" => ~r.live)
    <2>1. CASE r = [ops[o] EXCEPT !.live = FALSE]
      BY <1>1, <2>1, LapsedOp DEF Ended
    <2> QED BY <1>2, <2>1, NoOpShape, DeadOp, DeadNotIdle DEF Ended
  <1>4. ops'[o] = r /\ \A x \in Ops \ {o} : ops'[x] = ops[x]
    BY <1>1, <1>2, <1>3, OneOp
  <1>5. \A x \in Ops : ops[x].pc = "idle" => ~ops[x].live
    BY DEF Verifiable, OpKept
  <1>6. \A x \in Ops : Ended(ops[x], ops'[x]) /\ (ops'[x].pc = "idle" => ~ops'[x].live)
    BY <1>3, <1>4, <1>5 DEF Ended
  <1> QED BY <1>1, <1>6, EndedVerifiable

LEMMA DeathVerifiable ==
  ASSUME Verifiable, UNCHANGED <<cfg, versions, orders, links>>, NEW S,
         ops' = [o \in Ops |-> IF o \in S THEN Dead(ops[o]) ELSE ops[o]]
  PROVE  Verifiable'
  <1>1. \A x \in Ops : ops[x].pc = "idle" => ~ops[x].live
    BY DEF Verifiable, OpKept
  <1>2. \A x \in Ops : Ended(ops[x], ops'[x]) /\ (ops'[x].pc = "idle" => ~ops'[x].live)
    BY <1>1, DeadOp, DeadNotIdle DEF Ended
  <1> QED BY <1>2, EndedVerifiable

LEMMA VerifiableStep ==
  ASSUME Covered, Verifiable, [Next]_vars
  PROVE  Verifiable'
  <1>1. CASE UNCHANGED <<cfg, versions, orders, links, ops>>
    BY <1>1, KeptSteps
  <1>2. CASE ProviderNext
    <2>1. CASE \E d \in Drafts : savePaymentProviderConfig(d)
      BY <2>1, SaveVerifiable DEF savePaymentProviderConfig
    <2>2. CASE \E o \in Ops : Operation(o)
      BY <2>2, PinVerifiable, MovingVerifiable, ConfirmVerifiable, EndVerifiable
         DEF Operation, Moving
    <2>3. CASE (\E d \in Deployers : Deployer(d)) \/ Gate
      BY <1>1, <2>3 DEF Deployer, Gate, providerVars
    <2>4. CASE GatewayDies
      <3>1. ops' = [o \in Ops |-> IF o \in Ops \ WorkerOps THEN Dead(ops[o]) ELSE ops[o]]
        BY <2>4 DEF GatewayDies
      <3> QED BY <2>4, <3>1, DeathVerifiable DEF GatewayDies
    <2> QED BY <1>2, <2>1, <2>2, <2>3, <2>4 DEF ProviderNext
  <1>3. CASE Next /\ ~(ProviderNext /\ WorkerOpsStop /\ UNCHANGED workerVars)
    <2>1. UNCHANGED <<cfg, versions, orders, links>> /\ (UNCHANGED ops \/ Gone)
      BY <1>3, WorkerSteps
    <2>2. CASE Gone
      BY <2>1, <2>2, DeathVerifiable DEF Gone
    <2> QED BY <1>1, <2>1, <2>2
  <1> QED BY <1>1, <1>2, <1>3 DEF vars, providerVars

LEMMA VerifiableInit ==
  ASSUME Init
  PROVE  Verifiable
  <1>1. /\ ops = [o \in Ops |-> NoOp]
        /\ \/ /\ cfg = Unconfigured /\ versions = {}
              /\ orders \subseteq LegacyKeys /\ links \subseteq orders
           \/ /\ cfg = Configured /\ orders = {} /\ links = {}
              /\ versions = {[rev |-> 1, keys |-> FirstKeys]}
    BY DEF Init, ProviderInit
  <1>2. \A o \in Ops : OpKept(ops[o])
    BY <1>1, NoOpShape DEF OpKept
  <1>3. VersionsKept
    <2>1. CASE cfg = Unconfigured /\ versions = {}
      <3>1. cfg.rev = 0
        BY <2>1 DEF Unconfigured
      <3> QED BY <1>1, <2>1, <3>1 DEF VersionsKept, Fresh
    <2>2. CASE cfg = Configured /\ versions = {[rev |-> 1, keys |-> FirstKeys]}
      <3>1. cfg.rev = 1 /\ cfg.keys = FirstKeys
        BY <2>2 DEF Configured
      <3> QED BY <2>2, <3>1 DEF VersionsKept, Fresh
    <2> QED BY <1>1, <2>1, <2>2
  <1>4. LinksKept /\ Channel
    BY <1>1 DEF LinksKept, Ordered, Channel, Unconfigured
  <1> QED BY <1>2, <1>3, <1>4 DEF Verifiable

\* A checksum key of the channel that some version has is accepted by all who
\* hold the present keys and copied them when they were in force.
LEMMA NamedAccepted ==
  ASSUME Verifiable, NEW r, Fresh(r), NEW v \in versions,
         v.keys.client = cfg.keys.client
  PROVE  v.keys.sum \in VerificationSums(cfg.keys, r)
  <1>1. v.rev \in Nat /\ r \in Nat /\ v.rev <= r
    BY DEF Verifiable, VersionsKept, Fresh
  <1>2. CASE v.rev = r
    BY <1>2 DEF Fresh, VerificationSums
  <1>3. CASE v.rev < r
    BY <1>3 DEF VerificationSums
  <1> QED BY <1>1, <1>2, <1>3

LEMMA VerifiableImplies ==
  ASSUME Covered, Verifiable
  PROVE  CallbacksVerifiable
  <1>1. /\ cfg # Unconfigured => cfg.rev # 0
        /\ versions # {} => cfg.rev # 0
        /\ Fresh(cfg.rev)
    BY DEF Verifiable, VersionsKept
  <1>2. ASSUME NEW k \in links, k \notin LegacyKeys \/ Named(k)
        PROVE  \E v \in versions : v.keys.client = k.client /\ v.keys.sum = k.sum
    <2>1. CASE Named(k)
      BY <2>1 DEF Named
    <2>2. CASE k \notin LegacyKeys
      <3>1. cfg.rev # 0 /\ Kept(k)
        BY <2>2 DEF Verifiable, LinksKept
      <3>2. \E v \in versions : v.keys = k
        BY <3>1 DEF Verifiable, VersionsKept, Kept
      <3> QED BY <3>2
    <2> QED BY <1>2, <2>1, <2>2
  <1>3. ASSUME NEW k \in links, k \notin LegacyKeys \/ Named(k)
        PROVE  /\ k.sum \in VerificationSums(cfg.keys, cfg.rev)
               /\ \A o \in Ops : ops[o].live /\ ops[o].pc # "dead"
                    => k.sum \in VerificationSums(ops[o].keys, ops[o].rev)
    <2>1. PICK v \in versions : v.keys.client = k.client /\ v.keys.sum = k.sum
      BY <1>2, <1>3
    <2>2. k.client = cfg.keys.client
      BY <1>1, <2>1 DEF Verifiable, LinksKept, Ordered, Channel
    <2>3. k.sum \in VerificationSums(cfg.keys, cfg.rev)
      BY <1>1, <2>1, <2>2, NamedAccepted
    <2>4. ASSUME NEW o \in Ops, ops[o].live, ops[o].pc # "dead"
          PROVE  k.sum \in VerificationSums(ops[o].keys, ops[o].rev)
      <3>1. Working(ops[o]) /\ Fresh(ops[o].rev)
        BY <2>4 DEF Verifiable, OpKept, Working
      <3>2. ops[o].keys = cfg.keys
        BY <2>4, <3>1 DEF Covered, LeaseHoldsKeys
      <3> QED BY <2>1, <2>2, <3>1, <3>2, NamedAccepted
    <2> QED BY <2>3, <2>4
  <1> QED BY <1>1, <1>3 DEF CallbacksVerifiable, Verifiable, Channel

\* Whatever sequence of saves, operations, recoveries, suspensions and deaths
\* came before, and however late payOS issued a link, its callbacks are accepted
\* by the configuration in force and by every operation that may still commit;
\* links older than the configuration, once their checksum key was ever saved
\* (verifyWebhook, SavePaymentProviderConfig, recoverCreate).
THEOREM CallbacksStayVerifiable == Spec => []CallbacksVerifiable
  <1>1. Init => Covered /\ Verifiable
    BY CoveredInit, VerifiableInit
  <1>2. Covered /\ Verifiable /\ [Next]_vars => (Covered /\ Verifiable)'
    BY CoveredStep, VerifiableStep
  <1>3. Covered /\ Verifiable => CallbacksVerifiable
    BY VerifiableImplies
  <1> QED BY <1>1, <1>2, <1>3, PTL DEF Spec
=============================================================================
