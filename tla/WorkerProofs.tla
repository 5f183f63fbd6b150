------------------------------ MODULE WorkerProofs ------------------------------
(***************************************************************************)
(* What the answers of the worker's RPCs promise, for any number of callers*)
(* and operations.                                                         *)
(***************************************************************************)
EXTENDS ControlProofs

-----------------------------------------------------------------------------
(* The inductive invariant.                                                *)

IsCall(r) == r = [do |-> r.do, pc |-> r.pc, alone |-> r.alone]

CallsShaped == /\ calls = [c \in Callers \cup {Main} |-> calls[c]]
               /\ \A c \in Callers \cup {Main} : IsCall(calls[c])

\* No other call came since this one did.
Alone(c) == calls[c].alone /\ Busy(c)

\* What a call that is alone has achieved when it is at step pc.
Achieved(pc) ==
    /\ pc = "mark" => coord = "QUIESCING"
    /\ pc \in {"pause", "active", "local", "deliveries"} => coord = "QUIESCED"
    /\ pc \in {"active", "local", "deliveries"} => paused
    /\ pc \in {"local", "deliveries"} => Idle
    /\ pc = "deliveries" => ~dispatching
    /\ pc \in {"run", "unpause", "unhalt"} => coord = "READY"
    /\ pc \in {"unpause", "unhalt"} => dispatching /\ maintaining

AloneAchieves ==
    \A c \in DOMAIN calls : Alone(c) =>
        Achieved(calls[c].pc) /\ \A y \in DOMAIN calls \ {c} : ~Busy(y)

\* What is left of a promise, and the steps that calls may still take.
Promised ==
    /\ quiet \in {"all", "payments"} => paused /\ Idle
    /\ quiet = "all" =>
         /\ ~dispatching /\ ~maintaining /\ coord \in {"QUIESCED", "DRAINING", "STOPPING"}
         /\ \A c \in DOMAIN calls : calls[c].pc \in {"idle", "drain", "stop", "exit"}
    /\ quiet = "payments" => \A c \in DOMAIN calls : calls[c].pc \in {"idle", "start"}
    /\ quiet = "running" =>
         /\ dispatching /\ maintaining /\ ~halted /\ coord = "READY"
         /\ \A c \in DOMAIN calls : ~Busy(c)

DownIsEmpty == coord = "DOWN" => \A c \in DOMAIN calls : calls[c] = NoCall

WorkerInv == CallsShaped /\ AloneAchieves /\ Promised /\ DownIsEmpty

-----------------------------------------------------------------------------
(* Calls move one at a time.                                               *)

LEMMA MovedCall ==
  ASSUME NEW q, IsCall(q), NEW pc
  PROVE  LET r == [q EXCEPT !.pc = pc]
         IN  r.pc = pc /\ r.do = q.do /\ r.alone = q.alone /\ IsCall(r)
  BY DEF IsCall

LEMMA CallMoves ==
  ASSUME CallsShaped, NEW c \in DOMAIN calls, NEW pc, Goto(c, pc)
  PROVE  /\ CallsShaped' /\ DOMAIN calls' = DOMAIN calls
         /\ calls'[c].pc = pc /\ calls'[c].do = calls[c].do
         /\ calls'[c].alone = calls[c].alone
         /\ \A y \in DOMAIN calls \ {c} : calls'[y] = calls[y]
  <1> DEFINE D == Callers \cup {Main}
             r == [calls[c] EXCEPT !.pc = pc]
  <1>1. calls = [x \in D |-> calls[x]] /\ DOMAIN calls = D /\ \A x \in D : IsCall(calls[x])
    BY DEF CallsShaped
  <1>2. r.pc = pc /\ r.do = calls[c].do /\ r.alone = calls[c].alone /\ IsCall(r)
    BY <1>1, MovedCall
  <1>3. calls' = [calls EXCEPT ![c] = r]
    BY DEF Goto
  <1> HIDE DEF r, D
  <1>4. /\ calls' = [x \in D |-> calls'[x]] /\ DOMAIN calls' = D /\ calls'[c] = r
        /\ \A y \in D \ {c} : calls'[y] = calls[y]
    BY <1>1, <1>3
  <1> QED BY <1>1, <1>2, <1>4 DEF CallsShaped, D

\* While operations are paused and none is live, none becomes live.
LEMMA IdleStays ==
  ASSUME Shaped, Idle, paused, ProviderNext
  PROVE  Idle'
  <1>0. \A x \in Ops : IsOp(ops[x]) /\ ~ops[x].live
    BY DEF Shaped, Idle
  <1>1. CASE ops' = ops
    BY <1>0, <1>1 DEF Idle
  <1>2. ASSUME NEW o \in Ops, NEW r, IsOp(r), ~r.live, ops' = [ops EXCEPT ![o] = r]
        PROVE  Idle'
    BY <1>0, <1>2, OneOp DEF Idle
  <1>3. ASSUME NEW o \in Ops, NEW pc, Become(o, pc)
        PROVE  Idle'
    BY <1>0, <1>3, MoveStep DEF Idle
  <1>4. CASE GatewayDies
    BY <1>0, <1>4, NoOpShape DEF GatewayDies, Dead, Idle
  <1>5. ASSUME NEW o \in Ops, EndOperation(o)
        PROVE  Idle'
    <2>1. ops' = [ops EXCEPT ![o] = NoOp]
      BY <1>0, <1>5 DEF EndOperation, Dead
    <2> QED BY <1>2, <2>1, NoOpShape
  <1>6. ASSUME NEW o \in Ops, NEW kind
        PROVE  ~pin(o, kind) /\ ~LeaseLapses(o)
    BY <1>0 DEF pin, BeginPaymentProviderOperation, LeaseLapses
  <1>7. ASSUME NEW o \in Ops, Operation(o)
        PROVE  Idle'
    BY <1>3, <1>5, <1>6, <1>7 DEF Operation, beginPaymentRequest, ReservePaymentOrder,
       Create, Confirm, PaymentProviderRequestSlot, providerSlot,
       RenewPaymentOrderOperation, CommitOutcome, ConfirmPaymentProviderWebhook
  <1>8. CASE \/ \E d \in Drafts : savePaymentProviderConfig(d)
             \/ \E d \in Deployers : Deployer(d)
             \/ Gate
    BY <1>1, <1>8 DEF savePaymentProviderConfig, SavePaymentProviderConfig, Deployer,
       Gate, providerVars
  <1> QED BY <1>4, <1>7, <1>8 DEF ProviderNext

\* Only the worker changes what concerns it.
LEMMA ProviderStep ==
  ASSUME WorkerInv, Shaped, ProviderNext, UNCHANGED workerVars
  PROVE  WorkerInv'
  <1>1. /\ coord' = coord /\ dispatching' = dispatching /\ maintaining' = maintaining
        /\ calls' = calls /\ quiet' = quiet
    BY DEF workerVars
  <1>2. paused' = paused /\ halted' = halted
    BY DEF ProviderNext, savePaymentProviderConfig, SavePaymentProviderConfig, Operation, pin,
       beginPaymentRequest, ReservePaymentOrder, Create, Confirm, PaymentProviderRequestSlot,
       providerSlot, RenewPaymentOrderOperation, CommitOutcome,
       ConfirmPaymentProviderWebhook, EndOperation, LeaseLapses,
       OpsOnly, Deployer, Gate, providerVars, GatewayDies
  <1>3. paused /\ Idle => Idle'
    BY IdleStays
  <1>4. \A pc : paused /\ Achieved(pc) => Achieved(pc)'
    BY <1>1, <1>2, <1>3 DEF Achieved
  <1>5. \A pc : pc \notin {"local", "deliveries"} /\ Achieved(pc) => Achieved(pc)'
    BY <1>1, <1>2 DEF Achieved
  <1>6. \A pc : Achieved(pc) => Achieved(pc)'
    BY <1>4, <1>5 DEF Achieved
  <1>7. AloneAchieves'
    BY <1>1, <1>6 DEF WorkerInv, AloneAchieves, Alone, Busy
  <1>8. Promised'
    BY <1>1, <1>2, <1>3 DEF WorkerInv, Promised, Busy
  <1>9. CallsShaped' /\ DownIsEmpty'
    BY <1>1 DEF WorkerInv, CallsShaped, DownIsEmpty
  <1> QED BY <1>7, <1>8, <1>9 DEF WorkerInv

-----------------------------------------------------------------------------
(* The steps of calls.                                                     *)

\* What holds of the call that moves holds of all: the others are not alone.
LEMMA CallStep ==
  ASSUME WorkerInv, NEW c \in DOMAIN calls, NEW pc, Goto(c, pc), Busy(c),
         coord' # "DOWN", Alone(c) => Achieved(pc)'
  PROVE  /\ CallsShaped' /\ AloneAchieves' /\ DownIsEmpty' /\ DOMAIN calls' = DOMAIN calls
         /\ calls'[c].pc = pc /\ \A y \in DOMAIN calls \ {c} : calls'[y] = calls[y]
  <1>0. CallsShaped /\ AloneAchieves
    BY DEF WorkerInv
  <1>1. /\ CallsShaped' /\ DOMAIN calls' = DOMAIN calls
        /\ calls'[c].pc = pc /\ calls'[c].alone = calls[c].alone
        /\ \A y \in DOMAIN calls \ {c} : calls'[y] = calls[y]
    BY <1>0, CallMoves
  <1>2. ASSUME NEW x \in DOMAIN calls, calls'[x].alone, calls'[x].pc # "idle"
        PROVE  /\ \A q : q = calls'[x].pc => Achieved(q)'
               /\ \A y \in DOMAIN calls \ {x} : calls'[y].pc = "idle"
    <2>1. CASE x = c
      BY <1>0, <1>1, <1>2, <2>1 DEF AloneAchieves, Alone, Busy
    <2>2. CASE x # c
      BY <1>0, <1>1, <1>2, <2>2 DEF AloneAchieves, Alone, Busy
    <2> QED BY <2>1, <2>2
  <1>3. \A x \in DOMAIN calls : calls'[x].alone /\ calls'[x].pc # "idle" =>
          Achieved(calls[x].pc)'
    BY <1>2 DEF Achieved
  <1>4. AloneAchieves'
    BY <1>1, <1>2, <1>3 DEF AloneAchieves, Alone, Busy
  <1> QED BY <1>1, <1>4 DEF DownIsEmpty

\* A step before the answer promises nothing new and breaks no promise.
LEMMA MiddleStep ==
  ASSUME WorkerInv, NEW c \in DOMAIN calls, NEW pc, Goto(c, pc),
         calls[c].pc \notin {"idle", "start", "drain", "stop", "exit"},
         quiet' = quiet, coord' # "DOWN",
         Alone(c) => Achieved(pc)'
  PROVE  WorkerInv'
  <1>1. Busy(c)
    BY DEF Busy
  <1>2. CallsShaped' /\ AloneAchieves' /\ DownIsEmpty'
    BY <1>1, CallStep
  <1>3. quiet \notin {"all", "payments", "running"}
    BY <1>1 DEF WorkerInv, Promised
  <1>4. Promised'
    BY <1>3 DEF Promised
  <1> QED BY <1>2, <1>4 DEF WorkerInv

LEMMA CallUp ==
  ASSUME WorkerInv, NEW c \in DOMAIN calls, Busy(c)
  PROVE  coord # "DOWN"
  BY DEF WorkerInv, DownIsEmpty, NoCall, Busy

LEMMA AloneOne ==
  ASSUME WorkerInv, NEW c \in DOMAIN calls, Alone(c)
  PROVE  Achieved(calls[c].pc) /\ \A y \in DOMAIN calls \ {c} : ~Busy(y)
  BY DEF WorkerInv, AloneAchieves

LEMMA QuiesceSteps ==
  ASSUME WorkerInv, NEW c \in DOMAIN calls,
         \/ CoordinatorQuiesce(c) \/ CoordinatorQuiesced(c) \/ SetPaymentProviderQuiesced(c)
         \/ PaymentsDrained(c) \/ LocalDrained(c)
  PROVE  WorkerInv'
  <1>0. /\ Alone(c) => Achieved(calls[c].pc)
        /\ Busy(c) => coord # "DOWN"
    BY AloneOne, CallUp
  <1>1. CASE CoordinatorQuiesce(c)
    <2>1. Goto(c, "pause") /\ coord = "QUIESCED" /\ coord' = coord => WorkerInv'
      BY <1>0, <1>1, MiddleStep DEF CoordinatorQuiesce, At, Achieved
    <2>2. Goto(c, "mark") /\ coord' = "QUIESCING" => WorkerInv'
      BY <1>0, <1>1, MiddleStep DEF CoordinatorQuiesce, At, Achieved
    <2>3. Goto(c, AfterFailure(c)) /\ coord' = coord => WorkerInv'
      <3>1. AfterFailure(c) \in {"drain", "idle"}
        BY DEF AfterFailure
      <3>2. coord # "DOWN"
        BY <1>0, <1>1 DEF CoordinatorQuiesce, At, Busy
      <3>3. \A pc \in {"drain", "idle"} : Achieved(pc)'
        BY DEF Achieved
      <3> QED BY <1>1, <3>1, <3>2, <3>3, MiddleStep DEF CoordinatorQuiesce, At
    <2> QED BY <1>1, <2>1, <2>2, <2>3 DEF CoordinatorQuiesce
  <1>2. CASE CoordinatorQuiesced(c)
    BY <1>0, <1>2, MiddleStep DEF CoordinatorQuiesced, At, Achieved
  <1>3. CASE SetPaymentProviderQuiesced(c)
    <2>1. coord # "DOWN"
      BY <1>0, <1>3 DEF SetPaymentProviderQuiesced, At, Busy
    <2> QED BY <1>0, <1>3, <2>1, MiddleStep DEF SetPaymentProviderQuiesced, At, Achieved
  <1>4. CASE PaymentsDrained(c)
    <2>1. coord # "DOWN" /\ Idle /\ ops' = ops
      BY <1>0, <1>4 DEF PaymentsDrained, At, Busy, NoneActive, Others
    <2>2. Idle'
      BY <2>1 DEF Idle
    <2> QED BY <1>0, <1>4, <2>1, <2>2, MiddleStep DEF PaymentsDrained, At, Achieved
  <1>5. CASE LocalDrained(c)
    <2>1. coord # "DOWN" /\ ops' = ops
      BY <1>0, <1>5 DEF LocalDrained, At, Busy, Others
    <2>2. Idle => Idle'
      BY <2>1 DEF Idle
    <2> QED BY <1>0, <1>5, <2>1, <2>2, MiddleStep DEF LocalDrained, At, Achieved
  <1> QED BY <1>1, <1>2, <1>3, <1>4, <1>5

LEMMA ResumeSteps ==
  ASSUME WorkerInv, NEW c \in DOMAIN calls,
         \/ QuiesceFails(c) \/ CoordinatorResume(c) \/ CoordinatorResumed(c)
         \/ ResumeServices(c) \/ ResumePayments(c)
  PROVE  WorkerInv'
  <1>0. /\ Alone(c) => Achieved(calls[c].pc)
        /\ Busy(c) => coord # "DOWN"
    BY AloneOne, CallUp
  <1>1. CASE QuiesceFails(c)
    <2>1. coord # "DOWN" /\ Achieved("resume")'
      BY <1>0, <1>1 DEF QuiesceFails, Busy, Achieved
    <2> QED BY <1>1, <2>1, MiddleStep DEF QuiesceFails
  <1>2. CASE CoordinatorResume(c)
    <2>1. coord # "DOWN" /\ coord' = coord
      BY <1>0, <1>2 DEF CoordinatorResume, At, Busy
    <2>2. AfterFailure(c) \in {"drain", "idle"}
      BY DEF AfterFailure
    <2>3. \A pc \in {"drain", "idle", "ready"} : Achieved(pc)'
      BY DEF Achieved
    <2>4. coord = "READY" => Achieved("run")'
      BY <2>1 DEF Achieved
    <2> QED BY <1>2, <2>1, <2>2, <2>3, <2>4, MiddleStep DEF CoordinatorResume, At
  <1>3. CASE CoordinatorResumed(c)
    BY <1>0, <1>3, MiddleStep DEF CoordinatorResumed, At, Achieved
  <1>4. CASE ResumeServices(c)
    <2>1. coord # "DOWN"
      BY <1>0, <1>4 DEF ResumeServices, At, Busy
    <2> QED BY <1>0, <1>4, <2>1, MiddleStep DEF ResumeServices, At, Achieved
  <1>5. CASE ResumePayments(c)
    <2>1. coord # "DOWN"
      BY <1>0, <1>5 DEF ResumePayments, At, Busy
    <2> QED BY <1>0, <1>5, <2>1, MiddleStep DEF ResumePayments, At, Achieved
  <1> QED BY <1>1, <1>2, <1>3, <1>4, <1>5

\* The answers: what they promise has been achieved by a call that was alone.
LEMMA QuiescedStep ==
  ASSUME WorkerInv, NEW c \in DOMAIN calls, Quiesced(c)
  PROVE  WorkerInv'
  <1>0. /\ Goto(c, After(c)) /\ After(c) \in {"drain", "idle"}
        /\ coord' = coord /\ paused' = paused /\ dispatching' = dispatching
        /\ ~maintaining' /\ ops' = ops /\ Busy(c) /\ calls[c].pc = "deliveries"
        /\ quiet' = IF calls[c].alone THEN "all" ELSE quiet
    BY DEF Quiesced, After, At, Busy, Others
  <1>1. coord # "DOWN" /\ \A pc \in {"drain", "idle"} : Achieved(pc)'
    BY <1>0, CallUp DEF Achieved
  <1>2. /\ CallsShaped' /\ AloneAchieves' /\ DownIsEmpty' /\ DOMAIN calls' = DOMAIN calls
        /\ calls'[c].pc = After(c) /\ \A y \in DOMAIN calls \ {c} : calls'[y] = calls[y]
    BY <1>0, <1>1, CallStep
  <1>3. CASE calls[c].alone
    <2>1. /\ paused /\ Idle /\ ~dispatching /\ coord = "QUIESCED"
          /\ \A y \in DOMAIN calls \ {c} : ~Busy(y)
      BY <1>0, <1>3, AloneOne DEF Alone, Achieved
    <2>2. Idle'
      BY <1>0, <2>1 DEF Idle
    <2>3. \A y \in DOMAIN calls' : calls'[y].pc \in {"idle", "drain"}
      BY <1>0, <1>2, <2>1 DEF Busy
    <2>4. Promised'
      BY <1>0, <1>3, <2>1, <2>2, <2>3 DEF Promised
    <2> QED BY <1>2, <2>4 DEF WorkerInv
  <1>4. CASE ~calls[c].alone
    <2>1. quiet \notin {"all", "payments", "running"} /\ quiet' = quiet
      BY <1>0, <1>4 DEF WorkerInv, Promised, Busy
    <2> QED BY <1>2, <2>1 DEF WorkerInv, Promised
  <1> QED BY <1>3, <1>4

LEMMA ResumedStep ==
  ASSUME WorkerInv, NEW c \in DOMAIN calls, ResumeReconciler(c)
  PROVE  WorkerInv'
  <1> DEFINE quick == calls[c].alone /\ calls[c].do # "stop"
  <1>0. /\ Goto(c, AfterFailure(c)) /\ AfterFailure(c) \in {"drain", "idle"}
        /\ calls[c].do # "stop" => AfterFailure(c) = "idle"
        /\ coord' = coord /\ dispatching' = dispatching /\ maintaining' = maintaining
        /\ ~halted' /\ Busy(c) /\ calls[c].pc = "unhalt"
        /\ quiet' = IF quick THEN "running" ELSE quiet
    BY DEF ResumeReconciler, AfterFailure, At, Busy
  <1>1. coord # "DOWN" /\ \A pc \in {"drain", "idle"} : Achieved(pc)'
    BY <1>0, CallUp DEF Achieved
  <1>2. /\ CallsShaped' /\ AloneAchieves' /\ DownIsEmpty' /\ DOMAIN calls' = DOMAIN calls
        /\ calls'[c].pc = AfterFailure(c)
        /\ \A y \in DOMAIN calls \ {c} : calls'[y] = calls[y]
    BY <1>0, <1>1, CallStep
  <1>3. CASE quick
    <2>1. /\ dispatching /\ maintaining /\ coord = "READY"
          /\ \A y \in DOMAIN calls \ {c} : ~Busy(y)
      BY <1>0, <1>3, AloneOne DEF Alone, Achieved
    <2>2. \A y \in DOMAIN calls' : calls'[y].pc = "idle"
      BY <1>0, <1>2, <1>3, <2>1 DEF Busy
    <2>3. Promised'
      BY <1>0, <1>3, <2>1, <2>2 DEF Promised, Busy
    <2> QED BY <1>2, <2>3 DEF WorkerInv
  <1>4. CASE ~quick
    <2>1. quiet \notin {"all", "payments", "running"} /\ quiet' = quiet
      BY <1>0, <1>4 DEF WorkerInv, Promised, Busy
    <2> QED BY <1>2, <2>1 DEF WorkerInv, Promised
  <1> QED BY <1>3, <1>4

\* Draining and stopping keep a promised silence.
LEMMA DrainSteps ==
  ASSUME WorkerInv, NEW c \in DOMAIN calls, CoordinatorDrain(c) \/ CoordinatorStop(c)
  PROVE  WorkerInv'
  <1>1. PICK pc \in {"idle", "stop", "exit"} : Goto(c, pc)
    BY DEF CoordinatorDrain, CoordinatorStop
  <1>2. /\ calls[c].pc \in {"drain", "stop"} /\ coord' \in {"DRAINING", "STOPPING"}
        /\ paused' = paused /\ dispatching' = dispatching /\ maintaining' = maintaining
        /\ ops' = ops /\ quiet' = quiet
    BY DEF CoordinatorDrain, CoordinatorStop, At, Others
  <1>3. Busy(c) /\ Achieved(pc)'
    BY <1>2 DEF Busy, Achieved
  <1>4. /\ CallsShaped' /\ AloneAchieves' /\ DownIsEmpty' /\ DOMAIN calls' = DOMAIN calls
        /\ calls'[c].pc = pc /\ \A y \in DOMAIN calls \ {c} : calls'[y] = calls[y]
    BY <1>1, <1>2, <1>3, CallStep
  <1>5. quiet \notin {"payments", "running"}
    BY <1>2 DEF WorkerInv, Promised, Busy
  <1>6. quiet = "all" => /\ paused /\ Idle /\ ~dispatching /\ ~maintaining
                         /\ \A y \in DOMAIN calls : calls[y].pc \in {"idle", "drain", "stop", "exit"}
    BY DEF WorkerInv, Promised
  <1>7. Idle => Idle'
    BY <1>2 DEF Idle
  <1>8. Promised'
    BY <1>1, <1>2, <1>4, <1>5, <1>6, <1>7 DEF Promised
  <1> QED BY <1>4, <1>8 DEF WorkerInv

-----------------------------------------------------------------------------
(* Requests, and the life of the process.                                  *)

\* A call keeps its place when another one comes.
LEMMA DisturbedCall ==
  ASSUME NEW q, IsCall(q)
  PROVE  LET r == [q EXCEPT !.alone = FALSE]
         IN  r.alone = FALSE /\ r.pc = q.pc /\ IsCall(r)
  <1>1. ASSUME NEW flag
        PROVE  LET r == [q EXCEPT !.alone = flag]
               IN  r.alone = flag /\ r.pc = q.pc /\ IsCall(r)
    BY DEF IsCall
  <1> QED BY <1>1

\* A request disturbs every other call, and all promises.
LEMMA EnterStep ==
  ASSUME WorkerInv, NEW c \in Callers \cup {Main}, NEW do, NEW pc \in {"quiesce", "resume"},
         Up, Enter(c, do, pc)
  PROVE  WorkerInv'
  <1> DEFINE D == Callers \cup {Main}
             alone == \A y \in DOMAIN calls : ~Busy(y)
             new(x) == IF x = c THEN [do |-> do, pc |-> pc, alone |-> alone]
                       ELSE [calls[x] EXCEPT !.alone = FALSE]
  <1>0. /\ DOMAIN calls = D /\ \A x \in D : IsCall(calls[x])
        /\ calls' = [x \in D |-> new(x)] /\ quiet' = "no" /\ coord' = coord
    BY DEF WorkerInv, CallsShaped, Enter
  <1>1. /\ IsCall(new(c)) /\ new(c).pc = pc /\ new(c).alone = alone
        /\ \A x \in D \ {c} : /\ IsCall(new(x)) /\ new(x).alone = FALSE
                              /\ new(x).pc = calls[x].pc
    <2>1. \A x \in D \ {c} : new(x) = [calls[x] EXCEPT !.alone = FALSE]
      OBVIOUS
    <2>2. IsCall(new(c)) /\ new(c).pc = pc /\ new(c).alone = alone
      BY DEF IsCall
    <2> QED BY <1>0, <2>1, <2>2, DisturbedCall
  <1> HIDE DEF new
  <1>2. DOMAIN calls' = D /\ \A x \in D : calls'[x] = new(x)
    BY <1>0
  <1>3. CallsShaped'
    BY <1>0, <1>1, <1>2 DEF CallsShaped
  <1>4. AloneAchieves'
    <2>1. ASSUME NEW x \in D, calls'[x].alone, calls'[x].pc # "idle"
          PROVE  /\ calls'[x].pc = pc
                 /\ \A y \in D \ {x} : calls'[y].pc = "idle"
      BY <1>0, <1>1, <1>2, <2>1 DEF Busy
    <2>2. Achieved(pc)'
      BY DEF Achieved
    <2>3. \A x \in D : calls'[x].alone /\ calls'[x].pc # "idle" => Achieved(calls[x].pc)'
      BY <2>1, <2>2 DEF Achieved
    <2> QED BY <1>2, <2>1, <2>3 DEF AloneAchieves, Alone, Busy
  <1>5. Promised' /\ DownIsEmpty'
    BY <1>0 DEF Promised, DownIsEmpty, Up
  <1> QED BY <1>3, <1>4, <1>5 DEF WorkerInv

\* Of a worker that is gone only the flag and the leases are left.
LEMMA GoneStep ==
  ASSUME WorkerInv, Shaped, Gone
  PROVE  WorkerInv'
  <1>0. /\ DOMAIN calls = Callers \cup {Main} /\ calls' = [c \in DOMAIN calls |-> NoCall]
        /\ coord' = "DOWN" /\ paused' = paused
        /\ quiet' = IF quiet \in {"all", "payments"} THEN "payments" ELSE "no"
    BY DEF WorkerInv, CallsShaped, Gone
  <1>1. DOMAIN calls' = Callers \cup {Main} /\ \A c \in DOMAIN calls' : calls'[c] = NoCall
    BY <1>0
  <1>2. NoCall.pc = "idle" /\ NoCall.alone = FALSE /\ IsCall(NoCall)
    BY DEF NoCall, IsCall
  <1>3. CallsShaped' /\ AloneAchieves' /\ DownIsEmpty'
    BY <1>0, <1>1, <1>2 DEF CallsShaped, AloneAchieves, Alone, Busy, DownIsEmpty
  <1>4. Idle => Idle'
    BY NoOpShape DEF Gone, Idle, Dead
  <1>5. quiet' = "payments" => paused' /\ Idle'
    BY <1>0, <1>4 DEF WorkerInv, Promised
  <1>6. Promised'
    BY <1>0, <1>1, <1>2, <1>5 DEF Promised
  <1> QED BY <1>3, <1>6 DEF WorkerInv

LEMMA StartSteps ==
  ASSUME WorkerInv, WorkerStarts \/ SetReady
  PROVE  WorkerInv'
  <1>0. /\ CallsShaped /\ AloneAchieves /\ Promised /\ DownIsEmpty
        /\ Main \in DOMAIN calls
    BY DEF WorkerInv, CallsShaped
  <1>u. quiet' = quiet /\ paused' = paused /\ ops' = ops
    BY DEF WorkerStarts, SetReady, Others
  <1>i. Idle => Idle'
    BY <1>u DEF Idle
  <1>1. CASE WorkerStarts
    <2>1. /\ \A x \in DOMAIN calls : calls[x].alone = FALSE /\ calls[x].pc = "idle"
          /\ Goto(Main, "start") /\ coord' = "STARTING" /\ coord = "DOWN"
      BY <1>0, <1>1 DEF DownIsEmpty, NoCall, WorkerStarts, Up
    <2>2. /\ CallsShaped' /\ DOMAIN calls' = DOMAIN calls /\ calls'[Main].pc = "start"
          /\ \A x \in DOMAIN calls : calls'[x].alone = FALSE /\ calls'[x].pc \in {"idle", "start"}
      BY <1>0, <2>1, CallMoves
    <2>3. AloneAchieves' /\ DownIsEmpty'
      BY <2>1, <2>2 DEF AloneAchieves, Alone, DownIsEmpty
    <2>4. quiet \notin {"all", "running"}
      BY <1>0, <2>1 DEF Promised
    <2>5. Promised'
      BY <1>0, <1>u, <1>i, <2>2, <2>4 DEF Promised
    <2> QED BY <2>2, <2>3, <2>5 DEF WorkerInv
  <1>2. CASE SetReady
    <2>1. Goto(Main, "idle") /\ coord' = "READY" /\ calls[Main].pc = "start" /\ Busy(Main)
      BY <1>2 DEF SetReady, At, Busy
    <2>2. Achieved("idle")'
      BY DEF Achieved
    <2>3. /\ CallsShaped' /\ AloneAchieves' /\ DownIsEmpty' /\ DOMAIN calls' = DOMAIN calls
          /\ calls'[Main].pc = "idle" /\ \A y \in DOMAIN calls \ {Main} : calls'[y] = calls[y]
      BY <1>0, <2>1, <2>2, CallStep
    <2>4. quiet \notin {"all", "running"}
      BY <1>0, <2>1 DEF Promised
    <2>5. Promised'
      BY <1>0, <1>u, <1>i, <2>3, <2>4 DEF Promised
    <2> QED BY <2>3, <2>5 DEF WorkerInv
  <1> QED BY <1>1, <1>2

LEMMA WorkerInvInit ==
  ASSUME Init
  PROVE  WorkerInv
  <1>1. /\ calls = [c \in Callers \cup {Main} |-> NoCall] /\ quiet = "no" /\ coord = "READY"
    BY DEF Init, WorkerInit
  <1>2. NoCall.pc = "idle" /\ NoCall.alone = FALSE /\ IsCall(NoCall)
    BY DEF NoCall, IsCall
  <1> QED BY <1>1, <1>2 DEF WorkerInv, CallsShaped, AloneAchieves, Alone, Promised, DownIsEmpty

LEMMA WorkerInvStep ==
  ASSUME Covered, WorkerInv, [Next]_vars
  PROVE  WorkerInv'
  <1>0. Shaped /\ DOMAIN calls = Callers \cup {Main}
    BY DEF Covered, WorkerInv, CallsShaped
  <1>1. CASE UNCHANGED vars
    BY <1>1 DEF vars, workerVars, providerVars, WorkerInv, CallsShaped, AloneAchieves, Alone,
       Achieved, Busy, Promised, Idle, DownIsEmpty
  <1>2. CASE ProviderNext /\ UNCHANGED workerVars
    BY <1>0, <1>2, ProviderStep
  <1>3. CASE \E c \in Callers : Request(c)
    BY <1>3, EnterStep DEF Request
  <1>4. CASE Shutdown
    BY <1>4, EnterStep DEF Shutdown
  <1>5. ASSUME NEW c \in DOMAIN calls, Call(c)
        PROVE  WorkerInv'
    BY <1>5, QuiesceSteps, ResumeSteps, QuiescedStep, ResumedStep, DrainSteps DEF Call
  <1>6. CASE WorkerDies \/ WorkerExits \/ SetReadyFails
    BY <1>0, <1>6, GoneStep DEF WorkerDies, WorkerExits, SetReadyFails
  <1>7. CASE WorkerStarts \/ SetReady
    BY <1>7, StartSteps
  <1> QED BY <1>1, <1>2, <1>3, <1>4, <1>5, <1>6, <1>7 DEF Next

(* An answered quiesce that no other call disturbed keeps every operation  *)
(* from committing, beyond the death of the worker, and its dispatcher and *)
(* maintenance paused until another call; an answered resume, or a quiesce *)
(* that failed, leaves everything running (Quiesce, fail, Resume, readyz). *)
THEOREM AnswersAreKept == Spec => []AnswersHold
  <1>1. Init => Covered /\ WorkerInv
    BY CoveredInit, WorkerInvInit
  <1>2. Covered /\ WorkerInv /\ [Next]_vars => (Covered /\ WorkerInv)'
    BY CoveredStep, WorkerInvStep
  <1>3. WorkerInv => AnswersHold
    BY DEF WorkerInv, Promised, AnswersHold, deployz, readyz
  <1> QED BY <1>1, <1>2, <1>3, PTL DEF Spec
=============================================================================
