---------------------------- MODULE WorkerLifecycle ----------------------------
(***************************************************************************)
(* The singleton worker: its coordinator state, the private RPCs that pause*)
(* and resume it, and its start, shutdown and death, together with the     *)
(* operations and the gate of ProviderConfig.  A quiesce goes through the  *)
(* coordinator, the database flag that all processes read, the operations' *)
(* leases, the reconciler, the dispatcher and the maintenance; calls       *)
(* overlap, and a call that fails half way resumes everything.             *)
(***************************************************************************)
EXTENDS ProviderConfig

CONSTANTS Callers,   \* RPC requests under way at the same time
          Main       \* the main goroutine, which quiesces at shutdown

VARIABLES
    coord,       \* workerstate.Coordinator.state, or DOWN when no worker runs
    drained,     \* drainDone is closed
    dispatching, \* the dispatcher is not paused
    maintaining, \* the maintenance runner is not paused
    calls,       \* what each caller and Main is doing
    quiet        \* history: what the last call promised if nothing disturbed it

workerVars == <<coord, drained, dispatching, maintaining, calls, quiet>>
vars == <<gateVars, providerVars, workerVars>>

NoCall == [do |-> "none", pc |-> "idle", alone |-> FALSE]

WorkerInit ==
    /\ coord = "READY" /\ drained = FALSE
    /\ dispatching = TRUE /\ maintaining = TRUE
    /\ calls = [c \in Callers \cup {Main} |-> NoCall]
    /\ quiet = "no"

Init == ProviderInit /\ WorkerInit

-----------------------------------------------------------------------------
(* The steps of a call.                                                    *)

Busy(c)     == calls[c].pc # "idle"
At(c, pc)   == calls[c].pc = pc
Goto(c, pc) == calls' = [calls EXCEPT ![c].pc = pc]

\* The variables of a step of a call that leaves the others alone.
Others == UNCHANGED <<gateVars, cfg, versions, ops, orders, links, confirmed, budget>>

\* A request is let in, or Main leaves its select.  Every call under way is
\* disturbed by it, and it by them.
Enter(c, do, pc) ==
    /\ ~Busy(c)
    /\ Spend
    /\ calls' = [x \in DOMAIN calls |->
                   IF x = c
                   THEN [do |-> do, pc |-> pc,
                         alone |-> \A y \in DOMAIN calls : ~Busy(y)]
                   ELSE [calls[x] EXCEPT !.alone = FALSE]]
    /\ quiet' = "no"
    /\ UNCHANGED <<gateVars, cfg, versions, paused, halted, ops, orders, links, confirmed,
                   coord, drained, dispatching, maintaining>>

Up == coord # "DOWN"

\* Whether a worker of the release asked for answers that it is ready; the
\* heartbeat is fresh while the process runs.
readyz == coord = "READY"

deployz == [state |-> coord, ready |-> readyz]

\* /rpc/quiesce, /rpc/drain and /rpc/resume.
Request(c) == /\ Up
              /\ \/ \E do \in {"quiesce", "drain"} : Enter(c, do, "quiesce")
                 \/ Enter(c, "resume", "resume")

\* SIGTERM, or drainDone was closed.
Shutdown == /\ Up
            /\ Enter(Main, "stop", "quiesce")

\* What follows the answer of Quiesce or Resume within the same call.
After(c) == IF calls[c].do \in {"drain", "stop"} THEN "drain" ELSE "idle"

\* What follows when Quiesce returned an error: Main goes on regardless.
AfterFailure(c) == IF calls[c].do = "stop" THEN "drain" ELSE "idle"

\* Coordinator.Quiesce, up to the first unlock ...
CoordinatorQuiesce(c) ==
    /\ At(c, "quiesce")
    /\ \/ coord = "QUIESCED" /\ Goto(c, "pause") /\ UNCHANGED coord
       \/ coord \in {"DRAINING", "STOPPING"} /\ Goto(c, AfterFailure(c)) /\ UNCHANGED coord
       \/ coord \in {"STARTING", "READY", "QUIESCING"} /\ Goto(c, "mark") /\ coord' = "QUIESCING"
    /\ UNCHANGED <<paused, halted, drained, dispatching, maintaining, quiet>> /\ Others

\* ... and after it: whatever the state is by now.
CoordinatorQuiesced(c) ==
    /\ At(c, "mark")
    /\ coord' = "QUIESCED"
    /\ Goto(c, "pause")
    /\ UNCHANGED <<paused, halted, drained, dispatching, maintaining, quiet>> /\ Others

SetPaymentProviderQuiesced(c) ==
    /\ At(c, "pause")
    /\ paused' = TRUE
    /\ Goto(c, "active")
    /\ UNCHANGED <<halted, coord, drained, dispatching, maintaining, quiet>> /\ Others

NoLeaseSeen == TRUE   \* faulty variant: the operations are not waited for

\* PaymentProviderActiveRequests is 0.
NoneActive == Idle

PaymentsDrained(c) ==
    /\ At(c, "active")
    /\ NoneActive
    /\ halted' = TRUE
    /\ Goto(c, "local")
    /\ UNCHANGED <<paused, coord, drained, dispatching, maintaining, quiet>> /\ Others

\* reconcile.active is 0.
LocalDrained(c) ==
    /\ At(c, "local")
    /\ \A o \in WorkerOps : ops[o].pc \in {"idle", "pinned", "dead"}
    /\ dispatching' = FALSE
    /\ Goto(c, "deliveries")
    /\ UNCHANGED <<paused, halted, coord, drained, maintaining, quiet>> /\ Others

\* Dispatcher.Drain has returned; Pause, the watermark and the answer.
Quiesced(c) ==
    /\ At(c, "deliveries")
    /\ maintaining' = FALSE
    /\ Goto(c, After(c))
    /\ quiet' = IF calls[c].alone THEN "all" ELSE quiet
    /\ UNCHANGED <<paused, halted, coord, drained, dispatching>> /\ Others

\* A database error, or the deadline of the request: fail.
QuiesceFails(c) ==
    /\ calls[c].pc \in {"pause", "active", "local", "deliveries"}
    /\ Goto(c, "resume")
    /\ UNCHANGED <<paused, halted, coord, drained, dispatching, maintaining, quiet>> /\ Others

\* Coordinator.Resume, in two sections as well.
CoordinatorResume(c) ==
    /\ At(c, "resume")
    /\ \/ coord = "READY" /\ Goto(c, "run")
       \/ coord \in {"QUIESCED", "QUIESCING"} /\ Goto(c, "ready")
       \/ coord \in {"STARTING", "DRAINING", "STOPPING"} /\ Goto(c, AfterFailure(c))
    /\ UNCHANGED <<paused, halted, coord, drained, dispatching, maintaining, quiet>> /\ Others

CoordinatorResumed(c) ==
    /\ At(c, "ready")
    /\ coord' = "READY"
    /\ Goto(c, "run")
    /\ UNCHANGED <<paused, halted, drained, dispatching, maintaining, quiet>> /\ Others

\* The dispatcher, the maintenance, and the flag, whose failure is ignored.
ResumeServices(c) ==
    /\ At(c, "run")
    /\ dispatching' = TRUE /\ maintaining' = TRUE
    /\ Goto(c, "unpause")
    /\ UNCHANGED <<paused, halted, coord, drained, quiet>> /\ Others

ResumePayments(c) ==
    /\ At(c, "unpause")
    /\ paused' \in {FALSE, paused}
    /\ Goto(c, "unhalt")
    /\ UNCHANGED <<halted, coord, drained, dispatching, maintaining, quiet>> /\ Others

ResumeReconciler(c) ==
    /\ At(c, "unhalt")
    /\ halted' = FALSE
    /\ Goto(c, AfterFailure(c))
    /\ quiet' = IF calls[c].alone /\ calls[c].do # "stop" THEN "running" ELSE quiet
    /\ UNCHANGED <<paused, coord, drained, dispatching, maintaining>> /\ Others

\* Coordinator.Drain: a second one returns when the first has.
CoordinatorDrain(c) ==
    /\ At(c, "drain")
    /\ coord = "DRAINING" => drained
    /\ IF coord = "STOPPING" THEN UNCHANGED <<coord, drained>>
       ELSE coord' = "DRAINING" /\ drained' = TRUE
    /\ Goto(c, IF calls[c].do = "stop" THEN "stop" ELSE "idle")
    /\ UNCHANGED <<paused, halted, dispatching, maintaining, quiet>> /\ Others

\* Coordinator.Stop; then the contexts are cancelled and the process ends.
CoordinatorStop(c) ==
    /\ At(c, "stop")
    /\ coord' = "STOPPING"
    /\ Goto(c, "exit")
    /\ UNCHANGED <<paused, halted, drained, dispatching, maintaining, quiet>> /\ Others

-----------------------------------------------------------------------------
(* The process.                                                            *)

\* Nothing of it is left but the rows: the flag, the leases of its operations.
Gone ==
    /\ coord' = "DOWN" /\ drained' = FALSE
    /\ dispatching' = FALSE /\ maintaining' = FALSE /\ halted' = FALSE
    /\ calls' = [c \in DOMAIN calls |-> NoCall]
    /\ quiet' = IF quiet \in {"all", "payments"} THEN "payments" ELSE "no"
    /\ ops' = [o \in Ops |-> IF o \in WorkerOps THEN Dead(ops[o]) ELSE ops[o]]
    /\ UNCHANGED <<gateVars, cfg, versions, paused, orders, links, confirmed>>

WorkerDies  == Up /\ Spend /\ Gone
WorkerExits == At(Main, "exit") /\ Gone /\ UNCHANGED budget

\* The lock file is free; the loops run and the RPCs are served.
WorkerStarts ==
    /\ ~Up
    /\ coord' = "STARTING"
    /\ dispatching' = TRUE /\ maintaining' = TRUE
    /\ Goto(Main, "start")
    /\ UNCHANGED <<paused, halted, drained, quiet>> /\ Others

SetReady ==
    /\ At(Main, "start") /\ coord = "STARTING"
    /\ coord' = "READY"
    /\ Goto(Main, "idle")
    /\ UNCHANGED <<paused, halted, drained, dispatching, maintaining, quiet>> /\ Others

\* A quiesce that came first makes SetReady fail, which ends the process.
SetReadyFails == At(Main, "start") /\ coord # "STARTING" /\ Gone /\ UNCHANGED budget

Call(c) ==
    \/ CoordinatorQuiesce(c) \/ CoordinatorQuiesced(c) \/ SetPaymentProviderQuiesced(c)
    \/ PaymentsDrained(c) \/ LocalDrained(c) \/ Quiesced(c) \/ QuiesceFails(c)
    \/ CoordinatorResume(c) \/ CoordinatorResumed(c) \/ ResumeServices(c)
    \/ ResumePayments(c) \/ ResumeReconciler(c) \/ CoordinatorDrain(c) \/ CoordinatorStop(c)

\* The operations of the worker need one.
WorkerOpsStop == ~Up => \A o \in WorkerOps : ops'[o].pc \in {"idle", "dead"}

Next ==
    \/ ProviderNext /\ WorkerOpsStop /\ UNCHANGED workerVars
    \/ \E c \in Callers : Request(c)
    \/ \E c \in DOMAIN calls : Call(c)
    \/ Shutdown \/ WorkerDies \/ WorkerExits \/ WorkerStarts \/ SetReady \/ SetReadyFails

Spec == Init /\ [][Next]_vars

-----------------------------------------------------------------------------
(* Properties.                                                             *)

(* When a quiesce was answered and no other call came before, during or    *)
(* after it, no operation of any process is admitted or can still commit,  *)
(* also when the worker dies and starts again; until then its dispatcher   *)
(* and its maintenance stay paused and it is not ready.  When a resume was *)
(* answered, or a quiesce that failed half way, and no other call came,    *)
(* everything in the worker runs and it is ready (Quiesce, fail, Resume).  *)
AnswersHold ==
    /\ quiet \in {"all", "payments"} => Idle
    /\ quiet = "all" => ~dispatching /\ ~maintaining /\ ~deployz.ready
    /\ quiet = "running" => dispatching /\ maintaining /\ ~halted /\ readyz
=============================================================================
