---------------------------- MODULE DeliveryOutbox ----------------------------
(***************************************************************************)
(* The delivery outbox (internal/storage: deliveries.go, events.go,        *)
(* notifications.go) and the dispatcher that empties it                    *)
(* (internal/notification/dispatcher.go): an event committed for the       *)
(* active channels is claimed, sent and completed by the goroutines of one *)
(* worker process, which may stop between any two database writes, outlive *)
(* its claim, be drained for a deployment, or be restarted.                *)
(*                                                                         *)
(* Time is reduced to what is compared with it: due tells whether          *)
(* next_attempt_at has passed, leased whether lease_until has not.  Claims *)
(* are taken in any order (the code takes the earliest next_attempt_at).   *)
(***************************************************************************)
EXTENDS Naturals, FiniteSets

CONSTANTS Events, Endpoints,
          Workers,        \* the dispatcher's goroutines
          NoWorker,
          MaxRetries,     \* attempts of one retry cycle
          MaxVersion,     \* bound on channel revisions and keys
          FaultBudget,    \* bound on crashes, stalls and database errors
          ChangeBudget    \* bound on channel edits, disablings, replays and drains

ASSUME OutboxAssumption == /\ NoWorker \notin Workers
                           /\ IsFiniteSet(Workers)
                           /\ MaxRetries \in Nat \ {0}
                           /\ MaxVersion \in Nat \ {0}
                           /\ FaultBudget \in Nat
                           /\ ChangeBudget \in Nat

VARIABLES
    endpoint,     \* webhook_endpoints with their revision and active key
    emitted,      \* events
    row,          \* deliveries
    attempted,    \* delivery_attempts: <<delivery, attempt_number>>
    job,          \* what each goroutine is doing
    active,       \* Dispatcher.active
    paused,       \* Dispatcher.paused
    drain,        \* the caller of Drain: "no", "waiting" or "done"
    accepted,     \* external: what the receivers took
    committed,    \* history: the channel version an event was committed for
    faults, changes

db   == <<endpoint, emitted, row, attempted>>
vars == <<db, job, active, paused, drain, accepted, committed, faults, changes>>

Deliveries == Events \X Endpoints
Version    == [rev: 1..MaxVersion, key: 1..MaxVersion]
NoVersion  == [rev |-> 0, key |-> 0]

Endpoint == [status: {"ACTIVE", "DISABLED"}, version: Version]

Statuses == {"NONE", "PENDING", "IN_FLIGHT", "DELIVERED", "DEAD_LETTER"}
Row == [status: Statuses, attempts: Nat, cycleStart: Nat, due: BOOLEAN,
        token: Workers \cup {NoWorker}, leased: BOOLEAN,
        version: Version \cup {NoVersion}]
NoRow == [status |-> "NONE", attempts |-> 0, cycleStart |-> 0, due |-> FALSE,
          token |-> NoWorker, leased |-> FALSE, version |-> NoVersion]

Outcomes == {"SUCCESS", "RETRY", "TERMINAL_FAILURE"}
PCs      == {"idle", "admitted", "claim", "target", "send", "record", "finish"}

\* The claimed delivery as DispatchOne keeps it.
Job == [pc: PCs, at: Deliveries \cup {NoWorker}, attempts: Nat,
        cycleStart: Nat, version: Version \cup {NoVersion},
        result: Outcomes \cup {"none"}]
Idle == [pc |-> "idle", at |-> NoWorker, attempts |-> 0, cycleStart |-> 0,
         version |-> NoVersion, result |-> "none"]

\* CreateEndpointWithSecret and CreateBarkChannel: a channel starts disabled,
\* with its first revision and key.
NewEndpoint == [status |-> "DISABLED", version |-> [rev |-> 1, key |-> 1]]

Init ==
    /\ endpoint  = [p \in Endpoints |-> NewEndpoint]
    /\ emitted   = {}
    /\ row       = [d \in Deliveries |-> NoRow]
    /\ attempted = {}
    /\ job       = [w \in Workers |-> Idle]
    /\ active    = 0
    /\ paused    = FALSE
    /\ drain     = "no"
    /\ accepted  = {}
    /\ committed = [d \in Deliveries |-> NoVersion]
    /\ faults    = 0
    /\ changes   = 0

Fault        == faults < FaultBudget /\ faults' = faults + 1
Change       == changes < ChangeBudget /\ changes' = changes + 1
Become(w, j) == job' = [job EXCEPT ![w] = j]

-----------------------------------------------------------------------------
(* Transactions on one delivery row.                                       *)

\* emitTransactionEventTx: due at once, for the revision and key in force.
PendingRow(version) ==
    [NoRow EXCEPT !.status = "PENDING", !.due = TRUE, !.version = version]

\* Faulty variant: other claims on the endpoint are not looked at.
ClaimableAlone(d) ==
    /\ endpoint[d[2]].status = "ACTIVE"
    /\ \/ row[d].status = "PENDING" /\ row[d].due
       \/ row[d].status = "IN_FLIGHT" /\ ~row[d].leased

\* Faulty variant: abandoned claims are left alone.
ClaimablePending(d) ==
    /\ endpoint[d[2]].status = "ACTIVE"
    /\ row[d].status = "PENDING" /\ row[d].due
    /\ \A o \in Deliveries :
          o[2] = d[2] /\ row[o].status = "IN_FLIGHT" /\ row[o].leased => o = d

\* ClaimDelivery: due, or left behind by a claim that ran out, and nothing
\* else is in flight to the endpoint.
Claimable(d) ==
    /\ endpoint[d[2]].status = "ACTIVE"
    /\ \/ row[d].status = "PENDING" /\ row[d].due
       \/ row[d].status = "IN_FLIGHT" /\ ~row[d].leased
    /\ \A o \in Deliveries :
          o[2] = d[2] /\ row[o].status = "IN_FLIGHT" /\ row[o].leased => o = d

\* Faulty variant: taking over an abandoned claim is not a new attempt.
ClaimedRowResuming(r, w) ==
    [r EXCEPT !.status = "IN_FLIGHT", !.token = w, !.leased = TRUE,
              !.attempts = IF r.status = "PENDING" THEN @ + 1 ELSE @]

ClaimedRow(r, w) ==
    [r EXCEPT !.status = "IN_FLIGHT", !.attempts = @ + 1,
              !.token = w, !.leased = TRUE]

\* CompleteDelivery and FailDelivery compare the claim token, not the time.
HoldsAnyClaim(r, w) == r.status # "NONE"   \* faulty variant: no comparison

HoldsClaim(r, w) == r.status = "IN_FLIGHT" /\ r.token = w

\* Faulty variant: one attempt too many.
ExhaustedLate(j) == j.attempts - j.cycleStart > MaxRetries

\* effectiveAttempts >= maxRetries
Exhausted(j) == j.attempts - j.cycleStart >= MaxRetries

\* Faulty variant: the last retry is filed as delivered.
FinishedRowOptimistic(r, j) ==
    [r EXCEPT !.status = IF j.result = "TERMINAL_FAILURE" THEN "DEAD_LETTER"
                         ELSE IF j.result = "RETRY" /\ ~Exhausted(j) THEN "PENDING"
                         ELSE "DELIVERED",
              !.due = FALSE, !.token = NoWorker, !.leased = FALSE]

FinishedRow(r, j) ==
    [r EXCEPT !.status = IF j.result = "SUCCESS" THEN "DELIVERED"
                         ELSE IF j.result = "RETRY" /\ ~Exhausted(j) THEN "PENDING"
                         ELSE "DEAD_LETTER",
              !.due = FALSE, !.token = NoWorker, !.leased = FALSE]

\* ReplayDelivery: a new retry cycle that keeps counting attempts.
ReplayedRow(r) ==
    [r EXCEPT !.status = "PENDING", !.due = TRUE, !.cycleStart = r.attempts]

-----------------------------------------------------------------------------
(* The gateway: events and channels.                                       *)

\* A repeated event inserts nothing; a channel that is not active gets none.
EmitTransactionEvent(e) ==
    /\ e \notin emitted
    /\ emitted' = emitted \cup {e}
    /\ row' = [d \in Deliveries |->
                 IF d[1] = e /\ endpoint[d[2]].status = "ACTIVE"
                 THEN PendingRow(endpoint[d[2]].version) ELSE row[d]]
    /\ committed' = [d \in Deliveries |->
                       IF d[1] = e THEN endpoint[d[2]].version ELSE committed[d]]
    /\ UNCHANGED <<endpoint, attempted, job, active, paused, drain, accepted,
                   faults, changes>>

SetEndpointStatus(p, status) ==
    /\ endpoint[p].status # status
    /\ endpoint' = [endpoint EXCEPT ![p].status = status]
    /\ IF status = "DISABLED" THEN Change ELSE UNCHANGED changes
    /\ UNCHANGED <<emitted, row, attempted, job, active, paused, drain,
                   accepted, committed, faults>>

\* UpdateChannel appends a revision, RotateSecret retires the active key.
NewVersion(p, version) ==
    /\ endpoint' = [endpoint EXCEPT ![p].version = version]
    /\ Change
    /\ UNCHANGED <<emitted, row, attempted, job, active, paused, drain,
                   accepted, committed, faults>>

UpdateChannel(p) ==
    /\ endpoint[p].version.rev < MaxVersion
    /\ NewVersion(p, [endpoint[p].version EXCEPT !.rev = @ + 1])

RotateSecret(p) ==
    /\ endpoint[p].version.key < MaxVersion
    /\ NewVersion(p, [endpoint[p].version EXCEPT !.key = @ + 1])

ReplayDelivery(d) ==
    /\ row[d].status = "DEAD_LETTER"
    /\ endpoint[d[2]].status = "ACTIVE"
    /\ row' = [row EXCEPT ![d] = ReplayedRow(@)]
    /\ Change
    /\ UNCHANGED <<endpoint, emitted, attempted, job, active, paused, drain,
                   accepted, committed, faults>>

-----------------------------------------------------------------------------
(* DispatchOne.                                                            *)

\* Under the read lock: paused is looked at ...
Admit(w) ==
    /\ job[w].pc = "idle"
    /\ ~paused
    /\ Become(w, [Idle EXCEPT !.pc = "admitted"])
    /\ UNCHANGED <<db, active, paused, drain, accepted, committed, faults, changes>>

\* Faulty variant: it is not counted.
CountForgotten(w) ==
    /\ job[w].pc = "admitted"
    /\ Become(w, [Idle EXCEPT !.pc = "claim"])
    /\ UNCHANGED <<db, active, paused, drain, accepted, committed, faults, changes>>

\* ... and the delivery counted.
Count(w) ==
    /\ job[w].pc = "admitted"
    /\ active' = active + 1
    /\ Become(w, [Idle EXCEPT !.pc = "claim"])
    /\ UNCHANGED <<db, paused, drain, accepted, committed, faults, changes>>

Return(w) == Become(w, Idle) /\ active' = active - 1

ClaimDelivery(w) ==
    /\ job[w].pc = "claim"
    /\ \/ \E d \in Deliveries :
            /\ Claimable(d)
            /\ row' = [row EXCEPT ![d] = ClaimedRow(@, w)]
            /\ Become(w, [Idle EXCEPT !.pc = "target", !.at = d,
                                      !.attempts = row'[d].attempts,
                                      !.cycleStart = row[d].cycleStart,
                                      !.version = row[d].version])
            /\ UNCHANGED active
       \/ /\ \A d \in Deliveries : ~Claimable(d)
          /\ Return(w)
          /\ UNCHANGED row
    /\ UNCHANGED <<endpoint, emitted, attempted, paused, drain, accepted,
                   committed, faults, changes>>

\* Faulty variant: the channel as it is now.
TargetVersionCurrent(j) == endpoint[j.at[2]].version

\* DeliveryTargetForDelivery: the channel as it was when the event was
\* committed.
TargetVersion(j) == j.version

\* A target, sender or payload that cannot be had is a dead letter.
DeliveryTarget(w) ==
    LET j == job[w] IN
    /\ j.pc = "target"
    /\ \/ /\ Become(w, [j EXCEPT !.pc = "send", !.version = TargetVersion(j)])
          /\ UNCHANGED faults
       \/ /\ Fault
          /\ Become(w, [j EXCEPT !.pc = "finish", !.result = "TERMINAL_FAILURE"])
    /\ UNCHANGED <<db, active, paused, drain, accepted, committed, changes>>

\* What a sender meets: it cannot form the request ("unsendable") or not now
\* ("not_ready"), there is no answer, or one with a status and a body.
Answers == [http: {"unsendable", "not_ready", "none", "2xx", "3xx", "auth", "busy", "4xx"},
            body: {"ok", "busy", "refused", "garbled", "unread", "oversized"}]

\* The webhook sender: the status alone counts, busy is 408, 429 or 5xx.
WebhookSend(a) ==
    CASE a.http = "2xx" -> "SUCCESS"
      [] a.http \in {"unsendable", "auth", "4xx"} -> "TERMINAL_FAILURE"
      [] OTHER -> "RETRY"

\* The Bark sender: a 2xx answer counts by the code in its body.
doPush(a) ==
    CASE a.http \in {"not_ready", "none"} -> "RETRY"
      [] a.http = "unsendable" -> "TERMINAL_FAILURE"
      [] a.body = "unread" -> "RETRY"
      [] a.body = "oversized" \/ a.http = "auth" -> "TERMINAL_FAILURE"
      [] a.http = "2xx" /\ a.body = "ok" -> "SUCCESS"
      [] a.http = "2xx" /\ a.body \in {"busy", "garbled"} -> "RETRY"
      [] a.http = "busy" -> "RETRY"
      [] OTHER -> "TERMINAL_FAILURE"

\* A receiver may also have taken what it did not confirm.
SendResults ==
    {r \in [outcome: Outcomes, took: BOOLEAN] : \E a \in Answers :
       /\ \/ r.outcome = WebhookSend(a) /\ (a.http = "2xx" => r.took)
          \/ r.outcome = doPush(a) /\ (a.http = "2xx" /\ a.body = "ok" => r.took)
       /\ r.took => a.http \notin {"unsendable", "not_ready"}}

\* Sender.Send, whichever sender the channel has.
Send(w) ==
    LET j == job[w] IN
    /\ j.pc = "send"
    /\ \E r \in SendResults :
          /\ accepted' = IF r.took THEN accepted \cup {<<j.at, j.version>>}
                         ELSE accepted
          /\ Become(w, [j EXCEPT !.pc = "record", !.result = r.outcome])
    /\ UNCHANGED <<db, active, paused, drain, committed, faults, changes>>

\* RecordAttempt: a failed insert is logged and nothing more.
RecordAttempt(w) ==
    LET j == job[w] IN
    /\ j.pc = "record"
    /\ \/ /\ attempted' = attempted \cup {<<j.at, j.attempts>>}
          /\ UNCHANGED faults
       \/ Fault /\ UNCHANGED attempted
    /\ Become(w, [j EXCEPT !.pc = "finish"])
    /\ UNCHANGED <<endpoint, emitted, row, active, paused, drain, accepted,
                   committed, changes>>

\* CompleteDelivery or FailDelivery; a lost claim changes nothing.
FinishDelivery(w) ==
    LET j == job[w] IN
    /\ j.pc = "finish"
    /\ row' = [row EXCEPT ![j.at] = IF HoldsClaim(@, w) THEN FinishedRow(@, j) ELSE @]
    /\ Return(w)
    /\ UNCHANGED <<endpoint, emitted, attempted, paused, drain, accepted,
                   committed, faults, changes>>

\* A database error ends DispatchOne where it is.
Abort(w) ==
    /\ job[w].pc \in {"claim", "finish"}
    /\ Fault
    /\ Return(w)
    /\ UNCHANGED <<db, paused, drain, accepted, committed, changes>>

-----------------------------------------------------------------------------
(* Time.                                                                   *)

BecomesDue(d) ==
    /\ row[d].status = "PENDING" /\ ~row[d].due
    /\ row' = [row EXCEPT ![d].due = TRUE]
    /\ UNCHANGED <<endpoint, emitted, attempted, job, active, paused, drain,
                   accepted, committed, faults, changes>>

Running(d) == \E w \in Workers : row[d].token = w /\ job[w].at = d

\* A claim nobody works on runs out after 30 seconds ...
Expire(d) ==
    /\ row[d].status = "IN_FLIGHT" /\ row[d].leased
    /\ row' = [row EXCEPT ![d].leased = FALSE]
    /\ UNCHANGED <<endpoint, emitted, attempted, job, active, paused, drain,
                   accepted, committed, changes>>

LeaseExpires(d) == ~Running(d) /\ Expire(d) /\ UNCHANGED faults

\* ... and one that is worked on when its goroutine is held up that long: a
\* send takes at most 15 seconds, but the claim is not renewed before it.
Stall(d) == Running(d) /\ Fault /\ Expire(d)

-----------------------------------------------------------------------------
(* Drain, Resume and restart.                                              *)

\* Faulty variant: the flag is set without the lock.
NoReaderIgnored == TRUE

\* Pause takes the write lock: no goroutine is between its look at paused
\* and its count.
NoReader == \A w \in Workers : job[w].pc # "admitted"

Drain ==
    /\ drain = "no"
    /\ NoReader
    /\ paused' = TRUE
    /\ drain' = "waiting"
    /\ Change
    /\ UNCHANGED <<db, job, active, accepted, committed, faults>>

\* Drain polls the counter.
Drained ==
    /\ drain = "waiting"
    /\ active = 0
    /\ drain' = "done"
    /\ UNCHANGED <<db, job, active, paused, accepted, committed, faults, changes>>

\* After the deployment, or at once when the wait timed out.
Resume ==
    /\ drain # "no"
    /\ NoReader
    /\ paused' = FALSE
    /\ drain' = "no"
    /\ UNCHANGED <<db, job, active, accepted, committed, faults, changes>>

\* The process dies and is started again.
Restart ==
    /\ Fault
    /\ job' = [w \in Workers |-> Idle]
    /\ active' = 0
    /\ paused' = FALSE
    /\ drain' = "no"
    /\ UNCHANGED <<db, accepted, committed, changes>>

-----------------------------------------------------------------------------
Dispatch(w) == \/ Admit(w) \/ Count(w) \/ ClaimDelivery(w) \/ DeliveryTarget(w)
               \/ Send(w) \/ RecordAttempt(w) \/ FinishDelivery(w)

Next ==
    \/ \E w \in Workers : Dispatch(w) \/ Abort(w)
    \/ \E e \in Events : EmitTransactionEvent(e)
    \/ \E p \in Endpoints : \/ UpdateChannel(p) \/ RotateSecret(p)
                            \/ \E s \in {"ACTIVE", "DISABLED"} :
                                  SetEndpointStatus(p, s)
    \/ \E d \in Deliveries : \/ ReplayDelivery(d) \/ BecomesDue(d)
                             \/ LeaseExpires(d) \/ Stall(d)
    \/ Drain \/ Drained \/ Resume \/ Restart

Spec == Init /\ [][Next]_vars

-----------------------------------------------------------------------------
(* Properties.                                                             *)

\* Every variable keeps its type.
TypeOK ==
    /\ endpoint  \in [Endpoints -> Endpoint]
    /\ emitted   \in SUBSET Events
    /\ row       \in [Deliveries -> Row]
    /\ attempted \in SUBSET (Deliveries \X Nat)
    /\ job       \in [Workers -> Job]
    /\ active    \in Nat
    /\ paused    \in BOOLEAN
    /\ drain     \in {"no", "waiting", "done"}
    /\ accepted  \in SUBSET (Deliveries \X Version)
    /\ committed \in [Deliveries -> Version \cup {NoVersion}]
    /\ faults    \in 0..FaultBudget
    /\ changes   \in 0..ChangeBudget

\* At most one live claim per channel, whatever the goroutines and the
\* restarts do: a receiver is not sent two events at once (ClaimDelivery).
OneClaimPerEndpoint ==
    \A d1, d2 \in Deliveries :
        /\ d1[2] = d2[2]
        /\ row[d1].status = "IN_FLIGHT" /\ row[d1].leased
        /\ row[d2].status = "IN_FLIGHT" /\ row[d2].leased
        => d1 = d2

\* A live claim is not taken over, and only the goroutine that holds a claim
\* ends it: the result of one that outlived its claim changes nothing
\* (CompleteDelivery, FailDelivery).
ClaimsRespected ==
    [][\A d \in Deliveries : row[d].status = "IN_FLIGHT" =>
          /\ row[d].leased /\ row'[d].status = "IN_FLIGHT" =>
                row'[d].token = row[d].token
          /\ row'[d].status # "IN_FLIGHT" =>
                \E w \in Workers : /\ row[d].token = w
                                   /\ job[w].pc = "finish"
                                   /\ job[w].at = d]_vars

\* A retry cycle ends: a delivery waits for another attempt only while its
\* cycle has attempts left, replays and abandoned claims included
\* (DispatchOne, ReplayDelivery).
RetriesBounded ==
    \A d \in Deliveries : row[d].status = "PENDING" =>
        /\ row[d].cycleStart <= row[d].attempts
        /\ row[d].attempts - row[d].cycleStart < MaxRetries

\* The unique key of delivery_attempts never refuses a record: two claims of
\* a delivery have different attempt numbers, also when the result of a lost
\* claim is recorded after that of its successor (RecordAttempt).
AttemptsDistinct ==
    \A w \in Workers : job[w].pc = "record" =>
        /\ <<job[w].at, job[w].attempts>> \notin attempted
        /\ \A v \in Workers : /\ job[v].pc = "record"
                              /\ job[v].at = job[w].at
                              /\ job[v].attempts = job[w].attempts
                              => v = w

\* Once Drain has returned, no goroutine claims, sends or writes until Resume
\* or a restart (Pause, DispatchOne).
DrainedIsQuiet == drain = "done" => \A w \in Workers : job[w].pc = "idle"

\* What a receiver takes was addressed and signed for the channel as it was
\* when the event was committed, however the channel changed while the
\* delivery waited (DeliveryTargetForDelivery).
SentAsCommitted == \A a \in accepted : committed[a[1]] = a[2]

\* What a row's status means to the operator.
Filed(status) == CASE status = "NONE"        -> "none"
                   [] status = "DELIVERED"   -> "delivered"
                   [] status = "DEAD_LETTER" -> "dead"
                   [] OTHER                  -> "open"

Contract == INSTANCE DeliveryContract WITH
              state <- [d \in Deliveries |-> Filed(row[d].status)],
              taken <- {d \in Deliveries : \E v \in Version : <<d, v>> \in accepted}

\* The outbox implements the at-least-once contract of DeliveryContract: an
\* event is filed as delivered only after its receiver took it, and for good
\* (DispatchOne, CompleteDelivery, FailDelivery, ReplayDelivery).
ImplementsContract == Contract!ContractSpec

\* Goroutines go on (a timer of at most a minute wakes them, a send times
\* out), backoffs and claims run out, and a drained worker is resumed.
Fairness ==
    /\ \A w \in Workers : WF_vars(Dispatch(w))
    /\ \A d \in Deliveries : WF_vars(BecomesDue(d)) /\ WF_vars(LeaseExpires(d))
    /\ WF_vars(Resume)

FairSpec == Spec /\ Fairness

\* No delivery waits for ever, pending or claimed: again and again it is
\* delivered or a dead letter, unless its channel is disabled (DispatchOne,
\* ClaimDelivery).
DeliveriesSettle ==
    \A d \in Deliveries :
        []<>(\/ row[d].status \in {"NONE", "DELIVERED", "DEAD_LETTER"}
             \/ endpoint[d[2]].status = "DISABLED")
=============================================================================
