---------------------------- MODULE DeliveryProofs ----------------------------
(* Theorems about DeliveryOutbox, for every value of its constants.        *)
EXTENDS DeliveryOutbox, FiniteSetTheorems, TLAPS

-----------------------------------------------------------------------------
(* The inductive invariant.                                                *)

Claimed == {"target", "send", "record", "finish"}
Counted == {w \in Workers : job[w].pc \in Claimed \cup {"claim"}}

\* DispatchOne counts itself exactly while it may claim, send or write.
ActiveCounts == active = Cardinality(Counted)

\* A paused dispatcher admits nobody.
DrainClosed ==
    /\ drain # "no" => paused
    /\ paused => NoReader
    /\ DrainedIsQuiet

\* A delivery carries the version committed with its event, and its retry
\* cycle has not begun after its last attempt.
RowSound(d) ==
    /\ row[d].cycleStart <= row[d].attempts
    /\ row[d].status = "NONE" => row[d].attempts = 0
    /\ row[d].status = "IN_FLIGHT" => row[d].cycleStart < row[d].attempts
    /\ row[d].status = "PENDING" => row[d].attempts - row[d].cycleStart < MaxRetries
    /\ row[d].status # "NONE" => /\ d[1] \in emitted
                                 /\ row[d].version \in Version
                                 /\ row[d].version = committed[d]

\* What DispatchOne remembers of its delivery is true as long as it holds the
\* claim, and its attempt number is its own for ever.
JobSound(w) ==
    LET j == job[w] IN
    j.pc \in Claimed =>
        /\ j.at \in Deliveries
        /\ row[j.at].status # "NONE"
        /\ j.version = row[j.at].version
        /\ j.attempts <= row[j.at].attempts
        /\ HoldsClaim(row[j.at], w) => /\ j.attempts = row[j.at].attempts
                                       /\ j.cycleStart = row[j.at].cycleStart
        /\ j.pc # "finish" => <<j.at, j.attempts>> \notin attempted
        /\ j.pc \in {"record", "finish"} /\ j.result = "SUCCESS" =>
              \E v \in Version : <<j.at, v>> \in accepted

JobsApart ==
    \A v, w \in Workers :
        /\ job[v].pc \in Claimed /\ job[w].pc \in Claimed
        /\ job[v].at = job[w].at /\ job[v].attempts = job[w].attempts
        => v = w

AttemptsCounted == \A a \in attempted : a[2] <= row[a[1]].attempts

SentSound == \A a \in accepted : a[1][1] \in emitted /\ committed[a[1]] = a[2]

Sound == /\ OneClaimPerEndpoint
         /\ \A d \in Deliveries : RowSound(d)
         /\ \A w \in Workers : JobSound(w)
         /\ JobsApart
         /\ AttemptsCounted
         /\ SentSound

IInv == TypeOK /\ ActiveCounts /\ DrainClosed /\ Sound

-----------------------------------------------------------------------------
(* Types.                                                                  *)

\* A field of a delivery may be replaced by any value of its type.
LEMMA RowFields ==
  ASSUME NEW r \in Row
  PROVE  /\ \A v \in Statuses : [r EXCEPT !.status = v] \in Row
         /\ \A v \in Nat : [r EXCEPT !.attempts = v] \in Row
         /\ \A v \in Nat : [r EXCEPT !.cycleStart = v] \in Row
         /\ \A v \in BOOLEAN : [r EXCEPT !.due = v] \in Row
         /\ \A v \in Workers \cup {NoWorker} : [r EXCEPT !.token = v] \in Row
         /\ \A v \in BOOLEAN : [r EXCEPT !.leased = v] \in Row
         /\ \A v \in Version : [r EXCEPT !.version = v] \in Row
  BY DEF Row

\* The same for what DispatchOne remembers.
LEMMA JobFields ==
  ASSUME NEW j \in Job
  PROVE  /\ \A v \in PCs : [j EXCEPT !.pc = v] \in Job
         /\ \A v \in Deliveries : [j EXCEPT !.at = v] \in Job
         /\ \A v \in Nat : [j EXCEPT !.attempts = v] \in Job
         /\ \A v \in Nat : [j EXCEPT !.cycleStart = v] \in Job
         /\ \A v \in Version \cup {NoVersion} : [j EXCEPT !.version = v] \in Job
         /\ \A v \in Outcomes : [j EXCEPT !.result = v] \in Job
  BY DEF Job

LEMMA NoRowType == NoRow \in Row
  BY DEF NoRow, Row, Statuses

LEMMA NoRowFields == /\ NoRow.status = "NONE" /\ NoRow.attempts = 0
                     /\ NoRow.cycleStart = 0
  BY DEF NoRow

LEMMA IdleType == Idle \in Job /\ Idle.pc = "idle"
  BY DEF Idle, Job, PCs

\* CreateBarkChannel and CreateEndpointWithSecret start with a version.
LEMMA NewEndpointType == NewEndpoint \in Endpoint
  BY OutboxAssumption DEF NewEndpoint, Endpoint, Version

\* emitTransactionEventTx inserts a delivery.
LEMMA PendingRowType ==
  ASSUME NEW v \in Version
  PROVE  /\ PendingRow(v) \in Row
         /\ PendingRow(v).status = "PENDING"
         /\ PendingRow(v).attempts = 0 /\ PendingRow(v).cycleStart = 0
         /\ PendingRow(v).version = v
  <1> DEFINE r1 == [NoRow EXCEPT !.status = "PENDING"]
             r2 == [r1 EXCEPT !.due = TRUE]
  <1>1. "PENDING" \in Statuses
    BY DEF Statuses
  <1>2. r1 \in Row /\ r1.status = "PENDING" /\ r1.attempts = 0 /\ r1.cycleStart = 0
    <2>1. NoRow \in Row /\ NoRow.attempts = 0 /\ NoRow.cycleStart = 0
      BY NoRowType, NoRowFields
    <2> QED BY <2>1, <1>1 DEF Row
  <1> HIDE DEF r1
  <1>3. r2 \in Row /\ r2.status = "PENDING" /\ r2.attempts = 0 /\ r2.cycleStart = 0
    BY <1>2 DEF Row
  <1>4. PendingRow(v) = [r2 EXCEPT !.version = v]
    BY DEF PendingRow, r1
  <1> HIDE DEF r2
  <1> QED BY <1>3, <1>4 DEF Row

\* ClaimDelivery counts an attempt and takes the claim.
LEMMA ClaimedRowType ==
  ASSUME NEW r \in Row, NEW w \in Workers
  PROVE  /\ ClaimedRow(r, w) \in Row
         /\ ClaimedRow(r, w).status = "IN_FLIGHT"
         /\ ClaimedRow(r, w).attempts = r.attempts + 1
         /\ ClaimedRow(r, w).token = w
         /\ ClaimedRow(r, w).cycleStart = r.cycleStart
         /\ ClaimedRow(r, w).version = r.version
  <1> DEFINE n == r.attempts + 1
  <1>1. n \in Nat /\ "IN_FLIGHT" \in Statuses
    BY DEF Row, Statuses
  <1>2. ClaimedRow(r, w) = [r EXCEPT !.status = "IN_FLIGHT", !.attempts = n,
                                     !.token = w, !.leased = TRUE]
    BY DEF ClaimedRow
  <1> HIDE DEF n
  <1>3. /\ ClaimedRow(r, w) \in Row
        /\ ClaimedRow(r, w).status = "IN_FLIGHT"
        /\ ClaimedRow(r, w).attempts = n
        /\ ClaimedRow(r, w).token = w
        /\ ClaimedRow(r, w).cycleStart = r.cycleStart
        /\ ClaimedRow(r, w).version = r.version
    BY <1>1, <1>2 DEF Row
  <1> QED BY <1>3 DEF n

\* CompleteDelivery and FailDelivery give the claim up and leave the counters.
LEMMA FinishedRowType ==
  ASSUME NEW r \in Row, NEW j \in Job
  PROVE  /\ FinishedRow(r, j) \in Row
         /\ FinishedRow(r, j).status \in {"DELIVERED", "DEAD_LETTER", "PENDING"}
         /\ FinishedRow(r, j).status = "DELIVERED" => j.result = "SUCCESS"
         /\ FinishedRow(r, j).status = "PENDING" => ~Exhausted(j)
         /\ FinishedRow(r, j).attempts = r.attempts
         /\ FinishedRow(r, j).cycleStart = r.cycleStart
         /\ FinishedRow(r, j).version = r.version
  <1> DEFINE st == IF j.result = "SUCCESS" THEN "DELIVERED"
                   ELSE IF j.result = "RETRY" /\ ~Exhausted(j) THEN "PENDING"
                   ELSE "DEAD_LETTER"
  <1>1. /\ st \in Statuses
        /\ st \in {"DELIVERED", "DEAD_LETTER", "PENDING"}
        /\ st = "DELIVERED" => j.result = "SUCCESS"
        /\ st = "PENDING" => ~Exhausted(j)
    BY DEF Statuses
  <1>2. FinishedRow(r, j) = [r EXCEPT !.status = st, !.due = FALSE,
                                      !.token = NoWorker, !.leased = FALSE]
    BY DEF FinishedRow
  <1> HIDE DEF st
  <1> QED BY <1>1, <1>2 DEF Row

\* ReplayDelivery starts a cycle at the present count.
LEMMA ReplayedRowType ==
  ASSUME NEW r \in Row
  PROVE  /\ ReplayedRow(r) \in Row
         /\ ReplayedRow(r).status = "PENDING"
         /\ ReplayedRow(r).attempts = r.attempts
         /\ ReplayedRow(r).cycleStart = r.attempts
         /\ ReplayedRow(r).version = r.version
  BY DEF ReplayedRow, Row, Statuses

-----------------------------------------------------------------------------
(* Counting.                                                               *)

LEMMA CountedFinite == IsFiniteSet(Counted) /\ Cardinality(Counted) \in Nat
  BY OutboxAssumption, FS_Subset, FS_CardinalityType DEF Counted

\* A goroutine that neither enters nor leaves leaves the count alone.
LEMMA CountKept ==
  ASSUME ActiveCounts, active' = active,
         \A w \in Workers : job'[w].pc \in Claimed \cup {"claim"}
                              <=> job[w].pc \in Claimed \cup {"claim"}
  PROVE  ActiveCounts' /\ active' \in Nat
  <1>1. Counted' = Counted
    BY DEF Counted
  <1> QED BY <1>1, CountedFinite DEF ActiveCounts

\* active.Add(1)
LEMMA CountUp ==
  ASSUME ActiveCounts, active' = active + 1, job \in [Workers -> Job],
         NEW w \in Workers, NEW j \in Job, Become(w, j),
         job[w].pc \notin Claimed \cup {"claim"}, j.pc \in Claimed \cup {"claim"}
  PROVE  ActiveCounts' /\ active' \in Nat
  <1>1. Counted' = Counted \cup {w} /\ w \notin Counted
    BY DEF Counted, Become
  <1>2. Cardinality(Counted \cup {w}) = Cardinality(Counted) + 1
    BY <1>1, CountedFinite, FS_AddElement
  <1> QED BY <1>1, <1>2, CountedFinite DEF ActiveCounts

\* The deferred active.Add(-1)
LEMMA CountDown ==
  ASSUME ActiveCounts, job \in [Workers -> Job], NEW w \in Workers, Return(w),
         job[w].pc \in Claimed \cup {"claim"}
  PROVE  ActiveCounts' /\ active' \in Nat
  <1>1. Counted' = Counted \ {w} /\ w \in Counted
    BY IdleType DEF Counted, Return, Become, Claimed
  <1>2. /\ IsFiniteSet(Counted \ {w})
        /\ Cardinality(Counted \ {w}) = Cardinality(Counted) - 1
    BY <1>1, CountedFinite, FS_RemoveElement
  <1>3. Cardinality(Counted \ {w}) \in Nat
    BY <1>2, FS_CardinalityType
  <1> QED BY <1>1, <1>2, <1>3, CountedFinite DEF ActiveCounts, Return

-----------------------------------------------------------------------------
(* Steps that take no claim.                                               *)

\* A delivery as it was, or with its claim, schedule or cycle changed.
RowRelaxed(d) ==
    \/ row'[d] = row[d]
    \/ /\ row[d].status # "NONE" /\ row'[d].status # "NONE"
       /\ row'[d].attempts = row[d].attempts
       /\ row'[d].version = row[d].version
       /\ row'[d].cycleStart <= row'[d].attempts
       /\ row'[d].status = "PENDING" =>
             row'[d].attempts - row'[d].cycleStart < MaxRetries
       /\ row'[d].status = "IN_FLIGHT" => /\ row[d].status = "IN_FLIGHT"
                                          /\ row'[d].cycleStart = row[d].cycleStart
                                          /\ row'[d].token = row[d].token
                                          /\ row'[d].leased => row[d].leased

\* A goroutine as it was, or done with its delivery.
JobRelaxed(w) == job'[w] = job[w] \/ job'[w].pc \notin Claimed

\* Such changes, of any number of deliveries and goroutines, keep everything.
LEMMA Relax ==
  ASSUME TypeOK, TypeOK', Sound,
         UNCHANGED <<emitted, committed, attempted, accepted>>,
         \A d \in Deliveries : RowRelaxed(d),
         \A w \in Workers : JobRelaxed(w)
  PROVE  Sound'
  <1>1. OneClaimPerEndpoint'
    BY DEF Sound, OneClaimPerEndpoint, RowRelaxed
  <1>2. ASSUME NEW d \in Deliveries
        PROVE  RowSound(d)'
    <2>1. RowSound(d) /\ RowRelaxed(d)
      BY DEF Sound
    <2> QED BY <2>1 DEF RowSound, RowRelaxed
  <1>3. ASSUME NEW w \in Workers, job'[w].pc \in Claimed
        PROVE  JobSound(w)'
    <2>1. JobSound(w) /\ job'[w] = job[w]
      BY <1>3 DEF Sound, JobRelaxed
    <2>2. job[w].at \in Deliveries /\ RowRelaxed(job[w].at)
      BY <1>3, <2>1 DEF JobSound
    <2> QED BY <1>3, <2>1, <2>2 DEF JobSound, RowRelaxed, HoldsClaim
  <1>4. ASSUME NEW w \in Workers
        PROVE  JobSound(w)'
    BY <1>3 DEF JobSound
  <1>5. JobsApart'
    BY DEF Sound, JobsApart, JobRelaxed
  <1>6. AttemptsCounted'
    <2>1. ASSUME NEW a \in attempted
          PROVE  a[2] <= row'[a[1]].attempts
      <3>1. a[1] \in Deliveries
        BY DEF TypeOK
      <3> QED BY <3>1, <2>1 DEF Sound, AttemptsCounted, RowRelaxed
    <2> QED BY <2>1 DEF AttemptsCounted
  <1>7. SentSound'
    BY DEF Sound, SentSound
  <1> QED BY <1>1, <1>2, <1>4, <1>5, <1>6, <1>7 DEF Sound

\* The dispatcher's own state is not touched.
LEMMA DispatcherKept ==
  ASSUME IInv, UNCHANGED <<job, active, paused, drain>>
  PROVE  ActiveCounts' /\ DrainClosed'
  BY DEF IInv, ActiveCounts, Counted, DrainClosed, DrainedIsQuiet, NoReader

\* One delivery is rewritten by somebody who is not a goroutine.
LEMMA RowStep ==
  ASSUME IInv, NEW d \in Deliveries, NEW r \in Row, row' = [row EXCEPT ![d] = r],
         UNCHANGED <<endpoint, emitted, committed, attempted, accepted,
                     job, active, paused, drain>>,
         faults' \in 0..FaultBudget, changes' \in 0..ChangeBudget,
         RowRelaxed(d)
  PROVE  IInv'
  <1>1. TypeOK'
    BY DEF IInv, TypeOK
  <1>2. \A c \in Deliveries : RowRelaxed(c)
    BY DEF IInv, TypeOK, RowRelaxed
  <1>3. \A w \in Workers : JobRelaxed(w)
    BY DEF JobRelaxed
  <1>4. Sound'
    BY <1>1, <1>2, <1>3, Relax DEF IInv
  <1> QED BY <1>1, <1>4, DispatcherKept DEF IInv

LEMMA BudgetType ==
  /\ Fault => (faults \in 0..FaultBudget => faults' \in 0..FaultBudget)
  /\ Change => (changes \in 0..ChangeBudget => changes' \in 0..ChangeBudget)
  BY OutboxAssumption DEF Fault, Change

LEMMA ReplayStep ==
  ASSUME IInv, NEW d \in Deliveries, ReplayDelivery(d)
  PROVE  IInv'
  <1> DEFINE r == ReplayedRow(row[d])
  <1>1. row[d] \in Row /\ row[d].attempts \in Nat
    BY DEF IInv, TypeOK, Row
  <1>2. /\ r \in Row /\ r.status = "PENDING" /\ r.attempts = row[d].attempts
        /\ r.cycleStart = row[d].attempts /\ r.version = row[d].version
    BY <1>1, ReplayedRowType
  <1>3. /\ row' = [row EXCEPT ![d] = r] /\ row[d].status = "DEAD_LETTER"
        /\ UNCHANGED <<endpoint, emitted, committed, attempted, accepted,
                       job, active, paused, drain, faults>>
    BY DEF ReplayDelivery
  <1>4. faults' \in 0..FaultBudget /\ changes' \in 0..ChangeBudget
    BY <1>3, BudgetType DEF IInv, TypeOK, ReplayDelivery
  <1> HIDE DEF r
  <1>5. row'[d] = r
    BY <1>3 DEF IInv, TypeOK
  <1>6. RowRelaxed(d)
    BY <1>1, <1>2, <1>3, <1>5, OutboxAssumption DEF RowRelaxed
  <1> QED BY <1>2, <1>3, <1>4, <1>6, RowStep

LEMMA DueStep ==
  ASSUME IInv, NEW d \in Deliveries, BecomesDue(d)
  PROVE  IInv'
  <1> DEFINE r == [row[d] EXCEPT !.due = TRUE]
  <1>1. row[d] \in Row /\ row[d].attempts \in Nat /\ RowSound(d)
    BY DEF IInv, Sound, TypeOK, Row
  <1>2. /\ r \in Row /\ r.status = row[d].status /\ r.attempts = row[d].attempts
        /\ r.cycleStart = row[d].cycleStart /\ r.version = row[d].version
    BY <1>1 DEF Row
  <1>3. /\ row' = [row EXCEPT ![d] = r] /\ row[d].status = "PENDING"
        /\ UNCHANGED <<endpoint, emitted, committed, attempted, accepted,
                       job, active, paused, drain, faults, changes>>
    BY DEF BecomesDue
  <1> HIDE DEF r
  <1>5. row'[d] = r
    BY <1>3 DEF IInv, TypeOK
  <1>6. RowRelaxed(d)
    BY <1>1, <1>2, <1>3, <1>5 DEF RowRelaxed, RowSound
  <1> QED BY <1>2, <1>3, <1>6, RowStep DEF IInv, TypeOK

LEMMA ExpireStep ==
  ASSUME IInv, NEW d \in Deliveries, LeaseExpires(d) \/ Stall(d)
  PROVE  IInv'
  <1> DEFINE r == [row[d] EXCEPT !.leased = FALSE]
  <1>1. row[d] \in Row /\ row[d].attempts \in Nat /\ RowSound(d)
    BY DEF IInv, Sound, TypeOK, Row
  <1>2. /\ r \in Row /\ r.status = row[d].status /\ r.attempts = row[d].attempts
        /\ r.cycleStart = row[d].cycleStart /\ r.version = row[d].version
        /\ r.token = row[d].token /\ ~r.leased
    BY <1>1 DEF Row
  <1>3. /\ row' = [row EXCEPT ![d] = r] /\ row[d].status = "IN_FLIGHT"
        /\ UNCHANGED <<endpoint, emitted, committed, attempted, accepted,
                       job, active, paused, drain, changes>>
    BY DEF LeaseExpires, Stall, Expire
  <1>4. faults' \in 0..FaultBudget /\ changes' \in 0..ChangeBudget
    BY <1>3, BudgetType DEF IInv, TypeOK, LeaseExpires, Stall
  <1> HIDE DEF r
  <1>5. row'[d] = r
    BY <1>3 DEF IInv, TypeOK
  <1>6. RowRelaxed(d)
    BY <1>1, <1>2, <1>3, <1>5 DEF RowRelaxed, RowSound
  <1> QED BY <1>2, <1>3, <1>4, <1>6, RowStep

\* A channel is edited, its key rotated, or it is switched on or off.
LEMMA EndpointStep ==
  ASSUME IInv, NEW p \in Endpoints,
         \/ UpdateChannel(p) \/ RotateSecret(p)
         \/ \E s \in {"ACTIVE", "DISABLED"} : SetEndpointStatus(p, s)
  PROVE  IInv'
  <1> DEFINE Rest == /\ endpoint' \in [Endpoints -> Endpoint]
                     /\ UNCHANGED <<emitted, row, attempted, job, active, paused,
                                    drain, accepted, committed, faults>>
                     /\ changes' \in 0..ChangeBudget
  <1>1. endpoint[p] \in Endpoint /\ endpoint[p].version \in Version
    BY DEF IInv, TypeOK, Endpoint
  <1>2. Rest
    <2>1. CASE \E s \in {"ACTIVE", "DISABLED"} : SetEndpointStatus(p, s)
      <3>1. PICK s \in {"ACTIVE", "DISABLED"} : SetEndpointStatus(p, s)
        BY <2>1
      <3>2. changes' \in 0..ChangeBudget
        BY <3>1, BudgetType DEF SetEndpointStatus, IInv, TypeOK
      <3>3. [endpoint[p] EXCEPT !.status = s] \in Endpoint
        BY <1>1 DEF Endpoint
      <3>4. endpoint' = [endpoint EXCEPT ![p] = [endpoint[p] EXCEPT !.status = s]]
        BY <3>1 DEF SetEndpointStatus
      <3> QED BY <3>1, <3>2, <3>3, <3>4 DEF SetEndpointStatus, IInv, TypeOK
    <2>2. ASSUME NEW v \in Version, NewVersion(p, v)
          PROVE  Rest
      <3>2. changes' \in 0..ChangeBudget
        BY <2>2, BudgetType DEF NewVersion, IInv, TypeOK
      <3>3. [endpoint[p] EXCEPT !.version = v] \in Endpoint
        BY <1>1 DEF Endpoint
      <3>4. endpoint' = [endpoint EXCEPT ![p] = [endpoint[p] EXCEPT !.version = v]]
        BY <2>2 DEF NewVersion
      <3> QED BY <2>2, <3>2, <3>3, <3>4 DEF NewVersion, IInv, TypeOK
    <2>3. CASE UpdateChannel(p)
      <3> DEFINE n == endpoint[p].version.rev + 1
      <3>1. n \in 1..MaxVersion
        BY <2>3, <1>1, OutboxAssumption DEF UpdateChannel, Version
      <3>2. NewVersion(p, [endpoint[p].version EXCEPT !.rev = n])
        BY <2>3 DEF UpdateChannel
      <3> HIDE DEF n
      <3>3. [endpoint[p].version EXCEPT !.rev = n] \in Version
        BY <1>1, <3>1 DEF Version
      <3> QED BY <3>2, <3>3, <2>2
    <2>4. CASE RotateSecret(p)
      <3> DEFINE n == endpoint[p].version.key + 1
      <3>1. n \in 1..MaxVersion
        BY <2>4, <1>1, OutboxAssumption DEF RotateSecret, Version
      <3>2. NewVersion(p, [endpoint[p].version EXCEPT !.key = n])
        BY <2>4 DEF RotateSecret
      <3> HIDE DEF n
      <3>3. [endpoint[p].version EXCEPT !.key = n] \in Version
        BY <1>1, <3>1 DEF Version
      <3> QED BY <3>2, <3>3, <2>2
    <2> QED BY <2>1, <2>3, <2>4
  <1>3. TypeOK'
    BY <1>2 DEF IInv, TypeOK
  <1>4. Sound'
    BY <1>2, <1>3, Relax DEF IInv, RowRelaxed, JobRelaxed
  <1> QED BY <1>2, <1>3, <1>4, DispatcherKept DEF IInv

\* A committed event: new rows only, for a version in force.
LEMMA EmitStep ==
  ASSUME IInv, NEW e \in Events, EmitTransactionEvent(e)
  PROVE  IInv'
  <1> DEFINE Fresh(d) == d[1] = e /\ endpoint[d[2]].status = "ACTIVE"
  <1>1. /\ e \notin emitted /\ emitted' = emitted \cup {e}
        /\ UNCHANGED <<endpoint, attempted, job, active, paused, drain, accepted,
                       faults, changes>>
    BY DEF EmitTransactionEvent
  <1>2. ASSUME NEW d \in Deliveries
        PROVE  /\ d[1] \in Events /\ d[2] \in Endpoints
               /\ endpoint[d[2]].version \in Version
               /\ row'[d] = IF Fresh(d) THEN PendingRow(endpoint[d[2]].version)
                            ELSE row[d]
               /\ committed'[d] = IF d[1] = e THEN endpoint[d[2]].version
                                  ELSE committed[d]
    <2>1. d[1] \in Events /\ d[2] \in Endpoints
      BY DEF Deliveries
    <2>2. endpoint[d[2]] \in Endpoint
      BY <2>1 DEF IInv, TypeOK
    <2> QED BY <2>1, <2>2 DEF EmitTransactionEvent, Endpoint
  <1>3. ASSUME NEW d \in Deliveries, d[1] = e
        PROVE  /\ row[d].status = "NONE"
               /\ row[d] \in Row
    BY <1>1, <1>3 DEF IInv, Sound, RowSound, TypeOK
  <1>4. ASSUME NEW d \in Deliveries
        PROVE  /\ row'[d] \in Row
               /\ committed'[d] \in Version \cup {NoVersion}
               /\ Fresh(d) => /\ row'[d].status = "PENDING"
                              /\ row'[d].attempts = 0 /\ row'[d].cycleStart = 0
                              /\ row'[d].version = endpoint[d[2]].version
               /\ ~Fresh(d) => row'[d] = row[d]
               /\ row'[d].status = "IN_FLIGHT" => row'[d] = row[d] /\ ~Fresh(d)
    <2>1. row[d] \in Row /\ committed[d] \in Version \cup {NoVersion}
      BY DEF IInv, TypeOK
    <2> QED BY <1>2, <2>1, PendingRowType
  <1>5. TypeOK'
    <2>1. DOMAIN row' = Deliveries /\ DOMAIN committed' = Deliveries
          /\ row' = [d \in Deliveries |-> row'[d]]
          /\ committed' = [d \in Deliveries |-> committed'[d]]
      BY DEF EmitTransactionEvent
    <2>2. row' \in [Deliveries -> Row]
          /\ committed' \in [Deliveries -> Version \cup {NoVersion}]
      BY <2>1, <1>4
    <2> QED BY <1>1, <2>2 DEF IInv, TypeOK
  <1> HIDE DEF Fresh
  <1>6. OneClaimPerEndpoint'
    BY <1>4 DEF IInv, Sound, OneClaimPerEndpoint
  <1>7. ASSUME NEW d \in Deliveries
        PROVE  RowSound(d)'
    <2>1. RowSound(d) /\ row[d] \in Row
      BY DEF IInv, Sound, TypeOK
    <2>2. CASE Fresh(d)
      BY <2>2, <1>1, <1>2, <1>4, OutboxAssumption DEF RowSound, Fresh
    <2>3. CASE ~Fresh(d) /\ d[1] = e
      BY <2>1, <2>3, <1>1, <1>3, <1>4 DEF RowSound
    <2>4. CASE ~Fresh(d) /\ d[1] # e
      BY <2>1, <2>4, <1>1, <1>2, <1>4 DEF RowSound
    <2> QED BY <2>2, <2>3, <2>4
  <1>8. ASSUME NEW w \in Workers
        PROVE  JobSound(w)'
    <2>1. JobSound(w)
      BY DEF IInv, Sound
    <2>2. ASSUME job[w].pc \in Claimed
          PROVE  job[w].at \in Deliveries /\ row'[job[w].at] = row[job[w].at]
      BY <2>1, <2>2, <1>3, <1>4 DEF JobSound, Fresh
    <2> QED BY <2>1, <2>2, <1>1 DEF JobSound
  <1>9. JobsApart'
    BY <1>1 DEF IInv, Sound, JobsApart
  <1>10. AttemptsCounted'
    <2>1. ASSUME NEW a \in attempted
          PROVE  a[2] <= row'[a[1]].attempts
      <3>1. a[1] \in Deliveries /\ a[2] \in Nat /\ a[2] <= row[a[1]].attempts
        BY DEF IInv, TypeOK, Sound, AttemptsCounted
      <3>2. Fresh(a[1]) => row[a[1]].attempts = 0
        BY <3>1, <1>3 DEF Fresh, IInv, Sound, RowSound
      <3> QED BY <3>1, <3>2, <1>4
    <2> QED BY <2>1, <1>1 DEF AttemptsCounted
  <1>11. SentSound'
    <2>1. ASSUME NEW a \in accepted
          PROVE  a[1] \in Deliveries /\ a[1][1] \in emitted /\ committed[a[1]] = a[2]
      BY DEF IInv, TypeOK, Sound, SentSound
    <2> QED BY <2>1, <1>1, <1>2 DEF SentSound
  <1>12. Sound'
    BY <1>6, <1>7, <1>8, <1>9, <1>10, <1>11 DEF Sound
  <1> QED BY <1>1, <1>5, <1>12, DispatcherKept DEF IInv

\* The database and the receivers are not touched, and no goroutine gets a
\* delivery.
LEMMA QuietStep ==
  ASSUME IInv, UNCHANGED <<db, accepted, committed>>,
         job' \in [Workers -> Job], \A w \in Workers : JobRelaxed(w),
         paused' \in BOOLEAN, drain' \in {"no", "waiting", "done"},
         faults' \in 0..FaultBudget, changes' \in 0..ChangeBudget,
         ActiveCounts', active' \in Nat, DrainClosed'
  PROVE  IInv'
  <1>1. TypeOK'
    BY DEF IInv, TypeOK, db
  <1>2. \A d \in Deliveries : RowRelaxed(d)
    BY DEF RowRelaxed, db
  <1>3. Sound'
    BY <1>1, <1>2, Relax DEF IInv, db
  <1> QED BY <1>1, <1>3 DEF IInv

\* Pause, the polls of Drain, Resume, and a new process.
LEMMA LifecycleStep ==
  ASSUME IInv, Drain \/ Drained \/ Resume \/ Restart
  PROVE  IInv'
  <1>1. \A w \in Workers : job[w] \in Job
    BY DEF IInv, TypeOK
  <1>2. CASE Drain \/ Drained \/ Resume
    <2>1. UNCHANGED <<db, job, active, accepted, committed, faults>>
      BY <1>2 DEF Drain, Drained, Resume
    <2>2. /\ paused' \in BOOLEAN /\ drain' \in {"no", "waiting", "done"}
          /\ faults' \in 0..FaultBudget /\ changes' \in 0..ChangeBudget
      BY <1>2, BudgetType DEF Drain, Drained, Resume, IInv, TypeOK
    <2>3. ActiveCounts' /\ active' \in Nat
      BY <2>1, CountKept DEF IInv
    <2>4. DrainClosed'
      <3>1. CASE Drain
        BY <3>1 DEF Drain, DrainClosed, DrainedIsQuiet, NoReader
      <3>2. CASE Drained
        <4>1. Counted = {}
          BY <3>2, CountedFinite, FS_EmptySet DEF Drained, IInv, ActiveCounts
        <4>2. paused /\ NoReader
          BY <3>2 DEF Drained, IInv, DrainClosed
        <4>3. \A w \in Workers : job[w].pc = "idle"
          BY <4>1, <4>2, <1>1 DEF Counted, NoReader, Job, PCs, Claimed
        <4> QED BY <4>2, <4>3, <3>2 DEF Drained, DrainClosed, DrainedIsQuiet, NoReader
      <3>3. CASE Resume
        BY <3>3 DEF Resume, DrainClosed, DrainedIsQuiet
      <3> QED BY <1>2, <3>1, <3>2, <3>3
    <2>5. job' \in [Workers -> Job] /\ \A w \in Workers : JobRelaxed(w)
      BY <2>1 DEF IInv, TypeOK, JobRelaxed
    <2> QED BY <2>1, <2>2, <2>3, <2>4, <2>5, QuietStep
  <1>3. CASE Restart
    <2>1. /\ UNCHANGED <<db, accepted, committed, changes>>
          /\ job' = [w \in Workers |-> Idle]
          /\ active' = 0 /\ paused' = FALSE /\ drain' = "no"
      BY <1>3 DEF Restart
    <2>2. faults' \in 0..FaultBudget
      BY <1>3, BudgetType DEF Restart, IInv, TypeOK
    <2>3. \A w \in Workers : job'[w].pc = "idle" /\ JobRelaxed(w)
      BY <2>1, IdleType DEF JobRelaxed, Claimed
    <2>4. Counted' = {}
      BY <2>3 DEF Counted, Claimed
    <2>5. ActiveCounts' /\ active' \in Nat
      BY <2>1, <2>4, FS_EmptySet DEF ActiveCounts
    <2>6. DrainClosed'
      BY <2>1 DEF DrainClosed, DrainedIsQuiet
    <2>7. job' \in [Workers -> Job] /\ changes' \in 0..ChangeBudget
      BY <2>1, IdleType DEF IInv, TypeOK
    <2> QED BY <2>1, <2>2, <2>3, <2>5, <2>6, <2>7, QuietStep
  <1> QED BY <1>2, <1>3

-----------------------------------------------------------------------------
(* DispatchOne.                                                            *)

\* What one goroutine does leaves the drain as it was: it is not admitted to
\* a paused dispatcher.
LEMMA DrainKept ==
  ASSUME IInv, UNCHANGED <<paused, drain>>, NEW w \in Workers, NEW j \in Job,
         Become(w, j),
         \/ j.pc = "idle"
         \/ j.pc = "admitted" /\ ~paused
         \/ j.pc \notin {"idle", "admitted"} /\ job[w].pc # "idle"
  PROVE  DrainClosed'
  <1>1. /\ job'[w] = j
        /\ \A v \in Workers : v # w => job'[v] = job[v]
    BY DEF IInv, TypeOK, Become
  <1> QED BY <1>1 DEF IInv, DrainClosed, DrainedIsQuiet, NoReader

LEMMA AdmitStep ==
  ASSUME IInv, NEW w \in Workers, Admit(w) \/ Count(w)
  PROVE  IInv'
  <1> DEFINE pc == IF Admit(w) THEN "admitted" ELSE "claim"
             j  == [Idle EXCEPT !.pc = pc]
  <1>1. pc \in PCs /\ pc \notin Claimed
    BY DEF PCs, Claimed
  <1>2. j \in Job /\ j.pc = pc
    <2> HIDE DEF pc
    <2> QED BY <1>1, IdleType DEF Job
  <1>3. /\ Become(w, j)
        /\ UNCHANGED <<db, paused, drain, accepted, committed, faults, changes>>
    BY DEF Admit, Count
  <1>4. DrainClosed'
    <2>1. \/ pc = "admitted" /\ ~paused
          \/ pc \notin {"idle", "admitted"} /\ job[w].pc # "idle"
      BY DEF Admit, Count
    <2> HIDE DEF pc, j
    <2> QED BY <2>1, <1>2, <1>3, DrainKept
  <1>5. job' \in [Workers -> Job] /\ \A v \in Workers : JobRelaxed(v)
    <2> HIDE DEF pc, j
    <2> QED BY <1>1, <1>2, <1>3 DEF IInv, TypeOK, JobRelaxed, Become
  <1>6. ActiveCounts' /\ active' \in Nat
    <2>1. CASE Admit(w)
      <3>1. pc = "admitted" /\ job[w].pc = "idle" /\ active' = active
        BY <2>1 DEF Admit
      <3> HIDE DEF pc, j
      <3>2. \A v \in Workers : job'[v].pc \in Claimed \cup {"claim"}
                                 <=> job[v].pc \in Claimed \cup {"claim"}
        BY <3>1, <1>2, <1>3 DEF IInv, TypeOK, Become, Claimed
      <3> QED BY <3>1, <3>2, CountKept DEF IInv
    <2>2. CASE ~Admit(w)
      <3>1. pc = "claim" /\ job[w].pc = "admitted" /\ active' = active + 1
        BY <2>2 DEF Count
      <3>2. job[w].pc \notin Claimed \cup {"claim"} /\ pc \in Claimed \cup {"claim"}
        BY <3>1 DEF Claimed
      <3> HIDE DEF pc, j
      <3> QED BY <3>1, <3>2, <1>2, <1>3, CountUp DEF IInv, TypeOK
    <2> QED BY <2>1, <2>2
  <1> QED BY <1>3, <1>4, <1>5, <1>6, QuietStep DEF IInv, TypeOK

\* DispatchOne returns without having written.
LEMMA ReturnStep ==
  ASSUME IInv, NEW w \in Workers, Return(w), job[w].pc \in Claimed \cup {"claim"},
         UNCHANGED <<db, paused, drain, accepted, committed, changes>>,
         faults' \in 0..FaultBudget
  PROVE  IInv'
  <1>1. Become(w, Idle) /\ Idle \in Job /\ Idle.pc = "idle"
    BY IdleType DEF Return
  <1>2. ActiveCounts' /\ active' \in Nat
    BY CountDown DEF IInv, TypeOK
  <1>3. DrainClosed'
    BY <1>1, DrainKept
  <1>4. job' \in [Workers -> Job] /\ \A v \in Workers : JobRelaxed(v)
    BY <1>1 DEF IInv, TypeOK, JobRelaxed, Become, Claimed
  <1> QED BY <1>2, <1>3, <1>4, QuietStep DEF IInv, TypeOK

LEMMA AbortStep ==
  ASSUME IInv, NEW w \in Workers, Abort(w)
  PROVE  IInv'
  <1>1. faults' \in 0..FaultBudget
    BY BudgetType DEF Abort, IInv, TypeOK
  <1>2. job[w].pc \in Claimed \cup {"claim"}
    BY DEF Abort, Claimed
  <1> QED BY <1>1, <1>2, ReturnStep DEF Abort

\* DispatchOne goes on with the delivery it has: it may have sent it, and may
\* have recorded its own attempt.
LEMMA AdvanceStep ==
  ASSUME IInv, NEW w \in Workers, NEW j \in Job, Become(w, j),
         job[w].pc \in Claimed, j.pc \in Claimed, job[w].pc # "finish",
         j.at = job[w].at, j.attempts = job[w].attempts,
         j.cycleStart = job[w].cycleStart, j.version = job[w].version,
         UNCHANGED <<endpoint, emitted, row, active, paused, drain, committed, changes>>,
         faults' \in 0..FaultBudget,
         accepted' = accepted \/ accepted' = accepted \cup {<<j.at, j.version>>},
         \/ attempted' = attempted
         \/ j.pc = "finish" /\ attempted' = attempted \cup {<<j.at, j.attempts>>},
         j.pc \in {"record", "finish"} /\ j.result = "SUCCESS" =>
            \/ <<j.at, j.version>> \in accepted'
            \/ job[w].pc \in {"record", "finish"} /\ job[w].result = "SUCCESS"
  PROVE  IInv'
  <1>1. /\ job'[w] = j
        /\ \A v \in Workers : v # w => job'[v] = job[v]
        /\ job' \in [Workers -> Job]
    BY DEF IInv, TypeOK, Become
  <1>2. /\ j.at \in Deliveries /\ j.attempts \in Nat
        /\ row[j.at].status # "NONE" /\ j.version = row[j.at].version
        /\ j.attempts <= row[j.at].attempts
        /\ <<j.at, j.attempts>> \notin attempted
        /\ row[j.at] \in Row
    <2>1. JobSound(w)
      BY DEF IInv, Sound
    <2> QED BY <2>1 DEF JobSound, Job, IInv, TypeOK
  <1>3. /\ j.at[1] \in emitted /\ j.version \in Version
        /\ committed[j.at] = j.version
    <2>1. RowSound(j.at)
      BY <1>2 DEF IInv, Sound
    <2> QED BY <1>2, <2>1 DEF RowSound
  <1>4. TypeOK'
    <2>1. <<j.at, j.attempts>> \in Deliveries \X Nat
          /\ <<j.at, j.version>> \in Deliveries \X Version
      BY <1>2, <1>3
    <2> QED BY <2>1, <1>1 DEF IInv, TypeOK
  <1>5. ActiveCounts'
    <2>1. \A v \in Workers : job'[v].pc \in Claimed \cup {"claim"}
                               <=> job[v].pc \in Claimed \cup {"claim"}
      BY <1>1
    <2> QED BY <2>1, CountKept DEF IInv
  <1>6. DrainClosed'
    BY DrainKept DEF Claimed
  <1>7. OneClaimPerEndpoint' /\ \A d \in Deliveries : RowSound(d)'
    BY DEF IInv, Sound, OneClaimPerEndpoint, RowSound
  <1>8. JobsApart'
    BY <1>1 DEF IInv, Sound, JobsApart
  <1>9. JobSound(w)'
    <2>1. JobSound(w)
      BY DEF IInv, Sound
    <2>2. \A v \in Version : <<j.at, v>> \in accepted => <<j.at, v>> \in accepted'
      OBVIOUS
    <2>3. j.pc \in {"record", "finish"} /\ j.result = "SUCCESS" =>
             \E v \in Version : <<j.at, v>> \in accepted'
      BY <2>1, <2>2, <1>3 DEF JobSound
    <2>4. j.pc # "finish" => <<j.at, j.attempts>> \notin attempted'
      BY <1>2
    <2> QED BY <2>1, <2>3, <2>4, <1>1 DEF JobSound, HoldsClaim
  <1>10. ASSUME NEW v \in Workers, v # w
         PROVE  JobSound(v)'
    <2>1. JobSound(v) /\ job'[v] = job[v]
      BY <1>1, <1>10 DEF IInv, Sound
    <2>2. ASSUME job[v].pc \in Claimed, job[v].pc # "finish"
          PROVE  <<job[v].at, job[v].attempts>> \notin attempted'
      <3>1. <<job[v].at, job[v].attempts>> # <<j.at, j.attempts>>
        BY <1>10, <2>2 DEF IInv, Sound, JobsApart
      <3> QED BY <2>1, <2>2, <3>1 DEF JobSound
    <2>3. \A u \in Version : <<job[v].at, u>> \in accepted => <<job[v].at, u>> \in accepted'
      OBVIOUS
    <2> QED BY <2>1, <2>2, <2>3 DEF JobSound, HoldsClaim
  <1>11. AttemptsCounted'
    BY <1>2 DEF IInv, Sound, AttemptsCounted
  <1>12. SentSound'
    BY <1>2, <1>3 DEF IInv, Sound, SentSound
  <1> QED BY <1>4, <1>5, <1>6, <1>7, <1>8, <1>9, <1>10, <1>11, <1>12 DEF IInv, Sound

LEMMA TargetStep ==
  ASSUME IInv, NEW w \in Workers, DeliveryTarget(w)
  PROVE  IInv'
  <1>1. job[w] \in Job /\ job[w].pc = "target"
    BY DEF IInv, TypeOK, DeliveryTarget
  <1>2. UNCHANGED <<db, active, paused, drain, accepted, committed, changes>>
    BY DEF DeliveryTarget
  <1>3. CASE Become(w, [job[w] EXCEPT !.pc = "send", !.version = TargetVersion(job[w])])
             /\ UNCHANGED faults
    <2> DEFINE j == [job[w] EXCEPT !.pc = "send"]
    <2>1. /\ j \in Job /\ j.pc = "send" /\ j.at = job[w].at
          /\ j.attempts = job[w].attempts /\ j.cycleStart = job[w].cycleStart
          /\ j.version = job[w].version
      BY <1>1 DEF Job, PCs
    <2>2. [job[w] EXCEPT !.pc = "send", !.version = TargetVersion(job[w])] = j
      BY <1>1 DEF TargetVersion, Job
    <2>3. Become(w, j)
      BY <1>3, <2>2
    <2> HIDE DEF j
    <2> QED BY <2>1, <2>3, <1>1, <1>2, <1>3, AdvanceStep DEF db, IInv, TypeOK, Claimed
  <1>4. CASE Fault /\ Become(w, [job[w] EXCEPT !.pc = "finish", !.result = "TERMINAL_FAILURE"])
    <2> DEFINE j == [job[w] EXCEPT !.pc = "finish", !.result = "TERMINAL_FAILURE"]
    <2>1. /\ j \in Job /\ j.pc = "finish" /\ j.at = job[w].at
          /\ j.attempts = job[w].attempts /\ j.cycleStart = job[w].cycleStart
          /\ j.version = job[w].version /\ j.result = "TERMINAL_FAILURE"
      BY <1>1 DEF Job, PCs, Outcomes
    <2>2. faults' \in 0..FaultBudget
      BY <1>4, BudgetType DEF IInv, TypeOK
    <2>3. Become(w, j)
      BY <1>4
    <2> HIDE DEF j
    <2> QED BY <2>1, <2>2, <2>3, <1>1, <1>2, AdvanceStep DEF db, Claimed
  <1> QED BY <1>3, <1>4 DEF DeliveryTarget

\* A sender reports success only on a confirmation of the receiver.
LEMMA SuccessTaken ==
  ASSUME NEW r \in SendResults
  PROVE  r.outcome \in Outcomes /\ r.took \in BOOLEAN /\ (r.outcome = "SUCCESS" => r.took)
  <1>1. r \in [outcome: Outcomes, took: BOOLEAN]
    BY DEF SendResults
  <1>2. ASSUME NEW a \in Answers, r.outcome = "SUCCESS", r.outcome = WebhookSend(a)
        PROVE  a.http = "2xx"
    BY <1>2 DEF WebhookSend
  <1>3. ASSUME NEW a \in Answers, r.outcome = "SUCCESS", r.outcome = doPush(a)
        PROVE  a.http = "2xx" /\ a.body = "ok"
    BY <1>3 DEF doPush
  <1> QED BY <1>1, <1>2, <1>3 DEF SendResults

LEMMA SendStep ==
  ASSUME IInv, NEW w \in Workers, Send(w)
  PROVE  IInv'
  <1>1. job[w] \in Job /\ job[w].pc = "send"
    BY DEF IInv, TypeOK, Send
  <1>r. PICK r \in SendResults :
          /\ accepted' = IF r.took THEN accepted \cup {<<job[w].at, job[w].version>>}
                         ELSE accepted
          /\ Become(w, [job[w] EXCEPT !.pc = "record", !.result = r.outcome])
    BY DEF Send
  <1>2. PICK outcome \in Outcomes, took \in BOOLEAN :
          /\ outcome = "SUCCESS" => took
          /\ accepted' = IF took THEN accepted \cup {<<job[w].at, job[w].version>>}
                         ELSE accepted
          /\ Become(w, [job[w] EXCEPT !.pc = "record", !.result = outcome])
    BY <1>r, SuccessTaken
  <1> DEFINE j == [job[w] EXCEPT !.pc = "record", !.result = outcome]
  <1>3. /\ j \in Job /\ j.pc = "record" /\ j.at = job[w].at
        /\ j.attempts = job[w].attempts /\ j.cycleStart = job[w].cycleStart
        /\ j.version = job[w].version /\ j.result = outcome
    BY <1>1 DEF Job, PCs
  <1>4. UNCHANGED <<db, active, paused, drain, committed, faults, changes>>
    BY DEF Send
  <1>5. Become(w, j)
    BY <1>2
  <1> HIDE DEF j
  <1>6. outcome = "SUCCESS" => <<j.at, j.version>> \in accepted'
    BY <1>2, <1>3
  <1>7. accepted' = accepted \/ accepted' = accepted \cup {<<j.at, j.version>>}
    BY <1>2, <1>3
  <1> QED BY <1>1, <1>3, <1>4, <1>5, <1>6, <1>7, AdvanceStep DEF db, IInv, TypeOK, Claimed

LEMMA RecordStep ==
  ASSUME IInv, NEW w \in Workers, RecordAttempt(w)
  PROVE  IInv'
  <1> DEFINE j == [job[w] EXCEPT !.pc = "finish"]
  <1>1. job[w] \in Job /\ job[w].pc = "record"
    BY DEF IInv, TypeOK, RecordAttempt
  <1>2. /\ Become(w, j)
        /\ UNCHANGED <<endpoint, emitted, row, active, paused, drain, accepted,
                       committed, changes>>
    BY DEF RecordAttempt
  <1>3. /\ j \in Job /\ j.pc = "finish" /\ j.at = job[w].at
        /\ j.attempts = job[w].attempts /\ j.cycleStart = job[w].cycleStart
        /\ j.version = job[w].version /\ j.result = job[w].result
    BY <1>1 DEF Job, PCs
  <1> HIDE DEF j
  <1>4. attempted' = attempted \/ attempted' = attempted \cup {<<j.at, j.attempts>>}
    BY <1>3 DEF RecordAttempt
  <1>5. faults' \in 0..FaultBudget
    BY BudgetType DEF RecordAttempt, IInv, TypeOK
  <1> QED BY <1>1, <1>2, <1>3, <1>4, <1>5, AdvanceStep DEF Claimed

\* CompleteDelivery and FailDelivery, with the claim or without it.
LEMMA FinishStep ==
  ASSUME IInv, NEW w \in Workers, FinishDelivery(w)
  PROVE  IInv'
  <1> DEFINE j == job[w]
             d == j.at
             r == IF HoldsClaim(row[d], w) THEN FinishedRow(row[d], j) ELSE row[d]
  <1>1. /\ j \in Job /\ j.pc = "finish" /\ Return(w)
        /\ row' = [row EXCEPT ![d] = r]
        /\ UNCHANGED <<endpoint, emitted, attempted, paused, drain, accepted,
                       committed, faults, changes>>
    BY DEF FinishDelivery, IInv, TypeOK
  <1>2. /\ d \in Deliveries /\ row[d].status # "NONE"
        /\ HoldsClaim(row[d], w) => /\ j.attempts = row[d].attempts
                                    /\ j.cycleStart = row[d].cycleStart
    <2>1. JobSound(w)
      BY DEF IInv, Sound
    <2> QED BY <2>1, <1>1 DEF JobSound, Claimed
  <1>3. row[d] \in Row /\ RowSound(d)
    BY <1>2 DEF IInv, TypeOK, Sound
  <1>4. r \in Row
    BY <1>1, <1>3, FinishedRowType
  <1>5. row'[d] = r
    BY <1>1, <1>2 DEF IInv, TypeOK
  <1>6. RowRelaxed(d)
    <2>1. CASE HoldsClaim(row[d], w)
      <3>1. r = FinishedRow(row[d], j)
        BY <2>1
      <3>2. /\ r.status \in {"DELIVERED", "DEAD_LETTER", "PENDING"}
            /\ r.status = "PENDING" => ~Exhausted(j)
            /\ r.attempts = row[d].attempts /\ r.cycleStart = row[d].cycleStart
            /\ r.version = row[d].version
        BY <3>1, <1>1, <1>3, FinishedRowType
      <3>3. r.status = "PENDING" => r.attempts - r.cycleStart < MaxRetries
        BY <3>2, <2>1, <1>2, <1>3, OutboxAssumption DEF Exhausted, Row
      <3> HIDE DEF r
      <3> QED BY <3>2, <3>3, <1>2, <1>3, <1>5 DEF RowRelaxed, RowSound
    <2>2. CASE ~HoldsClaim(row[d], w)
      BY <2>2, <1>5 DEF RowRelaxed
    <2> QED BY <2>1, <2>2
  <1> HIDE DEF r, d
  <1>7. \A c \in Deliveries : RowRelaxed(c)
    BY <1>1, <1>6 DEF IInv, TypeOK, RowRelaxed
  <1>8. Become(w, Idle) /\ Idle \in Job /\ Idle.pc = "idle"
    BY <1>1, IdleType DEF Return
  <1>9. job' \in [Workers -> Job] /\ \A v \in Workers : JobRelaxed(v)
    BY <1>8 DEF IInv, TypeOK, JobRelaxed, Become, Claimed
  <1>10. ActiveCounts' /\ active' \in Nat
    BY <1>1, CountDown DEF IInv, TypeOK, Claimed
  <1>11. DrainClosed'
    BY <1>1, <1>8, DrainKept
  <1>12. TypeOK'
    BY <1>1, <1>4, <1>9, <1>10 DEF IInv, TypeOK
  <1>13. Sound'
    BY <1>1, <1>7, <1>9, <1>12, Relax DEF IInv
  <1> QED BY <1>10, <1>11, <1>12, <1>13 DEF IInv

\* ClaimDelivery: the delivery was due or abandoned, nothing else is in flight
\* to the endpoint, and the attempt is the first of its number.
LEMMA ClaimStep ==
  ASSUME IInv, NEW w \in Workers, ClaimDelivery(w)
  PROVE  IInv'
  <1>1. /\ job[w].pc = "claim"
        /\ UNCHANGED <<endpoint, emitted, attempted, paused, drain, accepted,
                       committed, faults, changes>>
    BY DEF ClaimDelivery
  <1>2. CASE Return(w) /\ UNCHANGED row
    BY <1>1, <1>2, ReturnStep DEF db, IInv, TypeOK
  <1>3. ASSUME NEW d \in Deliveries, Claimable(d),
               row' = [row EXCEPT ![d] = ClaimedRow(@, w)],
               Become(w, [Idle EXCEPT !.pc = "target", !.at = d,
                                      !.attempts = row'[d].attempts,
                                      !.cycleStart = row[d].cycleStart,
                                      !.version = row[d].version]),
               UNCHANGED active
        PROVE  IInv'
    <2> DEFINE r == ClaimedRow(row[d], w)
               j == [Idle EXCEPT !.pc = "target", !.at = d,
                                 !.attempts = r.attempts,
                                 !.cycleStart = row[d].cycleStart,
                                 !.version = row[d].version]
    <2>1. /\ row[d] \in Row /\ RowSound(d)
          /\ row[d].attempts \in Nat /\ row[d].cycleStart \in Nat
          /\ row[d].version \in Version \cup {NoVersion}
      BY DEF IInv, TypeOK, Sound, Row
    <2>2. /\ r \in Row /\ r.status = "IN_FLIGHT" /\ r.token = w
          /\ r.attempts = row[d].attempts + 1 /\ r.cycleStart = row[d].cycleStart
          /\ r.version = row[d].version /\ r.attempts \in Nat
      BY <2>1, ClaimedRowType
    <2>3. row[d].status \in {"PENDING", "IN_FLIGHT"}
      BY <1>3 DEF Claimable
    <2>4. row' = [row EXCEPT ![d] = r]
      BY <1>3
    <2> HIDE DEF r
    <2>5. /\ row'[d] = r /\ row' \in [Deliveries -> Row]
          /\ \A c \in Deliveries : c # d => row'[c] = row[c]
      BY <2>2, <2>4 DEF IInv, TypeOK
    <2>6. Become(w, j)
      BY <1>3, <2>5
    <2>7. /\ j \in Job /\ j.pc = "target" /\ j.at = d /\ j.attempts = r.attempts
          /\ j.cycleStart = row[d].cycleStart /\ j.version = row[d].version
      <3> DEFINE j1 == [Idle EXCEPT !.pc = "target"]
                 j2 == [j1 EXCEPT !.at = d]
                 j3 == [j2 EXCEPT !.attempts = r.attempts]
                 j4 == [j3 EXCEPT !.cycleStart = row[d].cycleStart]
      <3>1. j1 \in Job /\ j1.pc = "target"
        BY IdleType DEF Job, PCs
      <3>2. j = [j4 EXCEPT !.version = row[d].version]
        OBVIOUS
      <3> HIDE DEF j1, j
      <3>3. j2 \in Job /\ j2.pc = "target" /\ j2.at = d
        BY <3>1 DEF Job
      <3> HIDE DEF j2
      <3>4. j3 \in Job /\ j3.pc = "target" /\ j3.at = d /\ j3.attempts = r.attempts
        BY <3>3, <2>2 DEF Job
      <3> HIDE DEF j3
      <3>5. /\ j4 \in Job /\ j4.pc = "target" /\ j4.at = d
            /\ j4.attempts = r.attempts /\ j4.cycleStart = row[d].cycleStart
        BY <3>4, <2>1 DEF Job
      <3> HIDE DEF j4
      <3> QED BY <3>2, <3>5, <2>1 DEF Job
    <2> HIDE DEF j
    <2>8. /\ job'[w] = j /\ job' \in [Workers -> Job]
          /\ \A v \in Workers : v # w => job'[v] = job[v]
      BY <2>6, <2>7 DEF IInv, TypeOK, Become
    <2>9. TypeOK'
      BY <1>1, <1>3, <2>5, <2>8 DEF IInv, TypeOK
    <2>10. ActiveCounts'
      <3>1. \A v \in Workers : job'[v].pc \in Claimed \cup {"claim"}
                                 <=> job[v].pc \in Claimed \cup {"claim"}
        BY <1>1, <2>7, <2>8 DEF Claimed
      <3> QED BY <1>3, <3>1, CountKept DEF IInv
    <2>11. DrainClosed'
      BY <1>1, <2>6, <2>7, DrainKept
    <2>12. OneClaimPerEndpoint'
      <3>1. \A o \in Deliveries : o[2] = d[2] /\ row[o].status = "IN_FLIGHT"
                                  /\ row[o].leased => o = d
        BY <1>3 DEF Claimable
      <3> QED BY <3>1, <2>5 DEF IInv, Sound, OneClaimPerEndpoint
    <2>13. ASSUME NEW c \in Deliveries
           PROVE  RowSound(c)'
      <3>1. CASE c = d
        BY <3>1, <1>1, <2>1, <2>2, <2>3, <2>5 DEF RowSound
      <3>2. CASE c # d
        BY <3>2, <1>1, <2>5 DEF RowSound, IInv, Sound
      <3> QED BY <3>1, <3>2
    <2>14. \A a \in attempted : /\ a[1] \in Deliveries /\ a[2] \in Nat
                                /\ a[2] <= row[a[1]].attempts
      BY DEF IInv, TypeOK, Sound, AttemptsCounted
    <2>15. <<d, r.attempts>> \notin attempted
      <3>1. ASSUME <<d, r.attempts>> \in attempted
            PROVE  FALSE
        <4>1. <<d, r.attempts>>[2] <= row[<<d, r.attempts>>[1]].attempts
          BY <3>1, <2>14
        <4> QED BY <4>1, <2>1, <2>2
      <3> QED BY <3>1
    <2>16. JobSound(w)'
      BY <1>1, <2>2, <2>5, <2>7, <2>8, <2>15 DEF JobSound, HoldsClaim
    <2>17. ASSUME NEW v \in Workers, v # w
           PROVE  JobSound(v)'
      <3>1. JobSound(v) /\ job'[v] = job[v] /\ job[v] \in Job
        BY <2>8, <2>17 DEF IInv, Sound, TypeOK
      <3>2. CASE job[v].at # d
        BY <3>1, <3>2, <1>1, <2>5 DEF JobSound, HoldsClaim
      <3>3. CASE job[v].at = d
        <4>1. ~HoldsClaim(r, v)
          BY <2>2, <2>17 DEF HoldsClaim
        <4>2. job[v].attempts \in Nat
          BY <3>1 DEF Job
        <4> QED BY <3>1, <3>3, <4>1, <4>2, <1>1, <2>1, <2>2, <2>5 DEF JobSound
      <3> QED BY <3>2, <3>3
    <2>18. JobsApart'
      <3>1. ASSUME NEW v \in Workers, v # w, job[v].pc \in Claimed, job[v].at = d
            PROVE  job[v].attempts # r.attempts
        <4>1. JobSound(v) /\ job[v].attempts \in Nat
          BY DEF IInv, Sound, TypeOK, Job
        <4> QED BY <3>1, <4>1, <2>1, <2>2 DEF JobSound
      <3> QED BY <3>1, <2>7, <2>8 DEF IInv, Sound, JobsApart
    <2>19. AttemptsCounted'
      <3>1. ASSUME NEW a \in attempted
            PROVE  a[2] <= row'[a[1]].attempts
        BY <2>1, <2>2, <2>5, <2>14
      <3> QED BY <3>1, <1>1 DEF AttemptsCounted
    <2>20. SentSound'
      BY <1>1 DEF IInv, Sound, SentSound
    <2> QED BY <2>9, <2>10, <2>11, <2>12, <2>13, <2>16, <2>17, <2>18, <2>19, <2>20
            DEF IInv, Sound
  <1> QED BY <1>2, <1>3 DEF ClaimDelivery

-----------------------------------------------------------------------------
(* Invariance.                                                             *)

LEMMA InitIInv == Init => IInv
  <1> SUFFICES ASSUME Init PROVE IInv
    OBVIOUS
  <1>1. TypeOK
    <2>1. /\ endpoint \in [Endpoints -> Endpoint] /\ row \in [Deliveries -> Row]
          /\ job \in [Workers -> Job]
      BY NoRowType, IdleType, NewEndpointType DEF Init
    <2>2. committed \in [Deliveries -> Version \cup {NoVersion}]
      BY DEF Init
    <2>3. faults \in 0..FaultBudget /\ changes \in 0..ChangeBudget /\ active \in Nat
      BY OutboxAssumption DEF Init
    <2> QED BY <2>1, <2>2, <2>3 DEF Init, TypeOK
  <1>2. \A w \in Workers : job[w] = Idle /\ job[w].pc = "idle"
    BY IdleType DEF Init
  <1>3. Counted = {}
    BY <1>2 DEF Counted, Claimed
  <1>4. ActiveCounts
    BY <1>3, FS_EmptySet DEF Init, ActiveCounts
  <1>5. DrainClosed
    BY DEF Init, DrainClosed, DrainedIsQuiet
  <1>6. \A d \in Deliveries : row[d] = NoRow
    BY DEF Init
  <1>7. Sound
    BY <1>2, <1>6, NoRowFields DEF Init, Sound, OneClaimPerEndpoint, RowSound, JobSound,
       JobsApart, AttemptsCounted, SentSound, Claimed
  <1> QED BY <1>1, <1>4, <1>5, <1>7 DEF IInv

LEMMA NextIInv ==
  ASSUME IInv, [Next]_vars
  PROVE  IInv'
  <1>1. CASE UNCHANGED vars
    <2>1. ActiveCounts' /\ DrainClosed'
      BY <1>1, DispatcherKept DEF vars
    <2>2. UNCHANGED db /\ \A w \in Workers : JobRelaxed(w)
      BY <1>1 DEF vars, JobRelaxed
    <2> QED BY <1>1, <2>1, <2>2, QuietStep DEF vars, IInv, TypeOK
  <1>2. ASSUME NEW w \in Workers, Dispatch(w) \/ Abort(w)
        PROVE  IInv'
    BY <1>2, AdmitStep, ClaimStep, TargetStep, SendStep, RecordStep, FinishStep,
       AbortStep DEF Dispatch
  <1>3. ASSUME NEW d \in Deliveries,
               ReplayDelivery(d) \/ BecomesDue(d) \/ LeaseExpires(d) \/ Stall(d)
        PROVE  IInv'
    BY <1>3, ReplayStep, DueStep, ExpireStep
  <1> QED BY <1>1, <1>2, <1>3, EmitStep, EndpointStep, LifecycleStep DEF Next

\* The inductive invariant holds in every reachable state: what a goroutine
\* remembers is true while it holds its claim, and the counter counts.
THEOREM Invariance == Spec => []IInv
  BY InitIInv, NextIInv, PTL DEF Spec

\* The rows, the goroutines and the counters keep their types through every
\* interleaving of dispatcher, operators and failures.
THEOREM TypeCorrect == Spec => []TypeOK
  <1>1. IInv => TypeOK
    BY DEF IInv
  <1> QED BY <1>1, Invariance, PTL

\* ClaimDelivery keeps at most one live claim per channel.
THEOREM ClaimsExclusive == Spec => []OneClaimPerEndpoint
  <1>1. IInv => OneClaimPerEndpoint
    BY DEF IInv, Sound
  <1> QED BY <1>1, Invariance, PTL

\* RecordAttempt never meets its unique key, whoever outlives a claim.
THEOREM AttemptsUnique == Spec => []AttemptsDistinct
  <1>1. IInv => AttemptsDistinct
    BY DEF IInv, Sound, JobSound, JobsApart, AttemptsDistinct, Claimed
  <1> QED BY <1>1, Invariance, PTL

\* DispatchOne and ReplayDelivery end every retry cycle.
THEOREM RetriesEnd == Spec => []RetriesBounded
  <1>1. IInv => RetriesBounded
    BY DEF IInv, Sound, RowSound, RetriesBounded
  <1> QED BY <1>1, Invariance, PTL

\* Drain returns only when DispatchOne has, and nobody starts after it.
THEOREM DrainSilences == Spec => []DrainedIsQuiet
  <1>1. IInv => DrainedIsQuiet
    BY DEF IInv, DrainClosed
  <1> QED BY <1>1, Invariance, PTL

\* DeliveryTargetForDelivery uses the version committed with the event.
THEOREM SendsCommitted == Spec => []SentAsCommitted
  <1>1. IInv => SentAsCommitted
    BY DEF IInv, Sound, SentSound, SentAsCommitted
  <1> QED BY <1>1, Invariance, PTL

-----------------------------------------------------------------------------
(* Steps.                                                                  *)

\* What a step may do to a claim.
ClaimKept(d) ==
    row[d].status = "IN_FLIGHT" =>
          /\ row[d].leased /\ row'[d].status = "IN_FLIGHT" =>
                row'[d].token = row[d].token
          /\ row'[d].status # "IN_FLIGHT" =>
                \E w \in Workers : /\ row[d].token = w
                                   /\ job[w].pc = "finish"
                                   /\ job[w].at = d

LEMMA NextClaims ==
  ASSUME IInv, [Next]_vars, NEW d \in Deliveries
  PROVE  ClaimKept(d)
  <1>1. CASE row' = row
    BY <1>1 DEF ClaimKept
  <1>2. ASSUME NEW w \in Workers, ClaimDelivery(w)
        PROVE  ClaimKept(d)
    <2>1. ASSUME NEW c \in Deliveries, Claimable(c),
                 row' = [row EXCEPT ![c] = ClaimedRow(@, w)]
          PROVE  ClaimKept(d)
      <3>1. row[c] \in Row /\ row[d] \in Row /\ row' = [row EXCEPT ![c] = ClaimedRow(row[c], w)]
        BY <2>1 DEF IInv, TypeOK
      <3>2. CASE c = d
        <4>1. row'[d].status = "IN_FLIGHT"
          BY <3>1, <3>2, ClaimedRowType DEF IInv, TypeOK
        <4> QED BY <4>1, <2>1, <3>2 DEF ClaimKept, Claimable
      <3>3. CASE c # d
        BY <3>1, <3>3 DEF ClaimKept, IInv, TypeOK
      <3> QED BY <3>2, <3>3
    <2> QED BY <1>2, <2>1, <1>1 DEF ClaimDelivery
  <1>3. ASSUME NEW w \in Workers, FinishDelivery(w)
        PROVE  ClaimKept(d)
    <2>1. CASE job[w].at = d /\ HoldsClaim(row[d], w)
      <3>1. row'[d] = FinishedRow(row[d], job[w])
        BY <2>1, <1>3 DEF FinishDelivery, IInv, TypeOK
      <3>2. row'[d].status # "IN_FLIGHT"
        <4>1. row[d] \in Row /\ job[w] \in Job
          BY DEF IInv, TypeOK
        <4>2. FinishedRow(row[d], job[w]).status \in {"DELIVERED", "DEAD_LETTER", "PENDING"}
          BY <4>1, FinishedRowType
        <4> QED BY <3>1, <4>2
      <3> QED BY <2>1, <3>2, <1>3 DEF ClaimKept, HoldsClaim, FinishDelivery
    <2>2. CASE ~(job[w].at = d /\ HoldsClaim(row[d], w))
      <3>1. row'[d] = row[d]
        BY <2>2, <1>3 DEF FinishDelivery, IInv, TypeOK
      <3> QED BY <3>1 DEF ClaimKept
    <2> QED BY <2>1, <2>2
  <1>4. ASSUME NEW e \in Events, EmitTransactionEvent(e)
        PROVE  ClaimKept(d)
    <2>1. row[d].status = "IN_FLIGHT" => d[1] # e
      BY <1>4 DEF IInv, Sound, RowSound, EmitTransactionEvent
    <2>2. d[1] # e => row'[d] = row[d]
      BY <1>4 DEF EmitTransactionEvent
    <2> QED BY <2>1, <2>2 DEF ClaimKept
  <1>5. ASSUME NEW c \in Deliveries, ReplayDelivery(c) \/ BecomesDue(c)
        PROVE  ClaimKept(d)
    <2>1. row[d].status = "IN_FLIGHT" => row'[d] = row[d]
      BY <1>5 DEF ReplayDelivery, BecomesDue, IInv, TypeOK
    <2> QED BY <2>1 DEF ClaimKept
  <1>6. ASSUME NEW c \in Deliveries, Expire(c)
        PROVE  ClaimKept(d)
    <2>1. /\ row[c] \in Row
          /\ row' = [row EXCEPT ![c] = [row[c] EXCEPT !.leased = FALSE]]
      BY <1>6 DEF Expire, IInv, TypeOK
    <2>2. /\ [row[c] EXCEPT !.leased = FALSE].status = row[c].status
          /\ [row[c] EXCEPT !.leased = FALSE].token = row[c].token
      BY <2>1 DEF Row
    <2>3. row'[d].status = row[d].status /\ row'[d].token = row[d].token
      BY <2>1, <2>2 DEF IInv, TypeOK
    <2> QED BY <2>3 DEF ClaimKept
  <1>7. ASSUME NEW w \in Workers, Dispatch(w) \/ Abort(w)
        PROVE  ClaimKept(d)
    BY <1>1, <1>2, <1>3, <1>7 DEF Dispatch, Abort, Admit, Count, DeliveryTarget, Send,
       RecordAttempt, db
  <1>8. ASSUME Drain \/ Drained \/ Resume \/ Restart
        PROVE  ClaimKept(d)
    BY <1>1, <1>8 DEF Drain, Drained, Resume, Restart, db
  <1>9. ASSUME NEW p \in Endpoints,
               \/ UpdateChannel(p) \/ RotateSecret(p)
               \/ \E s \in {"ACTIVE", "DISABLED"} : SetEndpointStatus(p, s)
        PROVE  ClaimKept(d)
    BY <1>1, <1>9 DEF UpdateChannel, RotateSecret, NewVersion, SetEndpointStatus
  <1>10. CASE UNCHANGED vars
    BY <1>1, <1>10 DEF vars, db
  <1> QED BY <1>4, <1>5, <1>6, <1>7, <1>8, <1>9, <1>10 DEF Next, LeaseExpires, Stall

\* A live claim is not taken over, and only CompleteDelivery or FailDelivery of
\* the goroutine that holds a claim ends it.
THEOREM ClaimsKept == Spec => ClaimsRespected
  <1>1. ASSUME IInv, [Next]_vars
        PROVE  [\A d \in Deliveries : row[d].status = "IN_FLIGHT" =>
                  /\ row[d].leased /\ row'[d].status = "IN_FLIGHT" =>
                        row'[d].token = row[d].token
                  /\ row'[d].status # "IN_FLIGHT" =>
                        \E w \in Workers : /\ row[d].token = w
                                           /\ job[w].pc = "finish"
                                           /\ job[w].at = d]_vars
    BY <1>1, NextClaims DEF ClaimKept
  <1> QED BY <1>1, Invariance, PTL DEF Spec, ClaimsRespected

-----------------------------------------------------------------------------
(* Refinement.                                                             *)

FiledState == [d \in Deliveries |-> Filed(row[d].status)]
TakenSet   == {d \in Deliveries : \E v \in Version : <<d, v>> \in accepted}

LEMMA FiledValues ==
  /\ Filed("NONE") = "none" /\ Filed("PENDING") = "open"
  /\ Filed("IN_FLIGHT") = "open" /\ Filed("DELIVERED") = "delivered"
  /\ Filed("DEAD_LETTER") = "dead"
  BY DEF Filed

\* Steps the contract does not see.
LEMMA Unseen ==
  ASSUME \A d \in Deliveries : Filed(row'[d].status) = Filed(row[d].status),
         accepted' = accepted
  PROVE  FiledState' = FiledState /\ TakenSet' = TakenSet
  BY DEF FiledState, TakenSet

\* One delivery is filed elsewhere.
LEMMA Refiled ==
  ASSUME row \in [Deliveries -> Row], NEW d \in Deliveries, NEW r \in Row,
         row' = [row EXCEPT ![d] = r], accepted' = accepted
  PROVE  /\ FiledState' = [FiledState EXCEPT ![d] = Filed(r.status)]
         /\ TakenSet' = TakenSet
         /\ FiledState[d] = Filed(row[d].status)
  <1>1. ASSUME NEW c \in Deliveries
        PROVE  Filed(row'[c].status) = IF c = d THEN Filed(r.status) ELSE Filed(row[c].status)
    OBVIOUS
  <1> QED BY <1>1 DEF FiledState, TakenSet

ContractStep == Contract!Step \/ UNCHANGED <<FiledState, TakenSet>>

LEMMA EmitRefines ==
  ASSUME IInv, NEW e \in Events, EmitTransactionEvent(e)
  PROVE  ContractStep
  <1> DEFINE ds == {d \in Deliveries : d[1] = e /\ endpoint[d[2]].status = "ACTIVE"}
  <1>1. \A d \in ds : FiledState[d] = "none"
    BY FiledValues DEF FiledState, IInv, Sound, RowSound, EmitTransactionEvent
  <1>2. ASSUME NEW d \in Deliveries
        PROVE  Filed(row'[d].status) = IF d \in ds THEN "open" ELSE FiledState[d]
    <2>1. endpoint[d[2]].version \in Version
      BY DEF Deliveries, IInv, TypeOK, Endpoint
    <2>2. row'[d] = IF d \in ds THEN PendingRow(endpoint[d[2]].version) ELSE row[d]
      BY DEF EmitTransactionEvent
    <2>3. PendingRow(endpoint[d[2]].version).status = "PENDING"
      BY <2>1, PendingRowType
    <2> HIDE DEF ds
    <2> QED BY <2>2, <2>3, FiledValues DEF FiledState
  <1>3. FiledState' = [d \in Deliveries |-> IF d \in ds THEN "open" ELSE FiledState[d]]
    BY <1>2 DEF FiledState
  <1>4. TakenSet' = TakenSet
    BY DEF EmitTransactionEvent, TakenSet
  <1>5. ds \in SUBSET Deliveries
    OBVIOUS
  <1> HIDE DEF ds
  <1>6. Contract!Enqueue(ds)
    BY <1>1, <1>3, <1>4 DEF Contract!Enqueue, FiledState, TakenSet
  <1> QED BY <1>5, <1>6 DEF ContractStep, Contract!Step

LEMMA SendRefines ==
  ASSUME IInv, NEW w \in Workers, Send(w)
  PROVE  ContractStep
  <1>1. JobSound(w) /\ job[w].pc = "send"
    BY DEF IInv, Sound, Send
  <1> DEFINE d == job[w].at
  <1>2. d \in Deliveries /\ row[d].status # "NONE" /\ job[w].version = row[d].version
    BY <1>1 DEF JobSound, Claimed
  <1>3. job[w].version \in Version
    BY <1>2 DEF IInv, Sound, RowSound
  <1>4. FiledState' = FiledState
    BY DEF Send, db, FiledState
  <1>5. FiledState[d] # "none"
    BY <1>2, FiledValues DEF FiledState, IInv, TypeOK, Row, Statuses
  <1>6. accepted' = accepted \/ accepted' = accepted \cup {<<d, job[w].version>>}
    BY DEF Send
  <1> HIDE DEF d
  <1>7. TakenSet' = TakenSet \/ TakenSet' = TakenSet \cup {d}
    BY <1>2, <1>3, <1>6 DEF TakenSet
  <1>8. CASE TakenSet' = TakenSet \cup {d}
    BY <1>2, <1>4, <1>5, <1>8
       DEF ContractStep, Contract!Step, Contract!Take, FiledState, TakenSet
  <1> QED BY <1>4, <1>7, <1>8 DEF ContractStep

LEMMA FinishRefines ==
  ASSUME IInv, NEW w \in Workers, FinishDelivery(w)
  PROVE  ContractStep
  <1> DEFINE d == job[w].at
             r == FinishedRow(row[d], job[w])
  <1>1. job[w] \in Job /\ job[w].pc = "finish" /\ JobSound(w)
    BY DEF IInv, TypeOK, Sound, FinishDelivery
  <1>2. /\ d \in Deliveries
        /\ job[w].result = "SUCCESS" => d \in TakenSet
    BY <1>1 DEF JobSound, Claimed, TakenSet
  <1>3. row[d] \in Row
    BY <1>2 DEF IInv, TypeOK
  <1>4. /\ r \in Row /\ r.status \in {"DELIVERED", "DEAD_LETTER", "PENDING"}
        /\ r.status = "DELIVERED" => job[w].result = "SUCCESS"
    BY <1>1, <1>3, FinishedRowType
  <1>5. CASE HoldsClaim(row[d], w)
    <2>1. row' = [row EXCEPT ![d] = r] /\ accepted' = accepted
      BY <1>5 DEF FinishDelivery
    <2>2. row[d].status = "IN_FLIGHT"
      BY <1>5 DEF HoldsClaim
    <2> HIDE DEF d, r
    <2>3. /\ FiledState' = [FiledState EXCEPT ![d] = Filed(r.status)]
          /\ TakenSet' = TakenSet /\ FiledState[d] = Filed(row[d].status)
      BY <2>1, <1>2, <1>4, Refiled DEF IInv, TypeOK
    <2>4. FiledState[d] = "open"
      BY <2>2, <2>3, FiledValues
    <2>5. CASE r.status = "DELIVERED"
      <3>1. Contract!Deliver(d)
        BY <2>3, <2>4, <2>5, <1>2, <1>4, FiledValues
           DEF Contract!Deliver, Contract!Move, FiledState, TakenSet
      <3> QED BY <3>1, <1>2 DEF ContractStep, Contract!Step
    <2>6. CASE r.status = "DEAD_LETTER"
      <3>1. Contract!GiveUp(d)
        BY <2>3, <2>4, <2>6, FiledValues
           DEF Contract!GiveUp, Contract!Move, FiledState, TakenSet
      <3> QED BY <3>1, <1>2 DEF ContractStep, Contract!Step
    <2>7. CASE r.status = "PENDING"
      <3>1. FiledState' = FiledState
        BY <2>3, <2>4, <2>7, FiledValues DEF FiledState
      <3> QED BY <3>1, <2>3 DEF ContractStep
    <2> QED BY <1>4, <2>5, <2>6, <2>7
  <1>6. CASE ~HoldsClaim(row[d], w)
    <2>1. row' = row /\ accepted' = accepted
      BY <1>6, <1>2 DEF FinishDelivery, IInv, TypeOK
    <2> QED BY <2>1, Unseen DEF ContractStep
  <1> QED BY <1>5, <1>6

LEMMA ReplayRefines ==
  ASSUME IInv, NEW d \in Deliveries, ReplayDelivery(d)
  PROVE  ContractStep
  <1> DEFINE r == ReplayedRow(row[d])
  <1>1. row[d] \in Row /\ row[d].status = "DEAD_LETTER"
    BY DEF IInv, TypeOK, ReplayDelivery
  <1>2. r \in Row /\ r.status = "PENDING"
    BY <1>1, ReplayedRowType
  <1>3. row' = [row EXCEPT ![d] = r] /\ accepted' = accepted
    BY DEF ReplayDelivery
  <1> HIDE DEF r
  <1>4. /\ FiledState' = [FiledState EXCEPT ![d] = Filed(r.status)]
        /\ TakenSet' = TakenSet /\ FiledState[d] = Filed(row[d].status)
    BY <1>2, <1>3, Refiled DEF IInv, TypeOK
  <1>5. Contract!Replay(d)
    BY <1>1, <1>2, <1>4, FiledValues
       DEF Contract!Replay, Contract!Move, FiledState, TakenSet
  <1> QED BY <1>5 DEF ContractStep, Contract!Step

\* Claims, expiries and schedules move within "open".
LEMMA OpenRefines ==
  ASSUME IInv, NEW d \in Deliveries, NEW r \in Row, row' = [row EXCEPT ![d] = r],
         accepted' = accepted,
         row[d].status \in {"PENDING", "IN_FLIGHT"}, r.status \in {"PENDING", "IN_FLIGHT"}
  PROVE  ContractStep
  <1>1. \A c \in Deliveries : Filed(row'[c].status) = Filed(row[c].status)
    BY FiledValues DEF IInv, TypeOK
  <1> QED BY <1>1, Unseen DEF ContractStep

LEMMA NextRefines ==
  ASSUME IInv, [Next]_vars
  PROVE  ContractStep
  <1>1. CASE row' = row /\ accepted' = accepted
    BY <1>1, Unseen DEF ContractStep
  <1>2. ASSUME NEW w \in Workers, ClaimDelivery(w)
        PROVE  ContractStep
    <2>1. ASSUME NEW d \in Deliveries, Claimable(d),
                 row' = [row EXCEPT ![d] = ClaimedRow(@, w)]
          PROVE  ContractStep
      <3>1. row[d] \in Row /\ row' = [row EXCEPT ![d] = ClaimedRow(row[d], w)]
        BY <2>1 DEF IInv, TypeOK
      <3>2. ClaimedRow(row[d], w) \in Row /\ ClaimedRow(row[d], w).status = "IN_FLIGHT"
        BY <3>1, ClaimedRowType
      <3>3. row[d].status \in {"PENDING", "IN_FLIGHT"} /\ accepted' = accepted
        BY <1>2, <2>1 DEF Claimable, ClaimDelivery
      <3> QED BY <3>1, <3>2, <3>3, OpenRefines
    <2> QED BY <1>1, <1>2, <2>1 DEF ClaimDelivery
  <1>3. ASSUME NEW d \in Deliveries, BecomesDue(d)
        PROVE  ContractStep
    <2>1. row[d] \in Row /\ row[d].status = "PENDING" /\ accepted' = accepted
          /\ row' = [row EXCEPT ![d] = [row[d] EXCEPT !.due = TRUE]]
      BY <1>3 DEF IInv, TypeOK, BecomesDue
    <2>2. [row[d] EXCEPT !.due = TRUE] \in Row
          /\ [row[d] EXCEPT !.due = TRUE].status = row[d].status
      BY <2>1 DEF Row
    <2> QED BY <2>1, <2>2, OpenRefines
  <1>4. ASSUME NEW d \in Deliveries, Expire(d)
        PROVE  ContractStep
    <2>1. row[d] \in Row /\ row[d].status = "IN_FLIGHT" /\ accepted' = accepted
          /\ row' = [row EXCEPT ![d] = [row[d] EXCEPT !.leased = FALSE]]
      BY <1>4 DEF IInv, TypeOK, Expire
    <2>2. [row[d] EXCEPT !.leased = FALSE] \in Row
          /\ [row[d] EXCEPT !.leased = FALSE].status = row[d].status
      BY <2>1 DEF Row
    <2> QED BY <2>1, <2>2, OpenRefines
  <1>5. ASSUME NEW w \in Workers, Dispatch(w) \/ Abort(w)
        PROVE  ContractStep
    BY <1>1, <1>2, <1>5, SendRefines, FinishRefines
       DEF Dispatch, Abort, Admit, Count, DeliveryTarget, RecordAttempt, db
  <1>6. ASSUME Drain \/ Drained \/ Resume \/ Restart
        PROVE  ContractStep
    BY <1>1, <1>6 DEF Drain, Drained, Resume, Restart, db
  <1>7. ASSUME NEW p \in Endpoints,
               \/ UpdateChannel(p) \/ RotateSecret(p)
               \/ \E s \in {"ACTIVE", "DISABLED"} : SetEndpointStatus(p, s)
        PROVE  ContractStep
    BY <1>1, <1>7 DEF UpdateChannel, RotateSecret, NewVersion, SetEndpointStatus
  <1>8. CASE UNCHANGED vars
    BY <1>1, <1>8 DEF vars, db
  <1> QED BY <1>3, <1>4, <1>5, <1>6, <1>7, <1>8, EmitRefines, ReplayRefines
          DEF Next, LeaseExpires, Stall

\* Every behaviour of outbox and dispatcher is one the at-least-once contract
\* allows: nothing is filed as delivered that no receiver took, nothing
\* delivered is reopened, and only ReplayDelivery reopens a dead letter.
THEOREM OutboxImplementsContract == Spec => ImplementsContract
  <1>1. Init => Contract!Start
    <2> SUFFICES ASSUME Init PROVE Contract!Start
      OBVIOUS
    <2>1. \A d \in Deliveries : Filed(row[d].status) = "none"
      BY NoRowFields, FiledValues DEF Init
    <2>2. TakenSet = {}
      BY DEF Init, TakenSet
    <2> QED BY <2>1, <2>2 DEF Contract!Start, TakenSet
  <1>2. ASSUME IInv, [Next]_vars
        PROVE  [Contract!Step]_<<[d \in Deliveries |-> Filed(row[d].status)],
                                 {d \in Deliveries : \E v \in Version : <<d, v>> \in accepted}>>
    BY <1>2, NextRefines DEF ContractStep, FiledState, TakenSet
  <1> QED BY <1>1, <1>2, Invariance, PTL DEF Spec, ImplementsContract, Contract!ContractSpec
=============================================================================
