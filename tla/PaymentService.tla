---------------------------- MODULE PaymentService ----------------------------
(***************************************************************************)
(* The payOS payment service (internal/payments) on top of PaymentStore:   *)
(* gateway requests that create and cancel orders, the worker's reconciler *)
(* and the webhook handler, all sharing one database, talking to the       *)
(* payment provider, and dying between any two steps.                      *)
(*                                                                         *)
(* A process p of Procs is a gateway request or, for Worker, the           *)
(* reconciler loop.  It runs one operation at a time; proc[p].pc names the *)
(* next database transaction or provider request of that operation, and    *)
(* the computation between the two belongs to the step before it.          *)
(***************************************************************************)
EXTENDS PaymentStore, Sequences

CONSTANTS Worker,        \* the process that reconciles
          NoOrder,
          PreIssued,     \* codes the provider knows before the database does
          Closings,      \* the ways in which the provider closes a link
          AgesReached,   \* how old orders get
          FaultBudget    \* bound on crashes, stalls, gate closings and
                         \* provider faults

ASSUME ServiceAssumption == /\ Worker \in Procs
                            /\ NoOrder \notin Orders
                            /\ PreIssued \subseteq Orders
                            /\ Closings \subseteq Closed
                            /\ AgesReached \subseteq Ages
                            /\ FaultBudget \in Nat

VARIABLES
    orders, receipts, inbox, journal,   \* the database
    gate,                               \* is the mutation gate open
    batch,                              \* the worker's unvisited due orders
    proc,                               \* the running operations
    acked,                              \* callbacks answered with success
    link, paid, late,                   \* the provider
    known,                              \* history: recovery Creates sent
    faults

db       == <<orders, receipts, inbox, journal>>
provider == <<link, paid, late>>
vars     == <<db, gate, batch, proc, acked, provider, known, faults>>

\* What a provider could be told to have received: the transfers that the
\* complete signed payloads describe.
Transfers == {c \in Callbacks : /\ c.link = "own"
                                /\ c.fault = "none"
                                /\ c.account # NoAccount}

\* The fields of the claimed snapshot that later steps read.
Snapshot  == [status: Statuses \cup {"ABSENT"}, linkId: Links,
              qrCode: BOOLEAN, lastError: ErrorCodes, qrTried: BOOLEAN]
Snap(row) == [status |-> row.status, linkId |-> row.linkId,
              qrCode |-> row.qrCode, lastError |-> row.lastError,
              qrTried |-> row.qrTried]

Calls == {"create", "getCall", "cancelCall", "recreateCall"}
PCs   == Calls \cup {"idle", "reserve", "get", "cancel", "recreate",
                     "scan", "pending", "settle", "finish"}
Ops   == {"none", "create", "reconcile", "cancel", "recoverCancel",
          "recoverAbsent", "recoverKnown"}

Operation == [pc: PCs, op: Ops, at: Orders \cup {NoOrder},
              key: Keys \cup {NoKey}, snap: Snapshot,
              txns: SUBSET Transfers, items: SUBSET Callbacks,
              upd: OrderUpdate]
Idle == [pc |-> "idle", op |-> "none", at |-> NoOrder, key |-> NoKey,
         snap |-> Snap(AbsentOrder), txns |-> {}, items |-> {},
         upd |-> NoUpdate]

Init ==
    /\ orders   = [o \in Orders |-> AbsentOrder]
    /\ receipts = [r \in Refs |-> NoReceipt]
    /\ inbox    = [c \in Callbacks |-> NoRow]
    /\ journal  = <<>>
    /\ gate     = TRUE
    /\ batch    = {}
    /\ proc     = [p \in Procs |-> Idle]
    /\ acked    = {}
    /\ link     = [o \in Orders |-> IF o \in PreIssued THEN "open" ELSE "absent"]
    /\ paid     = {}
    /\ late     = {}
    /\ known    = [o \in Orders |-> 0]
    /\ faults   = 0

Fault    == faults < FaultBudget /\ faults' = faults + 1
Become(p, s)  == proc' = [proc EXCEPT ![p] = s]
\* The operation returns an error: nothing is written, its lease runs out,
\* and the reconciler drops the rest of its batch.
Abandon(p) == /\ Become(p, Idle)
              /\ batch' = IF p = Worker THEN {} ELSE batch

-----------------------------------------------------------------------------
(* Updates written by the last step of an operation.                       *)

\* Faulty variant: no look after the expiry.
TerminalNextUntilExpiry(o) == orders[o].age = "open"

\* terminalReconcileAt: one more look 24 hours after expiry, then none.
TerminalNext(o) == orders[o].age # "final"

KeptErrors == {"CREATE_REJECTED", "CANCEL_OUTCOME_UNKNOWN",
               "QR_RECOVERY_CANCEL_PENDING"}

\* failureUpdate: the backoff is a scheduled moment, the code survives an
\* unreachable provider.
FailureUpdate(o, s, code) ==
    LET kept == IF code = "PROVIDER_UNAVAILABLE" /\ s.lastError \in KeptErrors
                THEN s.lastError ELSE code
    IN  [NoUpdate EXCEPT
           !.lastError = IF orders[o].age = "final" /\ s.status = "CREATING"
                         THEN "CREATE_OUTCOME_UNKNOWN" ELSE kept,
           !.next = TRUE]

TerminalUpdate(o, status, code) ==
    [NoUpdate EXCEPT !.status = status, !.linkId = "own",
                     !.lastError = code, !.next = TerminalNext(o)]

CreatedUpdate(account) ==
    [NoUpdate EXCEPT !.status = "PENDING", !.linkId = "own",
                     !.account = account, !.qrCode = TRUE, !.next = TRUE]

UncertainUpdate(code) ==
    [NoUpdate EXCEPT !.status = "CREATING", !.lastError = code, !.next = TRUE]

\* The last step needs the order, the token and the update only.
ToFinish(s, u) == [Idle EXCEPT !.pc = "finish", !.at = s.at, !.upd = u]

-----------------------------------------------------------------------------
(* The provider, as the adapter's replies show it.                         *)

PaidFor(o)   == {t \in paid : t.order = o}
FullyPaid(o) == \/ \E t \in PaidFor(o) : t.amount = "full"
                \/ Cardinality(PaidFor(o)) > 1

ReportedStatus(o) ==
    IF FullyPaid(o) THEN {"PAID"}
    ELSE IF link[o] \in Closed THEN {link[o]}
    ELSE IF PaidFor(o) # {} THEN {"UNDERPAID"}
    ELSE {"PENDING", "PROCESSING"}

\* A transfer arrives on an issued link, late ones included.
Pay(t) ==
    /\ link[t.order] # "absent"
    /\ t \notin paid
    /\ paid' = paid \cup {t}
    /\ UNCHANGED <<db, gate, batch, proc, acked, link, late, known, faults>>

\* The payer cancels on the checkout page, the link expires or fails.
CloseLink(o, how) ==
    /\ link[o] = "open"
    /\ link' = [link EXCEPT ![o] = how]
    /\ UNCHANGED <<db, gate, batch, proc, acked, paid, late, known, faults>>

\* A Create that timed out for the caller still reaches the provider.
LateCreate(o) ==
    /\ o \in late
    /\ late' = late \ {o}
    /\ link' = [link EXCEPT ![o] = IF @ = "absent" THEN "open" ELSE @]
    /\ UNCHANGED <<db, gate, batch, proc, acked, paid, known, faults>>

\* The provider has a payload to sign: it describes a transfer it received,
\* perhaps without the receiving account, or a link it did not issue here.
Deliverable(c) ==
    \/ c.link = "other"
    \/ c.fault # "none"
    \/ \E t \in paid : /\ t.order = c.order /\ t.ref = c.ref
                       /\ t.amount = c.amount
                       /\ c.account \in {t.account, NoAccount}

\* provider.Create: what it does and what the caller sees.  A code that was
\* used before may be refused; every other refusal is a fault.
CreateReplies == {"ok", "invalid", "rejected", "timeout"}
ProviderCreate(o, reply) ==
    /\ IF reply = "ok" \/ (reply = "rejected" /\ link[o] # "absent")
       THEN UNCHANGED faults ELSE Fault
    /\ \/ /\ reply \in {"ok", "invalid", "timeout"}
          /\ link[o] \in {"absent", "open"}
          /\ link' = [link EXCEPT ![o] = "open"]
          /\ UNCHANGED late
       \/ /\ reply = "timeout"
          /\ late' = late \cup {o}
          /\ UNCHANGED link
       \/ /\ reply \in {"rejected", "timeout"}
          /\ UNCHANGED <<link, late>>
    /\ UNCHANGED paid

-----------------------------------------------------------------------------
(* CreateOrder.                                                            *)

PaymentOrderByKey(k) == {o \in Orders : orders[o].key = k}

\* A replay returns the stored order, and another request under its key is a
\* conflict.  The handler asks before it counts the request ...
ExistingOrderIntent(k) == PaymentOrderByKey(k) # {}

\* ... and the service again.
CreateOrder(p, k) ==
    /\ p # Worker
    /\ proc[p].pc = "idle"
    /\ gate
    /\ PaymentOrderByKey(k) = {}
    /\ Become(p, [Idle EXCEPT !.pc = "reserve", !.op = "create", !.key = k])
    /\ UNCHANGED <<db, gate, batch, acked, provider, known, faults>>

\* A request over its client's quota is refused and changes nothing.
createPayment(p, k) == ~ExistingOrderIntent(k) /\ CreateOrder(p, k)

\* The key is taken again inside the writer transaction: the request that
\* lost the race is a replay.
KeyNeverTaken(k) == FALSE   \* faulty variant: the key is not read again

KeyTaken(k) == \E o \in Orders : orders[o].key = k

ReservePaymentOrder(p) ==
    /\ proc[p].pc = "reserve"
    /\ \/ /\ ~KeyTaken(proc[p].key)
          /\ gate
          /\ \E o \in Orders :
                /\ orders[o].status = "ABSENT"
                /\ orders' = [orders EXCEPT ![o] = ReservedOrder(proc[p].key, p)]
                /\ Become(p, [Idle EXCEPT !.pc = "create", !.op = "create",
                                          !.at = o])
       \/ /\ KeyTaken(proc[p].key) \/ ~gate
          /\ Become(p, Idle)
          /\ UNCHANGED orders
    /\ UNCHANGED <<receipts, inbox, journal, gate, batch, acked, provider,
                   known, faults>>

CreateOutcome(reply, account) ==
    CASE reply = "ok"       -> CreatedUpdate(account)
      [] reply = "invalid"  -> UncertainUpdate("INVALID_CREATE_RESPONSE")
      [] reply = "rejected" -> UncertainUpdate("CREATE_REJECTED")
      [] reply = "timeout"  -> UncertainUpdate("CREATE_OUTCOME_UNKNOWN")

CreateCall(p) ==
    /\ proc[p].pc = "create"
    /\ \E reply \in CreateReplies, account \in Accounts :
          /\ ProviderCreate(proc[p].at, reply)
          /\ Become(p, ToFinish(proc[p], CreateOutcome(reply, account)))
    /\ UNCHANGED <<db, gate, batch, acked, known>>

-----------------------------------------------------------------------------
(* CancelOrder and the reconciler claim an order.                          *)

Claim(p, o, op, pc) ==
    /\ orders' = [orders EXCEPT ![o] = ClaimedOrder(orders[o], p)]
    /\ Become(p, [Idle EXCEPT !.pc = pc, !.op = op, !.at = o,
                              !.snap = Snap(orders[o])])

CancelOrder(p, o) ==
    /\ p # Worker
    /\ proc[p].pc = "idle"
    /\ gate
    /\ Claimable(orders[o])
    /\ Claim(p, o, "cancel", "cancel")
    /\ UNCHANGED <<receipts, inbox, journal, gate, batch, acked, provider,
                   known, faults>>

\* The routes of operators ask the gate before their handler runs.
requirePaymentMutationAllowed == gate

cancelPayment(p, o) == requirePaymentMutationAllowed /\ CancelOrder(p, o)

\* reconcileDue starts with WakePendingPaymentCallbacks: evidence for codes
\* that were unknown is promoted and its order scheduled ...
Unknown(o) == {c \in Callbacks : /\ c.order = o
                                 /\ inbox[c].reason = "UNKNOWN_ORDER"
                                 /\ ~inbox[c].processed}

WakePendingPaymentCallbacks ==
    /\ proc[Worker].pc = "idle"
    /\ batch = {}
    /\ gate
    /\ LET codes == {o \in Orders : orders[o].status # "ABSENT" /\ Unknown(o) # {}}
       IN  /\ inbox' = [c \in Callbacks |->
                          IF c.order \in codes /\ c \in Unknown(c.order)
                          THEN [inbox[c] EXCEPT !.reason = "AWAITING_ORDER_BIND"]
                          ELSE inbox[c]]
           /\ orders' = [o \in Orders |-> IF o \in codes THEN WokenOrder(orders[o])
                                          ELSE orders[o]]
    /\ Become(Worker, [Idle EXCEPT !.pc = "scan"])
    /\ UNCHANGED <<receipts, journal, gate, batch, acked, provider, known, faults>>

\* ... and then reads the orders that are due, up to a limit.
DuePaymentOrders ==
    /\ proc[Worker].pc = "scan"
    /\ \E due \in SUBSET {o \in Orders : MayBeDue(orders[o])} :
          /\ (\E o \in Orders : MayBeDue(orders[o])) => due # {}
          /\ batch' = due
    /\ Become(Worker, Idle)
    /\ UNCHANGED <<db, gate, acked, provider, known, faults>>

\* reconcileOrder on the next order of the batch, which may since have been
\* paid, claimed by a request, or have lost its schedule.
ReconcileOrder(o) ==
    /\ proc[Worker].pc = "idle"
    /\ o \in batch
    /\ \/ /\ gate /\ Claimable(orders[o])
          /\ Claim(Worker, o, "reconcile", "get")
          /\ batch' = batch \ {o}
       \/ /\ gate /\ ~Claimable(orders[o])
          /\ batch' = batch \ {o}
          /\ UNCHANGED <<orders, proc>>
       \/ /\ ~gate
          /\ batch' = {}
          /\ UNCHANGED <<orders, proc>>
    /\ UNCHANGED <<receipts, inbox, journal, gate, acked, provider, known, faults>>

-----------------------------------------------------------------------------
(* Every provider request is preceded by a renewal of the same token.      *)

CanRenew(p) == gate /\ Renewable(orders[proc[p].at], p)

\* What a failed Get, or an inconclusive answer, leaves behind.
GetFailureCode(s) ==
    CASE s.op = "reconcile"     -> "PROVIDER_UNAVAILABLE"
      [] s.op = "cancel"        -> "CANCEL_OUTCOME_UNKNOWN"
      [] OTHER                  -> "QR_RECOVERY_CANCEL_PENDING"

\* Faulty variant: an inconclusive cancellation is taken for a cancellation.
GetFailedCancels(s) == ToFinish(s, TerminalUpdate(s.at, "CANCELLED", ""))

GetFailed(s) ==
    ToFinish(s, FailureUpdate(s.at, s.snap, GetFailureCode(s)))

Renew(p, tried) ==
    orders' = [orders EXCEPT ![proc[p].at] = RenewedOrder(@, tried)]

RenewForGet(p) ==
    /\ proc[p].pc = "get"
    /\ \/ /\ CanRenew(p)
          /\ Renew(p, FALSE)
          /\ Become(p, [proc[p] EXCEPT !.pc = "getCall"])
       \/ /\ ~CanRenew(p)
          /\ Become(p, GetFailed(proc[p]))
          /\ UNCHANGED orders
    /\ UNCHANGED <<receipts, inbox, journal, gate, batch, acked, provider,
                   known, faults>>

\* A cancel that cannot be sent is settled by a Get, like an ambiguous one.
RenewForCancel(p) ==
    /\ proc[p].pc = "cancel"
    /\ \/ /\ CanRenew(p)
          /\ Renew(p, FALSE)
          /\ Become(p, [proc[p] EXCEPT !.pc = "cancelCall"])
       \/ /\ ~CanRenew(p)
          /\ Become(p, [proc[p] EXCEPT !.pc = "get"])
          /\ UNCHANGED orders
    /\ UNCHANGED <<receipts, inbox, journal, gate, batch, acked, provider,
                   known, faults>>

\* recoverCreate: the intent to repeat Create for a link known to exist is
\* committed before the request.  providerSlot's gate check fails into a
\* scheduled retry; a lost token abandons the operation.
RenewForCreate(p) ==
    LET isKnown == proc[p].op = "recoverKnown"
        o       == proc[p].at
        row     == RenewedOrder(orders[o], isKnown)
    IN
    /\ proc[p].pc = "recreate"
    /\ \/ /\ CanRenew(p)
          /\ Renew(p, isKnown)
          /\ Become(p, [proc[p] EXCEPT !.pc = "recreateCall",
                 !.snap = [Snap(row) EXCEPT !.linkId =
                     IF proc[p].snap.linkId = "none" THEN @
                     ELSE proc[p].snap.linkId]])
          /\ UNCHANGED batch
       \/ /\ ~gate
          /\ Become(p, ToFinish(proc[p],
                 FailureUpdate(o, proc[p].snap, "CREATE_OUTCOME_UNKNOWN")))
          /\ UNCHANGED <<orders, batch>>
       \/ /\ ~CanRenew(p)
          /\ Abandon(p)
          /\ UNCHANGED orders
    /\ UNCHANGED <<receipts, inbox, journal, gate, acked, provider, known, faults>>

-----------------------------------------------------------------------------
(* What the service does with a provider reply.                            *)

ToCancel(s, op) == [s EXCEPT !.pc = "cancel", !.op = op]
BoundTo(s)      == [s EXCEPT !.snap = [@ EXCEPT !.linkId = "own"]]

\* applyVerifiedLink on a link that matches the order.
ApplyVerifiedLink(s, status, txns) ==
    CASE status = "PAID" ->
           [s EXCEPT !.pc = "pending", !.txns = txns]
      [] status \in {"PENDING", "PROCESSING", "UNDERPAID"} ->
           IF s.snap.lastError = "CANCEL_OUTCOME_UNKNOWN"
           THEN ToCancel(s, "cancel")
           ELSE IF ~s.snap.qrCode /\ status = "PENDING"
           THEN IF s.snap.qrTried
                THEN ToCancel(BoundTo(s), "recoverCancel")
                ELSE [BoundTo(s) EXCEPT !.pc = "recreate", !.op = "recoverKnown"]
           ELSE ToFinish(s, [NoUpdate EXCEPT !.status = status,
                                 !.linkId = "own", !.next = TRUE])
      [] status \in Closed ->
           ToFinish(s, TerminalUpdate(s.at, status,
               IF s.snap.qrTried /\ ~s.snap.qrCode /\ status = "CANCELLED"
               THEN "QR_RECOVERY_CANCELLED" ELSE ""))
      [] OTHER ->
           ToFinish(s, FailureUpdate(s.at, s.snap, "PAYMENT_DETAILS_PENDING"))

\* recoverAbsent: the provider answered 404.
RecoverAbsent(s) ==
    IF s.snap.qrTried THEN ToCancel(s, "recoverCancel")
    ELSE IF s.snap.lastError = "CANCEL_OUTCOME_UNKNOWN" THEN ToCancel(s, "cancel")
    ELSE IF s.snap.lastError = "CREATE_REJECTED"
         THEN ToFinish(s, [NoUpdate EXCEPT !.status = "FAILED",
                  !.lastError = "CREATE_REJECTED", !.next = TerminalNext(s.at)])
    ELSE IF /\ orders[s.at].age = "open"
            /\ \/ s.snap.status = "CREATING"
               \/ s.snap.lastError \in {"CREATE_OUTCOME_UNKNOWN",
                                        "INVALID_CREATE_RESPONSE"}
         THEN [s EXCEPT !.pc = "recreate", !.op = "recoverAbsent"]
    ELSE ToFinish(s, [NoUpdate EXCEPT !.status = s.snap.status,
             !.lastError = "CREATE_OUTCOME_UNKNOWN", !.next = TerminalNext(s.at)])

\* completeCancellation, for CancelOrder and reconcileCancellation.
CompleteCancellation(s, status, txns) ==
    IF status = "PAID" THEN [s EXCEPT !.pc = "pending", !.txns = txns]
    ELSE ToFinish(s, TerminalUpdate(s.at, status, ""))

AfterGet(s, status, txns) ==
    CASE s.op = "reconcile" -> ApplyVerifiedLink(s, status, txns)
      [] s.op = "cancel" /\ status \in {"PAID", "CANCELLED", "EXPIRED"} ->
           CompleteCancellation(s, status, txns)
      [] s.op = "recoverCancel" /\ status \in {"PAID", "CANCELLED", "EXPIRED"} ->
           ApplyVerifiedLink(s, status, txns)
      [] OTHER -> GetFailed(s)

AfterMismatch(s) ==
    IF s.op = "reconcile"
    THEN ToFinish(s, FailureUpdate(s.at, s.snap, "PAYMENT_MISMATCH"))
    ELSE GetFailed(s)

AfterAbsent(s) == IF s.op = "reconcile" THEN RecoverAbsent(s) ELSE GetFailed(s)

\* provider.Get and the branch the reply leads to.  A PAID link may not show
\* its transaction yet; a status the code does not know is "OTHER".
GetCall(p) ==
    LET s == proc[p]
        o == s.at
    IN
    /\ s.pc = "getCall"
    /\ \/ /\ link[o] # "absent"
          /\ \E status \in ReportedStatus(o) :
                Become(p, AfterGet(s, status, PaidFor(o)))
          /\ UNCHANGED faults
       \/ /\ link[o] # "absent" /\ FullyPaid(o) /\ Fault
          /\ Become(p, AfterGet(s, "PAID", {}))
       \/ /\ link[o] # "absent" /\ Fault
          /\ Become(p, AfterGet(s, "OTHER", {}))
       \/ /\ link[o] # "absent" /\ Fault
          /\ Become(p, AfterMismatch(s))
       \/ /\ link[o] = "absent"
          /\ Become(p, AfterAbsent(s))
          /\ UNCHANGED faults
       \/ /\ Fault
          /\ Become(p, GetFailed(s))
    /\ UNCHANGED <<db, gate, batch, acked, provider, known>>

\* provider.Cancel: only a CANCELLED or EXPIRED reply is believed.
CancelCall(p) ==
    LET s == proc[p]
        o == s.at
    IN
    /\ s.pc = "cancelCall"
    /\ \/ /\ link[o] = "open" /\ ~FullyPaid(o)
          /\ link' = [link EXCEPT ![o] = "CANCELLED"]
          /\ \/ /\ Become(p, IF s.op = "cancel"
                             THEN CompleteCancellation(s, "CANCELLED", {})
                             ELSE ApplyVerifiedLink(s, "CANCELLED", {}))
                /\ UNCHANGED faults
             \/ /\ Fault
                /\ Become(p, [s EXCEPT !.pc = "get"])
       \/ /\ link[o] \in {"CANCELLED", "EXPIRED"} /\ ~FullyPaid(o)
          /\ Become(p, IF s.op = "cancel"
                       THEN CompleteCancellation(s, link[o], {})
                       ELSE ApplyVerifiedLink(s, link[o], {}))
          /\ UNCHANGED <<link, faults>>
       \/ /\ link[o] # "open" \/ FullyPaid(o)
          /\ Become(p, [s EXCEPT !.pc = "get"])
          /\ UNCHANGED <<link, faults>>
       \/ /\ Fault
          /\ Become(p, [s EXCEPT !.pc = "get"])
          /\ UNCHANGED link
    /\ UNCHANGED <<db, gate, batch, acked, paid, late, known>>

\* provider.Create for recovery.
RecreateOutcome(s, reply, account) ==
    IF reply = "ok" THEN ToFinish(s, CreatedUpdate(account))
    ELSE IF s.op = "recoverKnown" THEN ToCancel(s, "recoverCancel")
    ELSE LET u == FailureUpdate(s.at, s.snap, "CREATE_OUTCOME_UNKNOWN")
         IN  ToFinish(s, IF reply = "rejected"
                         THEN [u EXCEPT !.lastError = "CREATE_REJECTED"] ELSE u)

RecreateCall(p) ==
    /\ proc[p].pc = "recreateCall"
    /\ \E reply \in CreateReplies, account \in Accounts :
          /\ ProviderCreate(proc[p].at, reply)
          /\ Become(p, RecreateOutcome(proc[p], reply, account))
    /\ known' = [known EXCEPT ![proc[p].at] =
                   IF proc[p].op = "recoverKnown" THEN @ + 1 ELSE @]
    /\ UNCHANGED <<db, gate, batch, acked>>

-----------------------------------------------------------------------------
(* settleVerifiedLink.                                                     *)

DetailsPending(s) ==
    ToFinish(s, FailureUpdate(s.at, s.snap, "PAYMENT_DETAILS_PENDING"))

\* verifiedLinkSettlement: exactly one complete transaction of the amount.
VerifiedLinkSettlement(txns) == \E t \in txns : txns = {t} /\ t.amount = "full"

\* callbackMatchesSettlement: the stored payload describes this transaction.
CallbackMatches(c, t) == c = t

\* The pending callbacks are read before, and outside, the transaction that
\* settles.  Callbacks that all contradict the link stop the settlement.
PendingPaymentCallbacks(p) ==
    LET s       == proc[p]
        pending == PendingCallbacks(inbox, s.at)
        matched == {c \in pending : \E t \in s.txns : CallbackMatches(c, t)}
    IN
    /\ s.pc = "pending"
    /\ Become(p, IF ~VerifiedLinkSettlement(s.txns) \/ (pending # {} /\ matched = {})
                 THEN DetailsPending(s)
                 ELSE [s EXCEPT !.pc = "settle", !.items = matched])
    /\ UNCHANGED <<db, gate, batch, acked, provider, known, faults>>

\* The financial rows of one commit: order, receipt, and the transaction with
\* its event and journal row.
Commit(e) ==
    /\ orders'   = [orders EXCEPT ![e.order] = PaidOrder(@, e)]
    /\ receipts' = [receipts EXCEPT ![e.ref] = ReceiptOf(e)]
    /\ journal'  = Append(journal, [ref |-> e.ref, order |-> e.order])

\* SettlePayment without an inbox row; a review leaves no trace.
SettleCatchUp(p) ==
    LET s == proc[p] IN
    /\ s.pc = "settle"
    /\ s.items = {}
    /\ gate
    /\ \E e \in s.txns :
        LET outcome == SettleOutcome(orders[e.order], receipts[e.ref], e, TRUE, TRUE)
        IN  \/ /\ outcome = "COMMIT"
               /\ Commit(e)
               /\ Become(p, ToFinish(s, NoUpdate))
            \/ /\ outcome = "DUPLICATE"
               /\ Become(p, ToFinish(s, NoUpdate))
               /\ UNCHANGED <<orders, receipts, journal>>
            \/ /\ outcome \in ReviewReasons
               /\ Become(p, DetailsPending(s))
               /\ UNCHANGED <<orders, receipts, journal>>
    /\ UNCHANGED <<inbox, gate, batch, acked, provider, known, faults>>

\* SettlePayment that consumes an inbox row, and the next one after it.
AfterItem(s, c) == IF s.items = {c} THEN ToFinish(s, NoUpdate)
                   ELSE [s EXCEPT !.items = @ \ {c}]

InboxOutcome(c, e) ==
    SettleOutcome(orders[e.order], receipts[e.ref], e, TRUE,
                  SettlementInboxMatches(c, inbox[c], e))

SettleInbox(p, c) ==
    LET s == proc[p] IN
    /\ s.pc = "settle"
    /\ c \in s.items
    /\ gate
    /\ \E e \in s.txns :
        LET outcome == InboxOutcome(c, e)
        IN  \/ /\ outcome = "COMMIT"
               /\ Commit(e)
               /\ inbox' = MarkProcessed(inbox, c)
               /\ Become(p, AfterItem(s, c))
            \/ /\ outcome = "DUPLICATE"
               /\ inbox' = MarkProcessed(inbox, c)
               /\ Become(p, AfterItem(s, c))
               /\ UNCHANGED <<orders, receipts, journal>>
            \/ /\ outcome \in ReviewReasons
               /\ ~inbox[c].processed
               /\ inbox' = [inbox EXCEPT ![c].reason = outcome]
               /\ Become(p, DetailsPending(s))
               /\ UNCHANGED <<orders, receipts, journal>>
    /\ UNCHANGED <<gate, batch, acked, provider, known, faults>>

\* The transaction fails: on the closed gate, on a receipt without its order,
\* or on a review of a row that is already processed.
SettleErrs(s) ==
    \/ ~gate
    \/ \E e \in s.txns :
          IF s.items = {}
          THEN SettleOutcome(orders[e.order], receipts[e.ref], e, TRUE, TRUE) = "BROKEN"
          ELSE \E c \in s.items :
                 \/ InboxOutcome(c, e) = "BROKEN"
                 \/ InboxOutcome(c, e) \in ReviewReasons /\ inbox[c].processed

\* A reconcile schedules a retry, a cancellation returns the error.
SettleFails(p) ==
    /\ proc[p].pc = "settle"
    /\ SettleErrs(proc[p])
    /\ IF proc[p].op = "cancel"
       THEN Abandon(p)
       ELSE /\ Become(p, DetailsPending(proc[p]))
            /\ UNCHANGED batch
    /\ UNCHANGED <<db, gate, acked, provider, known, faults>>

\* CompletePaymentOrderOperation ends every operation.  Its error is the
\* operation's, except after a settlement, whose money is already booked.
CompletePaymentOrderOperation(p) ==
    LET s == proc[p] IN
    /\ s.pc = "finish"
    /\ \/ /\ gate /\ Completable(orders[s.at], p)
          /\ orders' = [orders EXCEPT ![s.at] = CompletedOrder(@, s.upd)]
          /\ Become(p, Idle)
          /\ UNCHANGED batch
       \/ /\ ~Completable(orders[s.at], p)
          /\ Become(p, Idle)
          /\ UNCHANGED <<orders, batch>>
       \/ /\ ~gate /\ Completable(orders[s.at], p)
          /\ Become(p, Idle)
          /\ batch' = IF p = Worker /\ s.upd # NoUpdate THEN {} ELSE batch
          /\ UNCHANGED orders
    /\ UNCHANGED <<receipts, inbox, journal, gate, acked, provider, known, faults>>

-----------------------------------------------------------------------------
(* HandleWebhook: one transaction, then the acknowledgement.               *)

\* The provider's confirmation sample is acknowledged without a write.
AckSample(c) ==
    /\ gate /\ c.fault = "SAMPLE" /\ Deliverable(c)
    /\ acked' = acked \cup {c}
    /\ UNCHANGED <<db, gate, batch, proc, provider, known, faults>>

\* saveWebhookReview: signed, but not a payment.
ReviewWebhook(c) ==
    /\ gate /\ c.fault \notin {"none", "SAMPLE"} /\ Deliverable(c)
    /\ inbox' = InboxAfterInsert(inbox, c, c.fault)
    /\ orders' = [orders EXCEPT ![c.order] =
                    OrderAfterInsert(@, inbox[c] = NoRow, c.fault)]
    /\ acked' = acked \cup {c}
    /\ UNCHANGED <<receipts, journal, gate, batch, proc, provider, known, faults>>

\* SettlePayment on the callback alone; a refusal commits its review row.
SettleWebhook(c) ==
    LET outcome == SettleOutcome(orders[c.order], receipts[c.ref], c, FALSE, TRUE)
    IN
    /\ gate /\ c.fault = "none" /\ Deliverable(c)
    /\ \/ /\ outcome = "COMMIT"
          /\ Commit(c)
          /\ UNCHANGED inbox
       \/ /\ outcome = "DUPLICATE"
          /\ UNCHANGED db
       \/ /\ outcome \in ReviewReasons
          /\ inbox' = InboxAfterInsert(inbox, c, outcome)
          /\ orders' = [orders EXCEPT ![c.order] =
                          OrderAfterInsert(@, inbox[c] = NoRow, outcome)]
          /\ UNCHANGED <<receipts, journal>>
    /\ acked' = acked \cup {c}
    /\ UNCHANGED <<gate, batch, proc, provider, known, faults>>

-----------------------------------------------------------------------------
(* Time, failures and the deployment gate.                                 *)

\* The process that holds o's token is still running the operation.
Holding(p, o) == orders[o].token = p /\ proc[p].at = o

\* A lease that was left behind runs out after 30 seconds ...
LeaseExpires(o) ==
    /\ orders[o].leased
    /\ \A p \in Procs : ~Holding(p, o)
    /\ orders' = [orders EXCEPT ![o].leased = FALSE]
    /\ UNCHANGED <<receipts, inbox, journal, gate, batch, proc, acked, provider,
                   known, faults>>

\* ... and one that is held only when its process is stalled that long (a
\* suspended host, a busy database, a queue for providerSlot).  A provider request takes at most 15 of
\* the 30 seconds renewed for it, so no lease ends during one.
Stall(p) ==
    /\ proc[p].pc \notin Calls
    /\ \E o \in Orders :
          /\ Holding(p, o)
          /\ orders[o].leased
          /\ orders' = [orders EXCEPT ![o].leased = FALSE]
    /\ Fault
    /\ UNCHANGED <<receipts, inbox, journal, gate, batch, proc, acked, provider,
                   known>>

GrowOld(o) ==
    /\ orders[o].status # "ABSENT"
    /\ \E older \in AgesReached :
          /\ <<orders[o].age, older>> \in {<<"open", "expired">>, <<"expired", "final">>}
          /\ orders' = [orders EXCEPT ![o].age = older]
    /\ UNCHANGED <<receipts, inbox, journal, gate, batch, proc, acked, provider,
                   known, faults>>

Crash(p) ==
    /\ proc[p].pc # "idle" \/ (p = Worker /\ batch # {})
    /\ Fault
    /\ Abandon(p)
    /\ UNCHANGED <<db, gate, acked, provider, known>>

LockGate   == /\ gate /\ Fault
              /\ gate' = FALSE
              /\ UNCHANGED <<db, batch, proc, acked, provider, known>>
UnlockGate == /\ ~gate
              /\ gate' = TRUE
              /\ UNCHANGED <<db, batch, proc, acked, provider, known, faults>>

-----------------------------------------------------------------------------
\* A started operation takes its next step.
Progress(p) ==
    \/ ReservePaymentOrder(p) \/ CreateCall(p)
    \/ RenewForGet(p) \/ RenewForCancel(p) \/ RenewForCreate(p)
    \/ GetCall(p) \/ CancelCall(p) \/ RecreateCall(p)
    \/ PendingPaymentCallbacks(p) \/ SettleCatchUp(p) \/ SettleFails(p)
    \/ \E c \in Callbacks : SettleInbox(p, c)
    \/ CompletePaymentOrderOperation(p)

Next ==
    \/ \E p \in Procs : \/ \E k \in Keys : createPayment(p, k)
                        \/ \E o \in Orders : cancelPayment(p, o)
                        \/ Progress(p)
                        \/ Crash(p)
                        \/ Stall(p)
    \/ WakePendingPaymentCallbacks \/ DuePaymentOrders
    \/ \E o \in Orders : \/ ReconcileOrder(o)
                         \/ LeaseExpires(o)
                         \/ GrowOld(o)
                         \/ LateCreate(o)
                         \/ \E how \in Closings : CloseLink(o, how)
    \/ \E c \in Callbacks : AckSample(c) \/ ReviewWebhook(c) \/ SettleWebhook(c)
    \/ \E t \in Transfers : Pay(t)
    \/ LockGate \/ UnlockGate

Spec == Init /\ [][Next]_vars

-----------------------------------------------------------------------------
(* Properties.                                                             *)

\* Every variable keeps its type.
TypeOK ==
    /\ orders   \in [Orders -> OrderRow]
    /\ receipts \in [Refs -> Receipt \cup {NoReceipt}]
    /\ inbox    \in [Callbacks -> InboxRow]
    /\ journal  \in Seq([ref: Refs, order: Orders])
    /\ gate     \in BOOLEAN
    /\ batch    \in SUBSET Orders
    /\ proc     \in [Procs -> Operation]
    /\ acked    \in SUBSET Callbacks
    /\ link     \in [Orders -> {"absent", "open"} \cup Closed]
    /\ paid     \in SUBSET Transfers
    /\ late     \in SUBSET Orders
    /\ known    \in [Orders -> Nat]
    /\ faults   \in 0..FaultBudget

\* An order is PAID exactly when it names the one receipt that was booked for
\* it: webhook, catch-up and cancel-race settlements racing each other never
\* book an order twice, never book one reference for two orders, and never
\* leave a receipt without its PAID order (SettlePayment).
SettledOnce ==
    /\ \A o \in Orders : orders[o].status = "PAID" <=> orders[o].txnId # NoRef
    /\ \A o \in Orders, r \in Refs :
          orders[o].txnId = r <=> receipts[r] # NoReceipt /\ receipts[r].order = o

\* The event journal carries each booked receipt exactly once and nothing
\* else: a duplicate or a review writes no event (SettlePayment).
JournalMatchesReceipts ==
    /\ \A i, j \in DOMAIN journal : journal[i].order = journal[j].order => i = j
    /\ \A i \in DOMAIN journal : orders[journal[i].order].txnId = journal[i].ref
    /\ \A r \in Refs : receipts[r] # NoReceipt =>
          \E i \in DOMAIN journal : journal[i].ref = r

\* Money is booked only for a transfer the provider really received, of the
\* full amount, on the link and account the order is bound to; a callback for
\* another link or an unbound order is never enough (SettlePayment).
CreditsAreTransfers ==
    \A r \in Refs : receipts[r] # NoReceipt =>
        \E t \in paid : /\ t.ref = r
                        /\ receipts[r] = ReceiptOf(t)
                        /\ t.amount = "full"
                        /\ orders[t.order].linkId = "own"
                        /\ orders[t.order].account = t.account

\* "Every ACK represents either a financial commit, a durable review record,
\* or the exact verified nonfinancial confirmation sample" (HandleWebhook).
AcksAreDurable ==
    \A c \in acked : \/ c.fault = "SAMPLE"
                     \/ inbox[c] # NoRow
                     \/ receipts[c.ref] = ReceiptOf(c)

\* An inbox row is marked processed only by the commit of its own money
\* (markSettlementInboxProcessed), also when the row was read before another
\* process settled the order.
ResolvedIsSettled ==
    \A c \in Callbacks : inbox[c].processed => receipts[c.ref] = ReceiptOf(c)

\* Two provider requests for one order never overlap: the token is renewed
\* before each and nobody claims a live lease (ClaimPaymentOrder,
\* RenewPaymentOrderOperation).
OneRequestPerOrder ==
    \A p, q \in Procs :
        /\ proc[p].pc \in Calls /\ proc[q].pc \in Calls
        /\ proc[p].at = proc[q].at
        => p = q

\* "A timeout or ambiguous Cancel cannot manufacture CANCELLED" (CancelOrder):
\* an order is closed only if the provider closed its link that way.
ClosedByProvider ==
    \A o \in Orders : orders[o].status \in {"CANCELLED", "EXPIRED"} =>
                        link[o] = orders[o].status

\* The Create that recovers a missing QR code of an existing link is sent at
\* most once, whoever crashes or retries (RenewPaymentOrderOperation).
RecoveryCreateOnce == \A o \in Orders : known[o] <= 1

\* Racing CreateOrder requests with one idempotency key reserve one order
\* (ReservePaymentOrder).
OneOrderPerKey ==
    \A o1, o2 \in Orders :
        orders[o1].key = orders[o2].key /\ orders[o1].key # NoKey => o1 = o2

\* Evidence waiting for a Get is never left without a scheduled look: not by
\* the operation that was in flight when it arrived (wakePaymentOrderInboxTx).
EvidenceScheduled ==
    \A c \in Callbacks :
        c \in PendingCallbacks(inbox, c.order) =>
            orders[c.order].status = "PAID" \/ orders[c.order].nextReconcile

\* No step takes a PAID order back or moves its money, and no step replaces a
\* link, account or QR code once bound: late responses of operations that
\* lost their token, and late callbacks, included.
PaidIsFinal ==
    [][\A o \in Orders :
          /\ orders[o].status = "PAID" =>
                /\ orders'[o].status = "PAID"
                /\ orders'[o].txnId = orders[o].txnId
          /\ orders[o].linkId # "none" => orders'[o].linkId = orders[o].linkId
          /\ orders[o].account # NoAccount => orders'[o].account = orders[o].account
          /\ orders[o].qrCode => orders'[o].qrCode]_vars

\* The service implements the ledger: whatever interleaving of requests,
\* worker, callbacks, crashes and retries, each step is a booking, an answer
\* or a kept callback of PaymentLedger, or changes nothing it shows.
Ledger == INSTANCE PaymentLedger WITH
            Samples  <- {c \in Callbacks : c.fault = "SAMPLE"},
            received <- paid,
            booked   <- [o \in Orders |-> orders[o].txnId],
            held     <- {c \in Callbacks : inbox[c] # NoRow},
            resolved <- {c \in Callbacks : inbox[c].processed},
            answered <- acked

ImplementsLedger == Ledger!LedgerSpec

\* The reconciler ticks every second, a request times out after 15 seconds,
\* leases and the deployment gate expire: each of them goes on eventually.
Fairness ==
    /\ \A p \in Procs : WF_vars(Progress(p))
    /\ WF_vars(WakePendingPaymentCallbacks) /\ WF_vars(DuePaymentOrders)
    /\ \A o \in Orders : WF_vars(ReconcileOrder(o)) /\ WF_vars(LeaseExpires(o))
    /\ WF_vars(UnlockGate)

FairSpec == Spec /\ Fairness

\* An acknowledged callback for the only transfer of its order ends as a PAID
\* order, also when it arrived before the order was bound or after it was
\* closed and had to wait for the reconciler (settleVerifiedLink).
EvidenceSettles ==
    \A c \in Transfers :
        (\A d \in Callbacks : d.order = c.order \/ d.ref = c.ref => d = c)
        => (c \in acked /\ orders[c.order].status # "ABSENT" ~>
              orders[c.order].status = "PAID")

-----------------------------------------------------------------------------
(* The inductive invariant behind SettledOnce, CreditsAreTransfers,        *)
(* ClosedByProvider and OneRequestPerOrder (PaymentProofs).                *)

Busy    == PCs \ {"idle", "reserve", "scan"}   \* steps on an order
Working == Busy \ {"create", "finish"}         \* steps on a claimed snapshot

\* What an operation in flight remembers is still true: its transactions were
\* received for its order, and a link it saw closed is closed that way.
Sound(s, pd, lk) ==
    /\ s.pc \in Busy => s.at \in Orders
    /\ s.pc \in Working => s.snap.status \in Statuses \ {"PAID"}
    /\ s.upd.linkId \in {"none", "own"}
    /\ \A t \in s.txns : t \in pd /\ t.order = s.at
    /\ \A st \in {"CANCELLED", "EXPIRED"} :
          st \in {s.upd.status, s.snap.status} => s.at \in Orders /\ lk[s.at] = st

OperationsSound == \A p \in Procs : Sound(proc[p], paid, link)

\* A request to the provider is covered by its process's live lease.
RequestsLeased ==
    \A p \in Procs : proc[p].pc \in Calls =>
        /\ orders[proc[p].at].token = p
        /\ orders[proc[p].at].leased

\* A code without a row has nothing, and orders are bound to their own link.
OrdersBound ==
    \A o \in Orders : /\ orders[o].status = "ABSENT" => orders[o] = AbsentOrder
                      /\ orders[o].linkId \in {"none", "own"}

IInv == /\ TypeOK /\ OperationsSound /\ RequestsLeased /\ OrdersBound
        /\ SettledOnce /\ CreditsAreTransfers /\ ClosedByProvider
=============================================================================
