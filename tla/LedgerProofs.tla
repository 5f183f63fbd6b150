----------------------------- MODULE LedgerProofs -----------------------------
(***************************************************************************)
(* More theorems about PaymentService: what is written next to the money   *)
(* (journal, inbox, answers), the keys of orders, the recovery of QR codes,*)
(* and that the service implements PaymentLedger.  They rest on the        *)
(* inductive invariant of PaymentProofs.                                   *)
(***************************************************************************)
EXTENDS PaymentProofs

-----------------------------------------------------------------------------
(* The inductive invariant.                                                *)

\* The callbacks that an operation is about to settle are kept.
ItemsHeld == \A p \in Procs : \A c \in proc[p].items : inbox[c] # NoRow

\* The recovery of operation s of process p: its snapshot knows whether the
\* attempt was recorded, as long as p holds the order's token; and a Create
\* that is about to be sent was recorded and never sent before.
Attempt(s, p) ==
    /\ s.pc \in Working /\ orders[s.at].token = p =>
          s.snap.qrTried = orders[s.at].qrTried
    /\ s.pc = "recreate" /\ s.op = "recoverKnown" => ~s.snap.qrTried
    /\ s.pc = "recreateCall" /\ s.op = "recoverKnown" =>
          known[s.at] = 0 /\ orders[s.at].qrTried

AttemptsRecorded ==
    /\ \A p \in Procs : Attempt(proc[p], p)
    /\ \A o \in Orders : known[o] > 0 => orders[o].qrTried

Written == JournalMatchesReceipts /\ ResolvedIsSettled /\ AcksAreDurable

WInv == IInv /\ Written /\ ItemsHeld /\ OneOrderPerKey
        /\ AttemptsRecorded /\ RecoveryCreateOnce

-----------------------------------------------------------------------------
(* Operations: what follows an operation s.                                *)

\* n goes on with the same order and snapshot, or has none, and it begins a
\* recovery only if none was recorded ...
Resumes(s, n) ==
    /\ n.pc # "recreateCall"
    /\ n.pc \in Working => /\ s.pc \in Working
                           /\ n.at = s.at
                           /\ n.snap.qrTried = s.snap.qrTried
    /\ n.pc = "recreate" /\ n.op = "recoverKnown" => ~n.snap.qrTried

\* ... and settles no other callbacks.
Follows(s, n) == Resumes(s, n) /\ n.items \subseteq s.items

LEMMA WorkingSteps ==
  /\ {"get", "cancel", "recreate", "pending", "settle", "getCall", "cancelCall",
      "recreateCall"} \subseteq Working
  /\ "idle" \notin Working /\ "reserve" \notin Working /\ "scan" \notin Working
  /\ "create" \notin Working /\ "finish" \notin Working
  /\ Working \subseteq Busy
  BY DEF Working, Busy, PCs, Calls

LEMMA FinishFollows ==
  ASSUME NEW s, NEW u
  PROVE  Follows(s, ToFinish(s, u)) /\ Follows(s, Idle)
  <1>1. /\ ToFinish(s, u).items = {} /\ ToFinish(s, u).pc = "finish"
        /\ Idle.items = {} /\ Idle.pc = "idle"
    BY DEF ToFinish, Idle
  <1> QED BY <1>1, WorkingSteps DEF Follows, Resumes

LEMMA MoveFollows ==
  ASSUME NEW s \in Operation, s.pc \in Working
  PROVE  /\ \A pc \in {"get", "cancel", "getCall", "cancelCall"} :
              Follows(s, [s EXCEPT !.pc = pc])
         /\ \A op : Follows(s, ToCancel(s, op)) /\ Follows(s, ToCancel(BoundTo(s), op))
         /\ Follows(s, [s EXCEPT !.pc = "recreate", !.op = "recoverAbsent"])
         /\ ~s.snap.qrTried =>
              Follows(s, [BoundTo(s) EXCEPT !.pc = "recreate", !.op = "recoverKnown"])
         /\ \A txns : Follows(s, [s EXCEPT !.pc = "pending", !.txns = txns])
  <1>1. /\ s.snap \in Snapshot /\ [s.snap EXCEPT !.linkId = "own"] \in Snapshot
        /\ [s.snap EXCEPT !.linkId = "own"].qrTried = s.snap.qrTried
    BY OperationFields DEF Snapshot, Links
  <1> DEFINE b == BoundTo(s)
  <1>2. /\ b.items = s.items /\ b.at = s.at /\ b.snap.qrTried = s.snap.qrTried
        /\ b.pc = s.pc /\ b.op = s.op /\ b \in Operation
    BY <1>1, OperationFields DEF BoundTo, Operation
  <1>3. \A op : /\ ToCancel(b, op).pc = "cancel" /\ ToCancel(b, op).items = b.items
                /\ ToCancel(b, op).at = b.at /\ ToCancel(b, op).snap = b.snap
                /\ ToCancel(s, op).pc = "cancel" /\ ToCancel(s, op).items = s.items
                /\ ToCancel(s, op).at = s.at /\ ToCancel(s, op).snap = s.snap
    <2> HIDE DEF b
    <2> QED BY <1>2 DEF ToCancel, Operation
  <1>4. LET n == [b EXCEPT !.pc = "recreate", !.op = "recoverKnown"]
        IN  n.pc = "recreate" /\ n.items = b.items /\ n.at = b.at /\ n.snap = b.snap
    <2> HIDE DEF b
    <2> QED BY <1>2 DEF Operation
  <1>5. \A pc \in {"get", "cancel", "getCall", "cancelCall"} :
          Follows(s, [s EXCEPT !.pc = pc])
    BY WorkingSteps DEF Follows, Resumes, Operation
  <1>6. Follows(s, [s EXCEPT !.pc = "recreate", !.op = "recoverAbsent"])
    BY WorkingSteps DEF Follows, Resumes, Operation
  <1>7. \A txns : Follows(s, [s EXCEPT !.pc = "pending", !.txns = txns])
    BY WorkingSteps DEF Follows, Resumes, Operation
  <1> HIDE DEF b
  <1>8. \A op : Follows(s, ToCancel(s, op)) /\ Follows(s, ToCancel(b, op))
    BY <1>2, <1>3 DEF Follows, Resumes
  <1>9. ~s.snap.qrTried => Follows(s, [b EXCEPT !.pc = "recreate", !.op = "recoverKnown"])
    BY <1>2, <1>4 DEF Follows, Resumes
  <1> QED BY <1>5, <1>6, <1>7, <1>8, <1>9 DEF b

LEMMA ReplyFollows ==
  ASSUME NEW s \in Operation, s.pc \in Working
  PROVE  /\ \A status, txns : /\ Follows(s, ApplyVerifiedLink(s, status, txns))
                              /\ Follows(s, CompleteCancellation(s, status, txns))
                              /\ Follows(s, AfterGet(s, status, txns))
         /\ Follows(s, AfterAbsent(s)) /\ Follows(s, AfterMismatch(s))
         /\ Follows(s, GetFailed(s)) /\ Follows(s, DetailsPending(s))
         /\ \A reply, account : Follows(s, RecreateOutcome(s, reply, account))
         /\ s.pc = "settle" => \A c : Follows(s, AfterItem(s, c))
  <1>1. /\ Follows(s, GetFailed(s)) /\ Follows(s, DetailsPending(s))
        /\ Follows(s, AfterMismatch(s))
    BY FinishFollows DEF GetFailed, DetailsPending, AfterMismatch
  <1>2. ASSUME NEW status, NEW txns
        PROVE  /\ Follows(s, ApplyVerifiedLink(s, status, txns))
               /\ Follows(s, CompleteCancellation(s, status, txns))
               /\ Follows(s, AfterGet(s, status, txns))
    <2>1. Follows(s, ApplyVerifiedLink(s, status, txns))
      BY MoveFollows, FinishFollows DEF ApplyVerifiedLink, Closed
    <2>2. Follows(s, CompleteCancellation(s, status, txns))
      BY MoveFollows, FinishFollows DEF CompleteCancellation
    <2> QED BY <1>1, <2>1, <2>2 DEF AfterGet
  <1>3. Follows(s, AfterAbsent(s))
    BY <1>1, MoveFollows, FinishFollows DEF AfterAbsent, RecoverAbsent
  <1>4. \A reply, account : Follows(s, RecreateOutcome(s, reply, account))
    BY MoveFollows, FinishFollows DEF RecreateOutcome
  <1>5. ASSUME s.pc = "settle", NEW c
        PROVE  Follows(s, AfterItem(s, c))
    <2>1. Follows(s, [s EXCEPT !.items = @ \ {c}])
      BY <1>5 DEF Follows, Resumes, Operation
    <2> QED BY <2>1, FinishFollows DEF AfterItem
  <1> QED BY <1>1, <1>2, <1>3, <1>4, <1>5

-----------------------------------------------------------------------------
(* The ledger: what a step does to money, kept callbacks and answers.      *)

SameMoney == /\ \A o \in Orders : orders'[o].txnId = orders[o].txnId
             /\ UNCHANGED <<receipts, journal>>

SameRow(c) == /\ inbox'[c] = NoRow <=> inbox[c] = NoRow
              /\ inbox'[c].processed = inbox[c].processed

\* No row appears or disappears, and at most the one of c is resolved.
Resolves(c) == \A d \in Callbacks :
                  \/ SameRow(d)
                  \/ d = c /\ inbox[d] # NoRow /\ inbox'[d] # NoRow /\ inbox'[d].processed

Answers(c) == acked' \in {acked, acked \cup {c}}

Still == SameMoney /\ UNCHANGED <<acked, paid>> /\ \A c \in Callbacks : SameRow(c)

Arrives(t) == /\ SameMoney /\ paid' = paid \cup {t} /\ UNCHANGED acked
              /\ \A c \in Callbacks : SameRow(c)

AnswersSample(c) == /\ c.fault = "SAMPLE" /\ acked' = acked \cup {c}
              /\ SameMoney /\ UNCHANGED paid /\ \A d \in Callbacks : SameRow(d)

Keeps(c) == /\ SameMoney /\ UNCHANGED paid /\ acked' = acked \cup {c}
            /\ inbox'[c] # NoRow /\ inbox'[c].processed = inbox[c].processed
            /\ \A d \in Callbacks \ {c} : SameRow(d)

Confirms(c) == /\ orders[c.order].txnId = c.ref /\ receipts[c.ref] = ReceiptOf(c)
               /\ SameMoney /\ UNCHANGED paid /\ Answers(c) /\ Resolves(c)

Books(e) == e \in Callbacks /\ Booking(e) /\ Answers(e) /\ Resolves(e)

LedgerStep == \/ Still
              \/ \E t \in Transfers : Arrives(t)
              \/ \E c \in Callbacks : AnswersSample(c) \/ Keeps(c) \/ Confirms(c)
              \/ \E e \in Callbacks : Books(e)

LEMMA QuietStill ==
  ASSUME QuietStep, UNCHANGED journal
  PROVE  SameMoney
  BY DEF QuietStep, Quiet, SameMoney

LEMMA UnchangedRows ==
  ASSUME UNCHANGED inbox
  PROVE  \A c \in Callbacks : SameRow(c) /\ Resolves(c)
  BY DEF SameRow, Resolves

\* A kept row stays kept under any reason of a review.
LEMMA ReasonKeepsRow ==
  ASSUME TypeOK, NEW c \in Callbacks, inbox[c] # NoRow, NEW reason \in ReviewReasons
  PROVE  LET new == [inbox[c] EXCEPT !.reason = reason]
         IN  new # NoRow /\ new.processed = inbox[c].processed
  <1>1. inbox[c] \in [reason: ReviewReasons, processed: BOOLEAN]
    BY DEF TypeOK, InboxRow
  <1>2. reason # ""
    BY DEF ReviewReasons, OpenReasons, BindReasons
  <1>3. [inbox[c] EXCEPT !.reason = reason].reason = reason
    BY <1>1
  <1>4. [inbox[c] EXCEPT !.reason = reason].processed = inbox[c].processed
    BY <1>1
  <1> QED BY <1>2, <1>3, <1>4, NoRowFields

LEMMA InsertKeepsRow ==
  ASSUME TypeOK, NEW c \in Callbacks, NEW reason \in ReviewReasons,
         inbox' = InboxAfterInsert(inbox, c, reason)
  PROVE  /\ inbox'[c] # NoRow /\ inbox'[c].processed = inbox[c].processed
         /\ \A d \in Callbacks \ {c} : SameRow(d)
  <1>1. CASE inbox[c] = NoRow
    <2> DEFINE new == [reason |-> reason, processed |-> FALSE]
    <2>1. new.reason = reason /\ new.processed = FALSE /\ reason # ""
      BY DEF ReviewReasons, OpenReasons, BindReasons
    <2>2. new # NoRow
      BY <2>1, NoRowFields
    <2>3. inbox' = [inbox EXCEPT ![c] = new]
      BY <1>1 DEF InboxAfterInsert
    <2> HIDE DEF new
    <2> QED BY <1>1, <2>1, <2>2, <2>3, NoRowFields DEF TypeOK, SameRow
  <1>2. CASE inbox[c] # NoRow
    <2> DEFINE new == [inbox[c] EXCEPT !.reason = reason]
    <2>1. new # NoRow /\ new.processed = inbox[c].processed
      BY <1>2, ReasonKeepsRow
    <2>2. inbox' = inbox \/ inbox' = [inbox EXCEPT ![c] = new]
      BY <1>2 DEF InboxAfterInsert
    <2> HIDE DEF new
    <2> QED BY <1>2, <2>1, <2>2 DEF TypeOK, SameRow
  <1> QED BY <1>1, <1>2

\* Outside SettlePayment, operations write no financial row.
LEMMA OperationLedger ==
  ASSUME TypeOK, OperationsSound, OrdersBound, NEW p \in Procs,
         \/ ReservePaymentOrder(p) \/ RenewForGet(p) \/ RenewForCancel(p)
         \/ RenewForCreate(p) \/ PendingPaymentCallbacks(p) \/ SettleFails(p)
         \/ CompletePaymentOrderOperation(p) \/ Crash(p)
         \/ \E k \in Keys : CreateOrder(p, k)
         \/ \E o \in Orders : CancelOrder(p, o)
         \/ CreateCall(p) \/ GetCall(p) \/ CancelCall(p) \/ RecreateCall(p)
  PROVE  Still
  <1>1. QuietStep
    BY OperationQuiet, RequestQuiet
  <1>2. UNCHANGED <<journal, inbox, acked, paid>>
    BY DEF ReservePaymentOrder, RenewForGet, RenewForCancel, RenewForCreate,
       PendingPaymentCallbacks, SettleFails, CompletePaymentOrderOperation, Crash,
       CreateOrder, CancelOrder, CreateCall, GetCall, CancelCall, RecreateCall,
       ProviderCreate, db, provider
  <1> QED BY <1>1, <1>2, QuietStill, UnchangedRows DEF Still

\* WakePendingPaymentCallbacks only changes the reason of kept rows.
LEMMA WorkerLedger ==
  ASSUME TypeOK, WakePendingPaymentCallbacks \/ DuePaymentOrders \/ \E o \in Orders : ReconcileOrder(o)
  PROVE  Still
  <1>1. SameMoney /\ UNCHANGED <<acked, paid>>
    <2>1. UNCHANGED <<journal, acked, paid>>
      BY DEF WakePendingPaymentCallbacks, DuePaymentOrders, ReconcileOrder, db, provider
    <2> QED BY <2>1, WorkerQuiet, QuietStill
  <1>2. ASSUME WakePendingPaymentCallbacks, NEW c \in Callbacks
        PROVE  SameRow(c)
    <2>1. \/ inbox'[c] = inbox[c]
          \/ /\ inbox[c].reason = "UNKNOWN_ORDER"
             /\ inbox'[c] = [inbox[c] EXCEPT !.reason = "AWAITING_ORDER_BIND"]
      BY <1>2 DEF WakePendingPaymentCallbacks, Unknown
    <2>2. "AWAITING_ORDER_BIND" \in ReviewReasons
      BY DEF ReviewReasons, OpenReasons, BindReasons
    <2>3. inbox[c].reason = "UNKNOWN_ORDER" => inbox[c] # NoRow
      BY NoRowFields
    <2> QED BY <2>1, <2>2, <2>3, ReasonKeepsRow DEF SameRow
  <1>3. CASE ~WakePendingPaymentCallbacks
    <2>1. UNCHANGED inbox
      BY <1>3 DEF DuePaymentOrders, ReconcileOrder, db
    <2> QED BY <1>1, <2>1, UnchangedRows DEF Still
  <1> QED BY <1>1, <1>2, <1>3 DEF Still

LEMMA EnvironmentLedger ==
  ASSUME TypeOK, OrdersBound,
         \/ \E o \in Orders : \/ LeaseExpires(o) \/ GrowOld(o) \/ LateCreate(o)
                              \/ \E how \in Closings : CloseLink(o, how)
         \/ \E p \in Procs : Stall(p)
         \/ \E t \in Transfers : Pay(t)
         \/ LockGate \/ UnlockGate
  PROVE  Still \/ \E t \in Transfers : Arrives(t)
  <1>1. UNCHANGED <<journal, inbox, acked>>
    BY DEF LeaseExpires, GrowOld, LateCreate, CloseLink, Stall, Pay, LockGate, UnlockGate, db
  <1>2. SameMoney /\ \A c \in Callbacks : SameRow(c)
    BY <1>1, EnvironmentQuiet, QuietStill, UnchangedRows
  <1>3. UNCHANGED paid \/ \E t \in Transfers : paid' = paid \cup {t}
    BY DEF LeaseExpires, GrowOld, LateCreate, CloseLink, Stall, Pay, LockGate,
       UnlockGate, provider
  <1> QED BY <1>1, <1>2, <1>3 DEF Still, Arrives

\* A settlement books its transaction, finds it booked, or leaves at most a
\* review on the row it was to consume.
LEMMA SettlementLedger ==
  ASSUME TypeOK, OperationsSound, ItemsHeld, NEW p \in Procs,
         SettleCatchUp(p) \/ \E c \in Callbacks : SettleInbox(p, c)
  PROVE  LedgerStep
  <1>1. UNCHANGED <<acked, paid>> /\ UNCHANGED provider /\ ProviderStep
    BY DEF SettleCatchUp, SettleInbox, provider, ProviderStep
  <1>2. ASSUME NEW e \in proc[p].txns
        PROVE  e \in paid /\ e \in Callbacks /\ e.order \in Orders
    <2>1. e \in paid /\ e \in Transfers
      BY DEF OperationsSound, Sound, TypeOK
    <2> QED BY <2>1, TransfersAreEvidence, EvidenceFields DEF Transfers
  <1>3. ASSUME NEW e \in proc[p].txns, NEW accepted,
               SettleOutcome(orders[e.order], receipts[e.ref], e, TRUE, accepted) = "COMMIT",
               Commit(e)
        PROVE  Booking(e)
    <2>1. /\ receipts[e.ref] = NoReceipt /\ orders[e.order].status \notin {"ABSENT", "PAID"}
          /\ orders[e.order].txnId = NoRef /\ e.amount = "full"
          /\ orders[e.order].account \in {NoAccount, e.account}
      BY <1>3 DEF SettleOutcome
    <2> QED BY <1>1, <1>2, <1>3, <2>1 DEF Booking
  <1>4. CASE UNCHANGED <<orders, receipts, journal, inbox>>
    BY <1>1, <1>4, UnchangedRows DEF LedgerStep, Still, SameMoney
  <1>5. CASE SettleCatchUp(p)
    <2>1. UNCHANGED inbox
      BY <1>5 DEF SettleCatchUp
    <2>2. PICK e \in proc[p].txns :
             \/ /\ SettleOutcome(orders[e.order], receipts[e.ref], e, TRUE, TRUE) = "COMMIT"
                /\ Commit(e)
             \/ UNCHANGED <<orders, receipts, journal>>
      BY <1>5 DEF SettleCatchUp
    <2>3. CASE Booking(e)
      BY <1>1, <1>2, <2>1, <2>3, UnchangedRows DEF LedgerStep, Books, Answers
    <2> QED BY <1>3, <1>4, <2>1, <2>2, <2>3
  <1>6. ASSUME NEW c \in Callbacks, SettleInbox(p, c)
        PROVE  LedgerStep
    <2>1. inbox[c] # NoRow
      BY <1>6 DEF SettleInbox, ItemsHeld
    <2>2. PICK e \in proc[p].txns :
             \/ /\ InboxOutcome(c, e) = "COMMIT" /\ Commit(e)
                /\ inbox' = MarkProcessed(inbox, c)
             \/ /\ InboxOutcome(c, e) = "DUPLICATE"
                /\ inbox' = MarkProcessed(inbox, c)
                /\ UNCHANGED <<orders, receipts, journal>>
             \/ /\ InboxOutcome(c, e) \in ReviewReasons
                /\ inbox' = [inbox EXCEPT ![c].reason = InboxOutcome(c, e)]
                /\ UNCHANGED <<orders, receipts, journal>>
      BY <1>6 DEF SettleInbox
    <2>3. CASE InboxOutcome(c, e) \in {"COMMIT", "DUPLICATE"} /\ inbox' = MarkProcessed(inbox, c)
      <3>1. c = e
        BY <2>3 DEF InboxOutcome, SettlementInboxMatches, SettleOutcome
      <3>2. Resolves(c)
        <4>1. inbox[c] \in [reason: ReviewReasons, processed: BOOLEAN]
          BY <2>1 DEF TypeOK, InboxRow
        <4>2. /\ [inbox[c] EXCEPT !.processed = TRUE] # NoRow
              /\ [inbox[c] EXCEPT !.processed = TRUE].processed
          BY <4>1, NoRowFields
        <4>3. inbox' = [inbox EXCEPT ![c] = [inbox[c] EXCEPT !.processed = TRUE]]
          BY <2>3 DEF MarkProcessed
        <4> QED BY <2>1, <4>2, <4>3 DEF Resolves, SameRow, TypeOK
      <3>3. CASE Commit(e) /\ InboxOutcome(c, e) = "COMMIT"
        <4>1. Booking(e)
          BY <1>3, <3>3 DEF InboxOutcome
        <4> QED BY <1>1, <1>2, <3>1, <3>2, <4>1 DEF LedgerStep, Books, Answers
      <3>4. CASE InboxOutcome(c, e) = "DUPLICATE" /\ UNCHANGED <<orders, receipts, journal>>
        <4>1. receipts[e.ref] = ReceiptOf(e) /\ orders[e.order].txnId = e.ref
          BY <3>4 DEF InboxOutcome, SettleOutcome
        <4>2. SameMoney /\ Answers(c)
          BY <1>1, <3>4 DEF SameMoney, Answers
        <4>3. Confirms(c)
          BY <1>1, <3>1, <3>2, <4>1, <4>2 DEF Confirms
        <4> QED BY <4>3 DEF LedgerStep
      <3> QED BY <2>2, <2>3, <3>3, <3>4 DEF ReviewReasons, OpenReasons, BindReasons
    <2>4. CASE /\ InboxOutcome(c, e) \in ReviewReasons
               /\ inbox' = [inbox EXCEPT ![c].reason = InboxOutcome(c, e)]
               /\ UNCHANGED <<orders, receipts, journal>>
      <3> DEFINE new == [inbox[c] EXCEPT !.reason = InboxOutcome(c, e)]
      <3>1. new # NoRow /\ new.processed = inbox[c].processed
        BY <2>1, <2>4, ReasonKeepsRow
      <3>2. inbox' = [inbox EXCEPT ![c] = new]
        BY <2>4
      <3> HIDE DEF new
      <3>3. \A d \in Callbacks : SameRow(d)
        BY <2>1, <3>1, <3>2 DEF SameRow, TypeOK
      <3> QED BY <1>1, <2>4, <3>3 DEF LedgerStep, Still, SameMoney
    <2> QED BY <2>2, <2>3, <2>4
  <1> QED BY <1>5, <1>6

\* HandleWebhook answers a sample, a kept payload or booked money.
LEMMA WebhookLedger ==
  ASSUME TypeOK, OrdersBound, NEW c \in Callbacks,
         AckSample(c) \/ ReviewWebhook(c) \/ SettleWebhook(c)
  PROVE  LedgerStep
  <1>1. acked' = acked \cup {c} /\ UNCHANGED paid
    BY DEF AckSample, ReviewWebhook, SettleWebhook, provider
  <1>2. c \in Evidence /\ c.order \in Orders
    BY CallbacksAssumption, EvidenceFields
  <1>3. CASE AckSample(c)
    <2>1. SameMoney /\ UNCHANGED inbox
      BY <1>3 DEF AckSample, db, SameMoney
    <2> QED BY <1>1, <1>3, <2>1, UnchangedRows DEF LedgerStep, AnswersSample, AckSample
  <1>4. ASSUME NEW reason \in ReviewReasons,
               inbox' = InboxAfterInsert(inbox, c, reason),
               orders' = [orders EXCEPT ![c.order] =
                            OrderAfterInsert(@, inbox[c] = NoRow, reason)],
               UNCHANGED <<receipts, journal>>
        PROVE  LedgerStep
    <2> DEFINE new == OrderAfterInsert(orders[c.order], inbox[c] = NoRow, reason)
    <2>1. Quiet(orders[c.order], new, link'[c.order])
      BY <1>2, QuietInsert DEF TypeOK
    <2>2. orders' = [orders EXCEPT ![c.order] = new]
      BY <1>4
    <2> HIDE DEF new
    <2>3. SameMoney
      BY <1>2, <1>4, <2>1, <2>2 DEF SameMoney, Quiet, TypeOK
    <2> QED BY <1>1, <1>4, <2>3, InsertKeepsRow DEF LedgerStep, Keeps
  <1>5. CASE ReviewWebhook(c)
    <2>1. c.fault \in ReviewReasons
      BY <1>2, <1>5 DEF ReviewWebhook, Evidence, Faults, ReviewReasons
    <2> QED BY <1>4, <1>5, <2>1 DEF ReviewWebhook
  <1>6. CASE SettleWebhook(c)
    <2> DEFINE outcome == SettleOutcome(orders[c.order], receipts[c.ref], c, FALSE, TRUE)
    <2>1. CASE outcome = "COMMIT" /\ Commit(c) /\ UNCHANGED inbox
      <3>1. QuietStep \/ Booking(c)
        BY WebhookBooks
      <3>2. Booking(c)
        <4>1. orders[c.order].txnId = NoRef /\ c.ref \in Refs
          BY <1>2, <2>1, EvidenceFields DEF SettleOutcome
        <4>2. orders'[c.order].txnId = c.ref
          BY <1>2, <2>1, OrderFields DEF Commit, PaidOrder, TypeOK, OrderRow
        <4> QED BY <1>2, <3>1, <4>1, <4>2, NullAssumption DEF QuietStep, Quiet
      <3> QED BY <1>1, <2>1, <3>2, UnchangedRows DEF LedgerStep, Books, Answers
    <2>2. CASE outcome = "DUPLICATE" /\ UNCHANGED db
      <3>1. receipts[c.ref] = ReceiptOf(c) /\ orders[c.order].txnId = c.ref
        BY <2>2 DEF SettleOutcome
      <3>2. SameMoney /\ UNCHANGED inbox
        BY <2>2 DEF db, SameMoney
      <3> QED BY <1>1, <3>1, <3>2, UnchangedRows DEF LedgerStep, Confirms, Answers
    <2>3. CASE /\ outcome \in ReviewReasons
               /\ inbox' = InboxAfterInsert(inbox, c, outcome)
               /\ orders' = [orders EXCEPT ![c.order] =
                               OrderAfterInsert(@, inbox[c] = NoRow, outcome)]
               /\ UNCHANGED <<receipts, journal>>
      BY <1>4, <2>3
    <2> QED BY <1>6, <2>1, <2>2, <2>3 DEF SettleWebhook
  <1> QED BY <1>3, <1>5, <1>6

LEMMA NextLedgerStep ==
  ASSUME TypeOK, OperationsSound, OrdersBound, ItemsHeld, [Next]_vars
  PROVE  LedgerStep
  <1>1. CASE UNCHANGED vars
    <2>1. SameMoney /\ UNCHANGED <<acked, paid, inbox>>
      BY <1>1 DEF vars, db, provider, SameMoney
    <2> QED BY <2>1, UnchangedRows DEF LedgerStep, Still
  <1>2. ASSUME NEW p \in Procs, Progress(p)
        PROVE  LedgerStep
    BY <1>2, OperationLedger, SettlementLedger DEF Progress, LedgerStep
  <1>3. Still => LedgerStep
    BY DEF LedgerStep
  <1>4. (\E t \in Transfers : Arrives(t)) => LedgerStep
    BY DEF LedgerStep
  <1> QED BY <1>1, <1>2, <1>3, <1>4, OperationLedger, WorkerLedger, EnvironmentLedger,
             WebhookLedger DEF Next, createPayment, cancelPayment

-----------------------------------------------------------------------------
(* What is written next to the money stays true.                           *)

\* A booked receipt is a receipt.
LEMMA ReceiptsAreReceipts ==
  ASSUME NEW e \in Evidence
  PROVE  ReceiptOf(e) # NoReceipt
  <1>1. ReceiptOf(e).link \in {"own", "other"} /\ NoReceipt.link = "none"
    BY DEF ReceiptOf, NoReceipt, Evidence
  <1> QED BY <1>1

\* No step removes a kept row or a receipt.
LEMMA NothingDropped ==
  ASSUME TypeOK, LedgerStep
  PROVE  /\ \A c \in Callbacks : inbox[c] # NoRow => inbox'[c] # NoRow
         /\ \A r \in Refs : receipts[r] # NoReceipt => receipts'[r] = receipts[r]
  <1>1. \A c \in Callbacks : inbox[c] # NoRow => inbox'[c] # NoRow
    BY DEF LedgerStep, Still, Arrives, AnswersSample, Keeps, Confirms, Books, Resolves, SameRow
  <1>2. UNCHANGED receipts \/ \E e \in Callbacks : Booking(e)
    BY DEF LedgerStep, Still, Arrives, AnswersSample, Keeps, Confirms, Books, SameMoney
  <1> QED BY <1>1, <1>2 DEF Booking, Commit, TypeOK

LEMMA ResolvedStep ==
  ASSUME TypeOK, ResolvedIsSettled, LedgerStep
  PROVE  ResolvedIsSettled'
  <1> SUFFICES ASSUME NEW c \in Callbacks, inbox'[c].processed
               PROVE  receipts'[c.ref] = ReceiptOf(c)
    BY DEF ResolvedIsSettled
  <1>1. c \in Evidence /\ c.ref \in Refs /\ ReceiptOf(c) # NoReceipt
    BY CallbacksAssumption, EvidenceFields, ReceiptsAreReceipts
  <1>2. CASE inbox[c].processed
    BY <1>1, <1>2, NothingDropped DEF ResolvedIsSettled
  <1>3. CASE ~inbox[c].processed
    <2>1. Confirms(c) \/ Books(c)
      BY <1>3 DEF LedgerStep, Still, Arrives, AnswersSample, Keeps, Confirms, Books,
         Resolves, SameRow
    <2> QED BY <1>1, <2>1 DEF Confirms, SameMoney, Books, Booking, Commit, TypeOK
  <1> QED BY <1>2, <1>3

LEMMA AcksStep ==
  ASSUME TypeOK, AcksAreDurable, LedgerStep
  PROVE  AcksAreDurable'
  <1> SUFFICES ASSUME NEW c \in acked'
               PROVE  \/ c.fault = "SAMPLE" \/ inbox'[c] # NoRow
                      \/ receipts'[c.ref] = ReceiptOf(c)
    BY DEF AcksAreDurable
  <1>1. CASE c \in acked
    <2>1. c \in Callbacks /\ c \in Evidence /\ c.ref \in Refs /\ ReceiptOf(c) # NoReceipt
      BY <1>1, CallbacksAssumption, EvidenceFields, ReceiptsAreReceipts DEF TypeOK
    <2> QED BY <1>1, <2>1, NothingDropped DEF AcksAreDurable
  <1>2. CASE c \notin acked
    <2>1. c \in Callbacks /\ (AnswersSample(c) \/ Keeps(c) \/ Confirms(c) \/ Books(c))
      BY <1>2 DEF LedgerStep, Still, Arrives, AnswersSample, Keeps, Confirms, Books, Answers
    <2>2. c \in Evidence /\ c.ref \in Refs
      BY <2>1, CallbacksAssumption, EvidenceFields
    <2> QED BY <2>1, <2>2 DEF AnswersSample, Keeps, Confirms, SameMoney, Books, Booking,
               Commit, TypeOK
  <1> QED BY <1>1, <1>2

LEMMA JournalEntries ==
  ASSUME NEW S, NEW q \in Seq(S), NEW x \in S
  PROVE  /\ \A i \in DOMAIN q : q[i] \in S
         /\ Len(q) \in Nat /\ DOMAIN q = 1..Len(q)
         /\ DOMAIN Append(q, x) = 1..(Len(q) + 1)
         /\ Append(q, x)[Len(q) + 1] = x
         /\ \A i \in 1..Len(q) : Append(q, x)[i] = q[i]
  OBVIOUS

\* A booking appends the first entry of its order.
LEMMA JournalStep ==
  ASSUME TypeOK, JournalMatchesReceipts, LedgerStep
  PROVE  JournalMatchesReceipts'
  <1>1. CASE SameMoney
    <2> DEFINE E == [ref: Refs, order: Orders]
    <2>1. \A i \in DOMAIN journal : journal[i] \in E
      <3> HIDE DEF E
      <3>1. journal \in Seq(E)
        BY DEF TypeOK, E
      <3> QED BY <3>1
    <2>2. \A i \in DOMAIN journal : journal[i].order \in Orders
      BY <2>1
    <2> QED BY <1>1, <2>2 DEF SameMoney, JournalMatchesReceipts
  <1>2. ASSUME NEW e \in Callbacks, Booking(e)
        PROVE  JournalMatchesReceipts'
    <2> DEFINE entry == [ref |-> e.ref, order |-> e.order]
               E == [ref: Refs, order: Orders]
               n == Len(journal)
    <2>1. e \in Evidence /\ e.order \in Orders /\ e.ref \in Refs
      BY CallbacksAssumption, EvidenceFields
    <2>2. entry.ref = e.ref /\ entry.order = e.order /\ entry \in E
      BY <2>1
    <2>3. journal' = Append(journal, entry) /\ journal \in Seq(E)
      BY <1>2 DEF Booking, Commit, TypeOK
    <2> HIDE DEF entry
    <2>4. /\ n \in Nat /\ DOMAIN journal = 1..n /\ DOMAIN journal' = 1..(n + 1)
          /\ journal'[n + 1] = entry
          /\ \A i \in 1..n : journal'[i] = journal[i] /\ journal[i] \in E
      <3> HIDE DEF E
      <3> QED BY <2>2, <2>3, JournalEntries
    <2>5. orders[e.order].txnId = NoRef
      BY <1>2 DEF Booking
    <2>6. /\ orders'[e.order].txnId = e.ref
          /\ \A o \in Orders \ {e.order} : orders'[o] = orders[o]
          /\ receipts' = [receipts EXCEPT ![e.ref] = ReceiptOf(e)]
      BY <1>2, <2>1 DEF Booking, Commit, PaidOrder, TypeOK, OrderRow
    <2>7. \A i \in 1..n : journal[i].order # e.order
      BY <2>4, <2>5, NullAssumption DEF JournalMatchesReceipts
    <2> HIDE DEF n
    <2>8. \A i, j \in 1..(n + 1) : journal'[i].order = journal'[j].order => i = j
      BY <2>2, <2>4, <2>7 DEF JournalMatchesReceipts
    <2>9. \A i \in 1..(n + 1) : orders'[journal'[i].order].txnId = journal'[i].ref
      BY <2>1, <2>2, <2>4, <2>6, <2>7 DEF JournalMatchesReceipts
    <2>10. ASSUME NEW r \in Refs, receipts'[r] # NoReceipt
           PROVE  \E i \in 1..(n + 1) : journal'[i].ref = r
      <3>1. CASE r = e.ref
        BY <2>2, <2>4, <3>1
      <3>2. CASE r # e.ref
        <4>1. receipts[r] # NoReceipt
          BY <2>6, <2>10, <3>2 DEF TypeOK
        <4>2. PICK i \in 1..n : journal[i].ref = r
          BY <2>4, <4>1 DEF JournalMatchesReceipts
        <4> QED BY <2>4, <4>2
      <3> QED BY <3>1, <3>2
    <2> QED BY <2>4, <2>8, <2>9, <2>10 DEF JournalMatchesReceipts
  <1> QED BY <1>1, <1>2 DEF LedgerStep, Still, Arrives, AnswersSample, Keeps, Confirms, Books

LEMMA WrittenStep ==
  ASSUME TypeOK, Written, LedgerStep
  PROVE  Written'
  BY JournalStep, ResolvedStep, AcksStep DEF Written

-----------------------------------------------------------------------------
(* The service implements the ledger.                                      *)

booked   == [o \in Orders |-> orders[o].txnId]
held     == {c \in Callbacks : inbox[c] # NoRow}
resolved == {c \in Callbacks : inbox[c].processed}

LEMMA SameShown ==
  /\ SameMoney => UNCHANGED booked
  /\ (\A c \in Callbacks : SameRow(c)) => UNCHANGED <<held, resolved>>
  BY DEF SameMoney, SameRow, booked, held, resolved

LEMMA ResolvesShown ==
  ASSUME NEW c \in Callbacks, Resolves(c)
  PROVE  UNCHANGED held /\ resolved' \in {resolved, resolved \cup (held \cap {c})}
  <1>1. UNCHANGED held
    BY DEF Resolves, SameRow, held
  <1>2. CASE SameRow(c)
    <2>1. \A d \in Callbacks : SameRow(d)
      BY <1>2 DEF Resolves
    <2> QED BY <1>1, <2>1, SameShown
  <1>3. CASE ~SameRow(c)
    <2>1. inbox[c] # NoRow /\ inbox'[c].processed
      BY <1>3 DEF Resolves
    <2>2. \A d \in Callbacks \ {c} : inbox'[d].processed = inbox[d].processed
      BY DEF Resolves, SameRow
    <2>3. resolved' = resolved \cup (held \cap {c})
      BY <2>1, <2>2 DEF resolved, held
    <2> QED BY <1>1, <2>3
  <1> QED BY <1>2, <1>3

LEMMA InitLedger == Init => Ledger!LedgerInit
  <1> SUFFICES ASSUME Init PROVE Ledger!LedgerInit
    OBVIOUS
  <1>1. AbsentOrder.txnId = NoRef
    BY DEF AbsentOrder
  <1>2. /\ paid = {} /\ acked = {}
        /\ [o \in Orders |-> orders[o].txnId] = [o \in Orders |-> NoRef]
    BY <1>1 DEF Init
  <1>3. /\ {c \in Callbacks : inbox[c] # NoRow} = {}
        /\ {c \in Callbacks : inbox[c].processed} = {}
    BY NoRowFields DEF Init
  <1> QED BY <1>2, <1>3 DEF Ledger!LedgerInit

LEMMA LedgerRefined ==
  ASSUME TypeOK, SettledOnce, LedgerStep
  PROVE  Ledger!LedgerNext \/ UNCHANGED Ledger!ledgerVars
  <1>1. CASE Still
    BY <1>1, SameShown DEF Still, Ledger!ledgerVars, booked, held, resolved
  <1>2. ASSUME NEW t \in Transfers, Arrives(t)
        PROVE  Ledger!Receive(t)
    BY <1>2, SameShown DEF Arrives, Ledger!Receive, booked, held, resolved
  <1>3. ASSUME NEW c \in Callbacks, AnswersSample(c)
        PROVE  c \in {d \in Callbacks : d.fault = "SAMPLE"} /\ Ledger!AnswerSample(c)
    BY <1>3, SameShown DEF AnswersSample, Ledger!AnswerSample, booked, held, resolved
  <1>4. ASSUME NEW c \in Callbacks, Keeps(c)
        PROVE  Ledger!Hold(c)
    <2>1. UNCHANGED <<booked, resolved>> /\ held' = held \cup {c}
      <3>1. \A d \in Callbacks : inbox'[d].processed = inbox[d].processed
        BY <1>4 DEF Keeps, SameRow
      <3>2. \A d \in Callbacks : inbox'[d] # NoRow <=> inbox[d] # NoRow \/ d = c
        BY <1>4 DEF Keeps, SameRow
      <3> QED BY <1>4, <3>1, <3>2, SameShown DEF Keeps, held, resolved
    <2> QED BY <1>4, <2>1 DEF Keeps, Ledger!Hold, booked, held, resolved
  <1>5. ASSUME NEW c \in Callbacks, Confirms(c)
        PROVE  Ledger!Confirm(c)
    <2>1. c.order \in Orders
      BY CallbacksAssumption, EvidenceFields
    <2>2. booked[c.order] = c.ref /\ UNCHANGED booked
      BY <1>5, <2>1, SameShown DEF Confirms, booked
    <2>3. UNCHANGED held /\ resolved' \in {resolved, resolved \cup (held \cap {c})}
      BY <1>5, ResolvesShown DEF Confirms
    <2> QED BY <1>5, <2>2, <2>3 DEF Confirms, Answers, Ledger!Confirm, booked, held, resolved
  <1>6. ASSUME NEW e \in Callbacks, Books(e)
        PROVE  e \in Transfers /\ Ledger!Book(e)
    <2>1. Booking(e) /\ Answers(e) /\ e \in paid /\ e \in Transfers
      BY <1>6 DEF Books, Booking, TypeOK
    <2>2. e.order \in Orders /\ e.ref \in Refs /\ UNCHANGED paid
      BY <2>1, CallbacksAssumption, EvidenceFields DEF Booking, provider
    <2>3. booked[e.order] = NoRef
      BY <2>1, <2>2 DEF Booking, booked
    <2>4. \A o \in Orders : booked[o] # e.ref
      BY <2>1, <2>2 DEF Booking, SettledOnce, booked
    <2>5. booked' = [booked EXCEPT ![e.order] = e.ref]
      <3>1. /\ orders'[e.order].txnId = e.ref
            /\ \A o \in Orders \ {e.order} : orders'[o] = orders[o]
        BY <2>1, <2>2 DEF Booking, Commit, PaidOrder, TypeOK, OrderRow
      <3> QED BY <2>2, <3>1 DEF booked
    <2>6. UNCHANGED held /\ resolved' \in {resolved, resolved \cup (held \cap {e})}
      BY <1>6, ResolvesShown DEF Books
    <2> QED BY <2>1, <2>2, <2>3, <2>4, <2>5, <2>6
            DEF Answers, Ledger!Book, booked, held, resolved
  <1> QED BY <1>1, <1>2, <1>3, <1>4, <1>5, <1>6 DEF LedgerStep, Ledger!LedgerNext

-----------------------------------------------------------------------------
(* Keys and recovery attempts.                                             *)

\* The row keeps its key and its attempt; its token may only be given up.
Steady(row, new) == /\ new.key = row.key /\ new.qrTried = row.qrTried
                    /\ new.token \in {row.token, NoProc}
RowsSteady == \A o \in Orders : Steady(orders[o], orders'[o])

LEMMA SteadyRow ==
  ASSUME NEW row \in OrderRow
  PROVE  /\ Steady(row, row) /\ Steady(row, WokenOrder(row))
         /\ \A isNew, reason : Steady(row, OrderAfterInsert(row, isNew, reason))
         /\ \A e : Steady(row, PaidOrder(row, e))
         /\ Steady(row, RenewedOrder(row, FALSE))
         /\ \A u : Steady(row, CompletedOrder(row, u))
         /\ Steady(row, [row EXCEPT !.leased = FALSE])
         /\ \A a : Steady(row, [row EXCEPT !.age = a])
  <1>1. Steady(row, row) /\ Steady(row, WokenOrder(row))
    BY DEF Steady, WokenOrder, OrderRow
  <1>2. \A isNew, reason : Steady(row, OrderAfterInsert(row, isNew, reason))
    BY DEF Steady, WokenOrder, OrderAfterInsert, OrderRow
  <1>3. /\ \A e : Steady(row, PaidOrder(row, e))
        /\ Steady(row, RenewedOrder(row, FALSE))
    BY DEF Steady, PaidOrder, RenewedOrder, OrderRow
  <1>4. \A u : Steady(row, CompletedOrder(row, u))
    BY DEF Steady, CompletedOrder, OrderRow
  <1>5. /\ Steady(row, [row EXCEPT !.leased = FALSE])
        /\ \A a : Steady(row, [row EXCEPT !.age = a])
    BY DEF Steady, OrderRow
  <1> QED BY <1>1, <1>2, <1>3, <1>4, <1>5

LEMMA OneSteadyRow ==
  ASSUME TypeOK, NEW o \in Orders, NEW new,
         orders' = [orders EXCEPT ![o] = new], Steady(orders[o], new)
  PROVE  RowsSteady
  BY SteadyRow DEF TypeOK, RowsSteady

LEMMA SameRowsSteady ==
  ASSUME TypeOK, UNCHANGED orders
  PROVE  RowsSteady
  BY SteadyRow DEF TypeOK, RowsSteady

\* At most one process goes on, and not with a new recovery.
Goes == \/ UNCHANGED proc
        \/ \E n : \E p \in Procs : Become(p, n) /\ Resumes(proc[p], n)

Recovery == AttemptsRecorded /\ OneOrderPerKey /\ RecoveryCreateOnce

\* An operation that is not touched keeps its attempt while the rows do.
LEMMA AttemptStays ==
  ASSUME TypeOK, OperationsSound, NEW q \in Procs, Attempt(proc[q], q),
         proc'[q] = proc[q],
         proc[q].pc \in Working =>
           /\ Steady(orders[proc[q].at], orders'[proc[q].at])
           /\ known'[proc[q].at] = known[proc[q].at]
  PROVE  Attempt(proc[q], q)'
  <1>1. q # NoProc
    BY NullAssumption
  <1> QED BY <1>1, WorkingSteps DEF Attempt, Steady

LEMMA AttemptFollows ==
  ASSUME TypeOK, OperationsSound, NEW p \in Procs, Attempt(proc[p], p),
         Resumes(proc[p], proc'[p]), RowsSteady
  PROVE  Attempt(proc[p], p)'
  <1>1. p # NoProc
    BY NullAssumption
  <1>2. proc[p].pc \in Working => proc[p].at \in Orders
    BY WorkingSteps DEF OperationsSound, Sound
  <1> QED BY <1>1, <1>2, WorkingSteps DEF Attempt, Resumes, RowsSteady, Steady

LEMMA SteadyKeepsRecovery ==
  ASSUME TypeOK, OperationsSound, Recovery, RowsSteady, Goes, UNCHANGED known
  PROVE  Recovery'
  <1>1. ASSUME NEW q \in Procs
        PROVE  Attempt(proc[q], q)'
    <2>1. proc[q].pc \in Working => proc[q].at \in Orders
      BY WorkingSteps DEF OperationsSound, Sound
    <2>2. Attempt(proc[q], q)
      BY DEF Recovery, AttemptsRecorded
    <2>3. CASE proc'[q] = proc[q]
      BY <2>1, <2>2, <2>3, AttemptStays DEF RowsSteady
    <2>4. CASE proc'[q] # proc[q]
      <3>1. Resumes(proc[q], proc'[q])
        BY <2>4 DEF Goes, Become, TypeOK
      <3> QED BY <2>2, <3>1, AttemptFollows
    <2> QED BY <2>3, <2>4
  <1>2. \A o \in Orders : known'[o] > 0 => orders'[o].qrTried
    BY DEF Recovery, AttemptsRecorded, RowsSteady, Steady
  <1>3. OneOrderPerKey'
    BY DEF Recovery, OneOrderPerKey, RowsSteady, Steady
  <1>4. RecoveryCreateOnce'
    BY DEF Recovery, RecoveryCreateOnce
  <1> QED BY <1>1, <1>2, <1>3, <1>4 DEF Recovery, AttemptsRecorded

\* The recovery Create is sent by the one process that may send it.
LEMMA RecreateRecovery ==
  ASSUME IInv, Recovery, NEW p \in Procs, RecreateCall(p)
  PROVE  Recovery'
  <1> DEFINE s == proc[p]
             o == proc[p].at
  <1>1. /\ s \in Operation /\ s.pc = "recreateCall" /\ s.pc \in Working /\ o \in Orders
    BY WorkingSteps DEF RecreateCall, IInv, TypeOK, OperationsSound, Sound
  <1>2. PICK reply, account : Become(p, RecreateOutcome(s, reply, account))
    BY DEF RecreateCall
  <1>3. /\ UNCHANGED orders /\ known \in [Orders -> Nat]
        /\ known' = [known EXCEPT ![o] = IF s.op = "recoverKnown" THEN @ + 1 ELSE @]
    BY DEF RecreateCall, db, IInv, TypeOK
  <1>4. s.op = "recoverKnown" => known[o] = 0 /\ orders[o].qrTried
    BY <1>1 DEF Recovery, AttemptsRecorded, Attempt
  <1>5. ASSUME NEW q \in Procs \ {p}
        PROVE  Attempt(proc[q], q)'
    <2>1. proc'[q] = proc[q] /\ Attempt(proc[q], q)
      BY <1>2 DEF Become, IInv, TypeOK, Recovery, AttemptsRecorded
    <2>2. proc[q].pc = "recreateCall" => proc[q].at # o
      BY <1>1 DEF IInv, RequestsLeased, Calls
    <2>3. proc[q].pc = "recreateCall" => proc[q].at \in Orders
      BY WorkingSteps DEF IInv, OperationsSound, Sound
    <2> HIDE DEF o
    <2> QED BY <1>3, <2>1, <2>2, <2>3 DEF Attempt
  <1>6. Attempt(proc[p], p)'
    <2>1. Resumes(s, RecreateOutcome(s, reply, account))
      BY <1>1, ReplyFollows DEF Follows
    <2>2. proc'[p] = RecreateOutcome(s, reply, account)
      BY <1>2 DEF Become, IInv, TypeOK
    <2> QED BY <1>3, <2>1, <2>2, AttemptFollows, SameRowsSteady
            DEF IInv, Recovery, AttemptsRecorded
  <1>7. \A x \in Orders : known'[x] > 0 => orders'[x].qrTried
    BY <1>1, <1>3, <1>4 DEF Recovery, AttemptsRecorded
  <1>8. \A x \in Orders : known'[x] <= 1
    BY <1>1, <1>3, <1>4 DEF Recovery, RecoveryCreateOnce
  <1>9. OneOrderPerKey'
    BY <1>3 DEF Recovery, OneOrderPerKey
  <1> QED BY <1>5, <1>6, <1>7, <1>8, <1>9 DEF Recovery, AttemptsRecorded, RecoveryCreateOnce

\* A claim reads the attempt together with the token it takes.
LEMMA ClaimRecovery ==
  ASSUME IInv, Recovery, NEW p \in Procs, NEW o \in Orders, NEW op, NEW pc \in {"get", "cancel"},
         Claim(p, o, op, pc), UNCHANGED known
  PROVE  Recovery'
  <1> DEFINE new == ClaimedOrder(orders[o], p)
             n   == [Idle EXCEPT !.pc = pc, !.op = op, !.at = o, !.snap = Snap(orders[o])]
  <1>1. orders[o] \in OrderRow
    BY DEF IInv, TypeOK
  <1>2. new.key = orders[o].key /\ new.qrTried = orders[o].qrTried /\ new.token = p
    BY <1>1 DEF ClaimedOrder, OrderRow
  <1>3. n.pc = pc /\ n.at = o /\ n.snap.qrTried = orders[o].qrTried
    BY DEF Idle, Snap
  <1>4. orders' = [orders EXCEPT ![o] = new] /\ proc' = [proc EXCEPT ![p] = n]
    BY DEF Claim, Become
  <1> HIDE DEF new, n
  <1>5. orders'[o] = new /\ proc'[p] = n /\ \A x \in Orders \ {o} : orders'[x] = orders[x]
    BY <1>4 DEF IInv, TypeOK
  <1>6. ASSUME NEW q \in Procs \ {p}
        PROVE  Attempt(proc[q], q)'
    <2>1. proc'[q] = proc[q] /\ Attempt(proc[q], q)
      BY <1>4 DEF IInv, TypeOK, Recovery, AttemptsRecorded
    <2>2. proc[q].pc \in Working => proc[q].at \in Orders
      BY WorkingSteps DEF IInv, OperationsSound, Sound
    <2> QED BY <1>2, <1>5, <2>1, <2>2, WorkingSteps DEF Attempt
  <1>7. Attempt(proc[p], p)'
    BY <1>2, <1>3, <1>5 DEF Attempt
  <1>8. \A x \in Orders : known'[x] > 0 => orders'[x].qrTried
    BY <1>2, <1>5 DEF Recovery, AttemptsRecorded
  <1>9. OneOrderPerKey'
    BY <1>2, <1>5 DEF Recovery, OneOrderPerKey
  <1> QED BY <1>6, <1>7, <1>8, <1>9 DEF Recovery, AttemptsRecorded, RecoveryCreateOnce

\* A reservation takes a code without history and a key nobody has.
LEMMA ReserveRecovery ==
  ASSUME IInv, Recovery, NEW p \in Procs, ReservePaymentOrder(p)
  PROVE  Recovery'
  <1>1. UNCHANGED known
    BY DEF ReservePaymentOrder
  <1>2. CASE Become(p, Idle) /\ UNCHANGED orders
    <2>1. Goes
      BY <1>2, FinishFollows DEF Goes, Follows
    <2> QED BY <1>1, <1>2, <2>1, SameRowsSteady, SteadyKeepsRecovery DEF IInv
  <1>3. ASSUME NEW o \in Orders, ~KeyTaken(proc[p].key), orders[o].status = "ABSENT",
               orders' = [orders EXCEPT ![o] = ReservedOrder(proc[p].key, p)],
               Become(p, [Idle EXCEPT !.pc = "create", !.op = "create", !.at = o])
        PROVE  Recovery'
    <2> DEFINE new == ReservedOrder(proc[p].key, p)
               n   == [Idle EXCEPT !.pc = "create", !.op = "create", !.at = o]
    <2>1. orders[o] = AbsentOrder
      BY <1>3 DEF IInv, OrdersBound
    <2>2. /\ new.key = proc[p].key /\ new.qrTried = FALSE /\ new.token = p
          /\ orders[o].qrTried = FALSE /\ n.pc = "create"
      <3>1. AbsentOrder.qrTried = FALSE
        BY DEF AbsentOrder
      <3>2. new.key = proc[p].key /\ new.qrTried = FALSE /\ new.token = p
        BY DEF ReservedOrder, AbsentOrder
      <3>3. n.pc = "create"
        BY DEF Idle
      <3> HIDE DEF new, n
      <3> QED BY <2>1, <3>1, <3>2, <3>3
    <2>3. orders' = [orders EXCEPT ![o] = new] /\ proc' = [proc EXCEPT ![p] = n]
      BY <1>3 DEF Become
    <2> HIDE DEF new, n
    <2>4. orders'[o] = new /\ proc'[p] = n /\ \A x \in Orders \ {o} : orders'[x] = orders[x]
      BY <2>3 DEF IInv, TypeOK
    <2>5. ASSUME NEW q \in Procs \ {p}
          PROVE  Attempt(proc[q], q)'
      <3>1. proc'[q] = proc[q] /\ Attempt(proc[q], q)
        BY <2>3 DEF IInv, TypeOK, Recovery, AttemptsRecorded
      <3>2. proc[q].pc \in Working => proc[q].at \in Orders
        BY WorkingSteps DEF IInv, OperationsSound, Sound
      <3> QED BY <1>1, <2>2, <2>4, <3>1, <3>2, WorkingSteps DEF Attempt
    <2>6. Attempt(proc[p], p)'
      BY <2>2, <2>4, WorkingSteps DEF Attempt
    <2>7. \A x \in Orders : known'[x] > 0 => orders'[x].qrTried
      BY <1>1, <2>2, <2>4 DEF Recovery, AttemptsRecorded
    <2>8. OneOrderPerKey'
      BY <1>3, <2>2, <2>4 DEF Recovery, OneOrderPerKey, KeyTaken
    <2> QED BY <1>1, <2>5, <2>6, <2>7, <2>8 DEF Recovery, AttemptsRecorded, RecoveryCreateOnce
  <1> QED BY <1>2, <1>3 DEF ReservePaymentOrder

\* The renewal before a recovery Create records an attempt that nobody has
\* recorded yet: the token was held since the snapshot was read.
LEMMA RenewForCreateRecovery ==
  ASSUME IInv, Recovery, NEW p \in Procs, RenewForCreate(p)
  PROVE  Recovery'
  <1> DEFINE s == proc[p]
             o == proc[p].at
             isKnown == s.op = "recoverKnown"
             new == RenewedOrder(orders[o], isKnown)
  <1>1. /\ UNCHANGED known /\ s \in Operation /\ s.pc = "recreate" /\ s.pc \in Working
        /\ o \in Orders /\ orders[o] \in OrderRow
    BY WorkingSteps DEF RenewForCreate, IInv, TypeOK, OperationsSound, Sound
  <1>2. ASSUME NEW n, Become(p, n), n = Idle \/ \E u : n = ToFinish(s, u), UNCHANGED orders
        PROVE  Recovery'
    <2>1. Goes
      BY <1>2, FinishFollows DEF Goes, Follows
    <2> QED BY <1>1, <1>2, <2>1, SameRowsSteady, SteadyKeepsRecovery DEF IInv
  <1>3. ASSUME CanRenew(p), Renew(p, isKnown), NEW l \in Links,
               Become(p, [s EXCEPT !.pc = "recreateCall",
                                   !.snap = [Snap(new) EXCEPT !.linkId = l]])
        PROVE  Recovery'
    <2> DEFINE n == [s EXCEPT !.pc = "recreateCall", !.snap = [Snap(new) EXCEPT !.linkId = l]]
    <2>1. /\ new.key = orders[o].key /\ new.token = orders[o].token
          /\ new.qrTried = (orders[o].qrTried \/ isKnown)
      BY <1>1 DEF RenewedOrder, OrderRow
    <2>2. /\ n.pc = "recreateCall" /\ n.op = s.op /\ n.at = o
          /\ n.snap.qrTried = new.qrTried
      BY <1>1 DEF Operation, Snap
    <2>3. orders' = [orders EXCEPT ![o] = new] /\ proc' = [proc EXCEPT ![p] = n]
      BY <1>3 DEF Renew, Become
    <2>4. orders[o].token = p
      BY <1>3 DEF CanRenew, Renewable
    <2>5. isKnown => orders[o].qrTried = FALSE /\ known[o] = 0
      <3>1. s.snap.qrTried = orders[o].qrTried
        BY <1>1, <2>4 DEF Recovery, AttemptsRecorded, Attempt
      <3>2. isKnown => ~s.snap.qrTried
        BY <1>1 DEF Recovery, AttemptsRecorded, Attempt
      <3>3. known[o] \in Nat /\ orders[o].qrTried \in BOOLEAN
        BY <1>1 DEF IInv, TypeOK, OrderRow
      <3>4. known[o] > 0 => orders[o].qrTried
        BY <1>1 DEF Recovery, AttemptsRecorded
      <3> QED BY <3>1, <3>2, <3>3, <3>4
    <2> HIDE DEF new, n
    <2>6. orders'[o] = new /\ proc'[p] = n /\ \A x \in Orders \ {o} : orders'[x] = orders[x]
      BY <1>1, <2>3 DEF IInv, TypeOK
    <2>7. ASSUME NEW q \in Procs \ {p}
          PROVE  Attempt(proc[q], q)'
      <3>1. proc'[q] = proc[q] /\ Attempt(proc[q], q)
        BY <2>3 DEF IInv, TypeOK, Recovery, AttemptsRecorded
      <3>2. proc[q].pc \in Working => proc[q].at \in Orders
        BY WorkingSteps DEF IInv, OperationsSound, Sound
      <3> HIDE DEF o
      <3> QED BY <1>1, <2>1, <2>4, <2>6, <3>1, <3>2, WorkingSteps DEF Attempt
    <2>8. Attempt(proc[p], p)'
      <3> HIDE DEF o
      <3> QED BY <1>1, <2>1, <2>2, <2>5, <2>6, WorkingSteps DEF Attempt
    <2>9. \A x \in Orders : known'[x] > 0 => orders'[x].qrTried
      <3> HIDE DEF o
      <3> QED BY <1>1, <2>1, <2>6 DEF Recovery, AttemptsRecorded
    <2>10. OneOrderPerKey'
      <3> HIDE DEF o
      <3> QED BY <1>1, <2>1, <2>6 DEF Recovery, OneOrderPerKey
    <2> QED BY <1>1, <2>7, <2>8, <2>9, <2>10 DEF Recovery, AttemptsRecorded, RecoveryCreateOnce
  <1>4. ASSUME CanRenew(p), Renew(p, isKnown),
               Become(p, [s EXCEPT !.pc = "recreateCall",
                 !.snap = [Snap(new) EXCEPT !.linkId =
                     IF s.snap.linkId = "none" THEN @ ELSE s.snap.linkId]])
        PROVE  Recovery'
    <2> DEFINE l == IF s.snap.linkId = "none" THEN new.linkId ELSE s.snap.linkId
    <2>1. new.linkId \in Links /\ s.snap.linkId \in Links
      BY <1>1 DEF RenewedOrder, OrderRow, Operation, Snapshot
    <2>2. Snap(new).linkId = new.linkId
      BY DEF Snap
    <2>3. l \in Links
      BY <2>1
    <2>4. [Snap(new) EXCEPT !.linkId = IF s.snap.linkId = "none" THEN @ ELSE s.snap.linkId]
            = [Snap(new) EXCEPT !.linkId = l]
      BY <2>2
    <2> HIDE DEF l, new
    <2> QED BY <1>3, <1>4, <2>3, <2>4
  <1> HIDE DEF s, o
  <1> QED BY <1>2, <1>4 DEF RenewForCreate, Abandon, s, o

-----------------------------------------------------------------------------
(* Every other step leaves keys and attempts as they are.                  *)

\* An operation goes on from the step it is at.
LEMMA OperationFollows ==
  ASSUME TypeOK, OperationsSound, NEW p \in Procs,
         \/ CreateCall(p) \/ GetCall(p) \/ CancelCall(p) \/ RecreateCall(p)
         \/ SettleFails(p) \/ SettleCatchUp(p) \/ \E c \in Callbacks : SettleInbox(p, c)
         \/ RenewForGet(p) \/ RenewForCancel(p) \/ CompletePaymentOrderOperation(p)
         \/ Crash(p) \/ \E k \in Keys : CreateOrder(p, k)
  PROVE  \E n : Become(p, n) /\ Follows(proc[p], n)
  <1> DEFINE s == proc[p]
  <1>1. s \in Operation
    BY DEF TypeOK
  <1>2. \A u : Follows(s, ToFinish(s, u)) /\ Follows(s, Idle)
    BY FinishFollows
  <1>3. CASE \/ CreateCall(p) \/ SettleFails(p) \/ CompletePaymentOrderOperation(p) \/ Crash(p)
    BY <1>2, <1>3 DEF CreateCall, SettleFails, DetailsPending, Abandon,
       CompletePaymentOrderOperation, Crash
  <1>4. ASSUME s.pc \in Working
        PROVE  /\ Follows(s, [s EXCEPT !.pc = "get"]) /\ Follows(s, [s EXCEPT !.pc = "getCall"])
               /\ Follows(s, [s EXCEPT !.pc = "cancelCall"])
               /\ \A status, txns : /\ Follows(s, ApplyVerifiedLink(s, status, txns))
                                    /\ Follows(s, CompleteCancellation(s, status, txns))
                                    /\ Follows(s, AfterGet(s, status, txns))
               /\ Follows(s, AfterAbsent(s)) /\ Follows(s, AfterMismatch(s))
               /\ Follows(s, GetFailed(s)) /\ Follows(s, DetailsPending(s))
    BY <1>1, <1>4, MoveFollows, ReplyFollows
  <1>5. CASE GetCall(p)
    <2>1. s.pc \in Working
      BY <1>5, WorkingSteps DEF GetCall
    <2> QED BY <1>4, <1>5, <2>1 DEF GetCall
  <1>6. CASE CancelCall(p)
    <2>1. s.pc \in Working
      BY <1>6, WorkingSteps DEF CancelCall
    <2>2. \E n : /\ Become(p, n)
                 /\ \/ n = [s EXCEPT !.pc = "get"]
                    \/ \E status, txns : \/ n = CompleteCancellation(s, status, txns)
                                         \/ n = ApplyVerifiedLink(s, status, txns)
      BY <1>6 DEF CancelCall
    <2> QED BY <1>4, <2>1, <2>2
  <1>7. CASE RenewForGet(p) \/ RenewForCancel(p)
    <2>1. s.pc \in Working
      BY <1>7, WorkingSteps DEF RenewForGet, RenewForCancel
    <2> QED BY <1>4, <1>7, <2>1 DEF RenewForGet, RenewForCancel
  <1>8. CASE RecreateCall(p)
    <2>1. s.pc \in Working
      BY <1>8, WorkingSteps DEF RecreateCall
    <2>2. \A reply, account : Follows(s, RecreateOutcome(s, reply, account))
      BY <1>1, <2>1, ReplyFollows
    <2> QED BY <1>8, <2>2 DEF RecreateCall
  <1>9. CASE SettleCatchUp(p)
    <2>1. s.pc \in Working
      BY <1>9, WorkingSteps DEF SettleCatchUp
    <2> QED BY <1>2, <1>4, <1>9, <2>1 DEF SettleCatchUp
  <1>10. ASSUME NEW c \in Callbacks, SettleInbox(p, c)
         PROVE  \E n : Become(p, n) /\ Follows(proc[p], n)
    <2>1. s.pc = "settle" /\ s.pc \in Working
      BY <1>10, WorkingSteps DEF SettleInbox
    <2>2. Follows(s, AfterItem(s, c)) /\ Follows(s, DetailsPending(s))
      BY <1>1, <2>1, ReplyFollows
    <2>3. Become(p, AfterItem(s, c)) \/ Become(p, DetailsPending(s))
      BY <1>10 DEF SettleInbox
    <2> QED BY <2>2, <2>3
  <1>11. ASSUME NEW k \in Keys, CreateOrder(p, k)
         PROVE  \E n : Become(p, n) /\ Follows(proc[p], n)
    <2> DEFINE n == [Idle EXCEPT !.pc = "reserve", !.op = "create", !.key = k]
    <2>1. n.pc = "reserve" /\ n.items = {}
      BY DEF Idle
    <2>2. Become(p, n)
      BY <1>11 DEF CreateOrder
    <2> HIDE DEF n
    <2>3. Follows(proc[p], n)
      BY <2>1, WorkingSteps DEF Follows, Resumes
    <2> QED BY <2>2, <2>3
  <1> QED BY <1>3, <1>5, <1>6, <1>7, <1>8, <1>9, <1>10, <1>11

LEMMA OperationRecovery ==
  ASSUME IInv, Recovery, NEW p \in Procs,
         \/ CreateCall(p) \/ GetCall(p) \/ CancelCall(p) \/ SettleFails(p)
         \/ SettleCatchUp(p) \/ \E c \in Callbacks : SettleInbox(p, c)
         \/ RenewForGet(p) \/ RenewForCancel(p) \/ CompletePaymentOrderOperation(p)
         \/ Crash(p) \/ \E k \in Keys : CreateOrder(p, k)
  PROVE  Recovery'
  <1>1. TypeOK /\ OperationsSound
    BY DEF IInv
  <1>2. Goes
    BY <1>1, OperationFollows DEF Goes, Follows
  <1>3. UNCHANGED known
    BY DEF CreateCall, GetCall, CancelCall, SettleFails, SettleCatchUp, SettleInbox,
       RenewForGet, RenewForCancel, CompletePaymentOrderOperation, Crash, CreateOrder
  <1>4. RowsSteady
    <2>1. CASE UNCHANGED orders
      BY <1>1, <2>1, SameRowsSteady
    <2>2. CASE SettleCatchUp(p) \/ \E c \in Callbacks : SettleInbox(p, c)
      <3>1. UNCHANGED orders \/ \E e \in proc[p].txns : Commit(e)
        BY <2>2 DEF SettleCatchUp, SettleInbox
      <3>2. ASSUME NEW e \in proc[p].txns, Commit(e)
            PROVE  RowsSteady
        <4>1. e.order \in Orders /\ orders[e.order] \in OrderRow
          BY <1>1, TransfersAreEvidence, EvidenceFields DEF TypeOK, OperationsSound, Sound
        <4>2. Steady(orders[e.order], PaidOrder(orders[e.order], e))
          BY <4>1, SteadyRow
        <4>3. orders' = [orders EXCEPT ![e.order] = PaidOrder(orders[e.order], e)]
          BY <3>2 DEF Commit
        <4> QED BY <1>1, <4>1, <4>2, <4>3, OneSteadyRow
      <3> QED BY <2>1, <3>1, <3>2
    <2>3. CASE RenewForGet(p) \/ RenewForCancel(p)
      <3>1. proc[p].at \in Orders /\ orders[proc[p].at] \in OrderRow
        BY <1>1, <2>3, WorkingSteps DEF RenewForGet, RenewForCancel, TypeOK, OperationsSound, Sound
      <3>2. UNCHANGED orders \/ Renew(p, FALSE)
        BY <2>3 DEF RenewForGet, RenewForCancel
      <3> QED BY <1>1, <2>1, <3>1, <3>2, SteadyRow, OneSteadyRow DEF Renew
    <2>4. CASE CompletePaymentOrderOperation(p)
      <3>1. proc[p].at \in Orders /\ orders[proc[p].at] \in OrderRow
        BY <1>1, <2>4 DEF CompletePaymentOrderOperation, TypeOK, OperationsSound, Sound, Busy, PCs
      <3>2. \/ UNCHANGED orders
            \/ orders' = [orders EXCEPT ![proc[p].at] = CompletedOrder(@, proc[p].upd)]
        BY <2>4 DEF CompletePaymentOrderOperation
      <3>3. Steady(orders[proc[p].at], CompletedOrder(orders[proc[p].at], proc[p].upd))
        BY <3>1, SteadyRow
      <3> QED BY <1>1, <2>1, <3>1, <3>2, <3>3, OneSteadyRow
    <2>5. CASE \/ CreateCall(p) \/ GetCall(p) \/ CancelCall(p) \/ SettleFails(p)
               \/ Crash(p) \/ \E k \in Keys : CreateOrder(p, k)
      BY <2>1, <2>5 DEF CreateCall, GetCall, CancelCall, SettleFails, Crash, CreateOrder, db
    <2> QED BY <2>2, <2>3, <2>4, <2>5
  <1> QED BY <1>1, <1>2, <1>3, <1>4, SteadyKeepsRecovery

\* The callbacks read by PendingPaymentCallbacks are kept ones.
LEMMA PendingFollows ==
  ASSUME TypeOK, NEW p \in Procs, PendingPaymentCallbacks(p)
  PROVE  \E n : /\ Become(p, n) /\ Resumes(proc[p], n)
                /\ \A c \in n.items : c \in Callbacks /\ (c \in proc[p].items \/ inbox[c] # NoRow)
  <1> DEFINE s       == proc[p]
             pending == PendingCallbacks(inbox, s.at)
             matched == {c \in pending : \E t \in s.txns : CallbackMatches(c, t)}
             n       == [s EXCEPT !.pc = "settle", !.items = matched]
  <1>1. s \in Operation /\ s.pc \in Working
    BY WorkingSteps DEF TypeOK, PendingPaymentCallbacks
  <1>2. Follows(s, DetailsPending(s)) /\ s.items \subseteq Callbacks
    BY <1>1, ReplyFollows DEF Operation
  <1>3. \A c \in pending : c \in Callbacks /\ inbox[c] # NoRow
    BY NoRowFields DEF PendingCallbacks, BindReasons
  <1>4. /\ n.pc = "settle" /\ n.at = s.at /\ n.snap = s.snap /\ n.items = matched
    BY <1>1 DEF Operation
  <1>5. Become(p, DetailsPending(s)) \/ Become(p, n)
    BY DEF PendingPaymentCallbacks
  <1>6. Resumes(s, n)
    <2> HIDE DEF n
    <2> QED BY <1>1, <1>4 DEF Resumes
  <1>7. \A c \in n.items : c \in Callbacks /\ inbox[c] # NoRow
    <2> HIDE DEF n, pending
    <2> QED BY <1>3, <1>4
  <1> HIDE DEF n
  <1> QED BY <1>2, <1>5, <1>6, <1>7 DEF Follows

LEMMA WorkerRecovery ==
  ASSUME IInv, Recovery,
         WakePendingPaymentCallbacks \/ DuePaymentOrders \/ \E o \in Orders : ReconcileOrder(o)
  PROVE  Recovery'
  <1>1. TypeOK /\ OperationsSound /\ Worker \in Procs
    BY ServiceAssumption DEF IInv
  <1>2. UNCHANGED known
    BY DEF WakePendingPaymentCallbacks, DuePaymentOrders, ReconcileOrder
  <1>3. CASE WakePendingPaymentCallbacks
    <2>1. \A o \in Orders : orders'[o] \in {orders[o], WokenOrder(orders[o])}
      BY <1>3 DEF WakePendingPaymentCallbacks
    <2>2. RowsSteady
      BY <1>1, <2>1, SteadyRow DEF RowsSteady, TypeOK
    <2>3. [Idle EXCEPT !.pc = "scan"].pc = "scan"
      BY DEF Idle
    <2>4. Resumes(proc[Worker], [Idle EXCEPT !.pc = "scan"])
      BY <2>3, WorkingSteps DEF Resumes
    <2>5. Goes
      BY <1>1, <1>3, <2>4 DEF Goes, WakePendingPaymentCallbacks
    <2> QED BY <1>1, <1>2, <2>2, <2>5, SteadyKeepsRecovery
  <1>4. CASE DuePaymentOrders
    <2>1. Goes
      BY <1>1, <1>4, FinishFollows DEF Goes, Follows, DuePaymentOrders
    <2>2. RowsSteady
      BY <1>1, <1>4, SameRowsSteady DEF DuePaymentOrders, db
    <2> QED BY <1>1, <1>2, <2>1, <2>2, SteadyKeepsRecovery
  <1>5. ASSUME NEW o \in Orders, ReconcileOrder(o)
        PROVE  Recovery'
    <2>1. CASE Claim(Worker, o, "reconcile", "get")
      BY <1>1, <1>2, <2>1, ClaimRecovery
    <2>2. CASE UNCHANGED <<orders, proc>>
      BY <1>1, <1>2, <2>2, SameRowsSteady, SteadyKeepsRecovery DEF Goes
    <2> QED BY <1>5, <2>1, <2>2 DEF ReconcileOrder
  <1> QED BY <1>3, <1>4, <1>5

\* Callbacks and the environment start and continue no operation.
LEMMA OutsideRecovery ==
  ASSUME IInv, Recovery,
         \/ \E c \in Callbacks : AckSample(c) \/ ReviewWebhook(c) \/ SettleWebhook(c)
         \/ \E o \in Orders : \/ LeaseExpires(o) \/ GrowOld(o) \/ LateCreate(o)
                              \/ \E how \in Closings : CloseLink(o, how)
         \/ \E p \in Procs : Stall(p)
         \/ \E t \in Transfers : Pay(t)
         \/ LockGate \/ UnlockGate
         \/ UNCHANGED vars
  PROVE  Recovery'
  <1>1. TypeOK /\ OperationsSound
    BY DEF IInv
  <1>2. UNCHANGED <<known, proc>>
    BY DEF AckSample, ReviewWebhook, SettleWebhook, LeaseExpires, GrowOld, LateCreate,
       CloseLink, Stall, Pay, LockGate, UnlockGate, vars
  <1>3. \/ UNCHANGED orders
        \/ \E c \in Callbacks : Commit(c)
        \/ \E isNew, reason : \E c \in Callbacks :
              orders' = [orders EXCEPT ![c.order] = OrderAfterInsert(@, isNew, reason)]
        \/ \E o \in Orders : orders' = [orders EXCEPT ![o].leased = FALSE]
        \/ \E o \in Orders, a \in Ages : orders' = [orders EXCEPT ![o].age = a]
    <2>1. ASSUME NEW c \in Callbacks, AckSample(c) \/ ReviewWebhook(c) \/ SettleWebhook(c)
          PROVE  \/ UNCHANGED orders \/ Commit(c)
                 \/ \E isNew, reason :
                      orders' = [orders EXCEPT ![c.order] = OrderAfterInsert(@, isNew, reason)]
      BY <2>1 DEF AckSample, ReviewWebhook, SettleWebhook, db
    <2>2. ASSUME NEW o \in Orders, LeaseExpires(o) \/ GrowOld(o)
          PROVE  \/ orders' = [orders EXCEPT ![o].leased = FALSE]
                 \/ \E a \in Ages : orders' = [orders EXCEPT ![o].age = a]
      BY <2>2, ServiceAssumption DEF LeaseExpires, GrowOld
    <2>3. ASSUME NEW p \in Procs, Stall(p)
          PROVE  \E o \in Orders : orders' = [orders EXCEPT ![o].leased = FALSE]
      BY <2>3 DEF Stall
    <2>4. CASE \/ \E o \in Orders : LateCreate(o) \/ \E how \in Closings : CloseLink(o, how)
               \/ \E t \in Transfers : Pay(t)
               \/ LockGate \/ UnlockGate \/ UNCHANGED vars
      BY <2>4 DEF LateCreate, CloseLink, Pay, LockGate, UnlockGate, vars, db
    <2> QED BY <2>1, <2>2, <2>3, <2>4
  <1>4. \A c \in Callbacks : c.order \in Orders
    BY CallbacksAssumption, EvidenceFields
  <1>5. \A o \in Orders : orders[o] \in OrderRow
    BY <1>1 DEF TypeOK
  <1>6. ASSUME NEW o \in Orders, NEW new, orders' = [orders EXCEPT ![o] = new],
               Steady(orders[o], new)
        PROVE  RowsSteady
    BY <1>1, <1>6, OneSteadyRow
  <1>7. RowsSteady
    <2>1. CASE UNCHANGED orders
      BY <1>1, <2>1, SameRowsSteady
    <2>2. ASSUME NEW c \in Callbacks, Commit(c)
          PROVE  RowsSteady
      BY <1>4, <1>5, <1>6, <2>2, SteadyRow DEF Commit
    <2>3. ASSUME NEW c \in Callbacks, NEW isNew, NEW reason,
                 orders' = [orders EXCEPT ![c.order] = OrderAfterInsert(@, isNew, reason)]
          PROVE  RowsSteady
      BY <1>4, <1>5, <1>6, <2>3, SteadyRow
    <2>4. ASSUME NEW o \in Orders, orders' = [orders EXCEPT ![o].leased = FALSE]
          PROVE  RowsSteady
      BY <1>5, <1>6, <2>4, SteadyRow
    <2>5. ASSUME NEW o \in Orders, NEW a \in Ages, orders' = [orders EXCEPT ![o].age = a]
          PROVE  RowsSteady
      BY <1>5, <1>6, <2>5, SteadyRow
    <2> QED BY <1>3, <2>1, <2>2, <2>3, <2>4, <2>5
  <1> QED BY <1>1, <1>2, <1>7, SteadyKeepsRecovery DEF Goes

LEMMA RecoveryStep ==
  ASSUME IInv, Recovery, [Next]_vars
  PROVE  Recovery'
  <1>1. ASSUME NEW p \in Procs, PendingPaymentCallbacks(p)
        PROVE  Recovery'
    <2>1. TypeOK /\ OperationsSound /\ UNCHANGED <<orders, known>>
      BY <1>1 DEF PendingPaymentCallbacks, db, IInv
    <2>2. Goes
      BY <1>1, <2>1, PendingFollows DEF Goes
    <2> QED BY <2>1, <2>2, SameRowsSteady, SteadyKeepsRecovery
  <1>2. ASSUME NEW p \in Procs, NEW o \in Orders, CancelOrder(p, o)
        PROVE  Recovery'
    BY <1>2, ClaimRecovery DEF CancelOrder
  <1>3. ASSUME NEW p \in Procs, Progress(p)
        PROVE  Recovery'
    BY <1>1, <1>3, OperationRecovery, RecreateRecovery, ReserveRecovery,
       RenewForCreateRecovery DEF Progress
  <1>4. ASSUME NEW p \in Procs,
               \/ \E k \in Keys : createPayment(p, k)
               \/ \E o \in Orders : cancelPayment(p, o)
               \/ Crash(p)
        PROVE  Recovery'
    BY <1>2, <1>4, OperationRecovery DEF createPayment, cancelPayment
  <1> QED BY <1>3, <1>4, WorkerRecovery, OutsideRecovery DEF Next

-----------------------------------------------------------------------------
(* The callbacks that operations are about to settle stay kept.            *)

ItemsFrom(p, n) == \A c \in n.items : c \in Callbacks /\ (c \in proc[p].items \/ inbox[c] # NoRow)

LEMMA FollowsItems ==
  ASSUME TypeOK, NEW p \in Procs, NEW n, Follows(proc[p], n)
  PROVE  ItemsFrom(p, n)
  BY OperationFields DEF Follows, ItemsFrom, TypeOK

LEMMA ItemsOfProgress ==
  ASSUME TypeOK, OperationsSound, NEW p \in Procs, Progress(p)
  PROVE  \E n : Become(p, n) /\ ItemsFrom(p, n)
  <1>1. CASE ReservePaymentOrder(p)
    <2>1. PICK n : Become(p, n) /\ (n = Idle \/ \E o \in Orders :
                        n = [Idle EXCEPT !.pc = "create", !.op = "create", !.at = o])
      BY <1>1 DEF ReservePaymentOrder
    <2>2. /\ Idle.items = {}
          /\ \A o : [Idle EXCEPT !.pc = "create", !.op = "create", !.at = o].items = {}
      BY DEF Idle
    <2>3. n.items = {}
      BY <2>1, <2>2
    <2> QED BY <2>1, <2>3 DEF ItemsFrom
  <1>2. CASE RenewForCreate(p)
    <2>1. PICK n : /\ Become(p, n)
                   /\ \/ n = Idle \/ \E u : n = ToFinish(proc[p], u)
                      \/ \E snap : n = [proc[p] EXCEPT !.pc = "recreateCall", !.snap = snap]
      BY <1>2 DEF RenewForCreate, Abandon
    <2>2. proc[p] \in Operation
      BY DEF TypeOK
    <2>3. n.items = proc[p].items \/ Follows(proc[p], n)
      <3>1. \A u : Follows(proc[p], ToFinish(proc[p], u)) /\ Follows(proc[p], Idle)
        BY FinishFollows
      <3>2. CASE n = Idle \/ \E u : n = ToFinish(proc[p], u)
        BY <3>1, <3>2
      <3>3. ASSUME NEW snap, n = [proc[p] EXCEPT !.pc = "recreateCall", !.snap = snap]
            PROVE  n.items = proc[p].items
        BY <2>2, <3>3 DEF Operation
      <3> QED BY <2>1, <3>2, <3>3
    <2>4. proc[p].items \subseteq Callbacks
      BY <2>2, OperationFields
    <2> QED BY <2>1, <2>3, <2>4, FollowsItems DEF ItemsFrom
  <1>3. CASE PendingPaymentCallbacks(p)
    BY <1>3, PendingFollows DEF ItemsFrom
  <1>4. CASE \/ CreateCall(p) \/ GetCall(p) \/ CancelCall(p) \/ RecreateCall(p)
             \/ SettleFails(p) \/ SettleCatchUp(p) \/ \E c \in Callbacks : SettleInbox(p, c)
             \/ RenewForGet(p) \/ RenewForCancel(p) \/ CompletePaymentOrderOperation(p)
    BY <1>4, OperationFollows, FollowsItems
  <1> QED BY <1>1, <1>2, <1>3, <1>4 DEF Progress

LEMMA ItemsOfNext ==
  ASSUME TypeOK, OperationsSound, [Next]_vars
  PROVE  UNCHANGED proc \/ \E n : \E p \in Procs : Become(p, n) /\ ItemsFrom(p, n)
  <1>1. \A o, op, pc, snap :
           [Idle EXCEPT !.pc = pc, !.op = op, !.at = o, !.snap = snap].items = {}
    BY DEF Idle
  <1>2. ASSUME NEW p \in Procs, NEW o \in Orders, NEW op, NEW pc, Claim(p, o, op, pc)
        PROVE  \E n : Become(p, n) /\ ItemsFrom(p, n)
    BY <1>1, <1>2 DEF Claim, ItemsFrom
  <1>3. Idle.items = {} /\ [Idle EXCEPT !.pc = "scan"].items = {} /\ Worker \in Procs
    BY ServiceAssumption DEF Idle
  <1>4. ASSUME NEW p \in Procs,
               \/ \E k \in Keys : createPayment(p, k)
               \/ \E o \in Orders : cancelPayment(p, o)
               \/ Crash(p)
        PROVE  \E n : Become(p, n) /\ ItemsFrom(p, n)
    <2>1. CASE Crash(p) \/ \E k \in Keys : createPayment(p, k)
      BY <2>1, OperationFollows, FollowsItems DEF createPayment
    <2>2. CASE \E o \in Orders : cancelPayment(p, o)
      BY <1>2, <2>2 DEF cancelPayment, CancelOrder
    <2> QED BY <1>4, <2>1, <2>2
  <1>5. CASE WakePendingPaymentCallbacks \/ DuePaymentOrders
    BY <1>3, <1>5 DEF WakePendingPaymentCallbacks, DuePaymentOrders, ItemsFrom
  <1>6. ASSUME NEW o \in Orders, ReconcileOrder(o)
        PROVE  UNCHANGED proc \/ \E n : \E p \in Procs : Become(p, n) /\ ItemsFrom(p, n)
    BY <1>2, <1>3, <1>6 DEF ReconcileOrder
  <1>7. CASE \/ \E c \in Callbacks : AckSample(c) \/ ReviewWebhook(c) \/ SettleWebhook(c)
             \/ \E o \in Orders : \/ LeaseExpires(o) \/ GrowOld(o) \/ LateCreate(o)
                                  \/ \E how \in Closings : CloseLink(o, how)
             \/ \E p \in Procs : Stall(p)
             \/ \E t \in Transfers : Pay(t)
             \/ LockGate \/ UnlockGate \/ UNCHANGED vars
    BY <1>7 DEF AckSample, ReviewWebhook, SettleWebhook, LeaseExpires, GrowOld, LateCreate,
       CloseLink, Stall, Pay, LockGate, UnlockGate, vars
  <1> QED BY <1>4, <1>5, <1>6, <1>7, ItemsOfProgress DEF Next

LEMMA ItemsStep ==
  ASSUME TypeOK, OperationsSound, ItemsHeld, LedgerStep, [Next]_vars
  PROVE  ItemsHeld'
  <1>1. ASSUME NEW p \in Procs, NEW c \in proc'[p].items
        PROVE  c \in Callbacks /\ inbox[c] # NoRow
    <2>1. proc[p].items \subseteq Callbacks
      BY OperationFields DEF TypeOK
    <2>2. CASE proc'[p] = proc[p]
      BY <1>1, <2>1, <2>2 DEF ItemsHeld
    <2>3. CASE proc'[p] # proc[p]
      <3>1. ItemsFrom(p, proc'[p])
        BY <2>3, ItemsOfNext DEF Become, TypeOK
      <3> QED BY <1>1, <3>1 DEF ItemsFrom, ItemsHeld
    <2> QED BY <2>2, <2>3
  <1> QED BY <1>1, NothingDropped DEF ItemsHeld

-----------------------------------------------------------------------------
(* The theorems.                                                           *)

LEMMA InitWInv ==
  ASSUME Init
  PROVE  WInv
  <1>1. IInv
    BY InitIInv
  <1>2. Written
    <2>1. journal = <<>> /\ \A r \in Refs : receipts[r] = NoReceipt
      BY DEF Init
    <2>2. acked = {} /\ \A c \in Callbacks : inbox[c].processed = FALSE
      BY NoRowFields DEF Init
    <2> QED BY <2>1, <2>2 DEF Written, JournalMatchesReceipts, ResolvedIsSettled, AcksAreDurable
  <1>3. Idle.items = {} /\ Idle.pc = "idle" /\ AbsentOrder.key = NoKey
    BY DEF Idle, AbsentOrder
  <1>4. ItemsHeld
    BY <1>3 DEF Init, ItemsHeld
  <1>5. AttemptsRecorded
    <2>1. \A p \in Procs : Attempt(proc[p], p)
      BY <1>3, WorkingSteps DEF Init, Attempt
    <2>2. \A o \in Orders : known[o] = 0
      BY DEF Init
    <2> QED BY <2>1, <2>2 DEF AttemptsRecorded
  <1>6. OneOrderPerKey /\ RecoveryCreateOnce
    BY <1>3 DEF Init, OneOrderPerKey, RecoveryCreateOnce
  <1> QED BY <1>1, <1>2, <1>4, <1>5, <1>6 DEF WInv

LEMMA NextWInv ==
  ASSUME WInv, [Next]_vars
  PROVE  WInv' /\ LedgerStep
  <1>1. LedgerStep
    BY NextLedgerStep DEF WInv, IInv
  <1>2. IInv'
    BY NextIInv DEF WInv
  <1>3. Written' /\ ItemsHeld'
    BY <1>1, WrittenStep, ItemsStep DEF WInv, IInv
  <1>4. Recovery'
    BY RecoveryStep DEF WInv, Recovery
  <1> QED BY <1>1, <1>2, <1>3, <1>4 DEF WInv, Recovery

\* What is written next to the money, and what is recorded of recoveries,
\* holds in every reachable state of the service.
THEOREM WrittenInvariance == Spec => []WInv
  BY InitWInv, NextWInv, PTL DEF Spec

\* SettlePayment writes one event for each receipt it books, and none for
\* duplicates and reviews.
THEOREM JournalIsTheBooks == Spec => []JournalMatchesReceipts
  <1>1. WInv => JournalMatchesReceipts
    BY DEF WInv, Written
  <1> QED BY <1>1, WrittenInvariance, PTL

\* markSettlementInboxProcessed resolves a callback only when its own money is
\* booked, also when the row was read before another process settled.
THEOREM ResolvesOnlySettled == Spec => []ResolvedIsSettled
  <1>1. WInv => ResolvedIsSettled
    BY DEF WInv, Written
  <1> QED BY <1>1, WrittenInvariance, PTL

\* HandleWebhook acknowledges nothing that a crash right after the answer
\* could lose: a booked transfer, a kept payload or the sample.
THEOREM AcksSurvive == Spec => []AcksAreDurable
  <1>1. WInv => AcksAreDurable
    BY DEF WInv, Written
  <1> QED BY <1>1, WrittenInvariance, PTL

\* ReservePaymentOrder gives racing requests with one key one order.
THEOREM KeysReserveOnce == Spec => []OneOrderPerKey
  <1>1. WInv => OneOrderPerKey
    BY DEF WInv
  <1> QED BY <1>1, WrittenInvariance, PTL

\* RenewPaymentOrderOperation commits the recovery attempt before the request:
\* no crash, lost lease or retry sends a second recovery Create for a link
\* that is known to exist.
THEOREM RecoversOnce == Spec => []RecoveryCreateOnce
  <1>1. WInv => RecoveryCreateOnce
    BY DEF WInv
  <1> QED BY <1>1, WrittenInvariance, PTL

\* The whole service, with its leases, requests, worker and failures,
\* implements the ledger: each of its steps is one of PaymentLedger's.
THEOREM ServiceImplementsLedger == Spec => ImplementsLedger
  <1>1. ASSUME WInv, [Next]_vars
        PROVE  [Ledger!LedgerNext]_<<paid, [o \in Orders |-> orders[o].txnId],
                  {c \in Callbacks : inbox[c] # NoRow},
                  {c \in Callbacks : inbox[c].processed}, acked>>
    <2>1. Ledger!LedgerNext \/ UNCHANGED Ledger!ledgerVars
      BY <1>1, NextWInv, LedgerRefined DEF WInv, IInv
    <2> QED BY <2>1 DEF Ledger!ledgerVars
  <1> QED BY <1>1, InitLedger, WrittenInvariance, PTL
          DEF Spec, ImplementsLedger, Ledger!LedgerSpec, Ledger!ledgerVars
=============================================================================
