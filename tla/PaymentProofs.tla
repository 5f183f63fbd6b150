---------------------------- MODULE PaymentProofs ----------------------------
(* Theorems about PaymentService, for every value of its constants.        *)
EXTENDS PaymentService, TLAPS

-----------------------------------------------------------------------------
(* Rows: what the storage transactions return.                             *)

\* A field of an order row may be replaced by any value of its type.
LEMMA OrderFields ==
  ASSUME NEW row \in OrderRow
  PROVE  /\ \A v \in Statuses \cup {"ABSENT"} : [row EXCEPT !.status = v] \in OrderRow
         /\ \A v \in Links : [row EXCEPT !.linkId = v] \in OrderRow
         /\ \A v \in Accounts \cup {NoAccount} : [row EXCEPT !.account = v] \in OrderRow
         /\ \A v \in BOOLEAN : [row EXCEPT !.qrCode = v] \in OrderRow
         /\ \A v \in Refs \cup {NoRef} : [row EXCEPT !.txnId = v] \in OrderRow
         /\ \A v \in ErrorCodes : [row EXCEPT !.lastError = v] \in OrderRow
         /\ \A v \in BOOLEAN : [row EXCEPT !.nextReconcile = v] \in OrderRow
         /\ \A v \in Procs \cup {NoProc} : [row EXCEPT !.token = v] \in OrderRow
         /\ \A v \in BOOLEAN : [row EXCEPT !.leased = v] \in OrderRow
         /\ \A v \in BOOLEAN : [row EXCEPT !.qrTried = v] \in OrderRow
         /\ \A v \in Ages : [row EXCEPT !.age = v] \in OrderRow
  BY DEF OrderRow

\* The codes the service writes are error codes.
LEMMA ErrorCodeType ==
  /\ "" \in ErrorCodes /\ "CREATE_OUTCOME_UNKNOWN" \in ErrorCodes
  /\ "CREATE_REJECTED" \in ErrorCodes /\ "INVALID_CREATE_RESPONSE" \in ErrorCodes
  /\ "PROVIDER_UNAVAILABLE" \in ErrorCodes /\ "PAYMENT_MISMATCH" \in ErrorCodes
  /\ "PAYMENT_DETAILS_PENDING" \in ErrorCodes
  /\ "CANCEL_OUTCOME_UNKNOWN" \in ErrorCodes
  /\ "QR_RECOVERY_CANCEL_PENDING" \in ErrorCodes
  /\ "QR_RECOVERY_CANCELLED" \in ErrorCodes
  BY DEF ErrorCodes

LEMMA AbsentOrderType == AbsentOrder \in OrderRow
  BY DEF AbsentOrder, OrderRow, Statuses, Links, ErrorCodes, Ages

LEMMA ReservedOrderType ==
  ASSUME NEW key \in Keys \cup {NoKey}, NEW tok \in Procs
  PROVE  ReservedOrder(key, tok) \in OrderRow
  BY DEF ReservedOrder, AbsentOrder, OrderRow, Statuses, Links, ErrorCodes, Ages

LEMMA ClaimedOrderType ==
  ASSUME NEW row \in OrderRow, NEW tok \in Procs
  PROVE  ClaimedOrder(row, tok) \in OrderRow
  BY DEF ClaimedOrder, OrderRow

LEMMA RenewedOrderType ==
  ASSUME NEW row \in OrderRow, NEW tried \in BOOLEAN
  PROVE  RenewedOrder(row, tried) \in OrderRow
  BY DEF RenewedOrder, OrderRow

LEMMA CompletedOrderType ==
  ASSUME NEW row \in OrderRow, NEW in \in OrderUpdate
  PROVE  CompletedOrder(row, in) \in OrderRow
  <1> DEFINE target == IF in.status = "" THEN row.status ELSE in.status
             status == IF row.status = "PAID" THEN "PAID" ELSE target
             lnk    == IF row.linkId = "none" THEN in.linkId ELSE row.linkId
             acc    == IF row.account = NoAccount THEN in.account ELSE row.account
             qr     == row.qrCode \/ in.qrCode
             err    == IF row.status = "PAID" THEN row.lastError ELSE in.lastError
             nxt    == /\ ~(row.status = "PAID")
                       /\ in.next \/ target \in {"CREATING", "PROCESSING"}
  <1>1. /\ status \in Statuses \cup {"ABSENT"}
        /\ lnk \in Links
        /\ acc \in Accounts \cup {NoAccount}
        /\ err \in ErrorCodes
    BY DEF OrderRow, OrderUpdate, Statuses
  <1>2. qr \in BOOLEAN /\ nxt \in BOOLEAN
    OBVIOUS
  <1>3. CompletedOrder(row, in) =
          [row EXCEPT !.status = status, !.linkId = lnk, !.account = acc,
                      !.qrCode = qr, !.lastError = err, !.nextReconcile = nxt,
                      !.token = NoProc, !.leased = FALSE]
    BY Zenon DEF CompletedOrder
  <1> HIDE DEF status, lnk, acc, qr, err, nxt
  <1> QED BY <1>1, <1>2, <1>3, OrderFields

LEMMA WokenOrderType ==
  ASSUME NEW row \in OrderRow
  PROVE  WokenOrder(row) \in OrderRow
  BY OrderFields DEF WokenOrder

LEMMA OrderAfterInsertType ==
  ASSUME NEW row \in OrderRow, NEW isNew, NEW reason
  PROVE  OrderAfterInsert(row, isNew, reason) \in OrderRow
  <1>1. WokenOrder(row) \in OrderRow
    BY WokenOrderType
  <1>2. ASSUME NEW w \in OrderRow
        PROVE  w.lastError \in ErrorCodes
    BY DEF OrderRow
  <1>3. "PAYMENT_DETAILS_PENDING" \in ErrorCodes
    BY ErrorCodeType
  <1> QED BY <1>1, <1>2, <1>3, OrderFields DEF OrderAfterInsert

LEMMA PaidOrderType ==
  ASSUME NEW row \in OrderRow, NEW e \in Evidence
  PROVE  PaidOrder(row, e) \in OrderRow
  <1>1. /\ "PAID" \in Statuses /\ e.link \in Links
        /\ e.account \in Accounts \cup {NoAccount}
        /\ e.ref \in Refs \cup {NoRef} /\ "" \in ErrorCodes
    BY DEF Evidence, Statuses, Links, ErrorCodes
  <1> QED BY <1>1, OrderFields DEF PaidOrder

LEMMA NoRowFields == NoRow.reason = "" /\ NoRow.processed = FALSE
  BY DEF NoRow

\* A row may be given any reason of a review.
LEMMA RowReason ==
  ASSUME NEW row \in InboxRow, NEW v \in ReviewReasons
  PROVE  [row EXCEPT !.reason = v] \in InboxRow
  <1> DEFINE Rows == [reason: ReviewReasons \cup {""}, processed: BOOLEAN]
  <1>1. NoRow \in Rows
    BY DEF NoRow
  <1>2. ASSUME NEW r \in [reason: ReviewReasons, processed: BOOLEAN]
        PROVE  r \in Rows
    OBVIOUS
  <1>3. row \in Rows
    BY <1>1, <1>2 DEF InboxRow
  <1> QED BY <1>3 DEF InboxRow

\* A review keeps the inbox a table of rows.
LEMMA InboxAfterInsertType ==
  ASSUME NEW box \in [Callbacks -> InboxRow], NEW c \in Callbacks,
         NEW reason \in ReviewReasons
  PROVE  InboxAfterInsert(box, c, reason) \in [Callbacks -> InboxRow]
  <1>1. [reason |-> reason, processed |-> FALSE] \in InboxRow
    BY DEF InboxRow
  <1>2. box[c] # NoRow => [box[c] EXCEPT !.reason = reason] \in InboxRow
    BY DEF InboxRow
  <1> QED BY <1>1, <1>2 DEF InboxAfterInsert

LEMMA EvidenceFields ==
  ASSUME NEW e \in Evidence
  PROVE  /\ e.order \in Orders /\ e.ref \in Refs
         /\ ReceiptOf(e) \in Receipt
         /\ [ref |-> e.ref, order |-> e.order] \in [ref: Refs, order: Orders]
  BY DEF Evidence, ReceiptOf, Receipt

-----------------------------------------------------------------------------
(* Operations: what the steps of the service return.                       *)

LEMMA UpdateFields ==
  ASSUME NEW u \in OrderUpdate
  PROVE  /\ \A v \in (Statuses \ {"PAID"}) \cup {""} : [u EXCEPT !.status = v] \in OrderUpdate
         /\ \A v \in Links : [u EXCEPT !.linkId = v] \in OrderUpdate
         /\ \A v \in Accounts \cup {NoAccount} : [u EXCEPT !.account = v] \in OrderUpdate
         /\ \A v \in BOOLEAN : [u EXCEPT !.qrCode = v] \in OrderUpdate
         /\ \A v \in ErrorCodes : [u EXCEPT !.lastError = v] \in OrderUpdate
         /\ \A v \in BOOLEAN : [u EXCEPT !.next = v] \in OrderUpdate
  BY DEF OrderUpdate

LEMMA NoUpdateType == NoUpdate \in OrderUpdate
  BY DEF NoUpdate, OrderUpdate, Links, ErrorCodes

LEMMA OperationFields ==
  ASSUME NEW s \in Operation
  PROVE  /\ s.pc \in PCs /\ s.op \in Ops /\ s.at \in Orders \cup {NoOrder}
         /\ s.key \in Keys \cup {NoKey} /\ s.snap \in Snapshot
         /\ s.txns \in SUBSET Transfers /\ s.items \in SUBSET Callbacks
         /\ s.upd \in OrderUpdate
         /\ \A v \in PCs : [s EXCEPT !.pc = v] \in Operation
         /\ \A v \in Ops : [s EXCEPT !.op = v] \in Operation
         /\ \A v \in Orders : [s EXCEPT !.at = v] \in Operation
         /\ \A v \in Keys : [s EXCEPT !.key = v] \in Operation
         /\ \A v \in Snapshot : [s EXCEPT !.snap = v] \in Operation
         /\ \A v \in SUBSET Transfers : [s EXCEPT !.txns = v] \in Operation
         /\ \A v \in SUBSET Callbacks : [s EXCEPT !.items = v] \in Operation
         /\ \A v \in OrderUpdate : [s EXCEPT !.upd = v] \in Operation
  BY DEF Operation

LEMMA IdleType == Idle \in Operation
  BY NoUpdateType DEF Idle, Operation, PCs, Calls, Ops, Snap, AbsentOrder,
     Snapshot, Links, ErrorCodes, Statuses

LEMMA SnapType ==
  ASSUME NEW row \in OrderRow
  PROVE  /\ Snap(row) \in Snapshot
         /\ \A v \in Links : [Snap(row) EXCEPT !.linkId = v] \in Snapshot
  BY DEF OrderRow, Snap, Snapshot

\* An update that may be written for order o when the links are lk.
UpdateOk(u, o, lk) ==
    /\ u \in OrderUpdate
    /\ u.linkId \in {"none", "own"}
    /\ \A st \in {"CANCELLED", "EXPIRED"} : u.status = st => lk[o] = st

\* An operation on a claimed order, and one that a step may leave behind.
Live(s, pd, lk) == /\ s \in Operation
                   /\ s.at \in Orders
                   /\ s.snap.status \in Statuses \ {"PAID"}
                   /\ Sound(s, pd, lk)
Good(s, pd, lk) == s \in Operation /\ Sound(s, pd, lk)

LEMMA NoUpdateOk ==
  ASSUME NEW o, NEW lk
  PROVE  UpdateOk(NoUpdate, o, lk)
  BY NoUpdateType DEF UpdateOk, NoUpdate

LEMMA FailureUpdateOk ==
  ASSUME NEW o, NEW s, s.lastError \in ErrorCodes, NEW code \in ErrorCodes, NEW lk
  PROVE  UpdateOk(FailureUpdate(o, s, code), o, lk)
  <1> DEFINE kept == IF code = "PROVIDER_UNAVAILABLE" /\ s.lastError \in KeptErrors
                     THEN s.lastError ELSE code
             err  == IF orders[o].age = "final" /\ s.status = "CREATING"
                     THEN "CREATE_OUTCOME_UNKNOWN" ELSE kept
  <1>1. err \in ErrorCodes
    BY ErrorCodeType
  <1>2. FailureUpdate(o, s, code) = [NoUpdate EXCEPT !.lastError = err, !.next = TRUE]
    BY DEF FailureUpdate
  <1> HIDE DEF err
  <1> QED BY <1>1, <1>2 DEF UpdateOk, OrderUpdate, NoUpdate, Links

LEMMA TerminalUpdateOk ==
  ASSUME NEW o, NEW status \in Closed, NEW code \in ErrorCodes, NEW lk,
         \A st \in {"CANCELLED", "EXPIRED"} : status = st => lk[o] = st
  PROVE  UpdateOk(TerminalUpdate(o, status, code), o, lk)
  <1>1. TerminalNext(o) \in BOOLEAN
    BY DEF TerminalNext
  <1>2. status \in Statuses \ {"PAID"}
    BY DEF Closed, Statuses
  <1> QED BY <1>1, <1>2 DEF TerminalUpdate, UpdateOk, OrderUpdate, NoUpdate, Links

LEMMA CreatedUpdateOk ==
  ASSUME NEW o, NEW account \in Accounts, NEW lk
  PROVE  UpdateOk(CreatedUpdate(account), o, lk)
  BY ErrorCodeType DEF CreatedUpdate, UpdateOk, OrderUpdate, NoUpdate, Links, Statuses

LEMMA UncertainUpdateOk ==
  ASSUME NEW o, NEW code \in ErrorCodes, NEW lk
  PROVE  UpdateOk(UncertainUpdate(code), o, lk)
  BY DEF UncertainUpdate, UpdateOk, OrderUpdate, NoUpdate, Links, Statuses

LEMMA IdleGood ==
  ASSUME NEW pd, NEW lk
  PROVE  Good(Idle, pd, lk)
  BY IdleType DEF Good, Sound, Idle, Busy, Working, NoUpdate, Snap, AbsentOrder

LEMMA FinishGood ==
  ASSUME NEW s, s.at \in Orders, NEW pd, NEW lk, NEW u, UpdateOk(u, s.at, lk)
  PROVE  Good(ToFinish(s, u), pd, lk)
  <1>1. ToFinish(s, u) \in Operation
    BY IdleType, OperationFields DEF ToFinish, UpdateOk, PCs
  <1>2. /\ ToFinish(s, u).pc = "finish" /\ ToFinish(s, u).at = s.at
        /\ ToFinish(s, u).upd = u /\ ToFinish(s, u).txns = {}
        /\ ToFinish(s, u).snap.status = "ABSENT"
    BY DEF ToFinish, Idle, Snap, AbsentOrder
  <1> QED BY <1>1, <1>2 DEF Good, Sound, Working, UpdateOk

\* The operation moves on to another step, perhaps with another purpose.
LEMMA MoveGood ==
  ASSUME NEW pd, NEW lk, NEW s, Live(s, pd, lk), NEW pc \in Working, NEW op \in Ops
  PROVE  /\ Good([s EXCEPT !.pc = pc], pd, lk)
         /\ Good([s EXCEPT !.pc = pc, !.op = op], pd, lk)
  <1>1. pc \in PCs /\ pc \in Busy
    BY DEF Working, Busy
  <1>2. /\ [s EXCEPT !.pc = pc] \in Operation
        /\ [s EXCEPT !.pc = pc, !.op = op] \in Operation
    BY <1>1, OperationFields DEF Live
  <1> QED BY <1>1, <1>2 DEF Live, Good, Sound, Operation

LEMMA BoundToLive ==
  ASSUME NEW pd, NEW lk, NEW s, Live(s, pd, lk)
  PROVE  Live(BoundTo(s), pd, lk)
  <1>1. /\ s.snap \in Snapshot
        /\ [s.snap EXCEPT !.linkId = "own"] \in Snapshot
        /\ [s.snap EXCEPT !.linkId = "own"].status = s.snap.status
    BY OperationFields DEF Live, Snapshot, Links
  <1>2. BoundTo(s) \in Operation
    BY <1>1, OperationFields DEF Live, BoundTo
  <1> QED BY <1>1, <1>2 DEF BoundTo, Live, Sound, Operation

\* A PAID link is settled with the transactions it shows.
LEMMA PendingGood ==
  ASSUME NEW pd, NEW lk, NEW s, Live(s, pd, lk),
         NEW txns \in SUBSET Transfers, \A t \in txns : t \in pd /\ t.order = s.at
  PROVE  Good([s EXCEPT !.pc = "pending", !.txns = txns], pd, lk)
  <1>1. [s EXCEPT !.pc = "pending", !.txns = txns] \in Operation
    BY OperationFields DEF Live, PCs
  <1> QED BY <1>1 DEF Live, Good, Sound, Operation


\* The answers of a claimed operation: every branch ends in a good operation.
LEMMA GetFailedGood ==
  ASSUME NEW pd, NEW lk, NEW s, Live(s, pd, lk)
  PROVE  /\ Good(GetFailed(s), pd, lk)
         /\ Good(DetailsPending(s), pd, lk)
         /\ Good(AfterMismatch(s), pd, lk)
  <1>1. s.at \in Orders /\ s.snap.lastError \in ErrorCodes
    BY OperationFields DEF Live, Snapshot
  <1>2. \A code \in ErrorCodes :
          Good(ToFinish(s, FailureUpdate(s.at, s.snap, code)), pd, lk)
    BY <1>1, FailureUpdateOk, FinishGood
  <1>3. GetFailureCode(s) \in ErrorCodes
    BY ErrorCodeType DEF GetFailureCode
  <1> QED BY <1>2, <1>3, ErrorCodeType DEF GetFailed, DetailsPending, AfterMismatch

LEMMA ApplyVerifiedLinkGood ==
  ASSUME NEW pd, NEW lk, NEW s, Live(s, pd, lk), NEW status,
         \A st \in {"CANCELLED", "EXPIRED"} : status = st => lk[s.at] = st,
         NEW txns \in SUBSET Transfers, \A t \in txns : t \in pd /\ t.order = s.at
  PROVE  Good(ApplyVerifiedLink(s, status, txns), pd, lk)
  <1>1. s.at \in Orders
    BY DEF Live
  <1>2. CASE status = "PAID"
    <2>1. ApplyVerifiedLink(s, status, txns) = [s EXCEPT !.pc = "pending", !.txns = txns]
      BY <1>2 DEF ApplyVerifiedLink, Closed
    <2>2. Good([s EXCEPT !.pc = "pending", !.txns = txns], pd, lk)
      BY PendingGood, Zenon
    <2> QED BY <2>1, <2>2
  <1>3. CASE status \in {"PENDING", "PROCESSING", "UNDERPAID"}
    <2>1. "cancel" \in Working /\ "recreate" \in Working
      BY DEF Working, Busy, PCs, Calls
    <2>2. {"cancel", "recoverCancel", "recoverKnown"} \subseteq Ops
      BY DEF Ops
    <2>3. Good(ToCancel(s, "cancel"), pd, lk)
      BY <2>1, <2>2, MoveGood DEF ToCancel
    <2>4. /\ Good(ToCancel(BoundTo(s), "recoverCancel"), pd, lk)
          /\ Good([BoundTo(s) EXCEPT !.pc = "recreate", !.op = "recoverKnown"], pd, lk)
      BY <2>1, <2>2, BoundToLive, MoveGood DEF ToCancel
    <2>5. UpdateOk([NoUpdate EXCEPT !.status = status, !.linkId = "own", !.next = TRUE], s.at, lk)
      BY <1>3, ErrorCodeType DEF UpdateOk, OrderUpdate, NoUpdate, Links, Statuses
    <2>6. Good(ToFinish(s, [NoUpdate EXCEPT !.status = status, !.linkId = "own", !.next = TRUE]), pd, lk)
      BY <1>1, <2>5, FinishGood
    <2>7. ApplyVerifiedLink(s, status, txns) \in
            {ToCancel(s, "cancel"), ToCancel(BoundTo(s), "recoverCancel"),
             [BoundTo(s) EXCEPT !.pc = "recreate", !.op = "recoverKnown"],
             ToFinish(s, [NoUpdate EXCEPT !.status = status, !.linkId = "own", !.next = TRUE])}
      BY <1>3 DEF ApplyVerifiedLink, Closed
    <2> QED BY <2>3, <2>4, <2>6, <2>7
  <1>4. CASE status \in Closed
    <2> DEFINE code == IF s.snap.qrTried /\ ~s.snap.qrCode /\ status = "CANCELLED"
                       THEN "QR_RECOVERY_CANCELLED" ELSE ""
    <2>1. code \in ErrorCodes
      BY ErrorCodeType
    <2>2. Good(ToFinish(s, TerminalUpdate(s.at, status, code)), pd, lk)
      BY <1>1, <1>4, <2>1, TerminalUpdateOk, FinishGood
    <2>3. ApplyVerifiedLink(s, status, txns) = ToFinish(s, TerminalUpdate(s.at, status, code))
      BY <1>4 DEF ApplyVerifiedLink, Closed
    <2> QED BY <2>2, <2>3
  <1>5. CASE status \notin {"PAID", "PENDING", "PROCESSING", "UNDERPAID"} \cup Closed
    BY <1>5, GetFailedGood DEF ApplyVerifiedLink, DetailsPending, Closed
  <1> QED BY <1>2, <1>3, <1>4, <1>5

LEMMA RecoverAbsentGood ==
  ASSUME NEW pd, NEW lk, NEW s, Live(s, pd, lk)
  PROVE  Good(RecoverAbsent(s), pd, lk)
  <1>1. s.at \in Orders /\ s.snap.status \in Statuses \ {"PAID"}
    BY DEF Live
  <1>2. "cancel" \in Working /\ "recreate" \in Working
    BY DEF Working, Busy, PCs, Calls
  <1>3. {"cancel", "recoverCancel", "recoverAbsent"} \subseteq Ops
    BY DEF Ops
  <1>4. /\ Good(ToCancel(s, "recoverCancel"), pd, lk)
        /\ Good(ToCancel(s, "cancel"), pd, lk)
        /\ Good([s EXCEPT !.pc = "recreate", !.op = "recoverAbsent"], pd, lk)
    BY <1>2, <1>3, MoveGood DEF ToCancel
  <1>5. TerminalNext(s.at) \in BOOLEAN
    BY DEF TerminalNext
  <1>6. UpdateOk([NoUpdate EXCEPT !.status = "FAILED", !.lastError = "CREATE_REJECTED",
                                  !.next = TerminalNext(s.at)], s.at, lk)
    BY <1>5, ErrorCodeType DEF UpdateOk, OrderUpdate, NoUpdate, Links, Statuses
  <1>7. UpdateOk([NoUpdate EXCEPT !.status = s.snap.status,
                                  !.lastError = "CREATE_OUTCOME_UNKNOWN",
                                  !.next = TerminalNext(s.at)], s.at, lk)
    BY <1>1, <1>5, ErrorCodeType DEF UpdateOk, OrderUpdate, NoUpdate, Links, Live, Sound
  <1> QED BY <1>1, <1>4, <1>6, <1>7, FinishGood DEF RecoverAbsent


LEMMA CompleteCancellationGood ==
  ASSUME NEW pd, NEW lk, NEW s, Live(s, pd, lk),
         NEW status \in {"PAID", "CANCELLED", "EXPIRED"},
         \A st \in {"CANCELLED", "EXPIRED"} : status = st => lk[s.at] = st,
         NEW txns \in SUBSET Transfers, \A t \in txns : t \in pd /\ t.order = s.at
  PROVE  Good(CompleteCancellation(s, status, txns), pd, lk)
  <1>1. Good([s EXCEPT !.pc = "pending", !.txns = txns], pd, lk)
    BY PendingGood, Zenon
  <1>2. s.at \in Orders /\ "" \in ErrorCodes
    BY ErrorCodeType DEF Live
  <1>3. CASE status = "PAID"
    BY <1>1, <1>3 DEF CompleteCancellation
  <1>4. CASE status # "PAID"
    <2>1. status \in Closed
      BY <1>4 DEF Closed
    <2>2. UpdateOk(TerminalUpdate(s.at, status, ""), s.at, lk)
      BY <1>2, <2>1, TerminalUpdateOk
    <2> QED BY <1>2, <1>4, <2>2, FinishGood DEF CompleteCancellation
  <1> QED BY <1>3, <1>4

LEMMA AfterGetGood ==
  ASSUME NEW pd, NEW lk, NEW s, Live(s, pd, lk), NEW status,
         \A st \in {"CANCELLED", "EXPIRED"} : status = st => lk[s.at] = st,
         NEW txns \in SUBSET Transfers, \A t \in txns : t \in pd /\ t.order = s.at
  PROVE  Good(AfterGet(s, status, txns), pd, lk)
  <1>1. Good(ApplyVerifiedLink(s, status, txns), pd, lk)
    BY ApplyVerifiedLinkGood, Zenon
  <1>2. ASSUME status \in {"PAID", "CANCELLED", "EXPIRED"}
        PROVE  Good(CompleteCancellation(s, status, txns), pd, lk)
    BY <1>2, CompleteCancellationGood, Zenon
  <1>3. Good(GetFailed(s), pd, lk)
    BY GetFailedGood
  <1>4. \/ AfterGet(s, status, txns) = ApplyVerifiedLink(s, status, txns)
        \/ /\ AfterGet(s, status, txns) = CompleteCancellation(s, status, txns)
           /\ status \in {"PAID", "CANCELLED", "EXPIRED"}
        \/ AfterGet(s, status, txns) = GetFailed(s)
    BY DEF AfterGet
  <1> QED BY <1>1, <1>2, <1>3, <1>4

LEMMA AfterAbsentGood ==
  ASSUME NEW pd, NEW lk, NEW s, Live(s, pd, lk)
  PROVE  Good(AfterAbsent(s), pd, lk)
  BY RecoverAbsentGood, GetFailedGood DEF AfterAbsent

LEMMA RecreateOutcomeGood ==
  ASSUME NEW pd, NEW lk, NEW s, Live(s, pd, lk), NEW reply, NEW account \in Accounts
  PROVE  Good(RecreateOutcome(s, reply, account), pd, lk)
  <1>1. s.at \in Orders /\ s.snap.lastError \in ErrorCodes
    BY OperationFields DEF Live, Snapshot
  <1>2. Good(ToFinish(s, CreatedUpdate(account)), pd, lk)
    BY <1>1, CreatedUpdateOk, FinishGood
  <1>3. Good(ToCancel(s, "recoverCancel"), pd, lk)
    BY MoveGood DEF ToCancel, Working, Busy, PCs, Calls, Ops
  <1> DEFINE u == FailureUpdate(s.at, s.snap, "CREATE_OUTCOME_UNKNOWN")
  <1>4. UpdateOk(u, s.at, lk)
    BY <1>1, ErrorCodeType, FailureUpdateOk
  <1>5. UpdateOk([u EXCEPT !.lastError = "CREATE_REJECTED"], s.at, lk)
    <2> HIDE DEF u
    <2> QED BY <1>4, ErrorCodeType DEF UpdateOk, OrderUpdate
  <1>6. /\ Good(ToFinish(s, u), pd, lk)
        /\ Good(ToFinish(s, [u EXCEPT !.lastError = "CREATE_REJECTED"]), pd, lk)
    BY <1>1, <1>4, <1>5, FinishGood
  <1> QED BY <1>2, <1>3, <1>6 DEF RecreateOutcome

LEMMA CreateOutcomeOk ==
  ASSUME NEW reply \in CreateReplies, NEW account \in Accounts, NEW o, NEW lk
  PROVE  UpdateOk(CreateOutcome(reply, account), o, lk)
  <1>1. UpdateOk(CreatedUpdate(account), o, lk)
    BY CreatedUpdateOk
  <1>2. \A code \in ErrorCodes : UpdateOk(UncertainUpdate(code), o, lk)
    BY UncertainUpdateOk
  <1>3. CreateOutcome(reply, account) \in
          {CreatedUpdate(account), UncertainUpdate("INVALID_CREATE_RESPONSE"),
           UncertainUpdate("CREATE_REJECTED"), UncertainUpdate("CREATE_OUTCOME_UNKNOWN")}
    BY DEF CreateOutcome, CreateReplies
  <1> QED BY <1>1, <1>2, <1>3, ErrorCodeType

-----------------------------------------------------------------------------
(* Steps keep the type and the soundness of the operations.                *)

\* The provider forgets no transfer and reopens no link.
ProviderStep == /\ paid \subseteq paid'
                /\ \A o \in Orders : link[o] \in {"CANCELLED", "EXPIRED"} =>
                                        link'[o] = link[o]

LEMMA SoundStable ==
  ASSUME ProviderStep, NEW s, Sound(s, paid, link)
  PROVE  Sound(s, paid', link')
  BY DEF ProviderStep, Sound

\* One process changes its operation, the others are as they were.
LEMMA BecomeGood ==
  ASSUME TypeOK, OperationsSound, ProviderStep, NEW p \in Procs, NEW s,
         Become(p, s), Good(s, paid', link')
  PROVE  proc' \in [Procs -> Operation] /\ OperationsSound'
  <1>1. proc' \in [Procs -> Operation]
    BY DEF TypeOK, Become, Good
  <1>2. ASSUME NEW q \in Procs
        PROVE  Sound(proc'[q], paid', link')
    <2>1. CASE q = p
      BY <2>1 DEF TypeOK, Become, Good
    <2>2. CASE q # p
      <3>1. proc'[q] = proc[q] /\ Sound(proc[q], paid, link)
        BY <2>2 DEF TypeOK, Become, OperationsSound
      <3> QED BY <3>1, SoundStable
    <2> QED BY <2>1, <2>2
  <1> QED BY <1>1, <1>2 DEF OperationsSound

LEMMA SameOperations ==
  ASSUME OperationsSound, ProviderStep, UNCHANGED proc
  PROVE  OperationsSound'
  BY SoundStable DEF OperationsSound

\* An operation that works on its order is live.
LEMMA WorkingLive ==
  ASSUME TypeOK, OperationsSound, NEW p \in Procs, proc[p].pc \in Working
  PROVE  /\ Live(proc[p], paid, link)
         /\ ProviderStep => Live(proc[p], paid', link')
  <1>1. proc[p] \in Operation /\ Sound(proc[p], paid, link)
    BY DEF TypeOK, OperationsSound
  <1>2. proc[p].pc \in Busy
    BY DEF Working
  <1> QED BY <1>1, <1>2, SoundStable DEF Live, Sound


\* The ways in which an operation starts.
LEMMA StartGood ==
  ASSUME NEW pd, NEW lk
  PROVE  /\ Good([Idle EXCEPT !.pc = "scan"], pd, lk)
         /\ \A k \in Keys : Good([Idle EXCEPT !.pc = "reserve", !.op = "create", !.key = k], pd, lk)
         /\ \A o \in Orders : Good([Idle EXCEPT !.pc = "create", !.op = "create", !.at = o], pd, lk)
  <1>1. /\ [Idle EXCEPT !.pc = "scan"] \in Operation
        /\ \A k \in Keys : [Idle EXCEPT !.pc = "reserve", !.op = "create", !.key = k] \in Operation
        /\ \A o \in Orders : [Idle EXCEPT !.pc = "create", !.op = "create", !.at = o] \in Operation
    BY IdleType, OperationFields DEF PCs, Calls, Ops
  <1>2. /\ Idle.upd.status = "" /\ Idle.upd.linkId = "none"
        /\ Idle.snap.status = "ABSENT" /\ Idle.txns = {}
    BY DEF Idle, NoUpdate, Snap, AbsentOrder
  <1>3. "scan" \notin Busy /\ "reserve" \notin Busy /\ "create" \notin Working
        /\ "scan" \notin Working /\ "reserve" \notin Working
    BY DEF Busy, Working
  <1> QED BY <1>1, <1>2, <1>3, IdleType DEF Good, Sound, Operation

LEMMA ClaimGood ==
  ASSUME NEW pd, NEW lk, NEW row \in OrderRow, NEW o \in Orders,
         row.status \notin {"ABSENT", "PAID"},
         \A st \in {"CANCELLED", "EXPIRED"} : row.status = st => lk[o] = st,
         NEW pc \in {"get", "cancel"}, NEW op \in Ops
  PROVE  Good([Idle EXCEPT !.pc = pc, !.op = op, !.at = o, !.snap = Snap(row)], pd, lk)
  <1> DEFINE s == [Idle EXCEPT !.pc = pc, !.op = op, !.at = o, !.snap = Snap(row)]
  <1>1. pc \in PCs
    BY DEF PCs
  <1>2. s \in Operation
    BY <1>1, IdleType, SnapType, OperationFields
  <1>3. /\ s.pc = pc /\ s.at = o /\ s.snap.status = row.status
        /\ s.upd = NoUpdate /\ s.txns = {}
    BY DEF Idle, Snap
  <1>4. row.status \in Statuses \ {"PAID"}
    BY DEF OrderRow
  <1>5. NoUpdate.status = "" /\ NoUpdate.linkId = "none"
    BY DEF NoUpdate
  <1> HIDE DEF s
  <1>6. Sound(s, pd, lk)
    BY <1>3, <1>4, <1>5 DEF Sound
  <1> QED BY <1>2, <1>6 DEF Good, s

\* What every process step leaves to be shown.
LEMMA ProcStep ==
  ASSUME TypeOK, OperationsSound, NEW p \in Procs, NEW s,
         Become(p, s), Good(s, paid', link'),
         ProviderStep,
         orders' \in [Orders -> OrderRow],
         receipts' \in [Refs -> Receipt \cup {NoReceipt}],
         inbox' \in [Callbacks -> InboxRow],
         journal' \in Seq([ref: Refs, order: Orders]),
         batch' \in SUBSET Orders,
         UNCHANGED <<gate, acked, paid>>,
         link' \in [Orders -> {"absent", "open"} \cup Closed],
         late' \in SUBSET Orders,
         known' \in [Orders -> Nat],
         faults' \in 0..FaultBudget
  PROVE  TypeOK' /\ OperationsSound'
  <1>1. proc' \in [Procs -> Operation] /\ OperationsSound'
    BY BecomeGood
  <1> QED BY <1>1 DEF TypeOK

LEMMA CreateOrderStep ==
  ASSUME TypeOK, OperationsSound, NEW p \in Procs, NEW k \in Keys, CreateOrder(p, k)
  PROVE  TypeOK' /\ OperationsSound'
  <1> DEFINE s == [Idle EXCEPT !.pc = "reserve", !.op = "create", !.key = k]
  <1>1. Good(s, paid', link')
    BY StartGood
  <1>2. /\ Become(p, s) /\ ProviderStep
        /\ UNCHANGED <<orders, receipts, inbox, journal, gate, batch, acked,
                       link, paid, late, known, faults>>
    BY DEF CreateOrder, db, provider, ProviderStep
  <1> HIDE DEF s
  <1> QED BY <1>1, <1>2, ProcStep DEF TypeOK

LEMMA ReserveStep ==
  ASSUME TypeOK, OperationsSound, NEW p \in Procs, ReservePaymentOrder(p)
  PROVE  TypeOK' /\ OperationsSound'
  <1>1. /\ ProviderStep
        /\ UNCHANGED <<receipts, inbox, journal, gate, batch, acked,
                       link, paid, late, known, faults>>
    BY DEF ReservePaymentOrder, provider, ProviderStep
  <1>2. CASE Become(p, Idle) /\ UNCHANGED orders
    <2>1. Good(Idle, paid', link')
      BY IdleGood
    <2> QED BY <1>1, <1>2, <2>1, ProcStep DEF TypeOK
  <1>3. ASSUME NEW o \in Orders,
               orders' = [orders EXCEPT ![o] = ReservedOrder(proc[p].key, p)],
               Become(p, [Idle EXCEPT !.pc = "create", !.op = "create", !.at = o])
        PROVE  TypeOK' /\ OperationsSound'
    <2>1. Good([Idle EXCEPT !.pc = "create", !.op = "create", !.at = o], paid', link')
      BY StartGood
    <2>2. proc[p].key \in Keys \cup {NoKey}
      BY OperationFields DEF TypeOK
    <2>3. orders' \in [Orders -> OrderRow]
      BY <1>3, <2>2, ReservedOrderType DEF TypeOK
    <2> QED BY <1>1, <1>3, <2>1, <2>3, ProcStep DEF TypeOK
  <1> QED BY <1>2, <1>3 DEF ReservePaymentOrder

LEMMA ProviderCreateStep ==
  ASSUME TypeOK, NEW o \in Orders, NEW reply, ProviderCreate(o, reply)
  PROVE  /\ ProviderStep
         /\ link' \in [Orders -> {"absent", "open"} \cup Closed]
         /\ late' \in SUBSET Orders /\ faults' \in 0..FaultBudget
  <1>1. faults' \in 0..FaultBudget
    BY ServiceAssumption DEF ProviderCreate, Fault, TypeOK
  <1>2. late' \in SUBSET Orders /\ paid' = paid
    BY DEF ProviderCreate, TypeOK
  <1>3. \/ UNCHANGED link
        \/ link[o] \in {"absent", "open"} /\ link' = [link EXCEPT ![o] = "open"]
    BY DEF ProviderCreate
  <1> QED BY <1>1, <1>2, <1>3 DEF TypeOK, ProviderStep

LEMMA CreateCallStep ==
  ASSUME TypeOK, OperationsSound, NEW p \in Procs, CreateCall(p)
  PROVE  TypeOK' /\ OperationsSound'
  <1>1. PICK reply \in CreateReplies, account \in Accounts :
          /\ ProviderCreate(proc[p].at, reply)
          /\ Become(p, ToFinish(proc[p], CreateOutcome(reply, account)))
    BY DEF CreateCall
  <1>2. proc[p].at \in Orders
    BY DEF CreateCall, OperationsSound, Sound, Busy, PCs, Calls
  <1>3. /\ ProviderStep /\ UNCHANGED <<orders, receipts, inbox, journal, gate,
                                       batch, acked, paid, known>>
        /\ link' \in [Orders -> {"absent", "open"} \cup Closed]
        /\ late' \in SUBSET Orders /\ faults' \in 0..FaultBudget
    BY <1>1, <1>2, ProviderCreateStep DEF CreateCall, ProviderCreate, db
  <1>4. Good(ToFinish(proc[p], CreateOutcome(reply, account)), paid', link')
    BY <1>2, CreateOutcomeOk, FinishGood
  <1> QED BY <1>1, <1>3, <1>4, ProcStep DEF TypeOK


LEMMA ClaimStep ==
  ASSUME TypeOK, OperationsSound, ClosedByProvider,
         NEW p \in Procs, NEW o \in Orders, Claimable(orders[o]),
         NEW op \in Ops, NEW pc \in {"get", "cancel"}, Claim(p, o, op, pc),
         batch' \in SUBSET Orders,
         UNCHANGED <<receipts, inbox, journal, gate, acked, provider, known, faults>>
  PROVE  TypeOK' /\ OperationsSound'
  <1> DEFINE s == [Idle EXCEPT !.pc = pc, !.op = op, !.at = o, !.snap = Snap(orders[o])]
  <1>1. orders[o] \in OrderRow /\ orders[o].status \notin {"ABSENT", "PAID"}
    BY DEF TypeOK, Claimable
  <1>2. ProviderStep /\ UNCHANGED <<link, paid, late>>
    BY DEF provider, ProviderStep
  <1>3. Good(s, paid', link')
    BY <1>1, <1>2, ClaimGood DEF ClosedByProvider
  <1>4. orders' \in [Orders -> OrderRow]
    BY <1>1, ClaimedOrderType DEF Claim, TypeOK
  <1>5. Become(p, s)
    BY DEF Claim
  <1> HIDE DEF s
  <1> QED BY <1>2, <1>3, <1>4, <1>5, ProcStep DEF TypeOK

LEMMA CancelOrderStep ==
  ASSUME TypeOK, OperationsSound, ClosedByProvider,
         NEW p \in Procs, NEW o \in Orders, CancelOrder(p, o)
  PROVE  TypeOK' /\ OperationsSound'
  <1>1. "cancel" \in Ops
    BY DEF Ops
  <1> QED BY <1>1, ClaimStep DEF CancelOrder, TypeOK

LEMMA ReconcileOrderStep ==
  ASSUME TypeOK, OperationsSound, ClosedByProvider, NEW o \in Orders, ReconcileOrder(o)
  PROVE  TypeOK' /\ OperationsSound'
  <1>1. "reconcile" \in Ops /\ Worker \in Procs
    BY ServiceAssumption DEF Ops
  <1>2. CASE Claimable(orders[o]) /\ Claim(Worker, o, "reconcile", "get") /\ batch' = batch \ {o}
    BY <1>1, <1>2, ClaimStep DEF ReconcileOrder, TypeOK
  <1>3. CASE UNCHANGED <<orders, proc>>
    <2>1. ProviderStep
      BY DEF ReconcileOrder, provider, ProviderStep
    <2>2. OperationsSound'
      BY <1>3, <2>1, SameOperations
    <2> QED BY <1>3, <2>2 DEF ReconcileOrder, provider, TypeOK
  <1> QED BY <1>2, <1>3 DEF ReconcileOrder

LEMMA WakeStep ==
  ASSUME TypeOK, OperationsSound, WakePendingPaymentCallbacks
  PROVE  TypeOK' /\ OperationsSound'
  <1>1. /\ ProviderStep /\ Worker \in Procs
        /\ Become(Worker, [Idle EXCEPT !.pc = "scan"])
        /\ UNCHANGED <<receipts, journal, gate, batch, acked, link, paid, late, known, faults>>
    BY ServiceAssumption DEF WakePendingPaymentCallbacks, provider, ProviderStep
  <1>2. Good([Idle EXCEPT !.pc = "scan"], paid', link')
    BY StartGood
  <1>3. orders' \in [Orders -> OrderRow]
    BY WokenOrderType DEF WakePendingPaymentCallbacks, TypeOK
  <1>4. inbox' \in [Callbacks -> InboxRow]
    <2>1. ASSUME NEW c \in Callbacks, inbox[c].reason = "UNKNOWN_ORDER"
          PROVE  [inbox[c] EXCEPT !.reason = "AWAITING_ORDER_BIND"] \in InboxRow
      <3>1. inbox[c] \in [reason: ReviewReasons, processed: BOOLEAN]
        <4>1. inbox[c] \in InboxRow
          BY DEF TypeOK
        <4>2. inbox[c] # NoRow
          BY <2>1, NoRowFields
        <4> QED BY <4>1, <4>2 DEF InboxRow
      <3>2. "AWAITING_ORDER_BIND" \in ReviewReasons
        BY DEF ReviewReasons, OpenReasons, BindReasons
      <3> QED BY <3>1, <3>2 DEF InboxRow
    <2> QED BY <2>1 DEF WakePendingPaymentCallbacks, Unknown, TypeOK
  <1> QED BY <1>1, <1>2, <1>3, <1>4, ProcStep DEF TypeOK

LEMMA DueStep ==
  ASSUME TypeOK, OperationsSound, DuePaymentOrders
  PROVE  TypeOK' /\ OperationsSound'
  <1>1. /\ ProviderStep /\ Worker \in Procs /\ Become(Worker, Idle)
        /\ batch' \in SUBSET Orders
        /\ UNCHANGED <<orders, receipts, inbox, journal, gate, acked,
                       link, paid, late, known, faults>>
    BY ServiceAssumption DEF DuePaymentOrders, db, provider, ProviderStep
  <1>2. Good(Idle, paid', link')
    BY IdleGood
  <1> QED BY <1>1, <1>2, ProcStep DEF TypeOK

\* A renewal, or its failure, before a Get or a Cancel.
LEMMA RenewStep ==
  ASSUME TypeOK, OperationsSound, NEW p \in Procs,
         RenewForGet(p) \/ RenewForCancel(p)
  PROVE  TypeOK' /\ OperationsSound'
  <1>1. proc[p].pc \in Working
    BY DEF RenewForGet, RenewForCancel, Working, Busy, PCs, Calls
  <1>2. /\ ProviderStep
        /\ UNCHANGED <<receipts, inbox, journal, gate, batch, acked,
                       link, paid, late, known, faults>>
    BY DEF RenewForGet, RenewForCancel, provider, ProviderStep
  <1>3. Live(proc[p], paid', link')
    BY <1>1, <1>2, WorkingLive
  <1>4. proc[p].op \in Ops /\ proc[p].at \in Orders
    BY <1>3, OperationFields DEF Live
  <1>5. /\ Good([proc[p] EXCEPT !.pc = "getCall"], paid', link')
        /\ Good([proc[p] EXCEPT !.pc = "cancelCall"], paid', link')
        /\ Good([proc[p] EXCEPT !.pc = "get"], paid', link')
        /\ Good(GetFailed(proc[p]), paid', link')
    <2>1. "getCall" \in Working /\ "cancelCall" \in Working /\ "get" \in Working
      BY DEF Working, Busy, PCs, Calls
    <2> QED BY <1>3, <1>4, <2>1, MoveGood, GetFailedGood
  <1>6. orders' \in [Orders -> OrderRow]
    <2>1. FALSE \in BOOLEAN
      OBVIOUS
    <2>2. RenewedOrder(orders[proc[p].at], FALSE) \in OrderRow
      BY <1>4, <2>1, RenewedOrderType DEF TypeOK
    <2> QED BY <1>4, <2>2 DEF RenewForGet, RenewForCancel, Renew, TypeOK
  <1>7. PICK s \in {[proc[p] EXCEPT !.pc = "getCall"], [proc[p] EXCEPT !.pc = "cancelCall"],
                    [proc[p] EXCEPT !.pc = "get"], GetFailed(proc[p])} : Become(p, s)
    BY DEF RenewForGet, RenewForCancel
  <1> QED BY <1>2, <1>5, <1>6, <1>7, ProcStep DEF TypeOK


LEMMA RenewForCreateStep ==
  ASSUME TypeOK, OperationsSound, OrdersBound, ClosedByProvider,
         NEW p \in Procs, RenewForCreate(p)
  PROVE  TypeOK' /\ OperationsSound'
  <1> DEFINE o == proc[p].at
             isKnown == proc[p].op = "recoverKnown"
             row == RenewedOrder(orders[o], isKnown)
             lnk == IF proc[p].snap.linkId = "none" THEN Snap(row).linkId
                    ELSE proc[p].snap.linkId
             snap == [Snap(row) EXCEPT !.linkId = lnk]
             next == [proc[p] EXCEPT !.pc = "recreateCall", !.snap = snap]
  <1>1. proc[p].pc \in Working /\ "recreateCall" \in Working /\ "recreateCall" \in PCs
    BY DEF RenewForCreate, Working, Busy, PCs, Calls
  <1>2. /\ ProviderStep
        /\ UNCHANGED <<receipts, inbox, journal, gate, acked,
                       link, paid, late, known, faults>>
    BY DEF RenewForCreate, provider, ProviderStep
  <1>3. Live(proc[p], paid', link')
    BY <1>1, <1>2, WorkingLive
  <1>4. o \in Orders /\ proc[p] \in Operation /\ proc[p].snap \in Snapshot
    BY <1>3, OperationFields DEF Live
  <1>5. isKnown \in BOOLEAN
    OBVIOUS
  <1>6. row \in OrderRow /\ row.status = orders[o].status
    <2>1. orders[o] \in OrderRow
      BY <1>4 DEF TypeOK
    <2>2. row.status = orders[o].status
      BY <2>1 DEF RenewedOrder, OrderRow
    <2> HIDE DEF isKnown
    <2> QED BY <1>5, <2>1, <2>2, RenewedOrderType
  <1>7. CASE CanRenew(p) /\ Renew(p, isKnown) /\ Become(p, next) /\ UNCHANGED batch
    <2>1. snap \in Snapshot /\ snap.status = orders[o].status
      <3>1. lnk \in Links
        BY <1>4, <1>6 DEF Snapshot, Snap, OrderRow
      <3>2. Snap(row).status = row.status
        BY DEF Snap
      <3> HIDE DEF lnk, row
      <3> QED BY <1>6, <3>1, <3>2, SnapType DEF Snapshot
    <2>2. /\ orders[o].status \in Statuses \ {"PAID"}
          /\ orders[o].token = p
      <3>1. orders[o] \in OrderRow /\ orders[o].token = p /\ orders[o].status # "PAID"
        BY <1>4, <1>7 DEF TypeOK, CanRenew, Renewable
      <3>2. AbsentOrder.token = NoProc /\ p # NoProc
        BY NullAssumption DEF AbsentOrder
      <3> QED BY <1>4, <3>1, <3>2 DEF OrdersBound, OrderRow
    <2>3. \A st \in {"CANCELLED", "EXPIRED"} : snap.status = st => link'[o] = st
      BY <1>2, <1>4, <2>1 DEF ClosedByProvider
    <2> HIDE DEF snap
    <2>4. next \in Operation
      BY <1>1, <1>4, <2>1, OperationFields
    <2>5. Good(next, paid', link')
      BY <1>3, <1>4, <2>1, <2>2, <2>3, <2>4 DEF Good, Live, Sound, Operation
    <2>6. orders' \in [Orders -> OrderRow]
      BY <1>4, <1>6, <1>7 DEF Renew, TypeOK
    <2> HIDE DEF next
    <2> QED BY <1>2, <1>7, <2>5, <2>6, ProcStep DEF TypeOK
  <1>8. CASE /\ Become(p, ToFinish(proc[p], FailureUpdate(o, proc[p].snap, "CREATE_OUTCOME_UNKNOWN")))
             /\ UNCHANGED <<orders, batch>>
    <2>1. Good(ToFinish(proc[p], FailureUpdate(o, proc[p].snap, "CREATE_OUTCOME_UNKNOWN")), paid', link')
      BY <1>4, ErrorCodeType, FailureUpdateOk, FinishGood DEF Snapshot
    <2> QED BY <1>2, <1>8, <2>1, ProcStep DEF TypeOK
  <1>9. CASE Abandon(p) /\ UNCHANGED orders
    <2>1. Good(Idle, paid', link')
      BY IdleGood
    <2>2. Become(p, Idle) /\ batch' \in SUBSET Orders
      BY <1>9 DEF Abandon, TypeOK
    <2> QED BY <1>2, <1>9, <2>1, <2>2, ProcStep DEF TypeOK
  <1> QED BY <1>7, <1>8, <1>9 DEF RenewForCreate

\* What the provider reports closed is closed that way.
LEMMA ReportedClosed ==
  ASSUME NEW o, NEW status \in ReportedStatus(o)
  PROVE  \A st \in {"CANCELLED", "EXPIRED"} : status = st => link[o] = st
  BY DEF ReportedStatus

LEMMA GetCallStep ==
  ASSUME TypeOK, OperationsSound, NEW p \in Procs, GetCall(p)
  PROVE  TypeOK' /\ OperationsSound'
  <1> DEFINE s == proc[p]
  <1>1. s.pc \in Working
    BY DEF GetCall, Working, Busy, PCs, Calls
  <1>2. /\ ProviderStep
        /\ UNCHANGED <<orders, receipts, inbox, journal, gate, batch, acked,
                       link, paid, late, known>>
    BY DEF GetCall, db, provider, ProviderStep
  <1>3. Live(s, paid', link')
    BY <1>1, <1>2, WorkingLive
  <1>4. faults' \in 0..FaultBudget
    BY ServiceAssumption DEF GetCall, Fault, TypeOK
  <1>5. PaidFor(s.at) \in SUBSET Transfers /\ \A t \in PaidFor(s.at) : t \in paid' /\ t.order = s.at
    BY <1>2 DEF PaidFor, TypeOK
  <1>6. ASSUME NEW status \in ReportedStatus(s.at)
        PROVE  Good(AfterGet(s, status, PaidFor(s.at)), paid', link')
    <2>1. \A st \in {"CANCELLED", "EXPIRED"} : status = st => link'[s.at] = st
      BY <1>2, ReportedClosed
    <2> HIDE DEF s
    <2> QED BY <1>3, <1>5, <2>1, AfterGetGood, Zenon
  <1>7. /\ Good(AfterGet(s, "PAID", {}), paid', link')
        /\ Good(AfterGet(s, "OTHER", {}), paid', link')
    <2> HIDE DEF s
    <2>1. {} \in SUBSET Transfers /\ \A t \in {} : t \in paid' /\ t.order = s.at
      OBVIOUS
    <2> QED BY <1>3, <2>1, AfterGetGood
  <1>8. /\ Good(AfterMismatch(s), paid', link') /\ Good(AfterAbsent(s), paid', link')
        /\ Good(GetFailed(s), paid', link')
    BY <1>3, GetFailedGood, AfterAbsentGood
  <1>9. \E n : Become(p, n) /\ Good(n, paid', link')
    BY <1>6, <1>7, <1>8 DEF GetCall
  <1> QED BY <1>2, <1>4, <1>9, ProcStep DEF TypeOK


LEMMA CancelCallStep ==
  ASSUME TypeOK, OperationsSound, NEW p \in Procs, CancelCall(p)
  PROVE  TypeOK' /\ OperationsSound'
  <1> DEFINE s == proc[p]
             o == s.at
  <1>1. s.pc \in Working /\ "get" \in Working
    BY DEF CancelCall, Working, Busy, PCs, Calls
  <1>2. UNCHANGED <<orders, receipts, inbox, journal, gate, batch, acked, paid, late, known>>
    BY DEF CancelCall, db
  <1>3. o \in Orders
    BY <1>1, WorkingLive DEF Live
  <1>4. faults' \in 0..FaultBudget
    BY ServiceAssumption DEF CancelCall, Fault, TypeOK
  <1>5. \/ UNCHANGED link
        \/ link[o] = "open" /\ link' = [link EXCEPT ![o] = "CANCELLED"]
    BY DEF CancelCall
  <1>6. ProviderStep /\ link' \in [Orders -> {"absent", "open"} \cup Closed]
    BY <1>2, <1>3, <1>5 DEF ProviderStep, TypeOK, Closed
  <1>7. Live(s, paid', link')
    BY <1>1, <1>6, WorkingLive
  <1>8. ASSUME NEW status \in {"CANCELLED", "EXPIRED"}, link'[o] = status
        PROVE  /\ Good(CompleteCancellation(s, status, {}), paid', link')
               /\ Good(ApplyVerifiedLink(s, status, {}), paid', link')
    <2>1. {} \in SUBSET Transfers /\ \A t \in {} : t \in paid' /\ t.order = s.at
      OBVIOUS
    <2>2. \A st \in {"CANCELLED", "EXPIRED"} : status = st => link'[s.at] = st
      BY <1>8
    <2> HIDE DEF s
    <2> QED BY <1>7, <2>1, <2>2, CompleteCancellationGood, ApplyVerifiedLinkGood
  <1>9. Good([s EXCEPT !.pc = "get"], paid', link')
    BY <1>1, <1>7, OperationFields, MoveGood DEF Live
  <1>10. \E n : Become(p, n) /\ Good(n, paid', link')
    <2>1. CASE link' = [link EXCEPT ![o] = "CANCELLED"]
      <3>1. link'[o] = "CANCELLED"
        BY <1>3, <2>1 DEF TypeOK
      <3> QED BY <1>3, <1>8, <1>9, <3>1 DEF CancelCall
    <2>2. CASE UNCHANGED link
      BY <1>8, <1>9, <2>2, <1>3 DEF CancelCall, TypeOK
    <2> QED BY <1>5, <2>1, <2>2
  <1> QED BY <1>2, <1>4, <1>6, <1>10, ProcStep DEF TypeOK

LEMMA RecreateCallStep ==
  ASSUME TypeOK, OperationsSound, NEW p \in Procs, RecreateCall(p)
  PROVE  TypeOK' /\ OperationsSound'
  <1>1. PICK reply \in CreateReplies, account \in Accounts :
          /\ ProviderCreate(proc[p].at, reply)
          /\ Become(p, RecreateOutcome(proc[p], reply, account))
    BY DEF RecreateCall
  <1>2. proc[p].pc \in Working
    BY DEF RecreateCall, Working, Busy, PCs, Calls
  <1>3. proc[p].at \in Orders
    BY <1>2, WorkingLive DEF Live
  <1>4. /\ ProviderStep /\ UNCHANGED <<orders, receipts, inbox, journal, gate,
                                       batch, acked, paid>>
        /\ link' \in [Orders -> {"absent", "open"} \cup Closed]
        /\ late' \in SUBSET Orders /\ faults' \in 0..FaultBudget
    BY <1>1, <1>3, ProviderCreateStep DEF RecreateCall, ProviderCreate, db
  <1>5. known' \in [Orders -> Nat]
    BY <1>3 DEF RecreateCall, TypeOK
  <1>6. Good(RecreateOutcome(proc[p], reply, account), paid', link')
    BY <1>2, <1>4, WorkingLive, RecreateOutcomeGood
  <1> QED BY <1>1, <1>4, <1>5, <1>6, ProcStep DEF TypeOK

LEMMA PendingStep ==
  ASSUME TypeOK, OperationsSound, NEW p \in Procs, PendingPaymentCallbacks(p)
  PROVE  TypeOK' /\ OperationsSound'
  <1> DEFINE s == proc[p]
             pending == PendingCallbacks(inbox, s.at)
             matched == {c \in pending : \E t \in s.txns : CallbackMatches(c, t)}
             next == [s EXCEPT !.pc = "settle", !.items = matched]
  <1>1. s.pc \in Working /\ "settle" \in Working /\ "settle" \in PCs
    BY DEF PendingPaymentCallbacks, Working, Busy, PCs, Calls
  <1>2. /\ ProviderStep
        /\ UNCHANGED <<orders, receipts, inbox, journal, gate, batch, acked,
                       link, paid, late, known, faults>>
    BY DEF PendingPaymentCallbacks, db, provider, ProviderStep
  <1>3. Live(s, paid', link')
    BY <1>1, <1>2, WorkingLive
  <1>4. matched \in SUBSET Callbacks
    BY DEF PendingCallbacks
  <1>5. Become(p, DetailsPending(s)) \/ Become(p, next)
    BY DEF PendingPaymentCallbacks
  <1> HIDE DEF matched
  <1>6. next \in Operation
    BY <1>1, <1>3, <1>4, OperationFields DEF Live
  <1>7. Good(next, paid', link')
    BY <1>3, <1>6 DEF Live, Good, Sound, Operation
  <1>8. Good(DetailsPending(s), paid', link')
    BY <1>3, GetFailedGood
  <1> HIDE DEF next
  <1> QED BY <1>2, <1>5, <1>7, <1>8, ProcStep DEF TypeOK

LEMMA CommitType ==
  ASSUME TypeOK, NEW e \in Evidence, Commit(e)
  PROVE  /\ orders' \in [Orders -> OrderRow]
         /\ receipts' \in [Refs -> Receipt \cup {NoReceipt}]
         /\ journal' \in Seq([ref: Refs, order: Orders])
  <1>1. /\ e.order \in Orders /\ e.ref \in Refs /\ ReceiptOf(e) \in Receipt
        /\ [ref |-> e.ref, order |-> e.order] \in [ref: Refs, order: Orders]
    BY EvidenceFields
  <1>2. PaidOrder(orders[e.order], e) \in OrderRow
    BY <1>1, PaidOrderType DEF TypeOK
  <1>3. orders' \in [Orders -> OrderRow] /\ receipts' \in [Refs -> Receipt \cup {NoReceipt}]
    BY <1>1, <1>2 DEF Commit, TypeOK
  <1>4. journal' \in Seq([ref: Refs, order: Orders])
    BY <1>1 DEF Commit, TypeOK
  <1> QED BY <1>3, <1>4

LEMMA TransfersAreEvidence ==
  ASSUME NEW t \in Transfers
  PROVE  /\ t \in Evidence /\ t \in Callbacks /\ t.link = "own"
         /\ t.account # NoAccount
  BY CallbacksAssumption DEF Transfers

\* The rest of the operation after a settlement, booked or not.
LEMMA SettledGood ==
  ASSUME NEW pd, NEW lk, NEW s, Live(s, pd, lk), NEW c
  PROVE  /\ Good(ToFinish(s, NoUpdate), pd, lk)
         /\ Good(DetailsPending(s), pd, lk)
         /\ c \in s.items => Good(AfterItem(s, c), pd, lk)
  <1>1. Good(ToFinish(s, NoUpdate), pd, lk)
    BY NoUpdateOk, FinishGood DEF Live
  <1>2. Good([s EXCEPT !.items = @ \ {c}], pd, lk)
    <2>1. [s EXCEPT !.items = @ \ {c}] \in Operation
      BY OperationFields DEF Live
    <2> QED BY <2>1 DEF Live, Good, Sound, Operation
  <1> QED BY <1>1, <1>2, GetFailedGood DEF AfterItem

LEMMA SettleCatchUpStep ==
  ASSUME TypeOK, OperationsSound, NEW p \in Procs, SettleCatchUp(p)
  PROVE  TypeOK' /\ OperationsSound'
  <1>1. proc[p].pc \in Working
    BY DEF SettleCatchUp, Working, Busy, PCs, Calls
  <1>2. /\ ProviderStep
        /\ UNCHANGED <<inbox, gate, batch, acked, link, paid, late, known, faults>>
    BY DEF SettleCatchUp, provider, ProviderStep
  <1>3. Live(proc[p], paid', link')
    BY <1>1, <1>2, WorkingLive
  <1>4. PICK n : Become(p, n) /\ Good(n, paid', link')
    BY <1>3, SettledGood DEF SettleCatchUp
  <1>5. ASSUME NEW e \in proc[p].txns
        PROVE  e \in Evidence
    BY <1>3, <1>5, OperationFields, TransfersAreEvidence DEF Live
  <1>6. \/ UNCHANGED <<orders, receipts, journal>>
        \/ \E e \in proc[p].txns : Commit(e)
    BY DEF SettleCatchUp
  <1>7. /\ orders' \in [Orders -> OrderRow]
        /\ receipts' \in [Refs -> Receipt \cup {NoReceipt}]
        /\ journal' \in Seq([ref: Refs, order: Orders])
    BY <1>5, <1>6, CommitType DEF TypeOK
  <1> QED BY <1>2, <1>4, <1>7, ProcStep DEF TypeOK

\* What a settlement accepts, or books again, is an open row of the inbox.
LEMMA AcceptedRow ==
  ASSUME TypeOK, NEW c \in Callbacks, NEW e,
         InboxOutcome(c, e) \in {"COMMIT", "DUPLICATE"}
  PROVE  inbox[c] \in [reason: ReviewReasons, processed: BOOLEAN]
  <1>1. inbox[c].reason \in OpenReasons
    BY DEF InboxOutcome, SettleOutcome, SettlementInboxMatches
  <1>2. "" \notin OpenReasons
    BY DEF OpenReasons, BindReasons
  <1>3. inbox[c] # NoRow /\ inbox[c] \in InboxRow
    BY <1>1, <1>2, NoRowFields DEF TypeOK
  <1> QED BY <1>3 DEF InboxRow

LEMMA SettleInboxStep ==
  ASSUME TypeOK, OperationsSound, NEW p \in Procs, NEW c \in Callbacks, SettleInbox(p, c)
  PROVE  TypeOK' /\ OperationsSound'
  <1>1. proc[p].pc \in Working /\ c \in proc[p].items
    BY DEF SettleInbox, Working, Busy, PCs, Calls
  <1>2. /\ ProviderStep
        /\ UNCHANGED <<gate, batch, acked, link, paid, late, known, faults>>
    BY DEF SettleInbox, provider, ProviderStep
  <1>3. Live(proc[p], paid', link')
    BY <1>1, <1>2, WorkingLive
  <1>4. PICK n : Become(p, n) /\ Good(n, paid', link')
    BY <1>1, <1>3, SettledGood DEF SettleInbox
  <1>5. PICK e \in proc[p].txns :
          \/ /\ InboxOutcome(c, e) = "COMMIT" /\ Commit(e)
             /\ inbox' = MarkProcessed(inbox, c)
          \/ /\ InboxOutcome(c, e) = "DUPLICATE"
             /\ inbox' = MarkProcessed(inbox, c)
             /\ UNCHANGED <<orders, receipts, journal>>
          \/ /\ InboxOutcome(c, e) \in ReviewReasons
             /\ inbox' = [inbox EXCEPT ![c].reason = InboxOutcome(c, e)]
             /\ UNCHANGED <<orders, receipts, journal>>
    BY DEF SettleInbox
  <1>6. e \in Evidence
    BY <1>3, OperationFields, TransfersAreEvidence DEF Live
  <1>7. /\ orders' \in [Orders -> OrderRow]
        /\ receipts' \in [Refs -> Receipt \cup {NoReceipt}]
        /\ journal' \in Seq([ref: Refs, order: Orders])
    BY <1>5, <1>6, CommitType DEF TypeOK
  <1>8. inbox' \in [Callbacks -> InboxRow]
    <2>1. CASE InboxOutcome(c, e) \in {"COMMIT", "DUPLICATE"} /\ inbox' = MarkProcessed(inbox, c)
      <3>1. inbox[c] \in [reason: ReviewReasons, processed: BOOLEAN]
        BY <2>1, AcceptedRow
      <3>2. [inbox[c] EXCEPT !.processed = TRUE] \in InboxRow
        BY <3>1 DEF InboxRow
      <3> QED BY <2>1, <3>2 DEF MarkProcessed, TypeOK
    <2>2. CASE /\ InboxOutcome(c, e) \in ReviewReasons
               /\ inbox' = [inbox EXCEPT ![c].reason = InboxOutcome(c, e)]
      <3>1. inbox[c] \in InboxRow
        BY DEF TypeOK
      <3>2. [inbox[c] EXCEPT !.reason = InboxOutcome(c, e)] \in InboxRow
        BY <2>2, <3>1, RowReason
      <3> QED BY <2>2, <3>2 DEF TypeOK
    <2> QED BY <1>5, <2>1, <2>2
  <1> QED BY <1>2, <1>4, <1>7, <1>8, ProcStep DEF TypeOK

LEMMA SettleFailsStep ==
  ASSUME TypeOK, OperationsSound, NEW p \in Procs, SettleFails(p)
  PROVE  TypeOK' /\ OperationsSound'
  <1>1. proc[p].pc \in Working
    BY DEF SettleFails, Working, Busy, PCs, Calls
  <1>2. /\ ProviderStep
        /\ UNCHANGED <<orders, receipts, inbox, journal, gate, acked,
                       link, paid, late, known, faults>>
    BY DEF SettleFails, db, provider, ProviderStep
  <1>3. Live(proc[p], paid', link')
    BY <1>1, <1>2, WorkingLive
  <1>4. /\ Good(Idle, paid', link') /\ Good(DetailsPending(proc[p]), paid', link')
    BY <1>3, IdleGood, GetFailedGood
  <1>5. /\ \E n : Become(p, n) /\ Good(n, paid', link')
        /\ batch' \in SUBSET Orders
    BY <1>4 DEF SettleFails, Abandon, TypeOK
  <1> QED BY <1>2, <1>5, ProcStep DEF TypeOK

LEMMA CompleteStep ==
  ASSUME TypeOK, OperationsSound, NEW p \in Procs, CompletePaymentOrderOperation(p)
  PROVE  TypeOK' /\ OperationsSound'
  <1>1. /\ ProviderStep
        /\ UNCHANGED <<receipts, inbox, journal, gate, acked,
                       link, paid, late, known, faults>>
    BY DEF CompletePaymentOrderOperation, provider, ProviderStep
  <1>2. Good(Idle, paid', link')
    BY IdleGood
  <1>3. Become(p, Idle) /\ batch' \in SUBSET Orders
    BY DEF CompletePaymentOrderOperation, TypeOK
  <1>4. proc[p].at \in Orders /\ proc[p].upd \in OrderUpdate
    BY OperationFields DEF CompletePaymentOrderOperation, TypeOK, OperationsSound,
       Sound, Busy, PCs
  <1>5. CompletedOrder(orders[proc[p].at], proc[p].upd) \in OrderRow
    BY <1>4, CompletedOrderType DEF TypeOK
  <1>6. orders' \in [Orders -> OrderRow]
    BY <1>4, <1>5 DEF CompletePaymentOrderOperation, TypeOK
  <1> QED BY <1>1, <1>2, <1>3, <1>6, ProcStep DEF TypeOK

\* What every step outside the operations leaves to be shown.
LEMMA OutsideStep ==
  ASSUME TypeOK, OperationsSound, ProviderStep, UNCHANGED proc,
         orders' \in [Orders -> OrderRow],
         receipts' \in [Refs -> Receipt \cup {NoReceipt}],
         inbox' \in [Callbacks -> InboxRow],
         journal' \in Seq([ref: Refs, order: Orders]),
         gate' \in BOOLEAN, batch' \in SUBSET Orders, acked' \in SUBSET Callbacks,
         link' \in [Orders -> {"absent", "open"} \cup Closed],
         paid' \in SUBSET Transfers, late' \in SUBSET Orders,
         UNCHANGED known, faults' \in 0..FaultBudget
  PROVE  TypeOK' /\ OperationsSound'
  BY SameOperations DEF TypeOK

LEMMA WebhookStep ==
  ASSUME TypeOK, OperationsSound, NEW c \in Callbacks,
         AckSample(c) \/ ReviewWebhook(c) \/ SettleWebhook(c)
  PROVE  TypeOK' /\ OperationsSound'
  <1>1. /\ ProviderStep /\ acked' \in SUBSET Callbacks
        /\ UNCHANGED <<gate, batch, proc, link, paid, late, known, faults>>
    BY DEF AckSample, ReviewWebhook, SettleWebhook, provider, ProviderStep, TypeOK
  <1>2. c \in Evidence /\ c.order \in Orders /\ c.fault \in Faults
    BY CallbacksAssumption DEF Evidence
  <1>3. ASSUME NEW reason \in ReviewReasons,
               inbox' = InboxAfterInsert(inbox, c, reason),
               orders' = [orders EXCEPT ![c.order] =
                            OrderAfterInsert(@, inbox[c] = NoRow, reason)],
               UNCHANGED <<receipts, journal>>
        PROVE  TypeOK' /\ OperationsSound'
    <2>1. inbox' \in [Callbacks -> InboxRow]
      BY <1>3, InboxAfterInsertType DEF TypeOK
    <2>2. OrderAfterInsert(orders[c.order], inbox[c] = NoRow, reason) \in OrderRow
      BY <1>2, OrderAfterInsertType DEF TypeOK
    <2>3. orders' \in [Orders -> OrderRow]
      BY <1>2, <1>3, <2>2 DEF TypeOK
    <2> QED BY <1>1, <1>3, <2>1, <2>3, OutsideStep DEF TypeOK
  <1>4. CASE AckSample(c)
    BY <1>1, <1>4, OutsideStep DEF AckSample, db, TypeOK
  <1>5. CASE ReviewWebhook(c)
    <2>1. c.fault \in ReviewReasons
      BY <1>2, <1>5 DEF ReviewWebhook, Faults, ReviewReasons
    <2> QED BY <1>3, <1>5, <2>1 DEF ReviewWebhook
  <1>6. CASE SettleWebhook(c)
    <2>1. CASE Commit(c) /\ UNCHANGED inbox
      BY <1>1, <1>2, <2>1, CommitType, OutsideStep DEF TypeOK
    <2>2. CASE UNCHANGED db
      BY <1>1, <2>2, OutsideStep DEF db, TypeOK
    <2> QED BY <1>3, <1>6, <2>1, <2>2 DEF SettleWebhook
  <1> QED BY <1>4, <1>5, <1>6

-----------------------------------------------------------------------------
(* Time, failures, the gate and the provider.                              *)

LEMMA OrderFieldStep ==
  ASSUME TypeOK, NEW o \in Orders
  PROVE  /\ [orders EXCEPT ![o].leased = FALSE] \in [Orders -> OrderRow]
         /\ \A a \in Ages : [orders EXCEPT ![o].age = a] \in [Orders -> OrderRow]
  <1>1. /\ [orders[o] EXCEPT !.leased = FALSE] \in OrderRow
        /\ \A a \in Ages : [orders[o] EXCEPT !.age = a] \in OrderRow
    BY OrderFields DEF TypeOK
  <1> QED BY <1>1 DEF TypeOK

LEMMA EnvironmentStep ==
  ASSUME TypeOK, OperationsSound,
         \/ \E o \in Orders : \/ LeaseExpires(o) \/ GrowOld(o) \/ LateCreate(o)
                              \/ \E how \in Closings : CloseLink(o, how)
         \/ \E p \in Procs : Stall(p)
         \/ \E t \in Transfers : Pay(t)
         \/ LockGate \/ UnlockGate
  PROVE  TypeOK' /\ OperationsSound'
  <1>1. ASSUME NEW o \in Orders, LeaseExpires(o) \/ GrowOld(o)
        PROVE  TypeOK' /\ OperationsSound'
    <2>1. /\ ProviderStep
          /\ UNCHANGED <<receipts, inbox, journal, gate, batch, proc, acked,
                         link, paid, late, known, faults>>
      BY <1>1 DEF LeaseExpires, GrowOld, provider, ProviderStep
    <2>2. orders' \in [Orders -> OrderRow]
      <3>1. CASE LeaseExpires(o)
        BY <3>1, OrderFieldStep DEF LeaseExpires
      <3>2. CASE GrowOld(o)
        <4>1. PICK a \in AgesReached : orders' = [orders EXCEPT ![o].age = a]
          BY <3>2 DEF GrowOld
        <4>2. a \in Ages
          BY ServiceAssumption
        <4> QED BY <4>1, <4>2, OrderFieldStep
      <3> QED BY <1>1, <3>1, <3>2
    <2> QED BY <2>1, <2>2, OutsideStep DEF TypeOK
  <1>2. ASSUME NEW p \in Procs, Stall(p)
        PROVE  TypeOK' /\ OperationsSound'
    <2>1. /\ ProviderStep
          /\ UNCHANGED <<receipts, inbox, journal, gate, batch, proc, acked,
                         link, paid, late, known>>
      BY <1>2 DEF Stall, provider, ProviderStep
    <2>2. orders' \in [Orders -> OrderRow]
      BY <1>2, OrderFieldStep DEF Stall
    <2>3. faults' \in 0..FaultBudget
      BY <1>2, ServiceAssumption DEF Stall, Fault, TypeOK
    <2> QED BY <2>1, <2>2, <2>3, OutsideStep DEF TypeOK
  <1>3. ASSUME NEW o \in Orders, LateCreate(o) \/ \E how \in Closings : CloseLink(o, how)
        PROVE  TypeOK' /\ OperationsSound'
    <2>1. /\ UNCHANGED <<orders, receipts, inbox, journal, gate, batch, proc, acked,
                         paid, known, faults>>
          /\ late' \in SUBSET Orders
      BY <1>3 DEF LateCreate, CloseLink, db, TypeOK
    <2>2. \/ link' = link
          \/ /\ link[o] \in {"absent", "open"}
             /\ \E v \in {"open"} \cup Closed : link' = [link EXCEPT ![o] = v]
      BY <1>3, ServiceAssumption DEF LateCreate, CloseLink, TypeOK
    <2>3. link' \in [Orders -> {"absent", "open"} \cup Closed] /\ ProviderStep
      BY <2>1, <2>2 DEF TypeOK, ProviderStep
    <2> QED BY <2>1, <2>3, OutsideStep DEF TypeOK
  <1>4. ASSUME NEW t \in Transfers, Pay(t)
        PROVE  TypeOK' /\ OperationsSound'
    <2>1. ProviderStep /\ paid' \in SUBSET Transfers
      BY <1>4 DEF Pay, ProviderStep, TypeOK
    <2> QED BY <1>4, <2>1, OutsideStep DEF Pay, db, TypeOK
  <1>5. CASE LockGate \/ UnlockGate
    <2>1. /\ ProviderStep /\ gate' \in BOOLEAN
          /\ UNCHANGED <<orders, receipts, inbox, journal, batch, proc, acked,
                         link, paid, late, known>>
      BY <1>5 DEF LockGate, UnlockGate, db, provider, ProviderStep
    <2>2. faults' \in 0..FaultBudget
      BY <1>5, ServiceAssumption DEF LockGate, UnlockGate, Fault, TypeOK
    <2> QED BY <2>1, <2>2, OutsideStep DEF TypeOK
  <1> QED BY <1>1, <1>2, <1>3, <1>4, <1>5

LEMMA CrashStep ==
  ASSUME TypeOK, OperationsSound, NEW p \in Procs, Crash(p)
  PROVE  TypeOK' /\ OperationsSound'
  <1>1. /\ ProviderStep /\ Become(p, Idle) /\ batch' \in SUBSET Orders
        /\ UNCHANGED <<orders, receipts, inbox, journal, gate, acked,
                       link, paid, late, known>>
    BY DEF Crash, Abandon, db, provider, ProviderStep, TypeOK
  <1>2. faults' \in 0..FaultBudget
    BY ServiceAssumption DEF Crash, Fault, TypeOK
  <1>3. Good(Idle, paid', link')
    BY IdleGood
  <1> QED BY <1>1, <1>2, <1>3, ProcStep DEF TypeOK

\* Every step of the service keeps the types and the soundness of the
\* operations in flight.
LEMMA TypeStep ==
  ASSUME TypeOK, OperationsSound, OrdersBound, ClosedByProvider, [Next]_vars
  PROVE  TypeOK' /\ OperationsSound'
  <1>1. CASE UNCHANGED vars
    BY <1>1 DEF vars, db, provider, TypeOK, OperationsSound, Sound
  <1>2. ASSUME NEW p \in Procs, Progress(p)
        PROVE  TypeOK' /\ OperationsSound'
    BY <1>2, ReserveStep, CreateCallStep, RenewStep, RenewForCreateStep,
       GetCallStep, CancelCallStep, RecreateCallStep, PendingStep,
       SettleCatchUpStep, SettleFailsStep, SettleInboxStep, CompleteStep DEF Progress
  <1> QED BY <1>1, <1>2, CreateOrderStep, CancelOrderStep, CrashStep, WakeStep,
             DueStep, ReconcileOrderStep, WebhookStep, EnvironmentStep
             DEF Next, createPayment, cancelPayment

-----------------------------------------------------------------------------
(* Money moves in one kind of step only.  Every step is quiet, or it books *)
(* one received transfer for an order that had none.                       *)

\* A change of an order row that moves no money, replaces nothing bound, and
\* closes the order only if its link lk is closed that way.
Quiet(row, new, lk) ==
    /\ new.status = "PAID" <=> row.status = "PAID"
    /\ new.txnId = row.txnId
    /\ row.linkId # "none" => new.linkId = row.linkId
    /\ new.linkId \in {"none", "own", row.linkId}
    /\ row.account # NoAccount => new.account = row.account
    /\ row.qrCode => new.qrCode
    /\ new.status = "ABSENT" => new = row
    /\ new.status \in {"CANCELLED", "EXPIRED"} => new.status = row.status \/ new.status = lk

QuietStep == /\ \A o \in Orders : Quiet(orders[o], orders'[o], link'[o])
             /\ UNCHANGED receipts
             /\ ProviderStep

Booking(e) == /\ e \in paid
              /\ e.amount = "full"
              /\ receipts[e.ref] = NoReceipt
              /\ orders[e.order].status \notin {"ABSENT", "PAID"}
              /\ orders[e.order].txnId = NoRef
              /\ orders[e.order].account \in {NoAccount, e.account}
              /\ Commit(e)
              /\ UNCHANGED provider

LEMMA QuietSame ==
  ASSUME NEW row, NEW lk
  PROVE  Quiet(row, row, lk)
  BY DEF Quiet

LEMMA QuietReserved ==
  ASSUME NEW key, NEW tok, NEW lk
  PROVE  Quiet(AbsentOrder, ReservedOrder(key, tok), lk)
  BY DEF Quiet, ReservedOrder, AbsentOrder

LEMMA QuietClaimed ==
  ASSUME NEW row \in OrderRow, row.status # "ABSENT", NEW tok, NEW lk
  PROVE  Quiet(row, ClaimedOrder(row, tok), lk)
  BY DEF Quiet, ClaimedOrder, OrderRow

LEMMA QuietRenewed ==
  ASSUME NEW row \in OrderRow, row.status # "ABSENT", NEW tried, NEW lk
  PROVE  Quiet(row, RenewedOrder(row, tried), lk)
  BY DEF Quiet, RenewedOrder, OrderRow

LEMMA QuietWoken ==
  ASSUME NEW row \in OrderRow, NEW lk
  PROVE  Quiet(row, WokenOrder(row), lk)
  <1>1. CASE row.status \in {"ABSENT", "PAID"}
    BY <1>1, QuietSame DEF WokenOrder
  <1>2. CASE row.status \notin {"ABSENT", "PAID"}
    BY <1>2 DEF WokenOrder, Quiet, OrderRow
  <1> QED BY <1>1, <1>2

LEMMA QuietInsert ==
  ASSUME NEW row \in OrderRow, NEW isNew, NEW reason, NEW lk
  PROVE  Quiet(row, OrderAfterInsert(row, isNew, reason), lk)
  <1>1. CASE OrderAfterInsert(row, isNew, reason) = row
    BY <1>1, QuietSame
  <1>2. CASE /\ row.status \notin {"ABSENT", "PAID"}
             /\ OrderAfterInsert(row, isNew, reason) = [WokenOrder(row) EXCEPT
                  !.lastError = IF reason = "PAYMENT_DETAILS_PENDING"
                                THEN "PAYMENT_DETAILS_PENDING" ELSE @]
    BY <1>2 DEF WokenOrder, Quiet, OrderRow
  <1> QED BY <1>1, <1>2 DEF OrderAfterInsert

LEMMA QuietField ==
  ASSUME NEW row \in OrderRow, row.status # "ABSENT", NEW lk
  PROVE  /\ Quiet(row, [row EXCEPT !.leased = FALSE], lk)
         /\ \A a \in Ages : Quiet(row, [row EXCEPT !.age = a], lk)
  BY DEF Quiet, OrderRow

LEMMA QuietCompleted ==
  ASSUME NEW row \in OrderRow, row.status # "ABSENT", NEW o, NEW lk, NEW in,
         UpdateOk(in, o, lk)
  PROVE  Quiet(row, CompletedOrder(row, in), lk[o])
  <1>1. /\ in.status # "PAID" /\ in.status # "ABSENT"
        /\ in.linkId \in {"none", "own"}
        /\ in.status \in {"CANCELLED", "EXPIRED"} => in.status = lk[o]
    BY DEF UpdateOk, OrderUpdate, Statuses
  <1> DEFINE new == CompletedOrder(row, in)
  <1>2. /\ new.status = IF row.status = "PAID" THEN "PAID"
                        ELSE IF in.status = "" THEN row.status ELSE in.status
        /\ new.txnId = row.txnId
        /\ new.linkId = IF row.linkId = "none" THEN in.linkId ELSE row.linkId
        /\ new.account = IF row.account = NoAccount THEN in.account ELSE row.account
        /\ new.qrCode = (row.qrCode \/ in.qrCode)
    BY DEF CompletedOrder, OrderRow
  <1> HIDE DEF new
  <1>3. Quiet(row, new, lk[o])
    BY <1>1, <1>2 DEF Quiet
  <1> QED BY <1>3 DEF new

\* The invariants about money, and what a step may never undo.
Money == OrdersBound /\ SettledOnce /\ CreditsAreTransfers /\ ClosedByProvider
Final(o) ==
    /\ orders[o].status = "PAID" =>
          orders'[o].status = "PAID" /\ orders'[o].txnId = orders[o].txnId
    /\ orders[o].linkId # "none" => orders'[o].linkId = orders[o].linkId
    /\ orders[o].account # NoAccount => orders'[o].account = orders[o].account
    /\ orders[o].qrCode => orders'[o].qrCode

LEMMA QuietKeepsMoney ==
  ASSUME TypeOK, Money, QuietStep
  PROVE  Money' /\ \A o \in Orders : Final(o)
  <1>1. \A o \in Orders : Quiet(orders[o], orders'[o], link'[o])
    BY DEF QuietStep
  <1>2. \A o \in Orders : Final(o)
    BY <1>1 DEF Quiet, Final
  <1>3. OrdersBound'
    BY <1>1 DEF Quiet, OrdersBound, Money
  <1>4. SettledOnce'
    BY <1>1 DEF Quiet, SettledOnce, Money, QuietStep
  <1>5. ClosedByProvider'
    <2>1. ASSUME NEW o \in Orders, orders'[o].status \in {"CANCELLED", "EXPIRED"}
          PROVE  link'[o] = orders'[o].status
      <3>1. CASE orders'[o].status = link'[o]
        BY <3>1
      <3>2. CASE orders'[o].status = orders[o].status
        BY <2>1, <3>2 DEF Money, ClosedByProvider, QuietStep, ProviderStep
      <3> QED BY <1>1, <2>1, <3>1, <3>2 DEF Quiet
    <2> QED BY <2>1 DEF ClosedByProvider
  <1>6. CreditsAreTransfers'
    <2>1. ASSUME NEW r \in Refs, receipts'[r] # NoReceipt
          PROVE  \E t \in paid' : /\ t.ref = r /\ receipts'[r] = ReceiptOf(t)
                                  /\ t.amount = "full"
                                  /\ orders'[t.order].linkId = "own"
                                  /\ orders'[t.order].account = t.account
      <3>1. PICK t \in paid : /\ t.ref = r /\ receipts[r] = ReceiptOf(t)
                              /\ t.amount = "full"
                              /\ orders[t.order].linkId = "own"
                              /\ orders[t.order].account = t.account
        BY <2>1 DEF Money, CreditsAreTransfers, QuietStep
      <3>2. t.order \in Orders /\ t.account # NoAccount /\ t \in paid'
        BY <3>1, TransfersAreEvidence, EvidenceFields DEF TypeOK, QuietStep, ProviderStep
      <3>3. Final(t.order)
        BY <1>2, <3>2
      <3> QED BY <2>1, <3>1, <3>2, <3>3 DEF Final, QuietStep
    <2> QED BY <2>1 DEF CreditsAreTransfers
  <1> QED BY <1>2, <1>3, <1>4, <1>5, <1>6 DEF Money

LEMMA BookingKeepsMoney ==
  ASSUME TypeOK, Money, NEW e, Booking(e)
  PROVE  Money' /\ \A o \in Orders : Final(o)
  <1> DEFINE old == orders[e.order]
             new == PaidOrder(old, e)
  <1>1. /\ e \in paid /\ e \in Transfers /\ e \in Evidence /\ e.link = "own"
        /\ e.account # NoAccount /\ e.order \in Orders /\ e.ref \in Refs
    BY TransfersAreEvidence, EvidenceFields DEF Booking, TypeOK
  <1>2. /\ old \in OrderRow /\ old.txnId = NoRef /\ old.status # "PAID"
        /\ old.linkId \in {"none", "own"} /\ old.account \in {NoAccount, e.account}
        /\ receipts[e.ref] = NoReceipt
    BY <1>1 DEF Booking, TypeOK, Money, OrdersBound
  <1>3. /\ new.status = "PAID" /\ new.linkId = "own" /\ new.account = e.account
        /\ new.txnId = e.ref /\ new.qrCode = old.qrCode
    BY <1>1, <1>2 DEF PaidOrder, OrderRow
  <1> HIDE DEF new
  <1>4. /\ orders' = [orders EXCEPT ![e.order] = new]
        /\ receipts' = [receipts EXCEPT ![e.ref] = ReceiptOf(e)]
        /\ UNCHANGED <<link, paid>>
    BY DEF Booking, Commit, new, provider
  <1>5. /\ orders'[e.order] = new
        /\ \A o \in Orders \ {e.order} : orders'[o] = orders[o]
        /\ receipts'[e.ref] = ReceiptOf(e)
        /\ \A r \in Refs \ {e.ref} : receipts'[r] = receipts[r]
    BY <1>1, <1>4 DEF TypeOK
  <1>6. ReceiptOf(e).order = e.order /\ ReceiptOf(e) # NoReceipt
    <2>1. ReceiptOf(e).link = "own" /\ NoReceipt.link = "none"
      BY <1>1 DEF ReceiptOf, NoReceipt
    <2>2. ReceiptOf(e).order = e.order
      BY DEF ReceiptOf
    <2> QED BY <2>1, <2>2
  <1>7. \A o \in Orders : Final(o)
    BY <1>2, <1>3, <1>5 DEF Final
  <1>8. OrdersBound'
    <2>1. ASSUME NEW o \in Orders
          PROVE  /\ orders'[o].status = "ABSENT" => orders'[o] = AbsentOrder
                 /\ orders'[o].linkId \in {"none", "own"}
      <3>1. CASE o = e.order
        BY <1>3, <1>5, <3>1
      <3>2. CASE o # e.order
        BY <1>5, <3>2 DEF Money, OrdersBound
      <3> QED BY <3>1, <3>2
    <2> QED BY <2>1 DEF OrdersBound
  <1>9. ClosedByProvider'
    BY <1>3, <1>4, <1>5 DEF Money, ClosedByProvider
  <1>10. SettledOnce'
    <2>1. \A o \in Orders : orders'[o].status = "PAID" <=> orders'[o].txnId # NoRef
      BY <1>1, <1>3, <1>5, NullAssumption DEF Money, SettledOnce
    <2>2. ASSUME NEW o \in Orders, NEW r \in Refs
          PROVE  orders'[o].txnId = r <=> receipts'[r] # NoReceipt /\ receipts'[r].order = o
      <3>1. orders[o].txnId = r <=> receipts[r] # NoReceipt /\ receipts[r].order = o
        BY DEF Money, SettledOnce
      <3>2. CASE o = e.order /\ r = e.ref
        BY <1>3, <1>5, <1>6, <3>2
      <3>3. CASE o = e.order /\ r # e.ref
        BY <1>2, <1>3, <1>5, <3>1, <3>3, NullAssumption
      <3>4. CASE o # e.order /\ r = e.ref
        BY <1>2, <1>5, <1>6, <3>1, <3>4
      <3>5. CASE o # e.order /\ r # e.ref
        BY <1>5, <3>1, <3>5
      <3> QED BY <3>2, <3>3, <3>4, <3>5
    <2> QED BY <2>1, <2>2 DEF SettledOnce
  <1>11. CreditsAreTransfers'
    <2>1. ASSUME NEW r \in Refs, receipts'[r] # NoReceipt
          PROVE  \E t \in paid' : /\ t.ref = r /\ receipts'[r] = ReceiptOf(t)
                                  /\ t.amount = "full"
                                  /\ orders'[t.order].linkId = "own"
                                  /\ orders'[t.order].account = t.account
      <3>1. CASE r = e.ref
        BY <1>1, <1>3, <1>4, <1>5, <3>1 DEF Booking
      <3>2. CASE r # e.ref
        <4>1. PICK t \in paid : /\ t.ref = r /\ receipts[r] = ReceiptOf(t)
                                /\ t.amount = "full"
                                /\ orders[t.order].linkId = "own"
                                /\ orders[t.order].account = t.account
          BY <1>5, <2>1, <3>2 DEF Money, CreditsAreTransfers
        <4>2. t.order \in Orders /\ t.account # NoAccount
          BY <4>1, TransfersAreEvidence, EvidenceFields DEF TypeOK
        <4>3. Final(t.order)
          BY <1>7, <4>2
        <4> QED BY <1>4, <1>5, <3>2, <4>1, <4>2, <4>3 DEF Final
      <3> QED BY <3>1, <3>2
    <2> QED BY <2>1 DEF CreditsAreTransfers
  <1> QED BY <1>7, <1>8, <1>9, <1>10, <1>11 DEF Money

LEMMA RowsSame ==
  ASSUME ProviderStep, UNCHANGED <<orders, receipts>>
  PROVE  QuietStep
  BY QuietSame DEF QuietStep

LEMMA OneRow ==
  ASSUME TypeOK, ProviderStep, UNCHANGED receipts, NEW o \in Orders, NEW new,
         orders' = [orders EXCEPT ![o] = new], Quiet(orders[o], new, link'[o])
  PROVE  QuietStep
  BY QuietSame DEF QuietStep, TypeOK

\* A process that holds the token of an order works on an order with a row.
LEMMA TokenRow ==
  ASSUME TypeOK, OrdersBound, NEW p \in Procs, NEW o \in Orders, orders[o].token = p
  PROVE  orders[o].status # "ABSENT"
  <1>1. AbsentOrder.token = NoProc /\ p # NoProc
    BY NullAssumption DEF AbsentOrder
  <1> QED BY <1>1 DEF OrdersBound

\* Outside its provider requests an operation leaves the provider alone, and
\* the requests themselves leave the rows alone.
LEMMA RequestQuiet ==
  ASSUME TypeOK, OperationsSound, NEW p \in Procs,
         CreateCall(p) \/ GetCall(p) \/ CancelCall(p) \/ RecreateCall(p)
  PROVE  QuietStep
  <1>1. proc[p].at \in Orders /\ UNCHANGED <<orders, receipts>>
    BY DEF CreateCall, GetCall, CancelCall, RecreateCall, db, OperationsSound,
       Sound, Busy, PCs, Calls
  <1>2. ProviderStep
    <2>1. CASE CreateCall(p) \/ RecreateCall(p)
      BY <1>1, <2>1, ProviderCreateStep DEF CreateCall, RecreateCall
    <2>2. CASE GetCall(p)
      BY <2>2 DEF GetCall, provider, ProviderStep
    <2>3. CASE CancelCall(p)
      <3>1. \/ UNCHANGED link
            \/ link[proc[p].at] = "open" /\ link' = [link EXCEPT ![proc[p].at] = "CANCELLED"]
        BY <2>3 DEF CancelCall
      <3> QED BY <1>1, <2>3, <3>1 DEF CancelCall, ProviderStep, TypeOK
    <2> QED BY <2>1, <2>2, <2>3
  <1> QED BY <1>1, <1>2, RowsSame

\* A settlement that commits found an unpaid order, an unused reference and a
\* full payment on the order's own link and account.
LEMMA SettlementBooks ==
  ASSUME TypeOK, OperationsSound, NEW p \in Procs,
         SettleCatchUp(p) \/ \E c \in Callbacks : SettleInbox(p, c)
  PROVE  QuietStep \/ \E e : Booking(e)
  <1>1. UNCHANGED provider /\ ProviderStep
    BY DEF SettleCatchUp, SettleInbox, provider, ProviderStep
  <1>2. CASE UNCHANGED <<orders, receipts>>
    BY <1>1, <1>2, RowsSame
  <1>3. ASSUME NEW e \in proc[p].txns, NEW accepted,
               SettleOutcome(orders[e.order], receipts[e.ref], e, TRUE, accepted) = "COMMIT",
               Commit(e)
        PROVE  Booking(e)
    <2>1. e \in paid
      BY DEF OperationsSound, Sound
    <2>2. /\ receipts[e.ref] = NoReceipt /\ orders[e.order].status \notin {"ABSENT", "PAID"}
          /\ orders[e.order].txnId = NoRef /\ e.amount = "full"
          /\ orders[e.order].account \in {NoAccount, e.account}
      BY <1>3 DEF SettleOutcome
    <2> QED BY <1>1, <1>3, <2>1, <2>2 DEF Booking
  <1> QED BY <1>2, <1>3 DEF SettleCatchUp, SettleInbox, InboxOutcome

LEMMA WebhookBooks ==
  ASSUME TypeOK, OrdersBound, NEW c \in Callbacks,
         AckSample(c) \/ ReviewWebhook(c) \/ SettleWebhook(c)
  PROVE  QuietStep \/ Booking(c)
  <1>1. UNCHANGED provider /\ ProviderStep
    BY DEF AckSample, ReviewWebhook, SettleWebhook, provider, ProviderStep
  <1>2. c \in Evidence /\ c.order \in Orders
    BY CallbacksAssumption, EvidenceFields
  <1>3. CASE UNCHANGED <<orders, receipts>>
    BY <1>1, <1>3, RowsSame
  <1>4. ASSUME NEW reason,
               orders' = [orders EXCEPT ![c.order] =
                            OrderAfterInsert(@, inbox[c] = NoRow, reason)],
               UNCHANGED receipts
        PROVE  QuietStep
    <2> DEFINE new == OrderAfterInsert(orders[c.order], inbox[c] = NoRow, reason)
    <2>1. Quiet(orders[c.order], new, link'[c.order])
      BY <1>2, QuietInsert DEF TypeOK
    <2>2. orders' = [orders EXCEPT ![c.order] = new]
      BY <1>4
    <2> HIDE DEF new
    <2> QED BY <1>1, <1>2, <1>4, <2>1, <2>2, OneRow
  <1>5. ASSUME SettleOutcome(orders[c.order], receipts[c.ref], c, FALSE, TRUE) = "COMMIT",
               Commit(c), c.fault = "none", Deliverable(c)
        PROVE  Booking(c)
    <2> DEFINE row == orders[c.order]
    <2>5. /\ receipts[c.ref] = NoReceipt /\ row.status \notin {"ABSENT", "PAID"}
          /\ row.txnId = NoRef /\ c.amount = "full"
          /\ row.linkId \in {"none", c.link} /\ c.account # NoAccount
          /\ row.account \in {NoAccount, c.account} /\ row.linkId # "none"
      BY <1>5 DEF SettleOutcome
    <2>1. c.link = "own" /\ c.account # NoAccount
      BY <1>2, <2>5 DEF OrdersBound
    <2>2. PICK t \in paid : /\ t.order = c.order /\ t.ref = c.ref
                            /\ t.amount = c.amount /\ t.account = c.account
      BY <1>5, <2>1 DEF Deliverable
    <2>3. t \in Evidence /\ t.link = c.link /\ t.fault = c.fault
      BY <1>5, <2>1, <2>2, TransfersAreEvidence DEF TypeOK, Transfers
    <2>4. t = c
      BY <1>2, <2>2, <2>3 DEF Evidence
    <2> QED BY <1>1, <1>5, <2>2, <2>4, <2>5 DEF Booking
  <1> QED BY <1>3, <1>4, <1>5 DEF AckSample, ReviewWebhook, SettleWebhook, db

LEMMA OperationQuiet ==
  ASSUME TypeOK, OperationsSound, OrdersBound, NEW p \in Procs,
         \/ ReservePaymentOrder(p) \/ RenewForGet(p) \/ RenewForCancel(p)
         \/ RenewForCreate(p) \/ PendingPaymentCallbacks(p) \/ SettleFails(p)
         \/ CompletePaymentOrderOperation(p) \/ Crash(p)
         \/ \E k \in Keys : CreateOrder(p, k)
         \/ \E o \in Orders : CancelOrder(p, o)
  PROVE  QuietStep
  <1>1. ProviderStep /\ UNCHANGED <<receipts, link, paid>>
    BY DEF ReservePaymentOrder, RenewForGet, RenewForCancel, RenewForCreate,
       PendingPaymentCallbacks, SettleFails, CompletePaymentOrderOperation, Crash,
       CreateOrder, CancelOrder, db, provider, ProviderStep
  <1>2. CASE UNCHANGED orders
    BY <1>1, <1>2, RowsSame
  <1>3. CASE ReservePaymentOrder(p)
    <2>1. ASSUME NEW o \in Orders, orders[o].status = "ABSENT",
                 orders' = [orders EXCEPT ![o] = ReservedOrder(proc[p].key, p)]
          PROVE  QuietStep
      <3>1. Quiet(orders[o], ReservedOrder(proc[p].key, p), link'[o])
        BY <2>1, QuietReserved DEF OrdersBound
      <3> QED BY <1>1, <2>1, <3>1, OneRow
    <2> QED BY <1>2, <1>3, <2>1 DEF ReservePaymentOrder
  <1>4. ASSUME NEW o \in Orders, CancelOrder(p, o)
        PROVE  QuietStep
    <2>1. Quiet(orders[o], ClaimedOrder(orders[o], p), link'[o])
      BY <1>4, QuietClaimed DEF CancelOrder, Claimable, TypeOK
    <2> QED BY <1>1, <1>4, <2>1, OneRow DEF CancelOrder, Claim
  <1>5. ASSUME proc[p].pc \in Busy, NEW tried, CanRenew(p), Renew(p, tried)
        PROVE  QuietStep
    <2>1. proc[p].at \in Orders /\ orders[proc[p].at].token = p
      BY <1>5 DEF OperationsSound, Sound, CanRenew, Renewable
    <2>2. Quiet(orders[proc[p].at], RenewedOrder(orders[proc[p].at], tried), link'[proc[p].at])
      BY <2>1, TokenRow, QuietRenewed DEF TypeOK
    <2>3. orders' = [orders EXCEPT ![proc[p].at] = RenewedOrder(orders[proc[p].at], tried)]
      BY <1>5 DEF Renew
    <2> QED BY <1>1, <2>1, <2>2, <2>3, OneRow
  <1>6. CASE RenewForGet(p) \/ RenewForCancel(p) \/ RenewForCreate(p)
    <2>1. proc[p].pc \in Busy
      BY <1>6 DEF RenewForGet, RenewForCancel, RenewForCreate, Busy, PCs
    <2>2. \/ CanRenew(p) /\ Renew(p, FALSE)
          \/ CanRenew(p) /\ Renew(p, proc[p].op = "recoverKnown")
          \/ UNCHANGED orders
      BY <1>6 DEF RenewForGet, RenewForCancel, RenewForCreate
    <2> QED BY <1>2, <1>5, <2>1, <2>2
  <1>7. CASE CompletePaymentOrderOperation(p)
    <2> DEFINE o == proc[p].at
    <2>1. o \in Orders /\ proc[p] \in Operation /\ Sound(proc[p], paid, link)
      BY <1>7 DEF CompletePaymentOrderOperation, TypeOK, OperationsSound, Sound, Busy, PCs
    <2>2. UpdateOk(proc[p].upd, o, link')
      BY <1>1, <2>1, OperationFields DEF Sound, UpdateOk
    <2>3. CASE /\ Completable(orders[o], p)
               /\ orders' = [orders EXCEPT ![o] = CompletedOrder(@, proc[p].upd)]
      <3>1. orders[o] \in OrderRow /\ orders[o].status # "ABSENT"
        BY <2>1, <2>3, TokenRow DEF TypeOK, Completable
      <3>2. Quiet(orders[o], CompletedOrder(orders[o], proc[p].upd), link'[o])
        BY <2>2, <3>1, QuietCompleted
      <3> QED BY <1>1, <2>1, <2>3, <3>2, OneRow
    <2> QED BY <1>2, <1>7, <2>3 DEF CompletePaymentOrderOperation
  <1>8. CASE \/ PendingPaymentCallbacks(p) \/ SettleFails(p) \/ Crash(p)
             \/ \E k \in Keys : CreateOrder(p, k)
    BY <1>2, <1>8 DEF PendingPaymentCallbacks, SettleFails, Crash, CreateOrder, db
  <1> QED BY <1>3, <1>4, <1>6, <1>7, <1>8

LEMMA WorkerQuiet ==
  ASSUME TypeOK, WakePendingPaymentCallbacks \/ DuePaymentOrders \/ \E o \in Orders : ReconcileOrder(o)
  PROVE  QuietStep
  <1>1. ProviderStep /\ UNCHANGED receipts
    BY DEF WakePendingPaymentCallbacks, DuePaymentOrders, ReconcileOrder, db,
       provider, ProviderStep
  <1>2. CASE UNCHANGED orders
    BY <1>1, <1>2, RowsSame
  <1>3. CASE WakePendingPaymentCallbacks
    <2>1. \A o \in Orders : orders'[o] \in {orders[o], WokenOrder(orders[o])}
      BY <1>3 DEF WakePendingPaymentCallbacks
    <2>2. \A o \in Orders : Quiet(orders[o], orders'[o], link'[o])
      BY <2>1, QuietSame, QuietWoken DEF TypeOK
    <2> QED BY <1>1, <2>2 DEF QuietStep
  <1>4. ASSUME NEW o \in Orders, ReconcileOrder(o)
        PROVE  QuietStep
    <2>1. CASE Claimable(orders[o]) /\ Claim(Worker, o, "reconcile", "get")
      <3>1. Quiet(orders[o], ClaimedOrder(orders[o], Worker), link'[o])
        BY <2>1, QuietClaimed DEF Claimable, TypeOK
      <3> QED BY <1>1, <2>1, <3>1, OneRow DEF Claim
    <2> QED BY <1>2, <1>4, <2>1 DEF ReconcileOrder
  <1>5. CASE DuePaymentOrders
    BY <1>2, <1>5 DEF DuePaymentOrders, db
  <1> QED BY <1>3, <1>4, <1>5

LEMMA EnvironmentQuiet ==
  ASSUME TypeOK, OrdersBound,
         \/ \E o \in Orders : \/ LeaseExpires(o) \/ GrowOld(o) \/ LateCreate(o)
                              \/ \E how \in Closings : CloseLink(o, how)
         \/ \E p \in Procs : Stall(p)
         \/ \E t \in Transfers : Pay(t)
         \/ LockGate \/ UnlockGate
  PROVE  QuietStep
  <1>1. UNCHANGED receipts
    BY DEF LeaseExpires, GrowOld, LateCreate, CloseLink, Stall, Pay, LockGate, UnlockGate, db
  <1>2. ASSUME NEW o \in Orders, ProviderStep, orders[o].leased,
               orders' = [orders EXCEPT ![o].leased = FALSE]
        PROVE  QuietStep
    <2>1. orders[o].status # "ABSENT"
      <3>1. AbsentOrder.leased = FALSE
        BY DEF AbsentOrder
      <3> QED BY <1>2, <3>1 DEF OrdersBound
    <2>2. Quiet(orders[o], [orders[o] EXCEPT !.leased = FALSE], link'[o])
      BY <2>1, QuietField DEF TypeOK
    <2> QED BY <1>1, <1>2, <2>2, OneRow
  <1>3. ASSUME NEW o \in Orders, LeaseExpires(o)
        PROVE  QuietStep
    BY <1>2, <1>3 DEF LeaseExpires, provider, ProviderStep
  <1>4. ASSUME NEW p \in Procs, Stall(p)
        PROVE  QuietStep
    BY <1>2, <1>4 DEF Stall, provider, ProviderStep
  <1>5. ASSUME NEW o \in Orders, GrowOld(o)
        PROVE  QuietStep
    <2>1. PICK a \in AgesReached : orders' = [orders EXCEPT ![o].age = a]
      BY <1>5 DEF GrowOld
    <2>2. a \in Ages /\ orders[o].status # "ABSENT" /\ ProviderStep
      BY <1>5, ServiceAssumption DEF GrowOld, provider, ProviderStep
    <2>3. Quiet(orders[o], [orders[o] EXCEPT !.age = a], link'[o])
      BY <2>2, QuietField DEF TypeOK
    <2> QED BY <1>1, <2>1, <2>2, <2>3, OneRow
  <1>6. CASE \E o \in Orders : LateCreate(o) \/ \E how \in Closings : CloseLink(o, how)
    <2>1. PICK o \in Orders : LateCreate(o) \/ \E how \in Closings : CloseLink(o, how)
      BY <1>6
    <2>2. \/ link' = link
          \/ /\ link[o] \in {"absent", "open"}
             /\ \E v \in {"open"} \cup Closed : link' = [link EXCEPT ![o] = v]
      BY <2>1, ServiceAssumption DEF LateCreate, CloseLink, TypeOK
    <2>3. UNCHANGED <<orders, paid>>
      BY <2>1 DEF LateCreate, CloseLink, db
    <2>4. ProviderStep
      BY <2>2, <2>3 DEF TypeOK, ProviderStep
    <2> QED BY <1>1, <2>3, <2>4, RowsSame
  <1>7. CASE LockGate \/ UnlockGate \/ \E t \in Transfers : Pay(t)
    <2>1. ProviderStep /\ UNCHANGED orders
      BY <1>7 DEF LockGate, UnlockGate, Pay, db, provider, ProviderStep
    <2> QED BY <1>1, <2>1, RowsSame
  <1> QED BY <1>3, <1>4, <1>5, <1>6, <1>7

\* Every step of the service is quiet or books one transfer.
LEMMA QuietOrBooking ==
  ASSUME TypeOK, OperationsSound, OrdersBound, [Next]_vars
  PROVE  QuietStep \/ \E e : Booking(e)
  <1>1. CASE UNCHANGED vars
    BY <1>1, RowsSame DEF vars, db, provider, ProviderStep
  <1>2. ASSUME NEW p \in Procs, Progress(p)
        PROVE  QuietStep \/ \E e : Booking(e)
    BY <1>2, OperationQuiet, RequestQuiet, SettlementBooks DEF Progress
  <1> QED BY <1>1, <1>2, OperationQuiet, WorkerQuiet, EnvironmentQuiet, WebhookBooks
             DEF Next, createPayment, cancelPayment

LEMMA MoneyStep ==
  ASSUME TypeOK, OperationsSound, Money, [Next]_vars
  PROVE  Money' /\ \A o \in Orders : Final(o)
  BY QuietOrBooking, QuietKeepsMoney, BookingKeepsMoney DEF Money

-----------------------------------------------------------------------------
(* Leases.                                                                 *)

\* Process q's request, if it has one in flight, is still covered.
Covered(q) == proc[q].pc \in Calls => /\ orders'[proc[q].at].token = q
                                      /\ orders'[proc[q].at].leased

LEMMA LeasesOfOthers ==
  ASSUME TypeOK, NEW p \in Procs, NEW n, Become(p, n),
         n.pc \in Calls => orders'[n.at].token = p /\ orders'[n.at].leased,
         \A q \in Procs \ {p} : Covered(q)
  PROVE  RequestsLeased'
  BY DEF RequestsLeased, Covered, Become, TypeOK

LEMMA CallsHaveOrders ==
  ASSUME OperationsSound, NEW q \in Procs, proc[q].pc \in Calls
  PROVE  proc[q].at \in Orders
  BY DEF OperationsSound, Sound, Busy, PCs, Calls

\* A row may change in any way that keeps its token and its lease.
KeepsLease(row, new) == new.token = row.token /\ (row.leased => new.leased)

LEMMA CoveredByRows ==
  ASSUME RequestsLeased, OperationsSound,
         \A o \in Orders : KeepsLease(orders[o], orders'[o])
  PROVE  \A q \in Procs : Covered(q)
  BY CallsHaveOrders DEF RequestsLeased, KeepsLease, Covered

\* A row that no request relies on may change in any way.
LEMMA CoveredByOthers ==
  ASSUME TypeOK, RequestsLeased, OperationsSound, NEW o \in Orders, NEW p, NEW new,
         orders' = [orders EXCEPT ![o] = new],
         orders[o].token \in {p, NoProc} \/ ~orders[o].leased
  PROVE  \A q \in Procs \ {p} : Covered(q)
  <1>1. ASSUME NEW q \in Procs \ {p}, proc[q].pc \in Calls
        PROVE  orders'[proc[q].at] = orders[proc[q].at]
    <2>1. /\ proc[q].at \in Orders /\ q # NoProc
          /\ orders[proc[q].at].token = q /\ orders[proc[q].at].leased
      BY <1>1, CallsHaveOrders, NullAssumption DEF RequestsLeased
    <2> QED BY <1>1, <2>1 DEF TypeOK
  <1> QED BY <1>1 DEF Covered, RequestsLeased

LEMMA KeptLeases ==
  ASSUME NEW row \in OrderRow
  PROVE  /\ KeepsLease(row, row) /\ KeepsLease(row, WokenOrder(row))
         /\ \A isNew, reason : KeepsLease(row, OrderAfterInsert(row, isNew, reason))
         /\ \A tried : KeepsLease(row, RenewedOrder(row, tried))
         /\ \A e : KeepsLease(row, PaidOrder(row, e))
  BY DEF KeepsLease, WokenOrder, OrderAfterInsert, RenewedOrder, PaidOrder, OrderRow

\* The operations that replies and settlements lead to are not requests.
LEMMA FinishNoCall ==
  ASSUME NEW s, NEW u
  PROVE  ToFinish(s, u).pc \notin Calls /\ Idle.pc \notin Calls
  BY DEF ToFinish, Idle, Calls

LEMMA MoveNoCall ==
  ASSUME NEW s \in Operation, NEW pc \in {"get", "cancel", "recreate", "pending", "settle", "scan", "reserve"}
  PROVE  /\ [s EXCEPT !.pc = pc].pc \notin Calls
         /\ \A op : [s EXCEPT !.pc = pc, !.op = op].pc \notin Calls
         /\ \A op, key : [s EXCEPT !.pc = pc, !.op = op, !.key = key].pc \notin Calls
         /\ \A op, at, snap : [s EXCEPT !.pc = pc, !.op = op, !.at = at, !.snap = snap].pc \notin Calls
         /\ \A txns : [s EXCEPT !.pc = pc, !.txns = txns].pc \notin Calls
         /\ \A items : [s EXCEPT !.pc = pc, !.items = items].pc \notin Calls
  BY DEF Operation, Calls

LEMMA ReplyNoCall ==
  ASSUME NEW s \in Operation
  PROVE  /\ \A status, txns : /\ ApplyVerifiedLink(s, status, txns).pc \notin Calls
                              /\ CompleteCancellation(s, status, txns).pc \notin Calls
                              /\ AfterGet(s, status, txns).pc \notin Calls
         /\ AfterAbsent(s).pc \notin Calls /\ AfterMismatch(s).pc \notin Calls
         /\ GetFailed(s).pc \notin Calls /\ DetailsPending(s).pc \notin Calls
         /\ \A reply, account : RecreateOutcome(s, reply, account).pc \notin Calls
  <1>1. BoundTo(s) \in Operation
    <2>1. s.snap \in Snapshot /\ [s.snap EXCEPT !.linkId = "own"] \in Snapshot
      BY OperationFields DEF Snapshot, Links
    <2> QED BY <2>1, OperationFields DEF BoundTo
  <1>2. \A op : /\ ToCancel(s, op).pc \notin Calls /\ ToCancel(BoundTo(s), op).pc \notin Calls
                /\ [s EXCEPT !.pc = "recreate", !.op = op].pc \notin Calls
                /\ [BoundTo(s) EXCEPT !.pc = "recreate", !.op = op].pc \notin Calls
    BY <1>1, MoveNoCall DEF ToCancel
  <1>3. \A txns : [s EXCEPT !.pc = "pending", !.txns = txns].pc \notin Calls
    BY MoveNoCall
  <1>4. GetFailed(s).pc \notin Calls /\ DetailsPending(s).pc \notin Calls /\ AfterMismatch(s).pc \notin Calls
    BY FinishNoCall DEF GetFailed, DetailsPending, AfterMismatch
  <1>5. ASSUME NEW status, NEW txns
        PROVE  /\ ApplyVerifiedLink(s, status, txns).pc \notin Calls
               /\ CompleteCancellation(s, status, txns).pc \notin Calls
               /\ AfterGet(s, status, txns).pc \notin Calls
    <2>1. ApplyVerifiedLink(s, status, txns).pc \notin Calls
      BY <1>2, <1>3, FinishNoCall DEF ApplyVerifiedLink, Closed
    <2>2. CompleteCancellation(s, status, txns).pc \notin Calls
      BY <1>3, FinishNoCall DEF CompleteCancellation
    <2> QED BY <1>4, <2>1, <2>2 DEF AfterGet
  <1>6. AfterAbsent(s).pc \notin Calls
    BY <1>2, <1>4, FinishNoCall DEF AfterAbsent, RecoverAbsent
  <1>7. ASSUME NEW reply, NEW account
        PROVE  RecreateOutcome(s, reply, account).pc \notin Calls
    BY <1>2, FinishNoCall DEF RecreateOutcome
  <1> QED BY <1>4, <1>5, <1>6, <1>7

\* Replies, the settlements they lead to, and every other step that sends
\* nothing and keeps the leases.
LEMMA ReplyLeases ==
  ASSUME TypeOK, OperationsSound, RequestsLeased, NEW p \in Procs,
         \/ CreateCall(p) \/ GetCall(p) \/ CancelCall(p) \/ RecreateCall(p)
         \/ PendingPaymentCallbacks(p) \/ SettleFails(p) \/ SettleCatchUp(p)
         \/ \E c \in Callbacks : SettleInbox(p, c)
         \/ \E k \in Keys : CreateOrder(p, k)
         \/ Crash(p)
  PROVE  RequestsLeased'
  <1>1. proc[p] \in Operation /\ Idle \in Operation
    BY IdleType DEF TypeOK
  <1>2. \A o \in Orders : KeepsLease(orders[o], orders'[o])
    <2>1. CASE UNCHANGED orders
      BY <2>1, KeptLeases DEF TypeOK
    <2>2. CASE SettleCatchUp(p) \/ \E c \in Callbacks : SettleInbox(p, c)
      <3>1. \/ UNCHANGED orders
            \/ \E e : orders' = [orders EXCEPT ![e.order] = PaidOrder(@, e)]
        BY <2>2 DEF SettleCatchUp, SettleInbox, Commit
      <3>2. ASSUME NEW e, orders' = [orders EXCEPT ![e.order] = PaidOrder(@, e)], NEW o \in Orders
            PROVE  orders'[o] \in {orders[o], PaidOrder(orders[o], e)}
        BY <3>2 DEF TypeOK
      <3> QED BY <2>1, <3>1, <3>2, KeptLeases DEF TypeOK
    <2> QED BY <2>1, <2>2 DEF CreateCall, GetCall, CancelCall, RecreateCall,
               PendingPaymentCallbacks, SettleFails, CreateOrder, Crash, db
  <1>3. \A q \in Procs : Covered(q)
    BY <1>2, CoveredByRows
  <1>4. \E n : Become(p, n) /\ n.pc \notin Calls
    <2>1. CASE CreateCall(p) \/ RecreateCall(p)
      BY <1>1, <2>1, FinishNoCall, ReplyNoCall DEF CreateCall, RecreateCall
    <2>2. CASE GetCall(p)
      BY <1>1, <2>2, ReplyNoCall DEF GetCall
    <2>3. CASE CancelCall(p)
      <3>1. [proc[p] EXCEPT !.pc = "get"].pc \notin Calls
        BY <1>1, MoveNoCall
      <3> QED BY <1>1, <2>3, <3>1, ReplyNoCall DEF CancelCall
    <2>4. CASE PendingPaymentCallbacks(p)
      <3>1. \A items : [proc[p] EXCEPT !.pc = "settle", !.items = items].pc \notin Calls
        BY <1>1, MoveNoCall
      <3> QED BY <1>1, <2>4, <3>1, ReplyNoCall DEF PendingPaymentCallbacks
    <2>5. CASE SettleFails(p)
      BY <1>1, <2>5, ReplyNoCall, FinishNoCall DEF SettleFails, Abandon
    <2>6. CASE SettleCatchUp(p)
      BY <1>1, <2>6, ReplyNoCall, FinishNoCall DEF SettleCatchUp
    <2>7. ASSUME NEW c \in Callbacks, SettleInbox(p, c)
          PROVE  \E n : Become(p, n) /\ n.pc \notin Calls
      <3>1. [proc[p] EXCEPT !.items = @ \ {c}].pc = "settle" /\ "settle" \notin Calls
        BY <1>1, <2>7 DEF SettleInbox, Operation, Calls
      <3>2. AfterItem(proc[p], c).pc \notin Calls
        BY <3>1, FinishNoCall DEF AfterItem
      <3> QED BY <1>1, <2>7, <3>2, ReplyNoCall DEF SettleInbox
    <2>8. CASE \E k \in Keys : CreateOrder(p, k)
      BY <1>1, <2>8, MoveNoCall DEF CreateOrder
    <2>9. CASE Crash(p)
      BY <2>9, FinishNoCall DEF Crash, Abandon
    <2> QED BY <2>1, <2>2, <2>3, <2>4, <2>5, <2>6, <2>7, <2>8, <2>9
  <1> QED BY <1>3, <1>4, LeasesOfOthers

\* A reservation and a claim take an order that no request relies on.
LEMMA TakeLeases ==
  ASSUME TypeOK, OperationsSound, RequestsLeased, OrdersBound, NEW p \in Procs,
         \/ ReservePaymentOrder(p) \/ CompletePaymentOrderOperation(p)
         \/ \E o \in Orders : \/ CancelOrder(p, o)
                              \/ Claimable(orders[o]) /\ Claim(p, o, "reconcile", "get")
  PROVE  RequestsLeased'
  <1>1. CASE ReservePaymentOrder(p)
    <2>1. CASE UNCHANGED orders /\ Become(p, Idle)
      <3>1. \A q \in Procs : Covered(q)
        BY <2>1 DEF Covered, RequestsLeased
      <3> QED BY <2>1, <3>1, LeasesOfOthers, FinishNoCall
    <2>2. ASSUME NEW o \in Orders, orders[o].status = "ABSENT",
                 orders' = [orders EXCEPT ![o] = ReservedOrder(proc[p].key, p)],
                 Become(p, [Idle EXCEPT !.pc = "create", !.op = "create", !.at = o])
          PROVE  RequestsLeased'
      <3>1. orders[o].token = NoProc
        <4>1. AbsentOrder.token = NoProc
          BY DEF AbsentOrder
        <4> QED BY <2>2, <4>1 DEF OrdersBound
      <3>2. \A q \in Procs \ {p} : Covered(q)
        BY <2>2, <3>1, CoveredByOthers
      <3>3. orders'[o].token = p /\ orders'[o].leased
        BY <2>2 DEF ReservedOrder, AbsentOrder, TypeOK
      <3>4. [Idle EXCEPT !.pc = "create", !.op = "create", !.at = o].at = o
        BY DEF Idle
      <3> QED BY <2>2, <3>2, <3>3, <3>4, LeasesOfOthers
    <2> QED BY <1>1, <2>1, <2>2 DEF ReservePaymentOrder
  <1>2. ASSUME NEW o \in Orders, Claimable(orders[o]), NEW op, NEW pc \in {"get", "cancel"},
               Claim(p, o, op, pc)
        PROVE  RequestsLeased'
    <2>1. \A q \in Procs \ {p} : Covered(q)
      BY <1>2, CoveredByOthers DEF Claimable, Claim
    <2>2. [Idle EXCEPT !.pc = pc, !.op = op, !.at = o, !.snap = Snap(orders[o])].pc \notin Calls
      BY IdleType, MoveNoCall
    <2> QED BY <1>2, <2>1, <2>2, LeasesOfOthers DEF Claim
  <1>3. CASE CompletePaymentOrderOperation(p)
    <2>1. Become(p, Idle) /\ Idle.pc \notin Calls
      BY <1>3, FinishNoCall DEF CompletePaymentOrderOperation
    <2>2. CASE UNCHANGED orders
      <3>1. \A q \in Procs : Covered(q)
        BY <2>2 DEF Covered, RequestsLeased
      <3> QED BY <2>1, <3>1, LeasesOfOthers
    <2>3. CASE /\ Completable(orders[proc[p].at], p)
               /\ orders' = [orders EXCEPT ![proc[p].at] = CompletedOrder(@, proc[p].upd)]
      <3>1. proc[p].at \in Orders
        BY <1>3 DEF CompletePaymentOrderOperation, OperationsSound, Sound, Busy, PCs
      <3>2. \A q \in Procs \ {p} : Covered(q)
        <4> DEFINE new == CompletedOrder(orders[proc[p].at], proc[p].upd)
        <4>1. orders' = [orders EXCEPT ![proc[p].at] = new] /\ orders[proc[p].at].token = p
          BY <2>3 DEF Completable
        <4> HIDE DEF new
        <4> QED BY <3>1, <4>1, CoveredByOthers
      <3> QED BY <2>1, <3>2, LeasesOfOthers
    <2> QED BY <1>3, <2>2, <2>3 DEF CompletePaymentOrderOperation
  <1> QED BY <1>1, <1>2, <1>3 DEF CancelOrder

\* A renewal covers the request that follows it.
LEMMA RenewLeases ==
  ASSUME TypeOK, OperationsSound, RequestsLeased, NEW p \in Procs,
         RenewForGet(p) \/ RenewForCancel(p) \/ RenewForCreate(p)
  PROVE  RequestsLeased'
  <1> DEFINE o == proc[p].at
  <1>1. o \in Orders /\ proc[p] \in Operation
    BY DEF RenewForGet, RenewForCancel, RenewForCreate, OperationsSound, Sound,
       Busy, PCs, TypeOK
  <1>2. ASSUME NEW tried, CanRenew(p), Renew(p, tried), NEW n, Become(p, n), n.at = o
        PROVE  RequestsLeased'
    <2>1. orders'[o] = RenewedOrder(orders[o], tried) /\ orders[o] \in OrderRow
      BY <1>1, <1>2 DEF Renew, TypeOK
    <2>2. orders'[o].token = p /\ orders'[o].leased
      BY <1>2, <2>1 DEF CanRenew, Renewable, RenewedOrder, OrderRow
    <2>3. \A x \in Orders : orders'[x] \in {orders[x], RenewedOrder(orders[x], tried)}
      BY <1>1, <1>2 DEF Renew, TypeOK
    <2>4. \A x \in Orders : KeepsLease(orders[x], orders'[x])
      BY <2>3, KeptLeases DEF TypeOK
    <2>5. \A q \in Procs : Covered(q)
      BY <2>4, CoveredByRows
    <2> QED BY <1>2, <2>2, <2>5, LeasesOfOthers
  <1>3. ASSUME UNCHANGED orders, NEW n, Become(p, n), n.pc \notin Calls
        PROVE  RequestsLeased'
    <2>1. \A q \in Procs : Covered(q)
      BY <1>3 DEF Covered, RequestsLeased
    <2> QED BY <1>3, <2>1, LeasesOfOthers
  <1>4. /\ \A pc : [proc[p] EXCEPT !.pc = pc].at = o
        /\ \A pc, snap : [proc[p] EXCEPT !.pc = pc, !.snap = snap].at = o
    BY <1>1 DEF Operation
  <1>5. CASE RenewForGet(p)
    BY <1>1, <1>2, <1>3, <1>4, <1>5, ReplyNoCall DEF RenewForGet
  <1>6. CASE RenewForCancel(p)
    <2>1. [proc[p] EXCEPT !.pc = "get"].pc \notin Calls
      BY <1>1, MoveNoCall
    <2> QED BY <1>2, <1>3, <1>4, <1>6, <2>1 DEF RenewForCancel
  <1>7. CASE RenewForCreate(p)
    <2>1. \/ \E snap : /\ CanRenew(p) /\ Renew(p, proc[p].op = "recoverKnown")
                       /\ Become(p, [proc[p] EXCEPT !.pc = "recreateCall", !.snap = snap])
          \/ UNCHANGED orders /\ \E u : Become(p, ToFinish(proc[p], u))
          \/ UNCHANGED orders /\ Become(p, Idle)
      BY <1>7 DEF RenewForCreate, Abandon
    <2> QED BY <1>2, <1>3, <1>4, <2>1, FinishNoCall
  <1> QED BY <1>5, <1>6, <1>7

LEMMA OutsideLeases ==
  ASSUME TypeOK, OperationsSound, RequestsLeased, OrdersBound, UNCHANGED proc,
         \A q \in Procs : Covered(q)
  PROVE  RequestsLeased'
  BY DEF RequestsLeased, Covered

LEMMA WebhookLeases ==
  ASSUME TypeOK, OperationsSound, RequestsLeased, OrdersBound, NEW c \in Callbacks,
         AckSample(c) \/ ReviewWebhook(c) \/ SettleWebhook(c)
  PROVE  RequestsLeased'
  <1>1. c.order \in Orders /\ UNCHANGED proc
    BY CallbacksAssumption, EvidenceFields DEF AckSample, ReviewWebhook, SettleWebhook
  <1>2. \/ UNCHANGED orders
        \/ \E isNew, reason : orders' = [orders EXCEPT ![c.order] =
                                           OrderAfterInsert(orders[c.order], isNew, reason)]
        \/ orders' = [orders EXCEPT ![c.order] = PaidOrder(orders[c.order], c)]
    BY DEF AckSample, ReviewWebhook, SettleWebhook, Commit, db
  <1>3. orders[c.order] \in OrderRow
    BY <1>1 DEF TypeOK
  <1>4. ASSUME NEW new, orders' = [orders EXCEPT ![c.order] = new],
               KeepsLease(orders[c.order], new)
        PROVE  \A o \in Orders : KeepsLease(orders[o], orders'[o])
    BY <1>1, <1>4, KeptLeases DEF TypeOK
  <1>5. \A o \in Orders : KeepsLease(orders[o], orders'[o])
    <2>1. CASE UNCHANGED orders
      BY <2>1, KeptLeases DEF TypeOK
    <2> QED BY <1>2, <1>3, <1>4, <2>1, KeptLeases
  <1> QED BY <1>1, <1>5, CoveredByRows, OutsideLeases

LEMMA WorkerLeases ==
  ASSUME TypeOK, OperationsSound, RequestsLeased, OrdersBound,
         WakePendingPaymentCallbacks \/ DuePaymentOrders \/ \E o \in Orders : ReconcileOrder(o)
  PROVE  RequestsLeased'
  <1>1. Worker \in Procs
    BY ServiceAssumption
  <1>2. CASE WakePendingPaymentCallbacks
    <2>1. \A o \in Orders : orders'[o] \in {orders[o], WokenOrder(orders[o])}
      BY <1>2 DEF WakePendingPaymentCallbacks
    <2>2. \A o \in Orders : KeepsLease(orders[o], orders'[o])
      BY <2>1, KeptLeases DEF TypeOK
    <2>3. \A q \in Procs : Covered(q)
      BY <2>2, CoveredByRows
    <2>4. [Idle EXCEPT !.pc = "scan"].pc \notin Calls
      BY IdleType, MoveNoCall
    <2> QED BY <1>1, <1>2, <2>3, <2>4, LeasesOfOthers DEF WakePendingPaymentCallbacks
  <1>3. CASE DuePaymentOrders
    <2>1. \A q \in Procs : Covered(q)
      BY <1>3 DEF DuePaymentOrders, db, Covered, RequestsLeased
    <2> QED BY <1>1, <1>3, <2>1, FinishNoCall, LeasesOfOthers DEF DuePaymentOrders
  <1>4. ASSUME NEW o \in Orders, ReconcileOrder(o)
        PROVE  RequestsLeased'
    <2>1. CASE UNCHANGED <<orders, proc>>
      BY <2>1 DEF RequestsLeased
    <2>2. CASE Claimable(orders[o]) /\ Claim(Worker, o, "reconcile", "get")
      <3>1. \E x \in Orders : \/ CancelOrder(Worker, x)
                              \/ Claimable(orders[x]) /\ Claim(Worker, x, "reconcile", "get")
        BY <2>2, Zenon
      <3> QED BY <1>1, <3>1, TakeLeases, Zenon
    <2> QED BY <1>4, <2>1, <2>2 DEF ReconcileOrder
  <1> QED BY <1>2, <1>3, <1>4

LEMMA EnvironmentLeases ==
  ASSUME TypeOK, OperationsSound, RequestsLeased, OrdersBound,
         \/ \E o \in Orders : \/ LeaseExpires(o) \/ GrowOld(o) \/ LateCreate(o)
                              \/ \E how \in Closings : CloseLink(o, how)
         \/ \E p \in Procs : Stall(p)
         \/ \E t \in Transfers : Pay(t)
         \/ LockGate \/ UnlockGate
  PROVE  RequestsLeased'
  <1>1. UNCHANGED proc
    BY DEF LeaseExpires, GrowOld, LateCreate, CloseLink, Stall, Pay, LockGate, UnlockGate
  <1>2. CASE UNCHANGED orders
    BY <1>1, <1>2 DEF RequestsLeased
  <1>3. ASSUME NEW o \in Orders, orders' = [orders EXCEPT ![o].leased = FALSE],
               \A q \in Procs : Holding(q, o) => proc[q].pc \notin Calls
        PROVE  RequestsLeased'
    <2>1. ASSUME NEW q \in Procs, proc[q].pc \in Calls
          PROVE  orders'[proc[q].at] = orders[proc[q].at]
      <3>1. proc[q].at # o
        BY <1>3, <2>1 DEF Holding, RequestsLeased
      <3>2. proc[q].at \in Orders
        BY <2>1, CallsHaveOrders
      <3> QED BY <1>3, <3>1, <3>2 DEF TypeOK
    <2> QED BY <1>1, <2>1 DEF RequestsLeased
  <1>4. ASSUME NEW o \in Orders, LeaseExpires(o)
        PROVE  RequestsLeased'
    BY <1>3, <1>4 DEF LeaseExpires
  <1>5. ASSUME NEW p \in Procs, Stall(p)
        PROVE  RequestsLeased'
    BY <1>3, <1>5 DEF Stall, Holding
  <1>6. ASSUME NEW o \in Orders, GrowOld(o)
        PROVE  RequestsLeased'
    <2>1. PICK a : orders' = [orders EXCEPT ![o].age = a]
      BY <1>6 DEF GrowOld
    <2>2. \A x \in Orders : orders'[x] \in {orders[x], [orders[x] EXCEPT !.age = a]}
      BY <2>1 DEF TypeOK
    <2>3. ASSUME NEW x \in Orders
          PROVE  KeepsLease(orders[x], orders'[x])
      <3>1. orders[x] \in OrderRow
        BY DEF TypeOK
      <3>2. KeepsLease(orders[x], [orders[x] EXCEPT !.age = a])
        BY <3>1 DEF KeepsLease, OrderRow
      <3> QED BY <2>2, <3>1, <3>2, KeptLeases
    <2> QED BY <1>1, <2>3, CoveredByRows, OutsideLeases
  <1>7. CASE \/ \E o \in Orders : LateCreate(o) \/ \E how \in Closings : CloseLink(o, how)
             \/ \E t \in Transfers : Pay(t)
             \/ LockGate \/ UnlockGate
    BY <1>2, <1>7 DEF LateCreate, CloseLink, Pay, LockGate, UnlockGate, db
  <1> QED BY <1>4, <1>5, <1>6, <1>7

LEMMA LeaseStep ==
  ASSUME TypeOK, OperationsSound, RequestsLeased, OrdersBound, [Next]_vars
  PROVE  RequestsLeased'
  <1>1. CASE UNCHANGED vars
    BY <1>1 DEF vars, db, RequestsLeased
  <1>2. ASSUME NEW p \in Procs, Progress(p)
        PROVE  RequestsLeased'
    BY <1>2, ReplyLeases, TakeLeases, RenewLeases DEF Progress
  <1> QED BY <1>1, <1>2, ReplyLeases, TakeLeases, WorkerLeases, WebhookLeases,
             EnvironmentLeases DEF Next, createPayment, cancelPayment

-----------------------------------------------------------------------------
(* The inductive invariant and the theorems.                               *)

LEMMA InitIInv ==
  ASSUME Init
  PROVE  IInv
  <1>1. orders \in [Orders -> OrderRow] /\ proc \in [Procs -> Operation]
    BY AbsentOrderType, IdleType DEF Init
  <1>2. inbox \in [Callbacks -> InboxRow]
    BY DEF Init, InboxRow
  <1>3. link \in [Orders -> {"absent", "open"} \cup Closed]
    BY DEF Init
  <1>4. TypeOK
    BY <1>1, <1>2, <1>3, ServiceAssumption DEF Init, TypeOK
  <1>5. OperationsSound
    BY IdleGood DEF Init, OperationsSound, Good
  <1>6. RequestsLeased
    <2>1. Idle.pc \notin Calls
      BY FinishNoCall
    <2> QED BY <2>1 DEF Init, RequestsLeased
  <1>7. Money
    <2>1. /\ AbsentOrder.status = "ABSENT" /\ AbsentOrder.linkId = "none"
          /\ AbsentOrder.txnId = NoRef
      BY DEF AbsentOrder
    <2> QED BY <2>1, NullAssumption DEF Init, Money, OrdersBound, SettledOnce,
               CreditsAreTransfers, ClosedByProvider
  <1> QED BY <1>4, <1>5, <1>6, <1>7 DEF IInv, Money

LEMMA NextIInv ==
  ASSUME IInv, [Next]_vars
  PROVE  IInv' /\ \A o \in Orders : Final(o)
  BY TypeStep, MoneyStep, LeaseStep DEF IInv, Money

\* The inductive invariant holds in every reachable state: the operations in
\* flight only remember what is still true, and every request is leased.
THEOREM Invariance == Spec => []IInv
  BY InitIInv, NextIInv, PTL DEF Spec

\* The rows, the operations and the provider keep their types through every
\* interleaving of requests, worker, callbacks and failures.
THEOREM TypeCorrect == Spec => []TypeOK
  <1>1. IInv => TypeOK
    BY DEF IInv
  <1> QED BY <1>1, Invariance, PTL

\* SettlePayment books each order at most once, each reference for one order,
\* and never leaves a receipt without its PAID order, whichever of webhook,
\* catch-up and cancellation settles.
THEOREM SettlesOnce == Spec => []SettledOnce
  <1>1. IInv => SettledOnce
    BY DEF IInv
  <1> QED BY <1>1, Invariance, PTL

\* SettlePayment books only money the provider received, in full, on the
\* order's own link and account.
THEOREM CreditsOnlyTransfers == Spec => []CreditsAreTransfers
  <1>1. IInv => CreditsAreTransfers
    BY DEF IInv
  <1> QED BY <1>1, Invariance, PTL

\* No timeout, crash or ambiguous answer makes CancelOrder or the reconciler
\* close an order whose link is still payable.
THEOREM ClosesOnlyClosed == Spec => []ClosedByProvider
  <1>1. IInv => ClosedByProvider
    BY DEF IInv
  <1> QED BY <1>1, Invariance, PTL

\* ClaimPaymentOrder and RenewPaymentOrderOperation serialise the provider
\* requests of an order across gateways and worker.
THEOREM RequestsExclusive == Spec => []OneRequestPerOrder
  <1>1. IInv => OneRequestPerOrder
    BY DEF IInv, RequestsLeased, OneRequestPerOrder
  <1> QED BY <1>1, Invariance, PTL

\* No step takes a PAID order or a binding back: the late responses that
\* CompletePaymentOrderOperation writes, and late callbacks, included.
THEOREM PaidStays == Spec => PaidIsFinal
  <1>1. ASSUME IInv, [Next]_vars
        PROVE  [\A o \in Orders :
                 /\ orders[o].status = "PAID" =>
                       /\ orders'[o].status = "PAID"
                       /\ orders'[o].txnId = orders[o].txnId
                 /\ orders[o].linkId # "none" => orders'[o].linkId = orders[o].linkId
                 /\ orders[o].account # NoAccount => orders'[o].account = orders[o].account
                 /\ orders[o].qrCode => orders'[o].qrCode]_vars
    BY <1>1, NextIInv DEF Final
  <1> QED BY <1>1, Invariance, PTL DEF Spec, PaidIsFinal
=============================================================================
