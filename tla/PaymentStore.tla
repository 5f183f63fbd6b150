----------------------------- MODULE PaymentStore -----------------------------
(***************************************************************************)
(* The payOS rows of the shared SQLite database, and what each storage     *)
(* transaction of internal/storage/payment_orders.go, settlement.go and    *)
(* payos_receipts.go does to them.  Every operator is one transaction (or  *)
(* the part of one that changes one table): SQLite's single writer makes   *)
(* it atomic, so the processes of PaymentService interleave between        *)
(* transactions and never inside one.                                      *)
(*                                                                         *)
(* Data is reduced to what the code compares:                              *)
(*  - an order is its order code; the amount of a payment is "full" (the   *)
(*    order's own amount) or "part"; the link the provider issued for the  *)
(*    code is "own", any other link id is "other";                         *)
(*  - a timestamp is the outcome of the comparisons made with it: the      *)
(*    operation lease is live or not, next_reconcile_at is set or NULL (a  *)
(*    set one falls due at some moment), and the order's age says whether  *)
(*    expires_at, or expires_at + 24h, has passed;                         *)
(*  - a transaction id is the bank reference it was booked under.          *)
(***************************************************************************)
EXTENDS Naturals, FiniteSets

CONSTANTS Orders,      \* order codes
          Refs,        \* bank references of incoming transfers
          Accounts,    \* receiving accounts (account or virtual account)
          Keys,        \* idempotency keys of CreateOrder
          Procs,       \* requests and worker loops; a process is its token
          Callbacks,   \* the signed webhook payloads that can arrive
          NoRef, NoAccount, NoKey, NoProc

Ages      == {"open", "expired", "final"}
Links     == {"none", "own", "other"}
Amounts   == {"full", "part"}
Faults    == {"none", "NON_SUCCESS", "INVALID_TRANSACTION_DATE",
              "PAYMENT_MISMATCH", "SAMPLE"}
Statuses  == {"CREATING", "PENDING", "PROCESSING", "UNDERPAID", "PAID",
              "CANCELLED", "EXPIRED", "FAILED"}
Closed    == {"CANCELLED", "EXPIRED", "FAILED"}

\* The signed evidence of one transfer: a webhook payload, or the single
\* transaction of a verified Get (fault "none", link "own").
Evidence == [order: Orders, link: {"own", "other"}, ref: Refs,
             amount: Amounts, account: Accounts \cup {NoAccount},
             fault: Faults]

ASSUME CallbacksAssumption == Callbacks \subseteq Evidence
ASSUME NullAssumption == /\ NoRef \notin Refs
                         /\ NoAccount \notin Accounts
                         /\ NoKey \notin Keys
                         /\ NoProc \notin Procs

BindReasons   == {"AWAITING_ORDER_BIND", "PAYMENT_DETAILS_PENDING"}
OpenReasons   == BindReasons \cup {"UNKNOWN_ORDER"}
ReviewReasons == OpenReasons \cup
    {"NON_SUCCESS", "INVALID_TRANSACTION_DATE", "PAYMENT_MISMATCH",
     "REFERENCE_CONFLICT", "EXTRA_PAYMENT_REVIEW"}
ErrorCodes == {"", "CREATE_OUTCOME_UNKNOWN", "CREATE_REJECTED",
               "INVALID_CREATE_RESPONSE", "PROVIDER_UNAVAILABLE",
               "PAYMENT_MISMATCH", "PAYMENT_DETAILS_PENDING",
               "CANCEL_OUTCOME_UNKNOWN", "QR_RECOVERY_CANCEL_PENDING",
               "QR_RECOVERY_CANCELLED"}

-----------------------------------------------------------------------------
(* payment_orders.  Status "ABSENT" is a code that has no row.             *)

OrderRow == [status: Statuses \cup {"ABSENT"}, key: Keys \cup {NoKey},
             linkId: Links, account: Accounts \cup {NoAccount},
             qrCode: BOOLEAN, txnId: Refs \cup {NoRef},
             lastError: ErrorCodes, nextReconcile: BOOLEAN,
             token: Procs \cup {NoProc}, leased: BOOLEAN,
             qrTried: BOOLEAN, age: Ages]

AbsentOrder == [status |-> "ABSENT", key |-> NoKey, linkId |-> "none",
                account |-> NoAccount, qrCode |-> FALSE, txnId |-> NoRef,
                lastError |-> "", nextReconcile |-> FALSE,
                token |-> NoProc, leased |-> FALSE, qrTried |-> FALSE,
                age |-> "open"]

\* ReservePaymentOrder's INSERT: a leased CREATING row, due when the lease ends.
ReservedOrder(key, tok) ==
    [AbsentOrder EXCEPT !.status = "CREATING", !.key = key,
                        !.nextReconcile = TRUE, !.token = tok, !.leased = TRUE]

\* Faulty variant: the live lease is not respected.
ClaimableIgnoringLease(row) == row.status \notin {"ABSENT", "PAID"}

\* ClaimPaymentOrder: a PAID order or a live lease only returns its snapshot.
Claimable(row) == /\ row.status \notin {"ABSENT", "PAID"}
                  /\ ~(row.token # NoProc /\ row.leased)

ClaimedOrder(row, tok) ==
    [row EXCEPT !.token = tok, !.leased = TRUE, !.nextReconcile = TRUE]

\* RenewPaymentOrderOperation: lost when the token was replaced or PAID won.
Renewable(row, tok) == row.token = tok /\ row.status # "PAID"

\* Faulty variant: the recovery attempt is not recorded before the request.
RenewedForgettingAttempt(row, tried) ==
    [row EXCEPT !.leased = TRUE, !.nextReconcile = TRUE]

RenewedOrder(row, tried) ==
    [row EXCEPT !.leased = TRUE, !.nextReconcile = TRUE,
                !.qrTried = @ \/ tried]

\* PaymentOrderUpdate, the outcome of a claimed provider operation.
OrderUpdate == [status: (Statuses \ {"PAID"}) \cup {""}, linkId: Links,
                account: Accounts \cup {NoAccount}, qrCode: BOOLEAN,
                lastError: ErrorCodes, next: BOOLEAN]

NoUpdate == [status |-> "", linkId |-> "none", account |-> NoAccount,
             qrCode |-> FALSE, lastError |-> "", next |-> FALSE]

\* CompletePaymentOrderOperation: token CAS, PAID always wins, the first
\* binding wins, CREATING and PROCESSING are never left unscheduled.
Completable(row, tok) == row.token = tok

\* Faulty variants: a late response overwrites PAID; an update without a
\* status blanks the one that is stored.
CompletedOverPaid(row, in) ==
    [row EXCEPT !.status = IF in.status = "" THEN @ ELSE in.status,
                !.linkId = IF @ = "none" THEN in.linkId ELSE @,
                !.account = IF @ = NoAccount THEN in.account ELSE @,
                !.qrCode = @ \/ in.qrCode, !.lastError = in.lastError,
                !.nextReconcile = in.next, !.token = NoProc, !.leased = FALSE]
CompletedBlankStatus(row, in) ==
    [row EXCEPT !.status = IF @ = "PAID" THEN @ ELSE in.status,
                !.nextReconcile = in.next, !.token = NoProc, !.leased = FALSE]

CompletedOrder(row, in) ==
    LET paid   == row.status = "PAID"
        target == IF in.status = "" THEN row.status ELSE in.status
    IN  [row EXCEPT
           !.status        = IF paid THEN "PAID" ELSE target,
           !.linkId        = IF @ = "none" THEN in.linkId ELSE @,
           !.account       = IF @ = NoAccount THEN in.account ELSE @,
           !.qrCode        = @ \/ in.qrCode,
           !.lastError     = IF paid THEN @ ELSE in.lastError,
           !.nextReconcile = /\ ~paid
                             /\ in.next \/ target \in {"CREATING", "PROCESSING"},
           !.token         = NoProc,
           !.leased        = FALSE]

\* Faulty variant: closed orders are not looked at again.
MayBeDueUnlessClosed(row) == /\ row.status \notin Closed \cup {"ABSENT", "PAID"}
                             /\ row.nextReconcile
                             /\ row.token = NoProc \/ ~row.leased

\* DuePaymentOrders.  A scheduled moment passes sooner or later, so an order
\* with one may be due whenever its lease is over.
MayBeDue(row) == /\ row.status \notin {"ABSENT", "PAID"}
                 /\ row.nextReconcile
                 /\ row.token = NoProc \/ ~row.leased

\* wakePaymentOrderInboxTx: new evidence schedules the order.
WokenOrder(row) == IF row.status \in {"ABSENT", "PAID"} THEN row
                   ELSE [row EXCEPT !.nextReconcile = TRUE]

-----------------------------------------------------------------------------
(* payos_webhook_inbox: one row per distinct signed payload.               *)

NoRow    == [reason |-> "", processed |-> FALSE]
InboxRow == [reason: ReviewReasons, processed: BOOLEAN] \cup {NoRow}

\* Faulty variant: only evidence that waits for a Get is stored.
InboxKeepingOpenOnly(inbox, c, reason) ==
    IF inbox[c] = NoRow /\ reason \in OpenReasons
    THEN [inbox EXCEPT ![c] = [reason |-> reason, processed |-> FALSE]]
    ELSE inbox

\* insertPaymentInboxTx, on the inbox: the first reason stays unless a bind
\* candidate is proven conflicting.
InboxAfterInsert(inbox, c, reason) ==
    IF inbox[c] = NoRow
    THEN [inbox EXCEPT ![c] = [reason |-> reason, processed |-> FALSE]]
    ELSE IF /\ reason \notin OpenReasons
            /\ ~inbox[c].processed
            /\ inbox[c].reason \in OpenReasons
         THEN [inbox EXCEPT ![c].reason = reason]
         ELSE inbox

\* insertPaymentInboxTx, on the order: only a new row wakes it.
OrderAfterInsert(row, isNew, reason) ==
    IF ~isNew \/ reason \notin BindReasons \/ row.status \in {"ABSENT", "PAID"}
    THEN row
    ELSE [WokenOrder(row) EXCEPT
            !.lastError = IF reason = "PAYMENT_DETAILS_PENDING"
                          THEN "PAYMENT_DETAILS_PENDING" ELSE @]

\* PendingPaymentCallbacks of one order.
PendingCallbacks(inbox, o) ==
    {c \in Callbacks : /\ c.order = o
                       /\ inbox[c].reason \in BindReasons
                       /\ ~inbox[c].processed}

-----------------------------------------------------------------------------
(* payment_receipts and SettlePayment.                                     *)

NoReceipt == [order |-> "none", link |-> "none", amount |-> "part"]
Receipt   == [order: Orders, link: {"own", "other"}, amount: Amounts]

ReceiptOf(e) == [order |-> e.order, link |-> e.link, amount |-> e.amount]

\* settlementInboxMatches: the stored payload c is the evidence e, and no
\* review has taken it out of the pending work.
SettlementInboxMatches(c, row, e) == c = e /\ row.reason \in OpenReasons

\* Faulty variant: the whole order's rows are marked, not the one consumed.
MarkOrderProcessed(inbox, c) ==
    [d \in Callbacks |-> IF d.order = c.order /\ inbox[d] # NoRow
                         THEN [inbox[d] EXCEPT !.processed = TRUE] ELSE inbox[d]]

\* markSettlementInboxProcessed.
MarkProcessed(inbox, c) == [inbox EXCEPT ![c].processed = TRUE]

\* Faulty variants of SettleOutcome: a second transfer is booked on a PAID
\* order; a reference booked for another order is booked again; a replay is
\* booked again; a callback may bind the order by itself.
SettleExtra(row, receipt, e, viaGet, accepted) ==
    IF row.status = "ABSENT" THEN "UNKNOWN_ORDER"
    ELSE IF receipt # NoReceipt THEN "DUPLICATE"
    ELSE IF e.amount # "full" THEN "PAYMENT_MISMATCH" ELSE "COMMIT"
SettleReusedReference(row, receipt, e, viaGet, accepted) ==
    IF row.status = "ABSENT" THEN "UNKNOWN_ORDER"
    ELSE IF row.status = "PAID" THEN "EXTRA_PAYMENT_REVIEW" ELSE "COMMIT"
SettleReplay(row, receipt, e, viaGet, accepted) ==
    IF row.status = "ABSENT" THEN "UNKNOWN_ORDER"
    ELSE IF row.txnId \notin {NoRef, e.ref} THEN "EXTRA_PAYMENT_REVIEW"
    ELSE "COMMIT"
SettleUnbound(row, receipt, e, viaGet, accepted) ==
    IF row.status = "ABSENT" THEN "UNKNOWN_ORDER"
    ELSE IF row.linkId \notin {"none", e.link} THEN "PAYMENT_MISMATCH"
    ELSE IF row.status = "PAID" THEN "DUPLICATE" ELSE "COMMIT"

\* The early returns of SettlePayment in their order.  e is the evidence,
\* viaGet says that it is a verified Get (whose fields are e's own, so that
\* settlementGetMatches holds), accepted that the inbox row it would consume,
\* if any, matches it.
SettleOutcome(row, receipt, e, viaGet, accepted) ==
    LET duplicate == receipt # NoReceipt IN
    IF row.status = "ABSENT" THEN "UNKNOWN_ORDER"
    ELSE IF duplicate /\ receipt # ReceiptOf(e) THEN "REFERENCE_CONFLICT"
    ELSE IF e.amount # "full" \/ row.linkId \notin {"none", e.link}
         THEN "PAYMENT_MISMATCH"
    ELSE IF e.account = NoAccount THEN "PAYMENT_DETAILS_PENDING"
    ELSE IF row.account \notin {NoAccount, e.account} THEN "PAYMENT_MISMATCH"
    ELSE IF (row.linkId = "none" \/ row.account = NoAccount) /\ ~viaGet
         THEN "AWAITING_ORDER_BIND"
    ELSE IF row.status \in Closed /\ ~duplicate /\ ~viaGet
         THEN "PAYMENT_DETAILS_PENDING"
    ELSE IF ~accepted THEN "PAYMENT_MISMATCH"
    ELSE IF duplicate
         THEN IF row.status = "PAID" /\ row.txnId = e.ref
              THEN "DUPLICATE" ELSE "BROKEN"
    ELSE IF row.status = "PAID" \/ row.txnId # NoRef
         THEN "EXTRA_PAYMENT_REVIEW"
    ELSE "COMMIT"

\* The order row of the financial commit; its operation lease is untouched.
PaidOrder(row, e) ==
    [row EXCEPT !.status = "PAID", !.linkId = e.link, !.account = e.account,
                !.txnId = e.ref, !.lastError = "", !.nextReconcile = FALSE]
=============================================================================
