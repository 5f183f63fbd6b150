------------------------------ MODULE SePayIngest ------------------------------
(***************************************************************************)
(* Bank credits that SePay reports, twice: as a Telegram message of its bot*)
(* and as a signed native webhook.  One of the two transports is the       *)
(* authority that books the money; the other is observed.  Owners edit the *)
(* managed configuration, which names the authority, while requests of both*)
(* transports are being answered, on any number of gateway processes.      *)
(*                                                                         *)
(* A request reads the configuration once (Snapshot) and commits everything*)
(* it does in one transaction that also checks that the revision it read is*)
(* still the stored one.  A provider sends a message any number of times,   *)
(* whether an answer was lost or not.                                      *)
(* Time runs in half seconds; the bank states for a transfer the second it *)
(* was made in, an even number, and does not report it before.             *)
(***************************************************************************)
EXTENDS Integers, Sequences, FiniteSets, FiniteSetsExt

CONSTANTS Handlers,      \* requests under way at the same time
          Admins,        \* owners with an admin request under way
          Updates,       \* the Telegram updates that may arrive
          Hooks,         \* the native webhooks that may arrive
          Drafts,        \* the configurations that owners may save
          Legacies,      \* the legacy file and the webhook registered by hand
          Stores, Receivers,
          None,
          Foreign,       \* a webhook that is not this program's
          MaxRevision,   \* bound on the configurations saved
          MaxTime        \* bound on the clock

VARIABLES
    clock,
    conf,         \* sepay_managed_config: conf[r + 1] was stored as revision r
    telegram,     \* sepay_telegram_inbox, in the order of the rows
    native,       \* sepay_native_inbox
    receipts,     \* sepay_receipts
    ledger,       \* transactions, with the event each emits; txn = index
    quarantine,   \* transaction_quarantine
    connections,  \* the receiver pinned for a store
    request,      \* the revision of a handler's snapshot
    admin,        \* an owner's request
    webhook,      \* the secret registered with Telegram (external)
    acked         \* history: the messages that were answered with 200

evidence == <<telegram, native, receipts, ledger, quarantine, connections>>
vars == <<clock, conf, evidence, request, admin, webhook, acked>>

Revision   == Len(conf) - 1
Config     == conf[Len(conf)]
ConfigAt(r) == conf[r + 1]

-----------------------------------------------------------------------------
(* Configurations.                                                         *)

activeAuthority(c) ==
    IF c.mode # "active" THEN "none"
    ELSE IF c.transport = "telegram" THEN "telegram"
    ELSE IF c.nativeMode = "active" THEN "native" ELSE "none"

Enabled(c)         == c.mode \in {"observe", "active"}
TelegramEnabled(c) == Enabled(c) /\ c.bot /\ c.secret # None
NativeEnabled(c)   == Enabled(c) /\ c.nativeMode \in {"observe", "active"}

\* What a configuration text has to satisfy, in the file or in the database.
ParseConfig(c) ==
    /\ c.nativeMode = "active" => c.transport = "native" /\ c.mode = "active"
    /\ c.mode # "disabled" => /\ c.transport = "telegram" \/ c.bot
                                => c.bot /\ c.secret # None
                             /\ c.activation > 0

Modes   == {"disabled", "observe", "active"}
Sources == {d.source : d \in Drafts} \cup {l.config.source : l \in Legacies}
Secrets == Admins \cup {l.config.secret : l \in Legacies}

Configuration == [mode: Modes, transport: {"telegram", "native"}, nativeMode: Modes,
                  verified: BOOLEAN, store: Stores, receiver: Receivers,
                  source: Sources, bot: BOOLEAN, separated: BOOLEAN,
                  secret: Secrets, activation: Nat, saved: Nat]

\* BootstrapConfig: a file that is not accepted stops the program.  A webhook
\* that was registered by hand has the secret of the file.
ASSUME LegacyAssumption ==
    \A l \in Legacies : /\ l.config \in Configuration
                        /\ ParseConfig(l.config)
                        /\ l.webhook \in {None, Foreign, l.config.secret}

\* What the body of a save may hold; an activation of None is not given, one of
\* 0 is cleared.
ASSUME DraftsAssumption ==
    Drafts \subseteq [mode: Modes, transport: {"telegram", "native"},
                      nativeMode: Modes, verified: BOOLEAN, store: Stores,
                      receiver: Receivers, source: Sources, bot: BOOLEAN,
                      attest: BOOLEAN, activation: Nat \cup {None}]

ASSUME NoneAssumption == None \notin Receivers

\* A reference names one transfer, which the bank made at one moment.
ASSUME TransfersAssumption ==
    /\ \A m \in Updates \cup Hooks : m.text.at \in Nat
    /\ \A m, n \in Updates \cup Hooks :
         m.text.ref = n.text.ref /\ m.text.ref # None => m.text.at = n.text.at

\* What a saved configuration has to satisfy on top of it.
adminRuntime(c) ==
    \/ c.mode = "disabled"
    \/ /\ c.mode = "active" => c.separated
       /\ ParseConfig(c)

\* The body is read over the stored configuration.
Given(d, old) == IF d.activation = None THEN old.activation ELSE d.activation

\* SaveAdminConfig: an authority keeps its activation, a new one starts now, and
\* without any the body may name a time.
NextActivation(d, old) ==
    LET next == activeAuthority(d)
    IN  IF next # "none" /\ next = activeAuthority(old) THEN old.activation
        ELSE IF next # "none" \/ (d.mode # "disabled" /\ Given(d, old) = 0) THEN clock
        ELSE Given(d, old)

Runtime(d, separated, old, a) ==   \* saved is history
    [mode |-> d.mode, transport |-> d.transport, nativeMode |-> d.nativeMode,
     verified |-> d.verified, store |-> d.store, receiver |-> d.receiver,
     source |-> d.source, bot |-> d.bot, separated |-> separated,
     secret |-> IF old.secret # None THEN old.secret ELSE a,
     activation |-> NextActivation(d, old), saved |-> 0]

-----------------------------------------------------------------------------
(* Messages.  A Telegram text is given by what its header lines hold.      *)

ParseNotification(text) ==
    IF ~text.template THEN "INVALID_TEMPLATE"
    ELSE IF text.direction = "ra" THEN "OUTGOING"
    ELSE IF text.amount = 0 THEN "INVALID_AMOUNT"
    ELSE IF ~text.dated THEN "INVALID_TRANSACTION_DATE"
    ELSE IF text.ref = None THEN "MISSING_REFERENCE"
    ELSE "none"

\* The message comes from the configured bot, chat and topic.
trustedMessage(u) == u.trusted

\* The signature is recent and fits the body, which is flat and complete.
VerifyNativeWebhook(k) == /\ k.signed
                          /\ k.text.direction \in {"vao", "ra"}
                          /\ k.text.amount > 0
                          /\ k.text.dated

\* HandleUpdate and HandleNativeWebhook: what they pass on to the store.
TelegramReason(u, c) ==
    IF u.edited THEN "EDITED_MESSAGE"
    ELSE IF ParseNotification(u.text) # "none" THEN ParseNotification(u.text)
    ELSE IF u.text.account # c.source THEN "ACCOUNT_MISMATCH"
    ELSE "none"

SwappedMode(c) == IF c.transport = "native" THEN "observe" ELSE c.nativeMode
    \* faulty variant: the mode of the other transport

TelegramMode(c) == IF c.transport = "native" THEN "observe" ELSE c.mode

NativeReason(k, c) ==
    IF k.text.direction = "ra" THEN "OUTGOING"
    ELSE IF k.text.account # c.source THEN "ACCOUNT_MISMATCH"
    ELSE "none"

NativeMode(c) == IF c.mode = "observe" \/ c.transport # "native"
                 THEN "observe" ELSE c.nativeMode

Money(m)    == [ref |-> m.text.ref, amount |-> m.text.amount, at |-> m.text.at]
Canonical(m, c) == <<c.store, c.receiver, Money(m)>>   \* sepayCanonicalHash
Message(u)  == [msg |-> u.msg, edited |-> u.edited, text |-> u.text]

-----------------------------------------------------------------------------
(* What a transaction decides.                                             *)

Keep                == [do |-> "keep", reason |-> "none", txn |-> 0]
Finish(reason, txn) == [do |-> "finish", reason |-> reason, txn |-> txn]
Quarantine(reason)  == [do |-> "quarantine", reason |-> reason, txn |-> 0]
Book                == [do |-> "book", reason |-> "ACCEPTED", txn |-> Len(ledger) + 1]

Passed == {"ACCEPTED", "DUPLICATE", "OBSERVATION"}

\* From the parsed credit on.
CreditVerdict(u, c) ==
    LET known == {r \in receipts : r.store = c.store /\ r.ref = u.text.ref}
    IN  IF \E r \in known : r.hash # Canonical(u, c) THEN Quarantine("REFERENCE_CONFLICT")
        ELSE IF known # {} THEN Finish("DUPLICATE", (CHOOSE r \in known : TRUE).txn)
        ELSE IF u.text.at < c.activation THEN Finish("PRE_ACTIVATION", 0)
        ELSE IF TelegramMode(c) = "observe" THEN Finish("OBSERVATION", 0)
        ELSE Book

\* A second observation of the message of row p.
RepeatedMessage(u, c, p) ==
    IF u.edited THEN Quarantine("EDITED_MESSAGE")
    ELSE IF Message(p.item) # Message(u) \/ p.store # c.store
         THEN Quarantine("REFERENCE_CONFLICT")
    ELSE IF p.reason \in Passed THEN Finish("DUPLICATE", p.txn)
    ELSE Finish(p.reason, 0)

RowsOfUpdate(u) == {i \in DOMAIN telegram : telegram[i].item.id = u.id}

KeptByUpdate(u, c) ==   \* faulty variant: a known update id is always a repetition
    LET earlier == {i \in DOMAIN telegram : telegram[i].item.msg = u.msg}
    IN  IF RowsOfUpdate(u) # {} THEN Keep
        ELSE IF earlier # {} THEN RepeatedMessage(u, c, telegram[Min(earlier)])
        ELSE IF TelegramReason(u, c) # "none" THEN Finish(TelegramReason(u, c), 0)
        ELSE CreditVerdict(u, c)

TelegramVerdict(u, c) ==
    LET earlier == {i \in DOMAIN telegram : telegram[i].item.msg = u.msg}
    IN  IF \E i \in RowsOfUpdate(u) : telegram[i].item = u /\ telegram[i].store = c.store
        THEN Keep
        ELSE IF RowsOfUpdate(u) # {}
        THEN Quarantine(IF u.edited THEN "EDITED_MESSAGE" ELSE "REFERENCE_CONFLICT")
        ELSE IF earlier # {} THEN RepeatedMessage(u, c, telegram[Min(earlier)])
        ELSE IF TelegramReason(u, c) # "none" THEN Finish(TelegramReason(u, c), 0)
        ELSE CreditVerdict(u, c)

\* The receipts of Telegram credits that a native credit k may repeat.
NoHistory(c) == {}   \* faulty variant: the Telegram receipts are not looked at

History(c) == {r \in receipts : r.store = c.store}

RowsOfHook(k, c) == {r \in native : r.store = c.store /\ r.item.id = k.id}

NativeVerdict(k, c) ==
    LET twins  == {r \in native : r.store = c.store /\ r.item.text.ref = k.text.ref}
        known  == {r \in History(c) : r.ref = k.text.ref}
        active == NativeMode(c) = "active"
    IN  IF \E r \in RowsOfHook(k, c) : r.item = k THEN Keep
        ELSE IF RowsOfHook(k, c) # {} THEN Quarantine("REFERENCE_CONFLICT")
        ELSE IF NativeReason(k, c) # "none" THEN Finish(NativeReason(k, c), 0)
        ELSE IF History(c) # {} /\ k.text.ref = None THEN Finish("MISSING_REFERENCE", 0)
        ELSE IF History(c) # {} /\ active /\ ~c.verified
        THEN Finish("REFERENCE_CONFLICT", 0)
        ELSE IF k.text.ref # None /\ twins # {} THEN Quarantine("REFERENCE_CONFLICT")
        ELSE IF k.text.ref # None /\ known # {}
        THEN IF c.verified /\ \A r \in known : Money(ledger[r.txn].item) = Money(k)
             THEN Finish("DUPLICATE", (CHOOSE r \in known : TRUE).txn)
             ELSE Quarantine("REFERENCE_CONFLICT")
        ELSE IF k.text.at < c.activation THEN Finish("PRE_ACTIVATION", 0)
        ELSE IF ~active THEN Finish("OBSERVATION", 0)
        ELSE Book

-----------------------------------------------------------------------------
(* The initial state.                                                      *)

Free == [do |-> "none"]

Init == /\ clock = 1
        /\ \E l \in Legacies : conf = <<l.config>> /\ webhook = l.webhook
        /\ telegram = <<>> /\ native = {} /\ receipts = {} /\ ledger = <<>>
        /\ quarantine = {}
        /\ connections = [s \in Stores |-> None]
        /\ request = [h \in Handlers |-> None]
        /\ admin = [a \in Admins |-> Free]
        /\ acked = {}

-----------------------------------------------------------------------------
(* The webhooks.                                                           *)

\* A handler of either webhook starts with a snapshot of the configuration.
Snapshot(h) ==
    /\ request[h] = None
    /\ Enabled(Config)
    /\ request' = [request EXCEPT ![h] = Revision]
    /\ UNCHANGED <<clock, conf, evidence, admin, webhook, acked>>

\* Any error before the commit: 401, 503, nothing is stored.  Also a crash.
RequestFails(h) ==
    /\ request[h] # None
    /\ request' = [request EXCEPT ![h] = None]
    /\ UNCHANGED <<clock, conf, evidence, admin, webhook, acked>>

StaleAllowed(r) == TRUE   \* faulty variant: the revision is not checked

checkSePayRevisionTx(r) == r = Revision

AnyReceiver(c) == TRUE    \* faulty variant: the pinned receiver is not compared

ReceiverFits(c) == connections[c.store] \in {None, c.receiver}

\* ensureSePayConnectionTx.
Pin(c) == /\ ReceiverFits(c)
          /\ connections' = [connections EXCEPT ![c.store] = c.receiver]

\* insertSePayCreditTx.
Booked(v, m, via, r) ==
    IF v.do # "book" THEN ledger
    ELSE Append(ledger, [item |-> m, via |-> via, store |-> ConfigAt(r).store,
                         receiver |-> ConfigAt(r).receiver, rev |-> r])

Quarantined(v, m, c) ==
    IF v.do # "quarantine" THEN quarantine
    ELSE quarantine \cup {[item |-> m, store |-> c.store, reason |-> v.reason]}

Row(m, c, v) == [item |-> m, store |-> c.store, reason |-> v.reason, txn |-> v.txn]

NoReceipt(v, u, c) == receipts   \* faulty variant: a booking leaves no receipt

Receipted(v, u, c) ==
    IF v.do # "book" THEN receipts
    ELSE receipts \cup {[store |-> c.store, ref |-> u.text.ref,
                         hash |-> Canonical(u, c), txn |-> v.txn]}

\* sepayTelegramWebhook and sepayNativeWebhook up to HandleUpdate and
\* HandleNativeWebhook: who is let in.
TelegramAdmits(c) == TelegramEnabled(c) /\ webhook = c.secret

NativeAdmits(c, k) == NativeEnabled(c) /\ VerifyNativeWebhook(k)

\* An update from elsewhere is answered with 200 and leaves no trace.
IgnoreUpdate(h, u) ==
    /\ request[h] # None
    /\ TelegramAdmits(ConfigAt(request[h]))
    /\ ~trustedMessage(u)
    /\ request' = [request EXCEPT ![h] = None]
    /\ UNCHANGED <<clock, conf, evidence, admin, webhook, acked>>

\* HandleUpdate of a trusted message, and its transaction.
IngestSePayNotification(h, u) ==
    LET c == ConfigAt(request[h])
        v == TelegramVerdict(u, c)
    IN  /\ request[h] # None
        /\ TelegramAdmits(c) /\ trustedMessage(u)
        /\ u.text.at <= clock
        /\ checkSePayRevisionTx(request[h])
        /\ Pin(c)
        /\ telegram' = IF RowsOfUpdate(u) # {} THEN telegram
                        ELSE Append(telegram, Row(u, c, v))
        /\ quarantine' = Quarantined(v, u, c)
        /\ ledger' = Booked(v, u, "telegram", request[h])
        /\ receipts' = Receipted(v, u, c)
        /\ request' = [request EXCEPT ![h] = None]
        /\ acked' = acked \cup {u}
        /\ UNCHANGED <<clock, conf, native, admin, webhook>>

\* HandleNativeWebhook and its transaction.
IngestSePayWebhook(h, k) ==
    LET c == ConfigAt(request[h])
        v == NativeVerdict(k, c)
    IN  /\ request[h] # None
        /\ NativeAdmits(c, k)
        /\ k.text.at <= clock
        /\ checkSePayRevisionTx(request[h])
        /\ Pin(c)
        /\ native' = IF RowsOfHook(k, c) # {} THEN native
                      ELSE native \cup {Row(k, c, v)}
        /\ quarantine' = Quarantined(v, k, c)
        /\ ledger' = Booked(v, k, "native", request[h])
        /\ request' = [request EXCEPT ![h] = None]
        /\ acked' = acked \cup {k}
        /\ UNCHANGED <<clock, conf, telegram, receipts, admin, webhook>>

-----------------------------------------------------------------------------
(* The owners.                                                             *)

\* saveSePayAdminConfig: the body is read over the stored configuration, and
\* another source in active mode needs a new attestation.
Attested(d, old) ==
    \/ d.attest
    \/ d.mode # "active"
    \/ d.source = old.source /\ d.transport = old.transport

\* ... and SaveAdminConfig up to its transaction.  The page was loaded, the
\* stored configuration merged and the snapshot taken at one revision, or the
\* request is refused.
SaveAdminConfig(a, d) ==
    LET c == Runtime(d, d.attest \/ Config.separated, Config, a)
    IN  /\ admin[a] = Free
        /\ Revision < MaxRevision
        /\ Attested(d, Config)
        /\ adminRuntime(c)
        /\ admin' = [admin EXCEPT ![a] = [do |-> "save", config |-> c, rev |-> Revision]]
        /\ UNCHANGED <<clock, conf, evidence, request, webhook, acked>>

NamespaceFree(store) == \A r \in native : r.reason = "ACCEPTED" => r.store = store

ReferencesVerified(c) == \/ activeAuthority(c) # "native" \/ c.verified
                         \/ \A r \in receipts : r.store # c.store

SaveSePayManagedConfig(a) ==
    LET c == admin[a].config
    IN  /\ admin[a].do = "save"
        /\ checkSePayRevisionTx(admin[a].rev)
        /\ NamespaceFree(c.store)
        /\ ReferencesVerified(c)
        /\ ReceiverFits(c)
        /\ conf' = Append(conf, [c EXCEPT !.saved = clock])
        /\ admin' = [admin EXCEPT ![a] = Free]
        /\ UNCHANGED <<clock, evidence, request, webhook, acked>>

\* Telegram(register): checks the bot, the foreign webhook and the revision,
\* then calls setWebhook.  The legacy file has no token for it.
RegisterChecked(a) ==
    /\ admin[a] = Free
    /\ Revision > 0
    /\ Config.bot /\ Config.secret # None
    /\ webhook # Foreign
    /\ admin' = [admin EXCEPT ![a] = [do |-> "register", secret |-> Config.secret]]
    /\ UNCHANGED <<clock, conf, evidence, request, webhook, acked>>

setWebhook(a) ==
    /\ admin[a].do = "register"
    /\ webhook' = admin[a].secret
    /\ admin' = [admin EXCEPT ![a] = Free]
    /\ UNCHANGED <<clock, conf, evidence, request, acked>>

AdminFails(a) ==
    /\ admin[a] # Free
    /\ admin' = [admin EXCEPT ![a] = Free]
    /\ UNCHANGED <<clock, conf, evidence, request, webhook, acked>>

Tick == /\ clock < MaxTime
        /\ clock' = clock + 1
        /\ UNCHANGED <<conf, evidence, request, admin, webhook, acked>>

Next == \/ Tick
        \/ \E h \in Handlers :
             \/ Snapshot(h) \/ RequestFails(h)
             \/ \E u \in Updates : IgnoreUpdate(h, u) \/ IngestSePayNotification(h, u)
             \/ \E k \in Hooks : IngestSePayWebhook(h, k)
        \/ \E a \in Admins :
             \/ \E d \in Drafts : SaveAdminConfig(a, d)
             \/ SaveSePayManagedConfig(a)
             \/ RegisterChecked(a) \/ setWebhook(a)
             \/ AdminFails(a)

Spec == Init /\ [][Next]_vars

-----------------------------------------------------------------------------
(* Properties.                                                             *)

\* The transfer was made while a save that changed the authority was between
\* taking its activation time and its commit.
Switches(r) == r > 0 /\ activeAuthority(ConfigAt(r)) \notin
                          {"none", activeAuthority(ConfigAt(r - 1))}
InSwitchWindow(at) == \E r \in 0..Revision :
    Switches(r) /\ at \in ConfigAt(r).activation .. ConfigAt(r).saved

\* Native webhooks may come without a reference.
SameTransfer(i, j) == /\ ledger[i].item.text.ref = ledger[j].item.text.ref
                      /\ ledger[i].item.text.ref # None

(* One transfer is one entry in the books: however often and under however *)
(* many ids and transports its messages arrive, and whatever is saved in   *)
(* between, it is booked once.                                             *)
BookedOnce == \A i, j \in DOMAIN ledger : SameTransfer(i, j) => i = j

(* What remains true of that: a transfer is booked a second time in a store*)
(* only by Telegram after native, and only when it was made while the save *)
(* that made Telegram the authority was under way.                         *)
TwiceOnlyAcrossASwitch == \A i, j \in DOMAIN ledger :
    /\ i < j
    /\ ledger[i].store = ledger[j].store
    /\ SameTransfer(i, j)
    => /\ ledger[i].via = "native" /\ ledger[j].via = "telegram"
       /\ ledger[i].rev < ledger[j].rev
       /\ InSwitchWindow(ledger[j].item.text.at)

\* A message of the transport in authority about a transfer that it should book.
Due(m, store) == /\ store = Config.store
                 /\ m.text.at >= Config.activation
InBooks(m)    == \E i \in DOMAIN ledger : Money(ledger[i].item) = Money(m)
Open          == {"OBSERVATION", "PRE_ACTIVATION", "DUPLICATE"}

(* No credit is lost between the two transports: a stored message of the   *)
(* authority about a transfer since its activation is in the books or shown*)
(* for review, unless the transfer was made while the switch to that       *)
(* authority was under way.                                                *)
MissedOnlyAcrossASwitch ==
    /\ activeAuthority(Config) = "telegram" => \A i \in DOMAIN telegram :
         /\ Due(telegram[i].item, telegram[i].store)
         /\ telegram[i].reason \in Open
         => InBooks(telegram[i].item) \/ InSwitchWindow(telegram[i].item.text.at)
    /\ activeAuthority(Config) = "native" => \A r \in native :
         /\ Due(r.item, r.store)
         /\ r.reason \in Open
         => InBooks(r.item) \/ InSwitchWindow(r.item.text.at)

(* Money is booked only by the transport that the stored configuration     *)
(* makes the authority, for its store and receiver, and only when the      *)
(* transfer is not older than the activation: a request that read an older *)
(* configuration books nothing.                                            *)
BookedUnderAuthority ==
    [][\A i \in DOMAIN ledger' \ DOMAIN ledger :
         /\ ledger'[i].via = activeAuthority(Config)
         /\ ledger'[i].item.text.at >= Config.activation
         /\ ledger'[i].store = Config.store
         /\ ledger'[i].receiver = Config.receiver]_vars

Accepted(i) == {r \in native : r.reason = "ACCEPTED" /\ r.txn = i}
               \cup {telegram[n] : n \in {n \in DOMAIN telegram :
                      telegram[n].reason = "ACCEPTED" /\ telegram[n].txn = i}}

(* Every entry in the books has one accepted message, a Telegram entry one *)
(* receipt, and whatever was linked to an entry as its duplicate tells of  *)
(* the same money.                                                         *)
EntriesHaveEvidence ==
    /\ \A i \in DOMAIN ledger :
         /\ Cardinality(Accepted(i)) = 1
         /\ \A r \in Accepted(i) : r.item = ledger[i].item
         /\ Cardinality({r \in receipts : r.txn = i})
              = (IF ledger[i].via = "telegram" THEN 1 ELSE 0)
    /\ \A r \in native \cup {telegram[n] : n \in DOMAIN telegram} :
         r.txn > 0 => /\ Money(r.item) = Money(ledger[r.txn].item)
                      /\ r.store = ledger[r.txn].store

(* The configuration in force never names another receiver than the one    *)
(* pinned for its store, so a save cannot leave every later webhook refused*)
(* as a receiver mismatch; and every entry went to the pinned receiver.    *)
ReceiverStaysPinned ==
    /\ connections[Config.store] \in {None, Config.receiver}
    /\ \A i \in DOMAIN ledger : connections[ledger[i].store] = ledger[i].receiver

(* A message of the source that was answered with 200 is kept, in its inbox*)
(* or among the quarantined candidates.                                    *)
AcksKept ==
    \A m \in acked :
      \/ \E i \in DOMAIN telegram : telegram[i].item = m
      \/ \E r \in native : r.item = m
      \/ \E q \in quarantine : q.item = m

(* The secret registered with Telegram is the one that the configuration in*)
(* force compares with, also when two owners save their first configuration*)
(* at once: otherwise every later message would be refused.                *)
RegisteredSecretAuthenticates == webhook \in {None, Foreign, Config.secret}
=============================================================================
