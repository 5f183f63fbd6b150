------------------------------ MODULE SePayProofs ------------------------------
(***************************************************************************)
(* Theorems about SePayIngest, for any number of requests, owners,         *)
(* messages, configurations and stores: what is booked has its evidence,   *)
(* who may book it, and what a switch of the authority may do to the books.*)
(***************************************************************************)
EXTENDS SePayIngest, FiniteSetTheorems, WellFoundedInduction, TLAPS

-----------------------------------------------------------------------------
(* The inductive invariant.                                                *)

Messages == Updates \cup Hooks
Reviews  == {"INVALID_TEMPLATE", "OUTGOING", "INVALID_AMOUNT", "INVALID_TRANSACTION_DATE",
             "MISSING_REFERENCE", "EDITED_MESSAGE", "ACCOUNT_MISMATCH",
             "REFERENCE_CONFLICT", "none"}
Reasons  == Reviews \cup Open \cup {"ACCEPTED"}
Rows(M)  == [item: M, store: Stores, reason: Reasons, txn: Nat]
Entries  == [item: Messages, via: {"telegram", "native"}, store: Stores,
             receiver: Receivers, rev: Nat]
AdminRequests == {Free} \cup [do: {"save"}, config: Configuration, rev: Nat]
                        \cup [do: {"register"}, secret: Secrets]

TypeOK ==
    /\ clock \in Nat \ {0}
    /\ conf \in Seq(Configuration) /\ Len(conf) > 0
    /\ telegram \in Seq(Rows(Updates))
    /\ native \in SUBSET Rows(Hooks)
    /\ ledger \in Seq(Entries)
    /\ connections \in [Stores -> Receivers \cup {None}]
    /\ admin \in [Admins -> AdminRequests]

Auth(r) == activeAuthority(ConfigAt(r))
Act(r)  == ConfigAt(r).activation

\* What SaveAdminConfig guarantees of c when old is in force: an authority that
\* stays keeps its activation, a secret stays.
Succeeds(c, old) ==
    /\ activeAuthority(c) # "none" /\ activeAuthority(c) = activeAuthority(old)
         => c.activation = old.activation
    /\ old.secret # None => c.secret = old.secret
    /\ c.mode # "disabled" => c.activation > 0

AdminsSound ==
    \A a \in Admins :
        /\ admin[a].do = "save" =>
             admin[a].rev \in 0..Revision /\ Succeeds(admin[a].config, ConfigAt(admin[a].rev))
        /\ admin[a].do = "register" =>
             admin[a].secret = Config.secret /\ Config.secret # None

\* Between a revision and a later one with another authority, or the same but
\* another activation, there is a switch that set the later activation.
SwitchedBetween ==
    /\ \A r \in 0..Revision : ConfigAt(r).mode # "disabled" => Act(r) > 0
    /\ \A a, b \in 0..Revision :
         /\ a < b /\ Auth(b) # "none"
         /\ Auth(a) # Auth(b) \/ Act(a) # Act(b)
         => \E r \in (a + 1)..b : Switches(r) /\ Act(r) = Act(b)

\* A configuration saved after revision r0 was saved after the moment at.
SavedSince(at, r0) == \A r \in (r0 + 1)..Revision : at <= ConfigAt(r).saved

\* An entry was booked by the authority of its revision, in order.
EntriesInOrder ==
    /\ \A i \in DOMAIN ledger :
         /\ ledger[i].rev \in 0..Revision
         /\ ledger[i].via = Auth(ledger[i].rev)
         /\ ledger[i].item.text.at >= Act(ledger[i].rev)
         /\ ledger[i].item.text.at <= clock
         /\ SavedSince(ledger[i].item.text.at, ledger[i].rev)
         /\ ledger[i].via = "telegram" => ledger[i].item.text.ref # None
    /\ \A i, j \in DOMAIN ledger : i < j => ledger[i].rev <= ledger[j].rev

\* A row names the entry of its own money, and an accepted one its own entry.
Linked(r, via) ==
    /\ r.item.text.at <= clock
    /\ r.txn \in 0..Len(ledger)
    /\ r.txn > 0 => /\ Money(r.item) = Money(ledger[r.txn].item)
                    /\ r.store = ledger[r.txn].store
    /\ r.reason = "ACCEPTED" => /\ r.txn > 0
                                /\ r.item = ledger[r.txn].item
                                /\ ledger[r.txn].via = via

RowsLinked ==
    /\ \A n \in DOMAIN telegram : Linked(telegram[n], "telegram")
    /\ \A r \in native : Linked(r, "native")

AcceptedT(n, i) == telegram[n].reason = "ACCEPTED" /\ telegram[n].txn = i
AcceptedN(r, i) == r.reason = "ACCEPTED" /\ r.txn = i

\* Every entry has exactly one accepted row of its transport.
EntriesAccepted ==
    /\ \A i \in DOMAIN ledger :
         IF ledger[i].via = "telegram" THEN \E n \in DOMAIN telegram : AcceptedT(n, i)
         ELSE \E r \in native : AcceptedN(r, i)
    /\ \A m, n \in DOMAIN telegram, i \in DOMAIN ledger :
         AcceptedT(m, i) /\ AcceptedT(n, i) => m = n
    /\ \A r, s \in native, i \in DOMAIN ledger :
         AcceptedN(r, i) /\ AcceptedN(s, i) => r = s

\* The receipts are those of the Telegram entries.
ReceiptFor(r, i) ==
    /\ r.txn = i /\ ledger[i].via = "telegram"
    /\ r.store = ledger[i].store /\ r.ref = ledger[i].item.text.ref
    /\ r.hash = <<ledger[i].store, ledger[i].receiver, Money(ledger[i].item)>>

ReceiptsSound ==
    /\ \A r \in receipts : r.txn \in DOMAIN ledger /\ ReceiptFor(r, r.txn)
    /\ \A i \in DOMAIN ledger : ledger[i].via = "telegram" =>
         \E r \in receipts : r.txn = i
    /\ \A r, s \in receipts : r.txn = s.txn => r = s

\* Within a store a transfer is booked twice only by Telegram after native.
TelegramAfterNative ==
    \A i, j \in DOMAIN ledger :
        i < j /\ ledger[i].store = ledger[j].store /\ SameTransfer(i, j) =>
            ledger[i].via = "native" /\ ledger[j].via = "telegram"

\* A message that transport t only kept: t was not the authority, or not yet.
Waits(m, t) == \E r0 \in 0..Revision :
                  /\ Auth(r0) # t \/ m.text.at < Act(r0)
                  /\ SavedSince(m.text.at, r0)

OpenRowsWait ==
    /\ \A n \in DOMAIN telegram : telegram[n].reason \in Open =>
         InBooks(telegram[n].item) \/ Waits(telegram[n].item, "telegram")
    /\ \A r \in native : r.reason \in Open => InBooks(r.item) \/ Waits(r.item, "native")

SInv == /\ TypeOK /\ AdminsSound /\ SwitchedBetween /\ RegisteredSecretAuthenticates
        /\ ReceiverStaysPinned /\ AcksKept
        /\ EntriesInOrder /\ RowsLinked /\ EntriesAccepted /\ ReceiptsSound
        /\ TelegramAfterNative /\ OpenRowsWait

-----------------------------------------------------------------------------
(* Sequences and least elements.                                           *)

LEMMA Appended ==
  ASSUME NEW S, NEW q \in Seq(S), NEW x \in S
  PROVE  /\ Append(q, x) \in Seq(S) /\ Len(q) \in Nat
         /\ DOMAIN q = 1..Len(q) /\ \A i \in DOMAIN q : q[i] \in S
         /\ Len(Append(q, x)) = Len(q) + 1
         /\ DOMAIN Append(q, x) = 1..(Len(q) + 1)
         /\ Append(q, x)[Len(q) + 1] = x
         /\ \A i \in 1..Len(q) : Append(q, x)[i] = q[i]
  OBVIOUS

LEMMA Elements ==
  ASSUME NEW S, NEW q \in Seq(S)
  PROVE  Len(q) \in Nat /\ DOMAIN q = 1..Len(q) /\ \A i \in DOMAIN q : q[i] \in S
  OBVIOUS

LEMMA LeastIn ==
  ASSUME NEW S, S \subseteq Nat, S # {}
  PROVE  Min(S) \in S
  <1> DEFINE R == OpToRel(<, Nat)
  <1>1. IsWellFoundedOn(R, Nat)
    BY NatLessThanWellFounded
  <1>2. \A m, n \in Nat : m < n => <<m, n>> \in R
    BY DEF OpToRel
  <1> HIDE DEF R
  <1>3. PICK x \in S : \A y \in S : ~(<<y, x>> \in R)
    BY <1>1, WFMin
  <1>4. ASSUME NEW y \in S
        PROVE  x <= y
    <2>1. x \in Nat /\ y \in Nat
      OBVIOUS
    <2>2. ~(y < x)
      BY <1>2, <1>3, <2>1
    <2> QED BY <2>1, <2>2
  <1> QED BY <1>4 DEF Min

LEMMA ChosenIn ==
  ASSUME NEW S, S # {}
  PROVE  (CHOOSE x \in S : TRUE) \in S
  OBVIOUS

-----------------------------------------------------------------------------
(* Configurations.                                                         *)

LEMMA Revisions ==
  ASSUME TypeOK
  PROVE  /\ Revision \in Nat /\ Revision + 1 = Len(conf)
         /\ \A r \in 0..Revision : ConfigAt(r) \in Configuration
         /\ Config = ConfigAt(Revision) /\ Config \in Configuration
  <1>1. conf \in Seq(Configuration) /\ Len(conf) > 0
    BY DEF TypeOK
  <1>2. Len(conf) \in Nat /\ DOMAIN conf = 1..Len(conf)
        /\ \A i \in 1..Len(conf) : conf[i] \in Configuration
    BY <1>1, Elements
  <1> QED BY <1>1, <1>2 DEF Revision, ConfigAt, Config

LEMMA Fields ==
  ASSUME NEW c \in Configuration
  PROVE  /\ c.mode \in Modes /\ c.transport \in {"telegram", "native"}
         /\ c.store \in Stores /\ c.receiver \in Receivers
         /\ c.activation \in Nat /\ c.saved \in Nat /\ c.secret \in Secrets
         /\ activeAuthority(c) # "none" => c.mode = "active"
         /\ activeAuthority(c) \in {"none", "telegram", "native"}
  <1>1. /\ c.mode \in Modes /\ c.transport \in {"telegram", "native"}
        /\ c.store \in Stores /\ c.receiver \in Receivers
        /\ c.activation \in Nat /\ c.saved \in Nat /\ c.secret \in Secrets
    BY DEF Configuration
  <1> QED BY <1>1 DEF activeAuthority

\* c as it is stored at the moment t.
StoredAt(c, t) == [c EXCEPT !.saved = t]

LEMMA SavedFields ==
  ASSUME NEW c \in Configuration, NEW t \in Nat
  PROVE  /\ StoredAt(c, t) \in Configuration
         /\ StoredAt(c, t).saved = t
         /\ StoredAt(c, t).activation = c.activation /\ StoredAt(c, t).secret = c.secret
         /\ StoredAt(c, t).mode = c.mode /\ StoredAt(c, t).store = c.store
         /\ StoredAt(c, t).receiver = c.receiver
         /\ activeAuthority(StoredAt(c, t)) = activeAuthority(c)
  <1> DEFINE n == StoredAt(c, t)
  <1>1. n \in Configuration
    BY DEF Configuration, StoredAt
  <1>2. /\ n.saved = t /\ n.activation = c.activation /\ n.secret = c.secret
        /\ n.mode = c.mode /\ n.store = c.store /\ n.receiver = c.receiver
        /\ n.transport = c.transport /\ n.nativeMode = c.nativeMode
    BY DEF Configuration, StoredAt
  <1> HIDE DEF n
  <1>3. activeAuthority(n) = activeAuthority(c)
    BY <1>2 DEF activeAuthority
  <1> QED BY <1>1, <1>2, <1>3 DEF n

\* The saved configuration becomes the next revision; the others stay.
LEMMA SavedRevision ==
  ASSUME TypeOK, NEW c \in Configuration, conf' = Append(conf, StoredAt(c, clock))
  PROVE  /\ conf' \in Seq(Configuration) /\ Len(conf') > 0
         /\ Revision' = Revision + 1
         /\ \A r \in 0..Revision : ConfigAt(r)' = ConfigAt(r)
         /\ \A r \in 0..Revision' : r = Revision + 1 => ConfigAt(r)' = StoredAt(c, clock)
         /\ Config' = StoredAt(c, clock)
  <1> DEFINE new == StoredAt(c, clock)
  <1>1. new \in Configuration
    BY SavedFields DEF TypeOK
  <1>2. conf \in Seq(Configuration) /\ Len(conf) > 0 /\ conf' = Append(conf, new)
    BY DEF TypeOK
  <1> HIDE DEF new
  <1>3. /\ conf' \in Seq(Configuration) /\ Len(conf) \in Nat /\ Len(conf') = Len(conf) + 1
        /\ conf'[Len(conf) + 1] = new
        /\ \A i \in 1..Len(conf) : conf'[i] = conf[i]
    BY <1>1, <1>2, Appended
  <1>4. Revision' = Revision + 1 /\ Revision \in Nat /\ Revision + 1 = Len(conf)
    BY <1>2, <1>3 DEF Revision
  <1>5. \A r \in 0..Revision : conf'[r + 1] = conf[r + 1]
    BY <1>3, <1>4
  <1>6. conf'[Revision + 1 + 1] = new /\ Config' = new
    BY <1>3, <1>4 DEF Config
  <1>7. \A r \in 0..Revision : ConfigAt(r)' = ConfigAt(r)
    BY <1>5 DEF ConfigAt
  <1>8. \A r \in 0..Revision' : r = Revision + 1 => ConfigAt(r)' = new
    BY <1>6 DEF ConfigAt
  <1> QED BY <1>2, <1>3, <1>4, <1>6, <1>7, <1>8 DEF new

\* What SaveAdminConfig prepares follows the configuration it was read from.
LEMMA RuntimeSucceeds ==
  ASSUME TypeOK, NEW d \in Drafts, NEW separated \in BOOLEAN, NEW a \in Admins,
         NEW old \in Configuration, adminRuntime(Runtime(d, separated, old, a))
  PROVE  LET c == Runtime(d, separated, old, a)
         IN  c \in Configuration /\ Succeeds(c, old)
  <1> DEFINE c == Runtime(d, separated, old, a)
             t == NextActivation(d, old)
  <1>1. /\ d.mode \in Modes /\ d.transport \in {"telegram", "native"} /\ d.nativeMode \in Modes
        /\ d.verified \in BOOLEAN /\ d.store \in Stores /\ d.receiver \in Receivers
        /\ d.source \in Sources /\ d.bot \in BOOLEAN
    BY DraftsAssumption
  <1>2. t \in Nat
    <2>1. d.activation \in Nat \cup {None} /\ old.activation \in Nat /\ clock \in Nat
      BY DraftsAssumption, Fields DEF TypeOK
    <2> QED BY <2>1 DEF NextActivation, Given
  <1>3. old.secret \in Secrets /\ a \in Secrets
    BY Fields DEF Secrets
  <1>4. c = [mode |-> d.mode, transport |-> d.transport, nativeMode |-> d.nativeMode,
             verified |-> d.verified, store |-> d.store, receiver |-> d.receiver,
             source |-> d.source, bot |-> d.bot, separated |-> separated,
             secret |-> IF old.secret # None THEN old.secret ELSE a,
             activation |-> t, saved |-> 0]
    BY DEF Runtime
  <1>5. c \in Configuration
    <2> HIDE DEF t
    <2> QED BY <1>1, <1>2, <1>3, <1>4 DEF Configuration
  <1>6. /\ c.mode = d.mode /\ c.transport = d.transport /\ c.nativeMode = d.nativeMode
        /\ c.activation = t /\ (old.secret # None => c.secret = old.secret)
    BY <1>4
  <1>7. activeAuthority(c) = activeAuthority(d)
    BY <1>6 DEF activeAuthority
  <1>8. c.mode # "disabled" => c.activation > 0
    BY DEF adminRuntime, ParseConfig
  <1>9. activeAuthority(c) # "none" /\ activeAuthority(c) = activeAuthority(old)
          => c.activation = old.activation
    BY <1>6, <1>7 DEF NextActivation
  <1> QED BY <1>5, <1>6, <1>8, <1>9 DEF Succeeds

-----------------------------------------------------------------------------
(* What is stored has its types.                                           *)

LEMMA Moments ==
  ASSUME NEW m \in Messages
  PROVE  m.text.at \in Nat
  BY TransfersAssumption DEF Messages

LEMMA RowTypes ==
  ASSUME NEW M, NEW r \in Rows(M)
  PROVE  r.item \in M /\ r.store \in Stores /\ r.txn \in Nat
  BY DEF Rows

LEMMA EntryTypes ==
  ASSUME NEW e \in Entries
  PROVE  /\ e.item \in Messages /\ e.store \in Stores /\ e.receiver \in Receivers
         /\ e.rev \in Nat /\ e.via \in {"telegram", "native"} /\ e.item.text.at \in Nat
  <1>1. /\ e.item \in Messages /\ e.store \in Stores /\ e.receiver \in Receivers
        /\ e.rev \in Nat /\ e.via \in {"telegram", "native"}
    BY DEF Entries
  <1> QED BY <1>1, Moments

LEMMA StoredTypes ==
  ASSUME TypeOK
  PROVE  /\ Len(telegram) \in Nat /\ DOMAIN telegram = 1..Len(telegram)
         /\ \A n \in DOMAIN telegram :
              /\ telegram[n] \in Rows(Updates) /\ telegram[n].item \in Updates
              /\ telegram[n].store \in Stores /\ telegram[n].txn \in Nat
              /\ telegram[n].item.text.at \in Nat
         /\ \A r \in native :
              /\ r \in Rows(Hooks) /\ r.item \in Hooks
              /\ r.store \in Stores /\ r.txn \in Nat /\ r.item.text.at \in Nat
         /\ Len(ledger) \in Nat /\ DOMAIN ledger = 1..Len(ledger)
         /\ \A i \in DOMAIN ledger :
              /\ ledger[i].item \in Messages /\ ledger[i].store \in Stores
              /\ ledger[i].receiver \in Receivers /\ ledger[i].rev \in Nat
              /\ ledger[i].via \in {"telegram", "native"}
              /\ ledger[i].item.text.at \in Nat
  <1>1. telegram \in Seq(Rows(Updates)) /\ native \subseteq Rows(Hooks) /\ ledger \in Seq(Entries)
    BY DEF TypeOK
  <1>2. /\ Len(telegram) \in Nat /\ DOMAIN telegram = 1..Len(telegram)
        /\ \A n \in DOMAIN telegram : telegram[n] \in Rows(Updates)
    BY <1>1, Elements
  <1>3. /\ Len(ledger) \in Nat /\ DOMAIN ledger = 1..Len(ledger)
        /\ \A i \in DOMAIN ledger : ledger[i] \in Entries
    BY <1>1, Elements
  <1>4. \A n \in DOMAIN telegram :
          /\ telegram[n].item \in Updates /\ telegram[n].store \in Stores
          /\ telegram[n].txn \in Nat
    BY <1>2, RowTypes
  <1>5. \A r \in native : r.item \in Hooks /\ r.store \in Stores /\ r.txn \in Nat
    BY <1>1, RowTypes
  <1>6. /\ \A n \in DOMAIN telegram : telegram[n].item.text.at \in Nat
        /\ \A r \in native : r.item.text.at \in Nat
    BY <1>4, <1>5, Moments DEF Messages
  <1>7. \A i \in DOMAIN ledger :
              /\ ledger[i].item \in Messages /\ ledger[i].store \in Stores
              /\ ledger[i].receiver \in Receivers /\ ledger[i].rev \in Nat
              /\ ledger[i].via \in {"telegram", "native"}
              /\ ledger[i].item.text.at \in Nat
    BY <1>3, EntryTypes
  <1> QED BY <1>1, <1>2, <1>3, <1>4, <1>5, <1>6, <1>7

-----------------------------------------------------------------------------
(* The initial state and the steps that leave books and configuration alone.*)

LEMMA InitiallySInv == Init => SInv
  <1> SUFFICES ASSUME Init PROVE SInv
    OBVIOUS
  <1>1. PICK l \in Legacies : conf = <<l.config>> /\ webhook = l.webhook
    BY DEF Init
  <1> DEFINE c == l.config
  <1>2. c \in Configuration /\ ParseConfig(c) /\ webhook \in {None, Foreign, c.secret}
    BY <1>1, LegacyAssumption
  <1>3. conf = <<c>>
    BY <1>1
  <1> HIDE DEF c
  <1>4. /\ conf \in Seq(Configuration) /\ Len(conf) = 1 /\ Revision = 0
        /\ Config = c /\ ConfigAt(0) = c
    BY <1>2, <1>3 DEF Revision, Config, ConfigAt
  <1>5. TypeOK
    BY <1>4 DEF Init, TypeOK, AdminRequests
  <1>6. AdminsSound
    BY DEF Init, AdminsSound, Free
  <1>7. SwitchedBetween
    <2>1. c.mode # "disabled" => c.activation > 0
      BY <1>2 DEF ParseConfig
    <2>2. \A r \in 0..Revision : r = 0
      BY <1>4
    <2> QED BY <1>4, <2>1, <2>2 DEF SwitchedBetween, Act
  <1>8. RegisteredSecretAuthenticates
    BY <1>2, <1>4 DEF RegisteredSecretAuthenticates
  <1>9. ReceiverStaysPinned
    BY <1>2, <1>4, Fields DEF Init, ReceiverStaysPinned
  <1>10. AcksKept /\ EntriesInOrder /\ RowsLinked /\ EntriesAccepted /\ ReceiptsSound
    BY DEF Init, AcksKept, EntriesInOrder, RowsLinked, EntriesAccepted, ReceiptsSound
  <1>11. TelegramAfterNative /\ OpenRowsWait
    BY DEF Init, TelegramAfterNative, OpenRowsWait
  <1> QED BY <1>5, <1>6, <1>7, <1>8, <1>9, <1>10, <1>11 DEF SInv

\* A step that leaves the books and the configuration alone keeps what is said
\* of them; the clock may have moved on.
LEMMA QuietStep ==
  ASSUME SInv, clock' \in Nat, clock' >= clock, UNCHANGED <<conf, evidence, acked>>,
         admin' \in [Admins -> AdminRequests], AdminsSound',
         RegisteredSecretAuthenticates'
  PROVE  SInv'
  <1>0. /\ TypeOK /\ SwitchedBetween /\ ReceiverStaysPinned /\ AcksKept
        /\ EntriesInOrder /\ RowsLinked /\ EntriesAccepted /\ ReceiptsSound
        /\ TelegramAfterNative /\ OpenRowsWait
    BY DEF SInv
  <1>u. /\ conf' = conf /\ telegram' = telegram /\ native' = native /\ receipts' = receipts
         /\ ledger' = ledger /\ quarantine' = quarantine /\ connections' = connections
         /\ acked' = acked
    BY DEF evidence
  <1> USE <1>u
  <1>1. TypeOK'
    BY <1>0 DEF TypeOK
  <1>2. SwitchedBetween'
    BY <1>0 DEF SwitchedBetween, Revision, ConfigAt, Auth, Act, Switches, activeAuthority
  <1>3. ReceiverStaysPinned' /\ AcksKept'
    BY <1>0 DEF ReceiverStaysPinned, AcksKept, Config
  <1>m. /\ \A i \in DOMAIN ledger : ledger[i].item.text.at <= clock'
        /\ \A n \in DOMAIN telegram : telegram[n].item.text.at <= clock'
        /\ \A r \in native : r.item.text.at <= clock'
    <2>1. clock \in Nat
      BY <1>0 DEF TypeOK
    <2>2. \A i \in DOMAIN ledger : ledger[i].item.text.at <= clock
      BY <1>0 DEF EntriesInOrder
    <2>3. /\ \A n \in DOMAIN telegram : telegram[n].item.text.at <= clock
          /\ \A r \in native : r.item.text.at <= clock
      BY <1>0 DEF RowsLinked, Linked
    <2> QED BY <1>0, <2>1, <2>2, <2>3, StoredTypes
  <1>4. EntriesInOrder'
    BY <1>0, <1>m DEF EntriesInOrder, SavedSince, Revision, ConfigAt, Auth, Act, activeAuthority
  <1>5. RowsLinked'
    BY <1>0, <1>m DEF RowsLinked, Linked
  <1>6. EntriesAccepted'
    BY <1>0 DEF EntriesAccepted, AcceptedT, AcceptedN
  <1>7. ReceiptsSound' /\ TelegramAfterNative'
    BY <1>0 DEF ReceiptsSound, ReceiptFor, TelegramAfterNative, SameTransfer
  <1>8. OpenRowsWait'
    BY <1>0 DEF OpenRowsWait, Waits, SavedSince, InBooks, Revision, ConfigAt, Auth, Act,
           activeAuthority
  <1> QED BY <1>1, <1>2, <1>3, <1>4, <1>5, <1>6, <1>7, <1>8 DEF SInv

\* ... and a step of a handler or of the clock leaves the owners alone too.
LEMMA HandlerStep ==
  ASSUME SInv, clock' \in Nat, clock' >= clock,
         UNCHANGED <<conf, evidence, acked, admin, webhook>>
  PROVE  SInv'
  <1>1. admin' \in [Admins -> AdminRequests]
    BY DEF SInv, TypeOK
  <1>2. AdminsSound'
    BY DEF SInv, AdminsSound, Succeeds, Revision, ConfigAt, Config, activeAuthority
  <1>3. RegisteredSecretAuthenticates'
    BY DEF SInv, RegisteredSecretAuthenticates, Config
  <1> QED BY <1>1, <1>2, <1>3, QuietStep

\* The request of owner a becomes q.
LEMMA AdminStep ==
  ASSUME SInv, NEW a \in Admins, NEW q \in AdminRequests,
         admin' = [admin EXCEPT ![a] = q],
         q.do = "save" => q.rev \in 0..Revision /\ Succeeds(q.config, ConfigAt(q.rev)),
         q.do = "register" => q.secret = Config.secret /\ Config.secret # None,
         webhook' \in {webhook, Config.secret},
         UNCHANGED <<clock, conf, evidence, acked>>
  PROVE  SInv'
  <1>1. admin \in [Admins -> AdminRequests] /\ clock \in Nat
    BY DEF SInv, TypeOK
  <1>2. /\ admin' \in [Admins -> AdminRequests] /\ clock' \in Nat /\ clock' >= clock
        /\ admin'[a] = q /\ \A b \in Admins : b # a => admin'[b] = admin[b]
    BY <1>1
  <1>3. /\ Revision' = Revision /\ Config' = Config
        /\ \A r : ConfigAt(r)' = ConfigAt(r)
    BY DEF Revision, Config, ConfigAt
  <1>4. ASSUME NEW b \in Admins
        PROVE  /\ admin'[b].do = "save" =>
                    /\ admin'[b].rev \in 0..Revision
                    /\ Succeeds(admin'[b].config, ConfigAt(admin'[b].rev))
               /\ admin'[b].do = "register" =>
                    admin'[b].secret = Config.secret /\ Config.secret # None
    <2>1. CASE b = a
      BY <1>2, <2>1
    <2>2. CASE b # a
      BY <1>2, <2>2 DEF SInv, AdminsSound
    <2> QED BY <2>1, <2>2
  <1>5. AdminsSound'
    BY <1>3, <1>4 DEF AdminsSound, Succeeds, ConfigAt
  <1>6. RegisteredSecretAuthenticates'
    BY <1>3 DEF SInv, RegisteredSecretAuthenticates
  <1> QED BY <1>2, <1>5, <1>6, QuietStep

LEMMA FreeIsRequest == Free \in AdminRequests /\ Free.do = "none"
  BY DEF Free, AdminRequests

LEMMA QuietActions ==
  ASSUME SInv,
         \/ Tick
         \/ \E h \in Handlers : \/ Snapshot(h) \/ RequestFails(h)
                                \/ \E u \in Updates : IgnoreUpdate(h, u)
         \/ \E a \in Admins : RegisterChecked(a) \/ setWebhook(a) \/ AdminFails(a)
         \/ \E a \in Admins, d \in Drafts : SaveAdminConfig(a, d)
  PROVE  SInv'
  <1>1. TypeOK /\ clock \in Nat
    BY DEF SInv, TypeOK
  <1>2. CASE Tick
    BY <1>1, <1>2, HandlerStep DEF Tick
  <1>3. CASE \E h \in Handlers : \/ Snapshot(h) \/ RequestFails(h)
                                 \/ \E u \in Updates : IgnoreUpdate(h, u)
    BY <1>1, <1>3, HandlerStep DEF Snapshot, RequestFails, IgnoreUpdate
  <1>4. ASSUME NEW a \in Admins, RegisterChecked(a)
        PROVE  SInv'
    <2> DEFINE q == [do |-> "register", secret |-> Config.secret]
    <2>1. Config.secret \in Secrets
      BY <1>1, Revisions, Fields
    <2>2. q \in AdminRequests /\ q.do = "register" /\ q.secret = Config.secret
      BY <2>1 DEF AdminRequests
    <2>3. /\ Config.secret # None /\ admin' = [admin EXCEPT ![a] = q]
          /\ UNCHANGED <<clock, conf, evidence, webhook, acked>>
      BY <1>4 DEF RegisterChecked
    <2> HIDE DEF q
    <2> QED BY <2>2, <2>3, AdminStep
  <1>5. ASSUME NEW a \in Admins, setWebhook(a) \/ AdminFails(a)
        PROVE  SInv'
    <2>1. /\ admin' = [admin EXCEPT ![a] = Free]
          /\ UNCHANGED <<clock, conf, evidence, acked>>
      BY <1>5 DEF setWebhook, AdminFails
    <2>2. webhook' \in {webhook, Config.secret}
      BY <1>5 DEF setWebhook, AdminFails, SInv, AdminsSound
    <2> QED BY <2>1, <2>2, FreeIsRequest, AdminStep
  <1>6. ASSUME NEW a \in Admins, NEW d \in Drafts, SaveAdminConfig(a, d)
        PROVE  SInv'
    <2> DEFINE s == d.attest \/ Config.separated
               c == Runtime(d, s, Config, a)
               q == [do |-> "save", config |-> c, rev |-> Revision]
    <2>1. Config \in Configuration /\ Config = ConfigAt(Revision) /\ Revision \in Nat
      BY <1>1, Revisions
    <2>2. /\ adminRuntime(c) /\ admin' = [admin EXCEPT ![a] = q]
          /\ UNCHANGED <<clock, conf, evidence, webhook, acked>>
      BY <1>6 DEF SaveAdminConfig
    <2>3. s \in BOOLEAN
      OBVIOUS
    <2>4. c \in Configuration /\ Succeeds(c, Config)
      <3> HIDE DEF s
      <3> QED BY <1>1, <2>1, <2>2, <2>3, RuntimeSucceeds
    <2> HIDE DEF c
    <2>5. q \in AdminRequests /\ q.do = "save" /\ q.config = c /\ q.rev = Revision
      BY <2>1, <2>4 DEF AdminRequests
    <2> HIDE DEF q
    <2>6. q.do = "save" => q.rev \in 0..Revision /\ Succeeds(q.config, ConfigAt(q.rev))
      BY <2>1, <2>4, <2>5
    <2> QED BY <2>2, <2>5, <2>6, AdminStep
  <1> QED BY <1>2, <1>3, <1>4, <1>5, <1>6

-----------------------------------------------------------------------------
(* A new configuration is stored.                                          *)

\* What a save of configuration c, read at the stored revision, does to it.
Saves(c) == /\ c \in Configuration /\ Succeeds(c, Config)
              /\ conf' = Append(conf, StoredAt(c, clock))

LEMMA StoresFacts ==
  ASSUME TypeOK, NEW c, Saves(c)
  PROVE  /\ conf' \in Seq(Configuration) /\ Len(conf') > 0
         /\ Revision \in Nat /\ Revision' = Revision + 1
         /\ \A r \in 0..Revision : ConfigAt(r)' = ConfigAt(r)
         /\ \A r \in 0..Revision' : r \in 0..Revision \/ r = Revision'
         /\ \A r \in 0..Revision' : r = Revision' =>
              /\ ConfigAt(r)' = Config'
              /\ ConfigAt(r)'.saved = clock
         /\ Config'.activation = c.activation /\ Config'.secret = c.secret
         /\ Config'.mode = c.mode /\ Config'.store = c.store
         /\ Config'.receiver = c.receiver
         /\ activeAuthority(Config') = activeAuthority(c)
  <1>1. c \in Configuration /\ clock \in Nat /\ conf' = Append(conf, StoredAt(c, clock))
    BY DEF Saves, TypeOK
  <1>2. /\ conf' \in Seq(Configuration) /\ Len(conf') > 0
        /\ Revision \in Nat /\ Revision' = Revision + 1
        /\ \A r \in 0..Revision : ConfigAt(r)' = ConfigAt(r)
        /\ \A r \in 0..Revision' : r = Revision + 1 => ConfigAt(r)' = StoredAt(c, clock)
        /\ Config' = StoredAt(c, clock)
    BY <1>1, SavedRevision, Revisions
  <1>3. \A r \in 0..Revision' : r \in 0..Revision \/ r = Revision'
    BY <1>2
  <1>4. /\ Config'.activation = c.activation /\ Config'.secret = c.secret
        /\ Config'.mode = c.mode /\ Config'.store = c.store
        /\ Config'.receiver = c.receiver /\ Config'.saved = clock
        /\ activeAuthority(Config') = activeAuthority(c)
    BY <1>1, <1>2, SavedFields
  <1> QED BY <1>2, <1>3, <1>4

LEMMA SwitchKept ==
  ASSUME TypeOK, NEW c, Saves(c), NEW r \in 0..Revision
  PROVE  Switches(r)' <=> Switches(r)
  <1>1. ConfigAt(r)' = ConfigAt(r) /\ r \in Nat
    BY StoresFacts
  <1>2. r > 0 => ConfigAt(r - 1)' = ConfigAt(r - 1)
    BY StoresFacts
  <1> QED BY <1>1, <1>2 DEF Switches

LEMMA SwitchedBetweenKept ==
  ASSUME TypeOK, SwitchedBetween, NEW c, Saves(c)
  PROVE  SwitchedBetween'
  <1>f. /\ Revision \in Nat /\ Revision' = Revision + 1
        /\ \A r \in 0..Revision : ConfigAt(r)' = ConfigAt(r)
        /\ \A r \in 0..Revision' : r \in 0..Revision \/ r = Revision'
        /\ \A r \in 0..Revision' : r = Revision' => ConfigAt(r)' = Config'
        /\ Config'.activation = c.activation /\ Config'.mode = c.mode
        /\ activeAuthority(Config') = activeAuthority(c)
    BY StoresFacts
  <1>s. Succeeds(c, Config)
    BY DEF Saves
  <1>c. Config = ConfigAt(Revision) /\ \A r \in 0..Revision : ConfigAt(r) \in Configuration
    BY Revisions
  <1>k. \A r \in 0..Revision : Switches(r)' <=> Switches(r)
    BY SwitchKept
  <1>v. \A r \in 0..Revision : Auth(r)' = Auth(r) /\ Act(r)' = Act(r)
    BY <1>f DEF Auth, Act
  <1>m. \A r \in 0..Revision : ConfigAt(r).mode # "disabled" => Act(r) > 0
    BY DEF SwitchedBetween
  <1>1. ASSUME NEW r \in 0..Revision', ConfigAt(r)'.mode # "disabled"
        PROVE  Act(r)' > 0
    <2>1. CASE r \in 0..Revision
      BY <1>1, <1>f, <1>m, <1>v, <2>1
    <2>2. CASE r = Revision'
      BY <1>1, <1>f, <1>s, <2>2 DEF Act, Succeeds
    <2> QED BY <1>f, <2>1, <2>2
  <1>2. ASSUME NEW a \in 0..Revision', NEW b \in 0..Revision', a < b,
               Auth(b)' # "none", Auth(a)' # Auth(b)' \/ Act(a)' # Act(b)'
        PROVE  \E r \in (a + 1)..b : Switches(r)' /\ Act(r)' = Act(b)'
    <2>1. a \in 0..Revision
      BY <1>2, <1>f
    <2>2. CASE b \in 0..Revision
      <3>0. Auth(b) # "none" /\ (Auth(a) # Auth(b) \/ Act(a) # Act(b))
        BY <1>2, <1>v, <2>1, <2>2
      <3>1. PICK r \in (a + 1)..b : Switches(r) /\ Act(r) = Act(b)
        BY <1>2, <2>1, <2>2, <3>0 DEF SwitchedBetween
      <3>2. r \in 0..Revision
        BY <1>f, <2>1, <2>2
      <3> QED BY <1>k, <1>v, <2>2, <3>1, <3>2
    <2>3. CASE b = Revision'
      <3>1. /\ Auth(b)' = activeAuthority(c) /\ Act(b)' = c.activation
            /\ b = Revision + 1 /\ b > 0 /\ b - 1 = Revision
        BY <1>f, <2>3 DEF Auth, Act
      <3>2. CASE activeAuthority(c) # Auth(Revision)
        <4>1. ConfigAt(b - 1)' = ConfigAt(Revision)
          BY <1>f, <3>1 DEF ConfigAt
        <4>2. activeAuthority(ConfigAt(b)') = activeAuthority(c)
          BY <1>f, <2>3
        <4>3. Switches(b)'
          BY <1>2, <3>1, <3>2, <4>1, <4>2 DEF Switches, Auth
        <4>4. b \in (a + 1)..b
          BY <1>2, <1>f, <2>1, <2>3
        <4> QED BY <4>3, <4>4
      <3>3. CASE activeAuthority(c) = Auth(Revision)
        <4>1. c.activation = Act(Revision) /\ Auth(Revision) # "none"
          BY <1>2, <1>s, <1>c, <3>1, <3>3 DEF Succeeds, Auth, Act
        <4>2. Auth(a)' = Auth(a) /\ Act(a)' = Act(a)
          BY <1>v, <2>1
        <4>3. Auth(a) # Auth(Revision) \/ Act(a) # Act(Revision)
          BY <1>2, <3>1, <3>3, <4>1, <4>2
        <4>4. a < Revision
          BY <1>f, <2>1, <4>3
        <4>5. PICK r \in (a + 1)..Revision : Switches(r) /\ Act(r) = Act(Revision)
          BY <1>f, <2>1, <4>1, <4>3, <4>4 DEF SwitchedBetween
        <4>6. r \in 0..Revision /\ r \in (a + 1)..b
          BY <1>f, <2>1, <3>1
        <4>7. Act(b)' = Act(Revision)
          BY <3>1, <4>1
        <4> QED BY <1>k, <1>v, <4>5, <4>6, <4>7
      <3> QED BY <3>2, <3>3
    <2> QED BY <1>f, <2>2, <2>3
  <1> QED BY <1>1, <1>2 DEF SwitchedBetween

\* What is older than now is older than the configuration that is stored now.
LEMMA SavedSinceKept ==
  ASSUME TypeOK, NEW c, Saves(c), NEW at \in Nat, NEW r0 \in 0..Revision,
         at <= clock, SavedSince(at, r0)
  PROVE  SavedSince(at, r0)'
  <1>1. ASSUME NEW r \in (r0 + 1)..Revision'
        PROVE  at <= ConfigAt(r)'.saved
    <2>1. Revision \in Nat /\ Revision' = Revision + 1
      BY StoresFacts
    <2>2. CASE r = Revision'
      BY <2>1, <2>2, StoresFacts
    <2>3. CASE r # Revision'
      <3>1. r \in (r0 + 1)..Revision /\ r \in 0..Revision
        BY <2>1, <2>3
      <3>2. ConfigAt(r)' = ConfigAt(r)
        BY <3>1, StoresFacts
      <3> QED BY <3>1, <3>2 DEF SavedSince
    <2> QED BY <2>2, <2>3
  <1> QED BY <1>1 DEF SavedSince

LEMMA WaitsKept ==
  ASSUME TypeOK, NEW c, Saves(c), NEW m \in Messages, NEW t, m.text.at <= clock, Waits(m, t)
  PROVE  Waits(m, t)'
  <1>1. PICK r0 \in 0..Revision : /\ Auth(r0) # t \/ m.text.at < Act(r0)
                                  /\ SavedSince(m.text.at, r0)
    BY DEF Waits
  <1>2. m.text.at \in Nat
    BY Moments
  <1> DEFINE at == m.text.at
  <1>3. SavedSince(at, r0)'
    <2> HIDE DEF at
    <2>1. at \in Nat /\ at <= clock /\ SavedSince(at, r0)
      BY <1>1, <1>2 DEF at
    <2> QED BY <2>1, SavedSinceKept
  <1>4. r0 \in 0..Revision' /\ ConfigAt(r0)' = ConfigAt(r0)
    BY StoresFacts
  <1>5. Auth(r0)' = Auth(r0) /\ Act(r0)' = Act(r0)
    BY <1>4 DEF Auth, Act
  <1> QED BY <1>1, <1>3, <1>4, <1>5 DEF Waits

LEMMA SaveStep ==
  ASSUME SInv, NEW a \in Admins, SaveSePayManagedConfig(a)
  PROVE  SInv'
  <1> DEFINE c == admin[a].config
  <1>0. /\ TypeOK /\ AdminsSound /\ SwitchedBetween /\ RegisteredSecretAuthenticates
        /\ ReceiverStaysPinned /\ AcksKept /\ EntriesInOrder /\ RowsLinked
        /\ EntriesAccepted /\ ReceiptsSound /\ TelegramAfterNative /\ OpenRowsWait
    BY DEF SInv
  <1>u. /\ telegram' = telegram /\ native' = native /\ receipts' = receipts
        /\ ledger' = ledger /\ quarantine' = quarantine /\ connections' = connections
        /\ acked' = acked /\ clock' = clock /\ webhook' = webhook
        /\ admin' = [admin EXCEPT ![a] = Free]
    BY DEF SaveSePayManagedConfig, evidence
  <1>1. Saves(c)
    <2>1. admin[a] \in AdminRequests /\ admin[a].do = "save" /\ admin[a].rev = Revision
      BY <1>0 DEF TypeOK, SaveSePayManagedConfig, checkSePayRevisionTx
    <2>2. c \in Configuration
      BY <2>1 DEF AdminRequests, Free
    <2>3. Succeeds(c, Config)
      BY <1>0, <2>1, Revisions DEF AdminsSound
    <2>4. conf' = Append(conf, StoredAt(c, clock))
      BY DEF SaveSePayManagedConfig, StoredAt
    <2> QED BY <2>2, <2>3, <2>4 DEF Saves
  <1>fit. ReceiverFits(c)
    BY DEF SaveSePayManagedConfig
  <1> HIDE DEF c
  <1>2. Succeeds(c, Config) /\ c \in Configuration
    BY <1>1 DEF Saves
  <1>f. /\ conf' \in Seq(Configuration) /\ Len(conf') > 0
        /\ Revision \in Nat /\ Revision' = Revision + 1
        /\ \A r \in 0..Revision : ConfigAt(r)' = ConfigAt(r) /\ r \in 0..Revision'
        /\ Config'.secret = c.secret /\ Config'.store = c.store
        /\ Config'.receiver = c.receiver
    BY <1>0, <1>1, StoresFacts
  <1>ad. /\ admin' \in [Admins -> AdminRequests] /\ admin'[a] = Free
         /\ \A b \in Admins : b # a => admin'[b] = admin[b]
    BY <1>0, <1>u, FreeIsRequest DEF TypeOK
  <1>3. TypeOK'
    BY <1>0, <1>f, <1>u, <1>ad DEF TypeOK
  <1>4. AdminsSound'
    <2>1. ASSUME NEW b \in Admins, admin'[b].do = "save"
          PROVE  /\ admin'[b].rev \in 0..Revision'
                 /\ Succeeds(admin'[b].config, conf'[admin'[b].rev + 1])
      <3>1. b # a /\ admin'[b] = admin[b]
        BY <1>ad, <2>1, FreeIsRequest
      <3>2. admin[b].rev \in 0..Revision /\ Succeeds(admin[b].config, ConfigAt(admin[b].rev))
        BY <1>0, <2>1, <3>1 DEF AdminsSound
      <3> DEFINE r == admin[b].rev
      <3>3. conf'[r + 1] = conf[r + 1] /\ r \in 0..Revision'
        BY <1>f, <3>2 DEF ConfigAt
      <3> QED BY <3>1, <3>2, <3>3 DEF ConfigAt
    <2>2. ASSUME NEW b \in Admins, admin'[b].do = "register"
          PROVE  admin'[b].secret = Config'.secret /\ Config'.secret # None
      <3>1. b # a /\ admin'[b] = admin[b]
        BY <1>ad, <2>2, FreeIsRequest
      <3> QED BY <1>0, <1>2, <1>f, <2>2, <3>1 DEF AdminsSound, Succeeds
    <2> QED BY <2>1, <2>2 DEF AdminsSound, Succeeds, ConfigAt
  <1>5. SwitchedBetween'
    BY <1>0, <1>1, SwitchedBetweenKept
  <1>6. RegisteredSecretAuthenticates'
    BY <1>0, <1>2, <1>f, <1>u DEF RegisteredSecretAuthenticates, Succeeds
  <1>7. ReceiverStaysPinned'
    BY <1>0, <1>f, <1>u, <1>fit DEF ReceiverStaysPinned, ReceiverFits
  <1>8. AcksKept'
    BY <1>0, <1>u DEF AcksKept
  <1>9. EntriesInOrder'
    <2>1. ASSUME NEW i \in DOMAIN ledger
          PROVE  /\ ledger[i].rev \in 0..Revision'
                 /\ ledger[i].via = activeAuthority(conf'[ledger[i].rev + 1])
                 /\ ledger[i].item.text.at >= conf'[ledger[i].rev + 1].activation
                 /\ \A r \in (ledger[i].rev + 1)..Revision' :
                      ledger[i].item.text.at <= conf'[r + 1].saved
      <3> DEFINE at == ledger[i].item.text.at
                 r0 == ledger[i].rev
      <3>1. /\ r0 \in 0..Revision /\ ledger[i].via = Auth(r0) /\ at >= Act(r0)
            /\ at <= clock /\ SavedSince(at, r0)
        BY <1>0 DEF EntriesInOrder
      <3>2. at \in Nat
        BY <1>0, StoredTypes
      <3>3. conf'[r0 + 1] = conf[r0 + 1] /\ r0 \in 0..Revision'
        BY <1>f, <3>1 DEF ConfigAt
      <3>4. PICK x, y : x = at /\ y = r0
        OBVIOUS
      <3>5. SavedSince(x, y)'
        BY <1>0, <1>1, <3>1, <3>2, <3>4, SavedSinceKept
      <3> QED BY <3>1, <3>3, <3>4, <3>5 DEF Auth, Act, SavedSince, ConfigAt
    <2>2. DOMAIN ledger' = DOMAIN ledger /\ clock' = clock
      BY <1>u
    <2> QED BY <1>0, <1>u, <2>1 DEF EntriesInOrder, Auth, Act, SavedSince, ConfigAt
  <1>10. RowsLinked'
    BY <1>0, <1>u DEF RowsLinked, Linked
  <1>11. EntriesAccepted'
    BY <1>0, <1>u DEF EntriesAccepted, AcceptedT, AcceptedN
  <1>12. ReceiptsSound' /\ TelegramAfterNative'
    BY <1>0, <1>u DEF ReceiptsSound, ReceiptFor, TelegramAfterNative, SameTransfer
  <1>13. OpenRowsWait'
    <2>1. \A m : InBooks(m)' <=> InBooks(m)
      BY <1>u DEF InBooks
    <2>2. ASSUME NEW m \in Messages, NEW t, m.text.at <= clock, Waits(m, t)
          PROVE  Waits(m, t)'
      BY <1>0, <1>1, <2>2, WaitsKept
    <2>3. ASSUME NEW n \in DOMAIN telegram, telegram[n].reason \in Open
          PROVE  InBooks(telegram[n].item) \/ \E m : m = telegram[n].item /\ Waits(m, "telegram")'
      <3>1. telegram[n].item \in Messages /\ telegram[n].item.text.at <= clock
        BY <1>0, StoredTypes DEF RowsLinked, Linked, Messages
      <3>2. InBooks(telegram[n].item) \/ Waits(telegram[n].item, "telegram")
        BY <1>0, <2>3 DEF OpenRowsWait
      <3> QED BY <2>2, <3>1, <3>2
    <2>4. ASSUME NEW r \in native, r.reason \in Open
          PROVE  InBooks(r.item) \/ Waits(r.item, "native")'
      <3>1. r.item \in Messages /\ r.item.text.at <= clock
        BY <1>0, StoredTypes DEF RowsLinked, Linked, Messages
      <3>2. InBooks(r.item) \/ Waits(r.item, "native")
        BY <1>0, <2>4 DEF OpenRowsWait
      <3> QED BY <2>2, <3>1, <3>2
    <2>5. \A n \in DOMAIN telegram' : telegram'[n].reason \in Open =>
            InBooks(telegram[n].item)' \/ Waits(telegram[n].item, "telegram")'
      BY <1>u, <2>1, <2>3 DEF Waits
    <2>6. \A r \in native' : r.reason \in Open => InBooks(r.item)' \/ Waits(r.item, "native")'
      BY <1>u, <2>1, <2>4
    <2> QED BY <2>5, <2>6 DEF OpenRowsWait
  <1> QED BY <1>3, <1>4, <1>5, <1>6, <1>7, <1>8, <1>9, <1>10, <1>11, <1>12, <1>13 DEF SInv

-----------------------------------------------------------------------------
(* What a transaction may decide about message m of transport via.         *)

Named(v, m) == /\ v.txn \in 0..Len(ledger)
               /\ v.txn > 0 => /\ Money(ledger[v.txn].item) = Money(m)
                               /\ ledger[v.txn].store = Config.store

FirstBooking(m, via) == \A i \in DOMAIN ledger :
    /\ ledger[i].store = Config.store
    /\ ledger[i].item.text.ref = m.text.ref /\ m.text.ref # None
    => ledger[i].via = "native" /\ via = "telegram"

Decided(v, m, via) ==
    /\ v.do \in {"keep", "finish", "quarantine", "book"}
    /\ v.reason \in Reasons /\ v.txn \in Nat
    /\ v.do = "book" => /\ v.reason = "ACCEPTED" /\ v.txn = Len(ledger) + 1
                        /\ Auth(Revision) = via
                        /\ m.text.at >= Act(Revision)
                        /\ via = "telegram" => m.text.ref # None
                        /\ FirstBooking(m, via)
    /\ v.do # "book" => v.reason # "ACCEPTED" /\ Named(v, m)
    /\ v.reason \in Open => InBooks(m) \/ Waits(m, via)

LEMMA ReviewDecided ==
  ASSUME SInv, NEW m, NEW via, NEW reason \in Reviews
  PROVE  /\ Decided(Keep, m, via) /\ Decided(Quarantine(reason), m, via)
         /\ Decided(Finish(reason, 0), m, via)
  <1>1. Len(ledger) \in Nat
    BY StoredTypes DEF SInv
  <1> QED BY <1>1 DEF Decided, Named, Keep, Quarantine, Finish, Open, Reviews, Reasons

\* Now is the time before an activation, or of another authority.
LEMMA WaitsNow ==
  ASSUME SInv, NEW m, NEW t, Auth(Revision) # t \/ m.text.at < Act(Revision)
  PROVE  Waits(m, t)
  <1>1. Revision \in Nat
    BY Revisions DEF SInv
  <1>2. Revision \in 0..Revision /\ SavedSince(m.text.at, Revision)
    BY <1>1 DEF SavedSince
  <1> QED BY <1>2 DEF Waits

\* An entry of the same money answers for m.
LEMMA DuplicateDecided ==
  ASSUME SInv, NEW m, NEW via, NEW i \in DOMAIN ledger,
         Money(ledger[i].item) = Money(m), ledger[i].store = Config.store
  PROVE  Decided(Finish("DUPLICATE", i), m, via)
  <1>1. Len(ledger) \in Nat /\ i \in 1..Len(ledger)
    BY StoredTypes DEF SInv
  <1>2. InBooks(m)
    BY DEF InBooks
  <1> QED BY <1>1, <1>2 DEF Decided, Named, Finish, Open, Reasons

LEMMA WaitingDecided ==
  ASSUME SInv, NEW m, NEW via, NEW reason \in Open, InBooks(m) \/ Waits(m, via)
  PROVE  Decided(Finish(reason, 0), m, via)
  <1>1. Len(ledger) \in Nat
    BY StoredTypes DEF SInv
  <1> QED BY <1>1 DEF Decided, Named, Finish, Open, Reasons

LEMMA TelegramReasons ==
  ASSUME NEW u, NEW c
  PROVE  /\ TelegramReason(u, c) # "none" =>
              TelegramReason(u, c) \in Reviews
         /\ TelegramReason(u, c) = "none" => u.text.ref # None
  BY DEF TelegramReason, ParseNotification, Reviews

LEMMA NativeReasons ==
  ASSUME NEW k, NEW c, NativeReason(k, c) # "none"
  PROVE  NativeReason(k, c) \in Reviews
  BY DEF NativeReason, Reviews

LEMMA Authorities ==
  ASSUME SInv
  PROVE  /\ Auth(Revision) = activeAuthority(Config) /\ Act(Revision) = Config.activation
         /\ Enabled(Config) => (TelegramMode(Config) # "observe" <=> Auth(Revision) = "telegram")
         /\ Enabled(Config) => (NativeMode(Config) = "active" <=> Auth(Revision) = "native")
  <1>1. Config = ConfigAt(Revision) /\ Config \in Configuration
    BY Revisions DEF SInv
  <1>2. Config.transport \in {"telegram", "native"}
    BY <1>1, Fields
  <1> QED BY <1>1, <1>2 DEF Auth, Act, Enabled, TelegramMode, NativeMode, activeAuthority

\* The receipts that a transaction looks at are those of the entries.
LEMMA ReceiptKnown ==
  ASSUME SInv, NEW r \in receipts
  PROVE  /\ r.txn \in DOMAIN ledger
         /\ r.store = ledger[r.txn].store /\ r.ref = ledger[r.txn].item.text.ref
         /\ r.hash = <<ledger[r.txn].store, ledger[r.txn].receiver, Money(ledger[r.txn].item)>>
  BY DEF SInv, ReceiptsSound, ReceiptFor

LEMMA BookDecided ==
  ASSUME SInv, NEW m, NEW via, Auth(Revision) = via, m.text.at >= Act(Revision),
         via = "telegram" => m.text.ref # None, FirstBooking(m, via)
  PROVE  Decided(Book, m, via)
  <1>1. Len(ledger) \in Nat
    BY StoredTypes DEF SInv
  <1> QED BY <1>1 DEF Decided, Book, Open, Reasons

LEMMA ConflictIsReview == {"EDITED_MESSAGE", "REFERENCE_CONFLICT", "MISSING_REFERENCE"} \subseteq Reviews
  BY DEF Reviews

LEMMA CreditDecided ==
  ASSUME SInv, NEW u \in Updates, Enabled(Config), u.text.ref # None
  PROVE  Decided(CreditVerdict(u, Config), u, "telegram")
  <1> DEFINE c == Config
             known == {r \in receipts : r.store = c.store /\ r.ref = u.text.ref}
  <1>1. CASE \E r \in known : r.hash # Canonical(u, c)
    <2>1. CreditVerdict(u, c) = Quarantine("REFERENCE_CONFLICT")
      BY <1>1 DEF CreditVerdict
    <2> QED BY <2>1, ConflictIsReview, ReviewDecided
  <1>2. CASE known # {} /\ \A r \in known : r.hash = Canonical(u, c)
    <2> DEFINE d == CHOOSE r \in known : TRUE
    <2>1. CreditVerdict(u, c) = Finish("DUPLICATE", d.txn)
      BY <1>2 DEF CreditVerdict
    <2>2. d \in known
      BY <1>2, ChosenIn
    <2> HIDE DEF d
    <2>3. d \in receipts /\ d.store = c.store /\ d.hash = <<c.store, c.receiver, Money(u)>>
      BY <1>2, <2>2 DEF Canonical
    <2>4. /\ d.txn \in DOMAIN ledger /\ ledger[d.txn].store = c.store
          /\ d.hash = <<ledger[d.txn].store, ledger[d.txn].receiver, Money(ledger[d.txn].item)>>
      BY <2>3, ReceiptKnown
    <2>5. Money(ledger[d.txn].item) = Money(u)
      BY <2>3, <2>4
    <2> QED BY <2>1, <2>4, <2>5, DuplicateDecided
  <1>3. CASE known = {} /\ u.text.at < c.activation
    <2>1. CreditVerdict(u, c) = Finish("PRE_ACTIVATION", 0)
      BY <1>3 DEF CreditVerdict
    <2>2. Waits(u, "telegram")
      BY <1>3, Authorities, WaitsNow
    <2> QED BY <2>1, <2>2, WaitingDecided DEF Open
  <1>4. CASE known = {} /\ ~(u.text.at < c.activation) /\ TelegramMode(c) = "observe"
    <2>1. CreditVerdict(u, c) = Finish("OBSERVATION", 0)
      BY <1>4 DEF CreditVerdict
    <2>2. Waits(u, "telegram")
      BY <1>4, Authorities, WaitsNow
    <2> QED BY <2>1, <2>2, WaitingDecided DEF Open
  <1>5. CASE known = {} /\ ~(u.text.at < c.activation) /\ TelegramMode(c) # "observe"
    <2>1. CreditVerdict(u, c) = Book
      BY <1>5 DEF CreditVerdict
    <2>2. Auth(Revision) = "telegram" /\ Act(Revision) = c.activation
      BY <1>5, Authorities
    <2>3. u.text.at >= Act(Revision)
      <3>1. u.text.at \in Nat
        BY Moments DEF Messages
      <3>2. c.activation \in Nat
        BY Revisions, Fields DEF SInv
      <3> QED BY <1>5, <2>2, <3>1, <3>2
    <2>4. FirstBooking(u, "telegram")
      <3> SUFFICES ASSUME NEW i \in DOMAIN ledger, ledger[i].store = c.store,
                          ledger[i].item.text.ref = u.text.ref, ledger[i].via # "native"
                   PROVE  FALSE
        BY DEF FirstBooking
      <3>1. ledger[i].via = "telegram"
        BY StoredTypes DEF SInv
      <3>2. PICK r \in receipts : r.txn = i
        BY <3>1 DEF SInv, ReceiptsSound
      <3>3. r \in known
        BY <3>2, ReceiptKnown
      <3> QED BY <1>5, <3>3
    <2> QED BY <2>1, <2>2, <2>3, <2>4, BookDecided
  <1> QED BY <1>1, <1>2, <1>3, <1>4, <1>5

LEMMA RepeatedDecided ==
  ASSUME SInv, NEW u \in Updates, NEW n \in DOMAIN telegram
  PROVE  Decided(RepeatedMessage(u, Config, telegram[n]), u, "telegram")
  <1> DEFINE c == Config
             p == telegram[n]
             v == RepeatedMessage(u, c, p)
  <1>0. p.reason \in Reasons /\ p.txn \in Nat /\ p.item \in Updates
    <2>1. p \in Rows(Updates)
      BY StoredTypes DEF SInv
    <2> QED BY <2>1 DEF Rows
  <1>1. CASE u.edited \/ Message(p.item) # Message(u) \/ p.store # c.store
    <2>1. v = Quarantine("EDITED_MESSAGE") \/ v = Quarantine("REFERENCE_CONFLICT")
      BY <1>1 DEF RepeatedMessage
    <2> QED BY <2>1, ConflictIsReview, ReviewDecided
  <1>2. CASE ~u.edited /\ Message(p.item) = Message(u) /\ p.store = c.store
    <2>1. p.item.text = u.text
      BY <1>2 DEF Message
    <2>2. Money(p.item) = Money(u)
      BY <2>1 DEF Money
    <2>3. p.reason \in Open => InBooks(u) \/ Waits(u, "telegram")
      BY <2>1, <2>2 DEF SInv, OpenRowsWait, InBooks, Waits
    <2>4. Linked(p, "telegram")
      BY DEF SInv, RowsLinked
    <2>5. v = IF p.reason \in Passed THEN Finish("DUPLICATE", p.txn) ELSE Finish(p.reason, 0)
      BY <1>2 DEF RepeatedMessage
    <2>6. CASE p.reason \in Passed /\ p.txn > 0
      <3>1. /\ p.txn \in DOMAIN ledger /\ Money(ledger[p.txn].item) = Money(u)
            /\ ledger[p.txn].store = c.store
        BY <1>2, <2>2, <2>4, <2>6, StoredTypes DEF Linked, SInv
      <3> QED BY <2>5, <2>6, <3>1, DuplicateDecided
    <2>7. CASE p.reason \in Passed /\ p.txn = 0
      <3>1. p.reason \in Open
        BY <2>4, <2>7 DEF Linked, Passed, Open
      <3> QED BY <2>3, <2>5, <2>7, <3>1, WaitingDecided DEF Open
    <2>8. CASE p.reason \notin Passed
      <3>1. v = Finish(p.reason, 0)
        BY <2>5, <2>8
      <3>2. CASE p.reason \in Open
        BY <2>3, <3>1, <3>2, WaitingDecided
      <3>3. CASE p.reason \notin Open
        <4>1. p.reason \in Reviews
          BY <1>0, <2>8, <3>3 DEF Reasons, Passed
        <4> QED BY <3>1, <4>1, ReviewDecided
      <3> QED BY <3>2, <3>3
    <2> QED BY <1>0, <2>6, <2>7, <2>8
  <1> QED BY <1>1, <1>2

\* HandleUpdate decides as described, and a known update id books nothing.
LEMMA TelegramDecided ==
  ASSUME SInv, NEW u \in Updates, Enabled(Config)
  PROVE  /\ Decided(TelegramVerdict(u, Config), u, "telegram")
         /\ TelegramVerdict(u, Config).do = "keep" =>
              \E i \in DOMAIN telegram : telegram[i].item = u
         /\ RowsOfUpdate(u) # {} =>
              TelegramVerdict(u, Config).do \in {"keep", "quarantine"}
  <1> DEFINE c == Config
             v == TelegramVerdict(u, c)
             earlier == {i \in DOMAIN telegram : telegram[i].item.msg = u.msg}
             same == \E i \in RowsOfUpdate(u) : telegram[i].item = u /\ telegram[i].store = c.store
  <1>1. CASE same
    <2>1. v = Keep /\ \E i \in DOMAIN telegram : telegram[i].item = u
      BY <1>1 DEF TelegramVerdict, RowsOfUpdate
    <2> QED BY <2>1, ConflictIsReview, ReviewDecided DEF Keep
  <1>2. CASE ~same /\ RowsOfUpdate(u) # {}
    <2>1. v = Quarantine("EDITED_MESSAGE") \/ v = Quarantine("REFERENCE_CONFLICT")
      BY <1>2 DEF TelegramVerdict
    <2> QED BY <2>1, ConflictIsReview, ReviewDecided DEF Quarantine
  <1>3. CASE RowsOfUpdate(u) = {} /\ earlier # {}
    <2>1. v = RepeatedMessage(u, c, telegram[Min(earlier)])
      BY <1>3 DEF TelegramVerdict
    <2>2. Min(earlier) \in DOMAIN telegram
      <3>1. earlier \subseteq Nat
        BY StoredTypes DEF SInv
      <3>2. Min(earlier) \in earlier
        BY <1>3, <3>1, LeastIn
      <3> QED BY <3>2
    <2>3. v.do # "keep"
      BY <2>1 DEF RepeatedMessage, Quarantine, Finish
    <2> HIDE DEF earlier
    <2> QED BY <1>3, <2>1, <2>2, <2>3, RepeatedDecided
  <1>4. CASE RowsOfUpdate(u) = {} /\ earlier = {} /\ TelegramReason(u, c) # "none"
    <2>1. v = Finish(TelegramReason(u, c), 0)
      BY <1>4 DEF TelegramVerdict
    <2>2. v.do # "keep"
      BY <2>1 DEF Finish
    <2> QED BY <1>4, <2>1, <2>2, TelegramReasons, ReviewDecided
  <1>5. CASE RowsOfUpdate(u) = {} /\ earlier = {} /\ TelegramReason(u, c) = "none"
    <2>1. v = CreditVerdict(u, c)
      BY <1>5 DEF TelegramVerdict
    <2>2. v.do # "keep"
      BY <2>1 DEF CreditVerdict, Quarantine, Finish, Book
    <2> QED BY <1>5, <2>1, <2>2, TelegramReasons, CreditDecided
  <1> QED BY <1>1, <1>2, <1>3, <1>4, <1>5

\* HandleNativeWebhook decides as described, and a known webhook id books nothing.
LEMMA NativeDecided ==
  ASSUME SInv, NEW k \in Hooks, Enabled(Config)
  PROVE  /\ Decided(NativeVerdict(k, Config), k, "native")
         /\ NativeVerdict(k, Config).do = "keep" => \E r \in native : r.item = k
         /\ RowsOfHook(k, Config) # {} =>
              NativeVerdict(k, Config).do \in {"keep", "quarantine"}
  <1> DEFINE c == Config
             v == NativeVerdict(k, c)
             ref == k.text.ref
             twins == {r \in native : r.store = c.store /\ r.item.text.ref = ref}
             known == {r \in History(c) : r.ref = ref}
             active == NativeMode(c) = "active"
             same == \E r \in RowsOfHook(k, c) : r.item = k
             rows == RowsOfHook(k, c)
             refused == \/ NativeReason(k, c) # "none"
                        \/ History(c) # {} /\ ref = None
                        \/ History(c) # {} /\ active /\ ~c.verified
             twice == ref # None /\ twins # {}
             booked == ref # None /\ known # {}
  <1>1. CASE same
    <2>1. v = Keep /\ \E r \in native : r.item = k
      BY <1>1 DEF NativeVerdict, RowsOfHook
    <2> QED BY <2>1, ConflictIsReview, ReviewDecided DEF Keep
  <1>2. CASE ~same /\ rows # {}
    <2>1. v = Quarantine("REFERENCE_CONFLICT")
      BY <1>2 DEF NativeVerdict
    <2> QED BY <2>1, ConflictIsReview, ReviewDecided DEF Quarantine
  <1>3. CASE rows = {} /\ refused
    <2>1. PICK reason \in Reviews : v = Finish(reason, 0)
      BY <1>3, NativeReasons, ConflictIsReview DEF NativeVerdict
    <2> QED BY <1>3, <2>1, ReviewDecided DEF Finish
  <1>4. CASE rows = {} /\ ~refused /\ twice
    <2>1. v = Quarantine("REFERENCE_CONFLICT")
      BY <1>4 DEF NativeVerdict
    <2> QED BY <1>4, <2>1, ConflictIsReview, ReviewDecided DEF Quarantine
  <1>5. CASE rows = {} /\ ~refused /\ ~twice /\ booked
    <2> DEFINE d == CHOOSE r \in known : TRUE
               fits == c.verified /\ \A r \in known : Money(ledger[r.txn].item) = Money(k)
    <2>1. v = IF fits THEN Finish("DUPLICATE", d.txn) ELSE Quarantine("REFERENCE_CONFLICT")
      BY <1>5 DEF NativeVerdict
    <2>2. d \in known
      BY <1>5, ChosenIn
    <2> HIDE DEF d
    <2>3. d \in receipts /\ d.store = c.store
      BY <2>2 DEF History
    <2>4. d.txn \in DOMAIN ledger /\ ledger[d.txn].store = c.store
      BY <2>3, ReceiptKnown
    <2>5. CASE fits
      <3>1. Money(ledger[d.txn].item) = Money(k) /\ v = Finish("DUPLICATE", d.txn)
        BY <2>1, <2>2, <2>5
      <3> QED BY <1>5, <2>4, <3>1, DuplicateDecided DEF Finish
    <2>6. CASE ~fits
      <3>1. v = Quarantine("REFERENCE_CONFLICT")
        BY <2>1, <2>6
      <3> QED BY <1>5, <3>1, ConflictIsReview, ReviewDecided DEF Quarantine
    <2> QED BY <2>5, <2>6
  <1>6. CASE rows = {} /\ ~refused /\ ~twice /\ ~booked /\ k.text.at < c.activation
    <2>1. v = Finish("PRE_ACTIVATION", 0)
      BY <1>6 DEF NativeVerdict
    <2>2. Waits(k, "native")
      BY <1>6, Authorities, WaitsNow
    <2> QED BY <1>6, <2>1, <2>2, WaitingDecided DEF Open, Finish
  <1>7. CASE rows = {} /\ ~refused /\ ~twice /\ ~booked /\ ~(k.text.at < c.activation) /\ ~active
    <2>1. v = Finish("OBSERVATION", 0)
      BY <1>7 DEF NativeVerdict
    <2>2. Waits(k, "native")
      BY <1>7, Authorities, WaitsNow
    <2> QED BY <1>7, <2>1, <2>2, WaitingDecided DEF Open, Finish
  <1>8. CASE rows = {} /\ ~refused /\ ~twice /\ ~booked /\ ~(k.text.at < c.activation) /\ active
    <2>1. v = Book
      BY <1>8 DEF NativeVerdict
    <2>2. Auth(Revision) = "native" /\ Act(Revision) = c.activation
      BY <1>8, Authorities
    <2>3. k.text.at >= Act(Revision)
      <3>1. k.text.at \in Nat
        BY Moments DEF Messages
      <3>2. c.activation \in Nat
        BY Revisions, Fields DEF SInv
      <3> QED BY <1>8, <2>2, <3>1, <3>2
    <2>4. FirstBooking(k, "native")
      <3> SUFFICES ASSUME NEW i \in DOMAIN ledger, ledger[i].store = c.store,
                          ledger[i].item.text.ref = ref, ref # None
                   PROVE  FALSE
        BY DEF FirstBooking
      <3>1. CASE ledger[i].via = "telegram"
        <4>1. PICK r \in receipts : r.txn = i
          BY <3>1 DEF SInv, ReceiptsSound
        <4>2. r \in known
          BY <4>1, ReceiptKnown DEF History
        <4> QED BY <1>8, <4>2
      <3>2. CASE ledger[i].via # "telegram"
        <4>1. PICK r \in native : AcceptedN(r, i)
          BY <3>2 DEF SInv, EntriesAccepted
        <4>2. r \in twins
          <5>1. Linked(r, "native") /\ r.txn = i /\ r.reason = "ACCEPTED"
            BY <4>1 DEF SInv, RowsLinked, AcceptedN
          <5> QED BY <5>1 DEF Linked
        <4> QED BY <1>8, <4>2
      <3> QED BY <3>1, <3>2
    <2> QED BY <1>8, <2>1, <2>2, <2>3, <2>4, BookDecided DEF Book
  <1> QED BY <1>1, <1>2, <1>3, <1>4, <1>5, <1>6, <1>7, <1>8

-----------------------------------------------------------------------------
(* The transaction of a message.                                           *)

Entry(m, via) == [item |-> m, via |-> via, store |-> Config.store,
                  receiver |-> Config.receiver, rev |-> Revision]

\* The part that both transports share, for message m and verdict v.
Commits(m, via, v) ==
    /\ m \in Messages /\ m.text.at <= clock
    /\ via \in {"telegram", "native"}
    /\ Decided(v, m, via)
    /\ Pin(Config)
    /\ ledger' = IF v.do = "book" THEN Append(ledger, Entry(m, via)) ELSE ledger
    /\ quarantine' = Quarantined(v, m, Config)
    /\ acked' = acked \cup {m}
    /\ UNCHANGED <<clock, conf, admin, webhook>>

\* The books only grow, by the entry of m.
LEMMA LedgerGrows ==
  ASSUME SInv, NEW m, NEW via, NEW v, Commits(m, via, v)
  PROVE  /\ ledger' \in Seq(Entries) /\ Len(ledger) \in Nat /\ Len(ledger') \in Nat
         /\ DOMAIN ledger = 1..Len(ledger) /\ DOMAIN ledger' = 1..Len(ledger')
         /\ Len(ledger') >= Len(ledger)
         /\ \A i \in DOMAIN ledger : i \in DOMAIN ledger' /\ ledger'[i] = ledger[i]
         /\ v.do # "book" => ledger' = ledger
         /\ v.do = "book" => /\ Len(ledger') = Len(ledger) + 1
                             /\ ledger'[Len(ledger) + 1] = Entry(m, via)
         /\ \A i \in DOMAIN ledger' :
              i \in DOMAIN ledger \/ (v.do = "book" /\ i = Len(ledger) + 1)
  <1>1. ledger \in Seq(Entries)
    BY DEF SInv, TypeOK
  <1>2. Entry(m, via) \in Entries
    <2>1. m \in Messages /\ via \in {"telegram", "native"}
      BY DEF Commits
    <2>2. Config.store \in Stores /\ Config.receiver \in Receivers /\ Revision \in Nat
      BY Revisions, Fields DEF SInv
    <2> QED BY <2>1, <2>2 DEF Entry, Entries
  <1>3. CASE v.do = "book"
    <2>1. ledger' = Append(ledger, Entry(m, via))
      BY <1>3 DEF Commits
    <2>2. /\ ledger' \in Seq(Entries) /\ Len(ledger) \in Nat
          /\ DOMAIN ledger = 1..Len(ledger)
          /\ Len(ledger') = Len(ledger) + 1 /\ DOMAIN ledger' = 1..(Len(ledger) + 1)
          /\ ledger'[Len(ledger) + 1] = Entry(m, via)
          /\ \A i \in 1..Len(ledger) : ledger'[i] = ledger[i]
      BY <1>1, <1>2, <2>1, Appended
    <2> QED BY <1>3, <2>2
  <1>4. CASE v.do # "book"
    <2>1. ledger' = ledger
      BY <1>4 DEF Commits
    <2>2. Len(ledger) \in Nat /\ DOMAIN ledger = 1..Len(ledger)
      BY <1>1, Elements
    <2>3. /\ ledger' \in Seq(Entries) /\ Len(ledger') \in Nat
          /\ DOMAIN ledger' = 1..Len(ledger')
      BY <1>1, <2>1, <2>2
    <2>4. Len(ledger') = Len(ledger) /\ DOMAIN ledger' = DOMAIN ledger
      BY <2>1
    <2>5. Len(ledger') >= Len(ledger)
      BY <2>2, <2>4
    <2> QED BY <1>4, <2>1, <2>2, <2>3, <2>4, <2>5, Zenon
  <1> QED BY <1>3, <1>4

\* What was linked stays linked, what was in the books stays there.
LEMMA LinksKept ==
  ASSUME SInv, NEW m, NEW via, NEW v, Commits(m, via, v)
  PROVE  /\ \A r, t : Linked(r, t) => Linked(r, t)'
         /\ \A x : InBooks(x) => InBooks(x)'
         /\ \A x, t : Waits(x, t) <=> Waits(x, t)'
  <1>1. /\ Len(ledger) \in Nat /\ Len(ledger') \in Nat /\ Len(ledger') >= Len(ledger)
        /\ DOMAIN ledger = 1..Len(ledger)
        /\ \A i \in DOMAIN ledger : i \in DOMAIN ledger' /\ ledger'[i] = ledger[i]
    BY LedgerGrows
  <1>2. clock' = clock /\ conf' = conf
    BY DEF Commits
  <1>3. ASSUME NEW r, NEW t, Linked(r, t)
        PROVE  Linked(r, t)'
    <2>1. r.txn \in 0..Len(ledger')
      BY <1>1, <1>3 DEF Linked
    <2>2. r.txn > 0 => ledger'[r.txn] = ledger[r.txn]
      BY <1>1, <1>3 DEF Linked
    <2> QED BY <1>2, <1>3, <2>1, <2>2 DEF Linked
  <1>4. \A x : InBooks(x) => InBooks(x)'
    BY <1>1 DEF InBooks
  <1>5. \A x, t : Waits(x, t) <=> Waits(x, t)'
    BY <1>2 DEF Waits, Auth, Act, SavedSince, Revision, ConfigAt, activeAuthority
  <1> QED BY <1>3, <1>4, <1>5

LEMMA ConfigurationKept ==
  ASSUME SInv, NEW m, NEW via, NEW v, Commits(m, via, v)
  PROVE  /\ AdminsSound' /\ SwitchedBetween' /\ RegisteredSecretAuthenticates'
         /\ clock' \in Nat \ {0} /\ conf' \in Seq(Configuration) /\ Len(conf') > 0
         /\ admin' \in [Admins -> AdminRequests]
         /\ Revision' = Revision /\ Config' = Config
         /\ \A r : ConfigAt(r)' = ConfigAt(r)
  <1>1. clock' = clock /\ conf' = conf /\ admin' = admin /\ webhook' = webhook
    BY DEF Commits
  <1>2. AdminsSound'
    BY <1>1 DEF SInv, AdminsSound, Succeeds, Revision, ConfigAt, Config, activeAuthority
  <1>3. SwitchedBetween'
    BY <1>1 DEF SInv, SwitchedBetween, Revision, ConfigAt, Auth, Act, Switches, activeAuthority
  <1>4. RegisteredSecretAuthenticates'
    BY <1>1 DEF SInv, RegisteredSecretAuthenticates, Config
  <1>5. Revision' = Revision /\ Config' = Config /\ \A r : ConfigAt(r)' = ConfigAt(r)
    BY <1>1 DEF Revision, Config, ConfigAt
  <1> QED BY <1>1, <1>2, <1>3, <1>4, <1>5 DEF SInv, TypeOK

LEMMA PinKept ==
  ASSUME SInv, NEW m, NEW via, NEW v, Commits(m, via, v)
  PROVE  ReceiverStaysPinned' /\ connections' \in [Stores -> Receivers \cup {None}]
  <1> DEFINE s == Config.store
             x == Config.receiver
  <1>1. s \in Stores /\ x \in Receivers
    BY Revisions, Fields DEF SInv
  <1>2. connections \in [Stores -> Receivers \cup {None}]
    BY DEF SInv, TypeOK
  <1>3. connections[s] \in {None, x} /\ connections' = [connections EXCEPT ![s] = x]
    BY DEF Commits, Pin, ReceiverFits
  <1>4. Config' = Config
    BY ConfigurationKept
  <1>5. /\ connections' \in [Stores -> Receivers \cup {None}] /\ connections'[s] = x
        /\ \A y \in Stores : y # s => connections'[y] = connections[y]
    BY <1>1, <1>2, <1>3
  <1>6. ASSUME NEW i \in DOMAIN ledger'
        PROVE  connections'[ledger'[i].store] = ledger'[i].receiver
    <2>1. CASE i \in DOMAIN ledger
      <3>1. /\ ledger'[i] = ledger[i] /\ ledger[i].store \in Stores
            /\ ledger[i].receiver \in Receivers
            /\ connections[ledger[i].store] = ledger[i].receiver
        BY <2>1, LedgerGrows, StoredTypes DEF SInv, ReceiverStaysPinned
      <3> QED BY <1>3, <1>5, <3>1, NoneAssumption
    <2>2. CASE i = Len(ledger) + 1 /\ v.do = "book"
      <3>1. ledger'[i] = Entry(m, via)
        BY <2>2, LedgerGrows
      <3> QED BY <1>5, <3>1 DEF Entry
    <2> QED BY <2>1, <2>2, LedgerGrows
  <1> QED BY <1>4, <1>5, <1>6 DEF ReceiverStaysPinned

LEMMA OrderKept ==
  ASSUME SInv, NEW m, NEW via, NEW v, Commits(m, via, v)
  PROVE  EntriesInOrder'
  <1>0. EntriesInOrder /\ TypeOK /\ Decided(v, m, via) /\ m.text.at <= clock
    BY DEF SInv, Commits
  <1>1. /\ Revision' = Revision /\ Revision \in Nat /\ clock' = clock /\ conf' = conf
        /\ \A r : ConfigAt(r)' = ConfigAt(r)
    BY <1>0, ConfigurationKept, Revisions DEF Commits
  <1>2. ASSUME NEW i \in DOMAIN ledger'
        PROVE  /\ ledger'[i].rev \in 0..Revision
               /\ ledger'[i].via = Auth(ledger'[i].rev)
               /\ ledger'[i].item.text.at >= Act(ledger'[i].rev)
               /\ ledger'[i].item.text.at <= clock
               /\ SavedSince(ledger'[i].item.text.at, ledger'[i].rev)
               /\ ledger'[i].via = "telegram" => ledger'[i].item.text.ref # None
    <2>1. CASE i \in DOMAIN ledger
      <3>1. ledger'[i] = ledger[i]
        BY <2>1, LedgerGrows
      <3> QED BY <1>0, <2>1, <3>1 DEF EntriesInOrder
    <2>2. CASE i = Len(ledger) + 1 /\ v.do = "book"
      <3>1. ledger'[i] = Entry(m, via)
        BY <2>2, LedgerGrows
      <3>2. /\ ledger'[i].rev = Revision /\ ledger'[i].via = via /\ ledger'[i].item = m
        BY <3>1 DEF Entry
      <3>3. SavedSince(m.text.at, Revision) /\ Revision \in 0..Revision
        BY <1>1 DEF SavedSince
      <3> QED BY <1>0, <2>2, <3>2, <3>3 DEF Decided
    <2> QED BY <2>1, <2>2, LedgerGrows
  <1>3. ASSUME NEW i \in DOMAIN ledger', NEW j \in DOMAIN ledger', i < j
        PROVE  ledger'[i].rev <= ledger'[j].rev
    <2>0. Len(ledger) \in Nat /\ DOMAIN ledger = 1..Len(ledger) /\ i \in Nat /\ j \in Nat
      BY LedgerGrows
    <2>1. CASE j \in DOMAIN ledger
      <3>1. i \in DOMAIN ledger
        BY <1>3, <2>0, <2>1
      <3> QED BY <1>0, <1>3, <2>1, <3>1, LedgerGrows DEF EntriesInOrder
    <2>2. CASE j = Len(ledger) + 1 /\ v.do = "book"
      <3>1. ledger'[j] = Entry(m, via)
        BY <2>2, LedgerGrows
      <3>2. ledger'[j].rev = Revision
        BY <3>1 DEF Entry
      <3> QED BY <1>1, <1>2, <3>2
    <2> QED BY <2>1, <2>2, LedgerGrows
  <1> QED BY <1>1, <1>2, <1>3 DEF EntriesInOrder, Auth, Act, SavedSince, ConfigAt

LEMMA AfterNativeKept ==
  ASSUME SInv, NEW m, NEW via, NEW v, Commits(m, via, v)
  PROVE  TelegramAfterNative'
  <1> SUFFICES ASSUME NEW i \in DOMAIN ledger', NEW j \in DOMAIN ledger', i < j,
                      ledger'[i].store = ledger'[j].store,
                      ledger'[i].item.text.ref = ledger'[j].item.text.ref,
                      ledger'[i].item.text.ref # None
               PROVE  ledger'[i].via = "native" /\ ledger'[j].via = "telegram"
    BY DEF TelegramAfterNative, SameTransfer
  <1>0. Len(ledger) \in Nat /\ DOMAIN ledger = 1..Len(ledger) /\ i \in Nat /\ j \in Nat /\ i >= 1
    BY LedgerGrows
  <1>1. CASE j \in DOMAIN ledger
    <2>1. i \in DOMAIN ledger
      BY <1>0, <1>1
    <2>2. ledger'[i] = ledger[i] /\ ledger'[j] = ledger[j]
      BY <1>1, <2>1, LedgerGrows
    <2> QED BY <1>1, <2>1, <2>2 DEF SInv, TelegramAfterNative, SameTransfer
  <1>2. CASE j = Len(ledger) + 1 /\ v.do = "book"
    <2>1. i \in DOMAIN ledger
      BY <1>0, <1>2
    <2>2. ledger'[i] = ledger[i] /\ ledger'[j] = Entry(m, via)
      BY <1>2, <2>1, LedgerGrows
    <2>3. ledger'[j].store = Config.store /\ ledger'[j].item = m /\ ledger'[j].via = via
      BY <2>2 DEF Entry
    <2>4. FirstBooking(m, via)
      BY <1>2 DEF Commits, Decided
    <2> QED BY <2>1, <2>2, <2>3, <2>4 DEF FirstBooking
  <1> QED BY <1>1, <1>2, LedgerGrows

\* The row that a verdict leaves for message m.
LEMMA NewRow ==
  ASSUME SInv, NEW M, NEW m \in M, NEW via, NEW v, Commits(m, via, v),
         NEW row, row = Row(m, Config, v)
  PROVE  /\ row \in Rows(M) /\ row.item = m /\ row.reason = v.reason /\ row.txn = v.txn
         /\ row.store = Config.store /\ Linked(row, via)'
         /\ row.reason = "ACCEPTED" <=> v.do = "book"
         /\ row.reason \in Open => InBooks(m)' \/ Waits(m, via)'
  <1>0. Decided(v, m, via) /\ m.text.at <= clock /\ clock' = clock
    BY DEF Commits
  <1>1. row.item = m /\ row.reason = v.reason /\ row.txn = v.txn /\ row.store = Config.store
    BY DEF Row
  <1>2. row \in Rows(M)
    <2>1. Config.store \in Stores /\ v.reason \in Reasons /\ v.txn \in Nat
      BY <1>0, Revisions, Fields DEF SInv, Decided
    <2> QED BY <2>1 DEF Row, Rows
  <1>3. row.reason = "ACCEPTED" <=> v.do = "book"
    BY <1>0, <1>1 DEF Decided
  <1>4. Linked(row, via)'
    <2>1. CASE v.do = "book"
      <3>1. /\ row.txn = Len(ledger) + 1 /\ Len(ledger') = Len(ledger) + 1
            /\ Len(ledger) \in Nat /\ ledger'[Len(ledger) + 1] = Entry(m, via)
        BY <1>0, <1>1, <2>1, LedgerGrows DEF Decided
      <3>2. ledger'[row.txn].item = m /\ ledger'[row.txn].via = via
            /\ ledger'[row.txn].store = Config.store
        BY <3>1 DEF Entry
      <3> QED BY <1>0, <1>1, <3>1, <3>2 DEF Linked
    <2>2. CASE v.do # "book"
      <3>1. ledger' = ledger /\ Named(v, m) /\ v.reason # "ACCEPTED"
        BY <1>0, <2>2, LedgerGrows DEF Decided
      <3> QED BY <1>0, <1>1, <3>1 DEF Linked, Named
    <2> QED BY <2>1, <2>2
  <1>5. row.reason \in Open => InBooks(m)' \/ Waits(m, via)'
    BY <1>0, <1>1, LinksKept DEF Decided
  <1> QED BY <1>1, <1>2, <1>3, <1>4, <1>5

\* The request read the configuration that is stored, and decides by it.
LEMMA TelegramCommits ==
  ASSUME SInv, NEW h \in Handlers, NEW u \in Updates, IngestSePayNotification(h, u),
         NEW c, c = Config, NEW v, v = TelegramVerdict(u, c), NEW row, row = Row(u, c, v)
  PROVE  /\ Commits(u, "telegram", v)
         /\ Decided(v, u, "telegram")
         /\ v.do = "keep" => \E i \in DOMAIN telegram : telegram[i].item = u
         /\ RowsOfUpdate(u) # {} => v.do \in {"keep", "quarantine"}
         /\ telegram' = IF RowsOfUpdate(u) # {} THEN telegram ELSE Append(telegram, row)
         /\ native' = native
         /\ receipts' = Receipted(v, u, c)
         /\ quarantine' = Quarantined(v, u, c) /\ acked' = acked \cup {u}
  <1>c. ConfigAt(request[h]) = c /\ request[h] = Revision
    BY Revisions DEF SInv, IngestSePayNotification, checkSePayRevisionTx
  <1>en. Enabled(c)
    BY <1>c DEF IngestSePayNotification, TelegramAdmits, TelegramEnabled
  <1>d. /\ Decided(v, u, "telegram")
        /\ v.do = "keep" => \E i \in DOMAIN telegram : telegram[i].item = u
        /\ RowsOfUpdate(u) # {} => v.do \in {"keep", "quarantine"}
    BY <1>en, TelegramDecided
  <1>u. /\ telegram' = IF RowsOfUpdate(u) # {} THEN telegram ELSE Append(telegram, row)
        /\ native' = native
        /\ receipts' = Receipted(v, u, c)
        /\ quarantine' = Quarantined(v, u, c) /\ acked' = acked \cup {u}
    BY <1>c DEF IngestSePayNotification
  <1>m. Commits(u, "telegram", v)
    <2>1. ledger' = IF v.do = "book" THEN Append(ledger, Entry(u, "telegram")) ELSE ledger
      BY <1>c DEF IngestSePayNotification, Booked, Entry
    <2>2. /\ u.text.at <= clock /\ Pin(c)
          /\ UNCHANGED <<clock, conf, admin, webhook>>
      BY <1>c DEF IngestSePayNotification
    <2>3. u \in Messages
      BY DEF Messages
    <2> QED BY <1>d, <1>u, <2>1, <2>2, <2>3 DEF Commits
  <1> QED BY <1>d, <1>u, <1>m

LEMMA TelegramStep ==
  ASSUME SInv, NEW h \in Handlers, NEW u \in Updates, IngestSePayNotification(h, u)
  PROVE  SInv'
  <1> SUFFICES ASSUME NEW c, c = Config, NEW v, v = TelegramVerdict(u, c),
                      NEW row, row = Row(u, c, v),
                      NEW N, N = Len(telegram) + 1, NEW L, L = Len(ledger) + 1
               PROVE  SInv'
    OBVIOUS
  <1>0. TypeOK /\ RowsLinked /\ EntriesAccepted /\ ReceiptsSound /\ OpenRowsWait /\ AcksKept
    BY DEF SInv
  <1>d. /\ Decided(v, u, "telegram")
        /\ v.do = "keep" => \E i \in DOMAIN telegram : telegram[i].item = u
        /\ RowsOfUpdate(u) # {} => v.do \in {"keep", "quarantine"}
    BY TelegramCommits
  <1>u. /\ telegram' = IF RowsOfUpdate(u) # {} THEN telegram ELSE Append(telegram, row)
        /\ native' = native
        /\ receipts' = Receipted(v, u, c)
        /\ quarantine' = Quarantined(v, u, c) /\ acked' = acked \cup {u}
    BY TelegramCommits
  <1>m. Commits(u, "telegram", v)
    BY TelegramCommits
  <1>k. /\ AdminsSound' /\ SwitchedBetween' /\ RegisteredSecretAuthenticates'
        /\ clock' \in Nat \ {0} /\ conf' \in Seq(Configuration) /\ Len(conf') > 0
        /\ admin' \in [Admins -> AdminRequests]
        /\ ReceiverStaysPinned' /\ connections' \in [Stores -> Receivers \cup {None}]
        /\ EntriesInOrder' /\ TelegramAfterNative'
    BY <1>m, ConfigurationKept, PinKept, OrderKept, AfterNativeKept
  <1>g. /\ ledger' \in Seq(Entries) /\ Len(ledger) \in Nat /\ Len(ledger') \in Nat
        /\ DOMAIN ledger = 1..Len(ledger) /\ DOMAIN ledger' = 1..Len(ledger')
        /\ \A i \in DOMAIN ledger : i \in DOMAIN ledger' /\ ledger'[i] = ledger[i]
        /\ v.do # "book" => ledger' = ledger
        /\ v.do = "book" => Len(ledger') = L /\ ledger'[L] = Entry(u, "telegram")
        /\ \A i \in DOMAIN ledger' : i \in DOMAIN ledger \/ (v.do = "book" /\ i = L)
    BY <1>m, LedgerGrows
  <1>e. /\ Entry(u, "telegram").item = u /\ Entry(u, "telegram").via = "telegram"
        /\ Entry(u, "telegram").store = c.store /\ Entry(u, "telegram").receiver = c.receiver
    BY DEF Entry
  <1>l. /\ \A r, t : Linked(r, t) => Linked(r, t)'
        /\ \A x : InBooks(x) => InBooks(x)'
        /\ \A x, t : Waits(x, t) <=> Waits(x, t)'
    BY <1>m, LinksKept
  <1>r. /\ row \in Rows(Updates) /\ row.item = u /\ row.reason = v.reason /\ row.txn = v.txn
        /\ Linked(row, "telegram")'
        /\ row.reason = "ACCEPTED" <=> v.do = "book"
        /\ row.reason \in Open => InBooks(u)' \/ Waits(u, "telegram")'
    BY <1>m, NewRow
  <1>b. v.do = "book" => v.txn = L /\ RowsOfUpdate(u) = {}
    BY <1>d DEF Decided
  <1>t. /\ telegram' \in Seq(Rows(Updates)) /\ Len(telegram) \in Nat
        /\ DOMAIN telegram = 1..Len(telegram)
        /\ \A n \in DOMAIN telegram : n \in DOMAIN telegram' /\ telegram'[n] = telegram[n]
        /\ RowsOfUpdate(u) = {} => N \in DOMAIN telegram' /\ telegram'[N] = row
        /\ \A n \in DOMAIN telegram' :
             n \in DOMAIN telegram \/ (n = N /\ telegram'[n] = row)
    <2>1. telegram \in Seq(Rows(Updates))
      BY <1>0 DEF TypeOK
    <2>2. CASE RowsOfUpdate(u) = {}
      <3>1. telegram' = Append(telegram, row)
        BY <1>u, <2>2
      <3>2. /\ telegram' \in Seq(Rows(Updates)) /\ Len(telegram) \in Nat
            /\ DOMAIN telegram = 1..Len(telegram) /\ DOMAIN telegram' = 1..(Len(telegram) + 1)
            /\ telegram'[Len(telegram) + 1] = row
            /\ \A n \in 1..Len(telegram) : telegram'[n] = telegram[n]
        BY <1>r, <2>1, <3>1, Appended
      <3> QED BY <3>2
    <2>3. CASE RowsOfUpdate(u) # {}
      <3>1. telegram' = telegram /\ Len(telegram) \in Nat /\ DOMAIN telegram = 1..Len(telegram)
        BY <1>u, <2>1, <2>3, Elements
      <3> QED BY <2>1, <2>3, <3>1
    <2> QED BY <2>2, <2>3
  <1>1. TypeOK'
    BY <1>0, <1>g, <1>k, <1>t, <1>u DEF TypeOK
  <1>2. RowsLinked'
    <2>1. \A n \in DOMAIN telegram' : \A r : r = telegram'[n] => Linked(r, "telegram")'
      BY <1>0, <1>l, <1>r, <1>t DEF RowsLinked
    <2>2. \A r \in native' : Linked(r, "native")'
      BY <1>0, <1>l, <1>u DEF RowsLinked
    <2> QED BY <2>1, <2>2 DEF RowsLinked, Linked
  <1>3. EntriesAccepted'
    <2>t. \A n \in DOMAIN telegram : telegram[n].txn \in 0..Len(ledger)
      BY <1>0 DEF RowsLinked, Linked
    <2>n. \A r \in native : r.txn \in 0..Len(ledger)
      BY <1>0 DEF RowsLinked, Linked
    <2>i. /\ \A i \in DOMAIN ledger' : i \in 0..Len(ledger) => i \in DOMAIN ledger
          /\ L \notin 0..Len(ledger)
      <3>1. /\ DOMAIN ledger' = 1..Len(ledger') /\ DOMAIN ledger = 1..Len(ledger)
            /\ Len(ledger) \in Nat /\ Len(ledger') \in Nat
        BY <1>g
      <3> QED BY <3>1
    <2>1. ASSUME NEW i \in DOMAIN ledger'
          PROVE  IF ledger'[i].via = "telegram"
                 THEN \E n \in DOMAIN telegram' : telegram'[n].reason = "ACCEPTED" /\ telegram'[n].txn = i
                 ELSE \E r \in native : r.reason = "ACCEPTED" /\ r.txn = i
      <3>1. CASE i \in DOMAIN ledger
        <4>0. ledger'[i] = ledger[i]
          BY <1>g, <3>1
        <4>1. CASE ledger[i].via = "telegram"
          <5>1. PICK n \in DOMAIN telegram : telegram[n].reason = "ACCEPTED" /\ telegram[n].txn = i
            BY <1>0, <3>1, <4>1 DEF EntriesAccepted, AcceptedT
          <5>2. n \in DOMAIN telegram' /\ telegram'[n] = telegram[n]
            BY <1>t
          <5> QED BY <4>0, <4>1, <5>1, <5>2
        <4>2. CASE ledger[i].via # "telegram"
          <5>1. PICK r \in native : r.reason = "ACCEPTED" /\ r.txn = i
            BY <1>0, <3>1, <4>2 DEF EntriesAccepted, AcceptedN
          <5> QED BY <4>0, <4>2, <5>1
        <4> QED BY <4>1, <4>2
      <3>2. CASE v.do = "book" /\ i = L
        BY <1>b, <1>e, <1>g, <1>r, <1>t, <3>2
      <3> QED BY <1>g, <3>1, <3>2
    <2>2. ASSUME NEW m \in DOMAIN telegram', NEW n \in DOMAIN telegram', NEW i \in DOMAIN ledger',
                 telegram'[m].reason = "ACCEPTED", telegram'[m].txn = i,
                 telegram'[n].reason = "ACCEPTED", telegram'[n].txn = i
          PROVE  m = n
      <3>1. CASE m \in DOMAIN telegram /\ n \in DOMAIN telegram
        <4>1. i \in DOMAIN ledger
          <5>1. telegram[m].txn = i
            BY <1>t, <2>2, <3>1
          <5>2. i \in 0..Len(ledger)
            BY <2>t, <3>1, <5>1
          <5> QED BY <2>i, <5>2
        <4> QED BY <1>0, <1>t, <2>2, <3>1, <4>1 DEF EntriesAccepted, AcceptedT
      <3>2. CASE (m \in DOMAIN telegram) # (n \in DOMAIN telegram)
        <4>1. v.txn = L /\ i = L
          BY <1>b, <1>r, <1>t, <2>2, <3>2
        <4>2. PICK x \in DOMAIN telegram : telegram'[x].txn = i
          BY <2>2, <3>2
        <4>3. i \in 0..Len(ledger)
          <5>1. telegram[x].txn = i
            BY <1>t, <4>2
          <5> QED BY <2>t, <5>1
        <4> QED BY <2>i, <4>1, <4>3
      <3>3. CASE m = N /\ n = N
        BY <3>3
      <3> QED BY <1>t, <3>1, <3>2, <3>3
    <2>3. ASSUME NEW r \in native, NEW s \in native, NEW i \in DOMAIN ledger',
                 AcceptedN(r, i), AcceptedN(s, i)
          PROVE  r = s
      <3>1. i \in DOMAIN ledger
        BY <2>3, <2>i, <2>n DEF AcceptedN
      <3> QED BY <1>0, <2>3, <3>1 DEF EntriesAccepted
    <2> QED BY <1>u, <2>1, <2>2, <2>3 DEF EntriesAccepted, AcceptedT, AcceptedN
  <1>4. ReceiptsSound'
    <2> SUFFICES ASSUME NEW new, new = [store |-> c.store, ref |-> u.text.ref,
                                        hash |-> Canonical(u, c), txn |-> v.txn]
                 PROVE  ReceiptsSound'
      OBVIOUS
    <2>1. \A r \in receipts : r.txn \in DOMAIN ledger /\ ReceiptFor(r, r.txn)
      BY <1>0 DEF ReceiptsSound
    <2>2. \A r \in receipts : r.txn \in DOMAIN ledger' /\ ReceiptFor(r, r.txn)'
      BY <1>g, <2>1 DEF ReceiptFor
    <2>3. CASE v.do = "book"
      <3>1. receipts' = receipts \cup {new}
        BY <1>u, <2>3 DEF Receipted
      <3>2. /\ new.txn = L /\ new.store = c.store /\ new.ref = u.text.ref
            /\ new.hash = <<c.store, c.receiver, Money(u)>>
        BY <1>b, <2>3 DEF Canonical
      <3>3. L \in DOMAIN ledger' /\ ledger'[L] = Entry(u, "telegram") /\ L \notin DOMAIN ledger
        BY <1>g, <2>3
      <3>4. new.txn \in DOMAIN ledger' /\ ReceiptFor(new, new.txn)'
        BY <1>e, <3>2, <3>3 DEF ReceiptFor
      <3>5. \A i \in DOMAIN ledger' : ledger'[i].via = "telegram" =>
              \E r \in receipts' : r.txn = i
        BY <1>0, <1>g, <3>1, <3>2 DEF ReceiptsSound
      <3>6. \A r, s \in receipts' : r.txn = s.txn => r = s
        BY <1>0, <2>1, <3>1, <3>2, <3>3 DEF ReceiptsSound
      <3> QED BY <2>2, <3>1, <3>4, <3>5, <3>6 DEF ReceiptsSound
    <2>4. CASE v.do # "book"
      <3>1. receipts' = receipts /\ ledger' = ledger
        BY <1>g, <1>u, <2>4 DEF Receipted
      <3> QED BY <1>0, <2>2, <3>1 DEF ReceiptsSound
    <2> QED BY <2>3, <2>4
  <1>5. OpenRowsWait'
    <2>1. ASSUME NEW n \in DOMAIN telegram', telegram'[n].reason \in Open
          PROVE  \A x : x = telegram'[n].item => InBooks(x)' \/ Waits(x, "telegram")'
      <3>1. CASE n \in DOMAIN telegram
        BY <1>0, <1>l, <1>t, <2>1, <3>1 DEF OpenRowsWait
      <3>2. CASE telegram'[n] = row
        BY <1>r, <2>1, <3>2
      <3> QED BY <1>t, <3>1, <3>2
    <2>2. ASSUME NEW r \in native', r.reason \in Open
          PROVE  InBooks(r.item)' \/ Waits(r.item, "native")'
      BY <1>0, <1>l, <1>u, <2>2 DEF OpenRowsWait
    <2> QED BY <2>1, <2>2 DEF OpenRowsWait, InBooks, Waits
  <1>6. AcksKept'
    <2>1. quarantine \subseteq quarantine'
      BY <1>u DEF Quarantined
    <2>2. ASSUME NEW m \in acked
          PROVE  \/ \E i \in DOMAIN telegram' : telegram'[i].item = m
                 \/ \E r \in native : r.item = m
                 \/ \E q \in quarantine' : q.item = m
      BY <1>0, <1>t, <2>1 DEF AcksKept
    <2>3. \/ \E i \in DOMAIN telegram' : telegram'[i].item = u
          \/ \E q \in quarantine' : q.item = u
      <3>1. CASE v.do = "keep"
        BY <1>d, <1>t, <3>1
      <3>2. CASE v.do = "quarantine"
        <4> DEFINE q == [item |-> u, store |-> c.store, reason |-> v.reason]
        <4>1. q \in quarantine' /\ q.item = u
          BY <1>u, <3>2 DEF Quarantined
        <4> HIDE DEF q
        <4> QED BY <4>1
      <3>3. CASE v.do \notin {"keep", "quarantine"}
        <4>1. N \in DOMAIN telegram' /\ telegram'[N].item = u
          BY <1>d, <1>r, <1>t, <3>3
        <4> QED BY <4>1
      <3> QED BY <3>1, <3>2, <3>3
    <2> QED BY <1>u, <2>2, <2>3 DEF AcksKept
  <1> QED BY <1>1, <1>2, <1>3, <1>4, <1>5, <1>6, <1>k DEF SInv

\* The request read the configuration that is stored, and decides by it.
LEMMA NativeCommits ==
  ASSUME SInv, NEW h \in Handlers, NEW k \in Hooks, IngestSePayWebhook(h, k),
         NEW c, c = Config, NEW v, v = NativeVerdict(k, c), NEW row, row = Row(k, c, v)
  PROVE  /\ Commits(k, "native", v)
         /\ Decided(v, k, "native")
         /\ v.do = "keep" => \E r \in native : r.item = k
         /\ RowsOfHook(k, c) # {} => v.do \in {"keep", "quarantine"}
         /\ native' = IF RowsOfHook(k, c) # {} THEN native ELSE native \cup {row}
         /\ telegram' = telegram /\ receipts' = receipts
         /\ quarantine' = Quarantined(v, k, c) /\ acked' = acked \cup {k}
  <1>c. ConfigAt(request[h]) = c /\ request[h] = Revision
    BY Revisions DEF SInv, IngestSePayWebhook, checkSePayRevisionTx
  <1>en. Enabled(c)
    BY <1>c DEF IngestSePayWebhook, NativeAdmits, NativeEnabled
  <1>d. /\ Decided(v, k, "native")
        /\ v.do = "keep" => \E r \in native : r.item = k
        /\ RowsOfHook(k, c) # {} => v.do \in {"keep", "quarantine"}
    BY <1>en, NativeDecided
  <1>u. /\ native' = IF RowsOfHook(k, c) # {} THEN native ELSE native \cup {row}
        /\ telegram' = telegram /\ receipts' = receipts
        /\ quarantine' = Quarantined(v, k, c) /\ acked' = acked \cup {k}
    BY <1>c DEF IngestSePayWebhook
  <1>m. Commits(k, "native", v)
    <2>1. ledger' = IF v.do = "book" THEN Append(ledger, Entry(k, "native")) ELSE ledger
      BY <1>c DEF IngestSePayWebhook, Booked, Entry
    <2>2. /\ k.text.at <= clock /\ Pin(c)
          /\ UNCHANGED <<clock, conf, admin, webhook>>
      BY <1>c DEF IngestSePayWebhook
    <2>3. k \in Messages
      BY DEF Messages
    <2> QED BY <1>d, <1>u, <2>1, <2>2, <2>3 DEF Commits
  <1> QED BY <1>d, <1>u, <1>m

LEMMA NativeStep ==
  ASSUME SInv, NEW h \in Handlers, NEW k \in Hooks, IngestSePayWebhook(h, k)
  PROVE  SInv'
  <1> SUFFICES ASSUME NEW c, c = Config, NEW v, v = NativeVerdict(k, c),
                      NEW row, row = Row(k, c, v), NEW L, L = Len(ledger) + 1
               PROVE  SInv'
    OBVIOUS
  <1>0. TypeOK /\ RowsLinked /\ EntriesAccepted /\ ReceiptsSound /\ OpenRowsWait /\ AcksKept
    BY DEF SInv
  <1>d. /\ Decided(v, k, "native")
        /\ v.do = "keep" => \E r \in native : r.item = k
        /\ RowsOfHook(k, c) # {} => v.do \in {"keep", "quarantine"}
    BY NativeCommits
  <1>u. /\ native' = IF RowsOfHook(k, c) # {} THEN native ELSE native \cup {row}
        /\ telegram' = telegram /\ receipts' = receipts
        /\ quarantine' = Quarantined(v, k, c) /\ acked' = acked \cup {k}
    BY NativeCommits
  <1>m. Commits(k, "native", v)
    BY NativeCommits
  <1>k. /\ AdminsSound' /\ SwitchedBetween' /\ RegisteredSecretAuthenticates'
        /\ clock' \in Nat \ {0} /\ conf' \in Seq(Configuration) /\ Len(conf') > 0
        /\ admin' \in [Admins -> AdminRequests]
        /\ ReceiverStaysPinned' /\ connections' \in [Stores -> Receivers \cup {None}]
        /\ EntriesInOrder' /\ TelegramAfterNative'
    BY <1>m, ConfigurationKept, PinKept, OrderKept, AfterNativeKept
  <1>g. /\ ledger' \in Seq(Entries) /\ Len(ledger) \in Nat /\ Len(ledger') \in Nat
        /\ DOMAIN ledger = 1..Len(ledger) /\ DOMAIN ledger' = 1..Len(ledger')
        /\ \A i \in DOMAIN ledger : i \in DOMAIN ledger' /\ ledger'[i] = ledger[i]
        /\ v.do = "book" => Len(ledger') = L /\ ledger'[L] = Entry(k, "native")
        /\ \A i \in DOMAIN ledger' : i \in DOMAIN ledger \/ (v.do = "book" /\ i = L)
    BY <1>m, LedgerGrows
  <1>e. Entry(k, "native").item = k /\ Entry(k, "native").via = "native"
    BY DEF Entry
  <1>l. /\ \A r, t : Linked(r, t) => Linked(r, t)'
        /\ \A x : InBooks(x) => InBooks(x)'
        /\ \A x, t : Waits(x, t) <=> Waits(x, t)'
    BY <1>m, LinksKept
  <1>r. /\ row \in Rows(Hooks) /\ row.item = k /\ row.reason = v.reason /\ row.txn = v.txn
        /\ Linked(row, "native")'
        /\ row.reason = "ACCEPTED" <=> v.do = "book"
        /\ row.reason \in Open => InBooks(k)' \/ Waits(k, "native")'
    BY <1>m, NewRow
  <1>b. v.do = "book" => v.txn = L /\ RowsOfHook(k, c) = {}
    BY <1>d DEF Decided
  <1>t. /\ native' \subseteq native \cup {row} /\ native \subseteq native'
        /\ RowsOfHook(k, c) = {} => row \in native'
    BY <1>u
  <1>i. /\ \A i \in DOMAIN ledger' : i \in 0..Len(ledger) => i \in DOMAIN ledger
        /\ L \notin 0..Len(ledger)
    <2>1. /\ DOMAIN ledger' = 1..Len(ledger') /\ DOMAIN ledger = 1..Len(ledger)
          /\ Len(ledger) \in Nat /\ Len(ledger') \in Nat
      BY <1>g
    <2> QED BY <2>1
  <1>1. TypeOK'
    BY <1>0, <1>g, <1>k, <1>r, <1>t, <1>u DEF TypeOK
  <1>2. RowsLinked'
    <2>1. \A r \in native' : Linked(r, "native")'
      BY <1>0, <1>l, <1>r, <1>t DEF RowsLinked
    <2>2. \A n \in DOMAIN telegram : \A r : r = telegram[n] => Linked(r, "telegram")'
      BY <1>0, <1>l DEF RowsLinked
    <2> QED BY <1>u, <2>1, <2>2 DEF RowsLinked, Linked
  <1>3. EntriesAccepted'
    <2>t. \A n \in DOMAIN telegram : telegram[n].txn \in 0..Len(ledger)
      BY <1>0 DEF RowsLinked, Linked
    <2>n. \A r \in native : r.txn \in 0..Len(ledger)
      BY <1>0 DEF RowsLinked, Linked
    <2>1. ASSUME NEW i \in DOMAIN ledger'
          PROVE  IF ledger'[i].via = "telegram"
                 THEN \E n \in DOMAIN telegram : telegram[n].reason = "ACCEPTED" /\ telegram[n].txn = i
                 ELSE \E r \in native' : r.reason = "ACCEPTED" /\ r.txn = i
      <3>1. CASE i \in DOMAIN ledger
        <4>0. ledger'[i] = ledger[i]
          BY <1>g, <3>1
        <4>1. CASE ledger[i].via = "telegram"
          <5>1. PICK n \in DOMAIN telegram : telegram[n].reason = "ACCEPTED" /\ telegram[n].txn = i
            BY <1>0, <3>1, <4>1 DEF EntriesAccepted, AcceptedT
          <5> QED BY <4>0, <4>1, <5>1
        <4>2. CASE ledger[i].via # "telegram"
          <5>1. PICK r \in native : r.reason = "ACCEPTED" /\ r.txn = i
            BY <1>0, <3>1, <4>2 DEF EntriesAccepted, AcceptedN
          <5> QED BY <1>t, <4>0, <4>2, <5>1
        <4> QED BY <4>1, <4>2
      <3>2. CASE v.do = "book" /\ i = L
        <4>1. row \in native' /\ row.reason = "ACCEPTED" /\ row.txn = i
          BY <1>b, <1>r, <1>t, <3>2
        <4>2. ledger'[i].via # "telegram"
          BY <1>e, <1>g, <3>2
        <4> QED BY <4>1, <4>2
      <3> QED BY <1>g, <3>1, <3>2
    <2>2. ASSUME NEW m \in DOMAIN telegram, NEW n \in DOMAIN telegram, NEW i \in DOMAIN ledger',
                 AcceptedT(m, i), AcceptedT(n, i)
          PROVE  m = n
      <3>1. i \in DOMAIN ledger
        BY <1>i, <2>2, <2>t DEF AcceptedT
      <3> QED BY <1>0, <2>2, <3>1 DEF EntriesAccepted
    <2>3. ASSUME NEW r \in native', NEW s \in native', NEW i \in DOMAIN ledger',
                 AcceptedN(r, i), AcceptedN(s, i)
          PROVE  r = s
      <3>1. CASE r \in native /\ s \in native
        <4>1. i \in DOMAIN ledger
          BY <1>i, <2>3, <2>n, <3>1 DEF AcceptedN
        <4> QED BY <1>0, <2>3, <3>1, <4>1 DEF EntriesAccepted
      <3>2. CASE r = row /\ s = row
        BY <3>2
      <3>3. CASE (r = row /\ s \in native) \/ (s = row /\ r \in native)
        <4>1. i = L
          BY <1>b, <1>r, <2>3, <3>3 DEF AcceptedN
        <4>2. i \in 0..Len(ledger)
          BY <2>3, <2>n, <3>3 DEF AcceptedN
        <4> QED BY <1>i, <4>1, <4>2
      <3> QED BY <1>t, <3>1, <3>2, <3>3
    <2> QED BY <1>u, <2>1, <2>2, <2>3 DEF EntriesAccepted, AcceptedT, AcceptedN
  <1>4. ReceiptsSound'
    <2>1. \A r \in receipts : r.txn \in DOMAIN ledger /\ ReceiptFor(r, r.txn)
      BY <1>0 DEF ReceiptsSound
    <2>2. \A r \in receipts : r.txn \in DOMAIN ledger' /\ ReceiptFor(r, r.txn)'
      BY <1>g, <2>1 DEF ReceiptFor
    <2>3. \A i \in DOMAIN ledger' : ledger'[i].via = "telegram" =>
            \E r \in receipts : r.txn = i
      BY <1>0, <1>e, <1>g DEF ReceiptsSound
    <2>4. \A r, s \in receipts : r.txn = s.txn => r = s
      BY <1>0 DEF ReceiptsSound
    <2> QED BY <1>u, <2>2, <2>3, <2>4 DEF ReceiptsSound
  <1>5. OpenRowsWait'
    <2>1. ASSUME NEW n \in DOMAIN telegram, telegram[n].reason \in Open
          PROVE  \A x : x = telegram[n].item => InBooks(x)' \/ Waits(x, "telegram")'
      BY <1>0, <1>l, <2>1 DEF OpenRowsWait
    <2>2. ASSUME NEW r \in native', r.reason \in Open
          PROVE  InBooks(r.item)' \/ Waits(r.item, "native")'
      BY <1>0, <1>l, <1>r, <1>t, <2>2 DEF OpenRowsWait
    <2> QED BY <1>u, <2>1, <2>2 DEF OpenRowsWait, InBooks, Waits
  <1>6. AcksKept'
    <2>1. quarantine \subseteq quarantine'
      BY <1>u DEF Quarantined
    <2>2. ASSUME NEW m \in acked
          PROVE  \/ \E i \in DOMAIN telegram : telegram[i].item = m
                 \/ \E r \in native' : r.item = m
                 \/ \E q \in quarantine' : q.item = m
      BY <1>0, <1>t, <2>1 DEF AcksKept
    <2>3. \/ \E r \in native' : r.item = k
          \/ \E q \in quarantine' : q.item = k
      <3>1. CASE v.do = "keep"
        BY <1>d, <1>t, <3>1
      <3>2. CASE v.do = "quarantine"
        <4> DEFINE q == [item |-> k, store |-> c.store, reason |-> v.reason]
        <4>1. q \in quarantine' /\ q.item = k
          BY <1>u, <3>2 DEF Quarantined
        <4> HIDE DEF q
        <4> QED BY <4>1
      <3>3. CASE v.do \notin {"keep", "quarantine"}
        <4>1. row \in native' /\ row.item = k
          BY <1>d, <1>r, <1>t, <3>3
        <4> QED BY <4>1
      <3> QED BY <3>1, <3>2, <3>3
    <2> QED BY <1>u, <2>2, <2>3 DEF AcksKept
  <1> QED BY <1>1, <1>2, <1>3, <1>4, <1>5, <1>6, <1>k DEF SInv

-----------------------------------------------------------------------------
(* What the invariant says of the books.                                   *)

\* Between revision r0 and the one in force the authority became t, or its
\* activation moved on: the moment at lies in the window of that switch.
LEMMA WindowFound ==
  ASSUME SInv, NEW at \in Nat, NEW a \in 0..Revision, NEW b \in 0..Revision, a < b,
         SavedSince(at, a), at >= Act(b),
         Auth(b) # "none", Auth(a) # Auth(b) \/ Act(a) # Act(b)
  PROVE  InSwitchWindow(at)
  <1>1. PICK r \in (a + 1)..b : Switches(r) /\ Act(r) = Act(b)
    BY DEF SInv, SwitchedBetween
  <1>2. Revision \in Nat /\ r \in (a + 1)..Revision /\ r \in 0..Revision
    BY Revisions DEF SInv
  <1>3. ConfigAt(r).activation \in Nat /\ ConfigAt(r).saved \in Nat
    BY <1>2, Revisions, Fields DEF SInv
  <1>4. ConfigAt(r).activation <= at /\ at <= ConfigAt(r).saved
    BY <1>1, <1>2, <1>3 DEF SavedSince, Act
  <1>5. at \in ConfigAt(r).activation .. ConfigAt(r).saved
    BY <1>3, <1>4
  <1> QED BY <1>1, <1>2, <1>5 DEF InSwitchWindow

LEMMA TwiceFollows == SInv => TwiceOnlyAcrossASwitch
  <1> SUFFICES ASSUME SInv, NEW i \in DOMAIN ledger, NEW j \in DOMAIN ledger, i < j,
                      ledger[i].store = ledger[j].store, SameTransfer(i, j)
               PROVE  /\ ledger[i].via = "native" /\ ledger[j].via = "telegram"
                      /\ ledger[i].rev < ledger[j].rev
                      /\ InSwitchWindow(ledger[j].item.text.at)
    BY DEF TwiceOnlyAcrossASwitch
  <1> DEFINE at == ledger[j].item.text.at
             a  == ledger[i].rev
             b  == ledger[j].rev
  <1>1. ledger[i].via = "native" /\ ledger[j].via = "telegram"
    BY DEF SInv, TelegramAfterNative
  <1>2. ledger[i].item.text.at = at /\ at \in Nat
    <2>1. ledger[i].item \in Updates \cup Hooks /\ ledger[j].item \in Updates \cup Hooks
          /\ at \in Nat
      BY StoredTypes DEF SInv, Messages
    <2> QED BY <2>1, TransfersAssumption DEF SameTransfer
  <1>3. /\ a \in 0..Revision /\ b \in 0..Revision /\ a <= b
        /\ Auth(a) = "native" /\ Auth(b) = "telegram"
        /\ at >= Act(b) /\ SavedSince(at, a)
    BY <1>1, <1>2 DEF SInv, EntriesInOrder
  <1>4. a < b
    <2>1. a \in Nat /\ b \in Nat /\ a # b
      BY <1>3, StoredTypes DEF SInv
    <2> QED BY <1>3, <2>1
  <1> HIDE DEF at, a, b
  <1>5. InSwitchWindow(at)
    BY <1>2, <1>3, <1>4, WindowFound
  <1> QED BY <1>1, <1>4, <1>5 DEF at, a, b

\* A message that its transport only kept, and that is due now, was made in the
\* window of a switch.
LEMMA DueMissed ==
  ASSUME SInv, NEW m \in Messages, NEW t, t # "none", Auth(Revision) = t,
         m.text.at >= Act(Revision), Waits(m, t)
  PROVE  InSwitchWindow(m.text.at)
  <1> DEFINE at == m.text.at
  <1>1. PICK a \in 0..Revision : (Auth(a) # t \/ at < Act(a)) /\ SavedSince(at, a)
    BY DEF Waits
  <1>2. Revision \in Nat /\ at \in Nat
    BY Moments, Revisions DEF SInv
  <1>3. Act(a) \in Nat /\ Act(Revision) \in Nat
    BY <1>2, Revisions, Fields DEF SInv, Act
  <1>4. a < Revision /\ Revision \in 0..Revision
    BY <1>1, <1>2, <1>3
  <1>5. Auth(Revision) # "none" /\ (Auth(a) # Auth(Revision) \/ Act(a) # Act(Revision))
    BY <1>1, <1>2, <1>3
  <1> QED BY <1>1, <1>2, <1>4, <1>5, WindowFound

LEMMA MissedFollows == SInv => MissedOnlyAcrossASwitch
  <1> SUFFICES ASSUME SInv
               PROVE  MissedOnlyAcrossASwitch
    OBVIOUS
  <1>1. Auth(Revision) = activeAuthority(Config) /\ Act(Revision) = Config.activation
    BY Authorities
  <1>2. ASSUME activeAuthority(Config) = "telegram", NEW i \in DOMAIN telegram,
               Due(telegram[i].item, telegram[i].store), telegram[i].reason \in Open,
               ~InBooks(telegram[i].item)
        PROVE  InSwitchWindow(telegram[i].item.text.at)
    <2>1. telegram[i].item \in Messages
      BY StoredTypes DEF SInv, Messages
    <2>2. Waits(telegram[i].item, "telegram")
      BY <1>2 DEF SInv, OpenRowsWait
    <2> QED BY <1>1, <1>2, <2>1, <2>2, DueMissed DEF Due
  <1>3. ASSUME activeAuthority(Config) = "native", NEW r \in native,
               Due(r.item, r.store), r.reason \in Open, ~InBooks(r.item)
        PROVE  InSwitchWindow(r.item.text.at)
    <2>1. r.item \in Messages
      BY StoredTypes DEF SInv, Messages
    <2>2. Waits(r.item, "native")
      BY <1>3 DEF SInv, OpenRowsWait
    <2> QED BY <1>1, <1>3, <2>1, <2>2, DueMissed DEF Due
  <1> QED BY <1>2, <1>3 DEF MissedOnlyAcrossASwitch

\* The one accepted row of entry i.
LEMMA AcceptedOnce ==
  ASSUME SInv, NEW i \in DOMAIN ledger
  PROVE  \E x : Accepted(i) = {x} /\ x.item = ledger[i].item
  <1>0. RowsLinked /\ EntriesAccepted
    BY DEF SInv
  <1>1. \A n \in DOMAIN telegram : AcceptedT(n, i) =>
           ledger[i].via = "telegram" /\ telegram[n].item = ledger[i].item
    BY <1>0 DEF RowsLinked, Linked, AcceptedT
  <1>2. \A r \in native : AcceptedN(r, i) =>
           ledger[i].via = "native" /\ r.item = ledger[i].item
    BY <1>0 DEF RowsLinked, Linked, AcceptedN
  <1>3. Accepted(i) = {r \in native : AcceptedN(r, i)}
                        \cup {telegram[n] : n \in {n \in DOMAIN telegram : AcceptedT(n, i)}}
    BY DEF Accepted, AcceptedT, AcceptedN
  <1>4. CASE ledger[i].via = "telegram"
    <2>1. PICK n \in DOMAIN telegram : AcceptedT(n, i)
      BY <1>0, <1>4 DEF EntriesAccepted
    <2>2. \A m \in DOMAIN telegram : AcceptedT(m, i) => m = n
      BY <1>0, <2>1 DEF EntriesAccepted
    <2>3. {m \in DOMAIN telegram : AcceptedT(m, i)} = {n}
      BY <2>1, <2>2
    <2>4. {r \in native : AcceptedN(r, i)} = {}
      BY <1>2, <1>4
    <2>5. Accepted(i) = {telegram[n]}
      BY <1>3, <2>3, <2>4
    <2> QED BY <1>1, <2>1, <2>5
  <1>5. CASE ledger[i].via # "telegram"
    <2>1. PICK r \in native : AcceptedN(r, i)
      BY <1>0, <1>5 DEF EntriesAccepted
    <2>2. \A y \in native : AcceptedN(y, i) => y = r
      BY <1>0, <2>1 DEF EntriesAccepted
    <2>3. {y \in native : AcceptedN(y, i)} = {r}
      BY <2>1, <2>2
    <2>4. {m \in DOMAIN telegram : AcceptedT(m, i)} = {}
      BY <1>1, <1>5
    <2>5. Accepted(i) = {r}
      BY <1>3, <2>3, <2>4
    <2> QED BY <1>2, <2>1, <2>5
  <1> QED BY <1>4, <1>5

LEMMA EvidenceFollows == SInv => EntriesHaveEvidence
  <1> SUFFICES ASSUME SInv
               PROVE  EntriesHaveEvidence
    OBVIOUS
  <1>1. ASSUME NEW i \in DOMAIN ledger
        PROVE  /\ Cardinality(Accepted(i)) = 1
               /\ \A r \in Accepted(i) : r.item = ledger[i].item
    <2>1. PICK x : Accepted(i) = {x} /\ x.item = ledger[i].item
      BY AcceptedOnce
    <2> QED BY <2>1, FS_Singleton
  <1>2. ASSUME NEW i \in DOMAIN ledger
        PROVE  Cardinality({r \in receipts : r.txn = i})
                 = (IF ledger[i].via = "telegram" THEN 1 ELSE 0)
    <2>0. ReceiptsSound
      BY DEF SInv
    <2>1. CASE ledger[i].via = "telegram"
      <3>1. PICK r \in receipts : r.txn = i
        BY <2>0, <2>1 DEF ReceiptsSound
      <3>2. {s \in receipts : s.txn = i} = {r}
        BY <2>0, <3>1 DEF ReceiptsSound
      <3> QED BY <2>1, <3>2, FS_Singleton
    <2>2. CASE ledger[i].via # "telegram"
      <3>1. {s \in receipts : s.txn = i} = {}
        BY <2>0, <2>2 DEF ReceiptsSound, ReceiptFor
      <3> QED BY <2>2, <3>1, FS_EmptySet
    <2> QED BY <2>1, <2>2
  <1>3. \A r \in native : r.txn > 0 => /\ Money(r.item) = Money(ledger[r.txn].item)
                                       /\ r.store = ledger[r.txn].store
    BY DEF SInv, RowsLinked, Linked
  <1>4. \A n \in DOMAIN telegram : telegram[n].txn > 0 =>
          /\ Money(telegram[n].item) = Money(ledger[telegram[n].txn].item)
          /\ telegram[n].store = ledger[telegram[n].txn].store
    BY DEF SInv, RowsLinked, Linked
  <1>5. \A r \in native \cup {telegram[n] : n \in DOMAIN telegram} :
          r.txn > 0 => /\ Money(r.item) = Money(ledger[r.txn].item)
                       /\ r.store = ledger[r.txn].store
    BY <1>3, <1>4
  <1> QED BY <1>1, <1>2, <1>5 DEF EntriesHaveEvidence

\* A booking is of the authority in force, for its store and receiver.
LEMMA BookedNow ==
  ASSUME SInv, NEW m, NEW via, NEW v, Commits(m, via, v), NEW i \in DOMAIN ledger' \ DOMAIN ledger
  PROVE  /\ ledger'[i].via = activeAuthority(Config)
         /\ ledger'[i].item.text.at >= Config.activation
         /\ ledger'[i].store = Config.store
         /\ ledger'[i].receiver = Config.receiver
  <1>1. v.do = "book" /\ ledger'[i] = Entry(m, via)
    BY LedgerGrows
  <1>2. /\ ledger'[i].via = via /\ ledger'[i].item = m
        /\ ledger'[i].store = Config.store /\ ledger'[i].receiver = Config.receiver
    BY <1>1 DEF Entry
  <1>3. Auth(Revision) = via /\ m.text.at >= Act(Revision)
    BY <1>1 DEF Commits, Decided
  <1> QED BY <1>2, <1>3, Authorities

-----------------------------------------------------------------------------
(* Theorems.                                                               *)

LEMMA StepKeepsSInv == SInv /\ [Next]_vars => SInv'
  <1> SUFFICES ASSUME SInv, [Next]_vars
               PROVE  SInv'
    OBVIOUS
  <1>1. CASE UNCHANGED vars
    <2>1. clock' \in Nat /\ clock' >= clock
      BY <1>1 DEF vars, SInv, TypeOK
    <2>2. UNCHANGED <<conf, evidence, acked, admin, webhook>>
      BY <1>1 DEF vars
    <2> QED BY <2>1, <2>2, HandlerStep
  <1>2. CASE \/ Tick
             \/ \E h \in Handlers : \/ Snapshot(h) \/ RequestFails(h)
                                    \/ \E u \in Updates : IgnoreUpdate(h, u)
             \/ \E a \in Admins : RegisterChecked(a) \/ setWebhook(a) \/ AdminFails(a)
             \/ \E a \in Admins, d \in Drafts : SaveAdminConfig(a, d)
    BY <1>2, QuietActions
  <1>3. ASSUME NEW h \in Handlers, NEW u \in Updates, IngestSePayNotification(h, u)
        PROVE  SInv'
    BY <1>3, TelegramStep
  <1>4. ASSUME NEW h \in Handlers, NEW k \in Hooks, IngestSePayWebhook(h, k)
        PROVE  SInv'
    BY <1>4, NativeStep
  <1>5. ASSUME NEW a \in Admins, SaveSePayManagedConfig(a)
        PROVE  SInv'
    BY <1>5, SaveStep
  <1> QED BY <1>1, <1>2, <1>3, <1>4, <1>5 DEF Next

(* What is stored about bank credits keeps its types and stays consistent  *)
(* with the ledger, whatever the requests of the two webhooks, the owners' *)
(* saves and the registrations do to each other.                           *)
THEOREM IngestInvariance == Spec => []SInv
  <1>1. Init => SInv
    BY InitiallySInv
  <1>2. SInv /\ [Next]_vars => SInv'
    BY StepKeepsSInv
  <1> QED BY <1>1, <1>2, PTL DEF Spec

(* Within a store, IngestSePayNotification and IngestSePayWebhook book one *)
(* transfer twice only when Telegram books it after native, and only when  *)
(* it was made between the activation time that SaveAdminConfig took for   *)
(* Telegram and the commit of that save.                                   *)
THEOREM BookedTwiceOnlyAcrossASwitch == Spec => []TwiceOnlyAcrossASwitch
  <1>1. SInv => TwiceOnlyAcrossASwitch
    BY TwiceFollows
  <1> QED BY <1>1, IngestInvariance, PTL

(* A message of the transport in authority that was only stored, although  *)
(* its transfer is not older than the activation, was made in the window of*)
(* the switch that SaveSePayManagedConfig committed; any other credit is in*)
(* the books or shown for review.                                          *)
THEOREM CreditsMissedOnlyAcrossASwitch == Spec => []MissedOnlyAcrossASwitch
  <1>1. SInv => MissedOnlyAcrossASwitch
    BY MissedFollows
  <1> QED BY <1>1, IngestInvariance, PTL

(* insertSePayCreditTx leaves one accepted row in an inbox for each entry, *)
(* a receipt for each Telegram entry, and a duplicate names an entry of the*)
(* same money and store.                                                   *)
THEOREM BooksHaveEvidence == Spec => []EntriesHaveEvidence
  <1>1. SInv => EntriesHaveEvidence
    BY EvidenceFollows
  <1> QED BY <1>1, IngestInvariance, PTL

(* ensureSePayConnectionTx and the save's own check agree: a configuration *)
(* in force never contradicts the receiver pinned for its store.           *)
THEOREM PinnedReceivers == Spec => []ReceiverStaysPinned
  <1>1. SInv => ReceiverStaysPinned
    BY DEF SInv
  <1> QED BY <1>1, IngestInvariance, PTL

(* The webhooks answer 200 to a message of the source only after it is kept*)
(* in its inbox or among the quarantined candidates.                       *)
THEOREM AcknowledgedIsKept == Spec => []AcksKept
  <1>1. SInv => AcksKept
    BY DEF SInv
  <1> QED BY <1>1, IngestInvariance, PTL

(* A registration and any number of saves at the same time never leave     *)
(* Telegram with another secret than sepayTelegramWebhook compares with.   *)
THEOREM RegistrationAuthenticates == Spec => []RegisteredSecretAuthenticates
  <1>1. SInv => RegisteredSecretAuthenticates
    BY DEF SInv
  <1> QED BY <1>1, IngestInvariance, PTL

(* checkSePayRevisionTx: a request that read an older configuration books  *)
(* nothing, so that every booking is of the authority, the store, the      *)
(* receiver and the activation of the configuration stored at its commit.  *)
THEOREM BookingsAreAuthorised == Spec => BookedUnderAuthority
  <1> DEFINE P == \A i \in DOMAIN ledger' \ DOMAIN ledger :
                    /\ ledger'[i].via = activeAuthority(Config)
                    /\ ledger'[i].item.text.at >= Config.activation
                    /\ ledger'[i].store = Config.store
                    /\ ledger'[i].receiver = Config.receiver
  <1>1. SInv /\ [Next]_vars => [P]_vars
    <2> SUFFICES ASSUME SInv, Next
                 PROVE  P
      OBVIOUS
    <2>1. CASE ledger' = ledger
      BY <2>1
    <2>2. ASSUME NEW h \in Handlers, NEW u \in Updates, IngestSePayNotification(h, u)
          PROVE  P
      <3>1. PICK c, v, row : c = Config /\ v = TelegramVerdict(u, c) /\ row = Row(u, c, v)
        OBVIOUS
      <3>2. Commits(u, "telegram", v)
        BY <2>2, <3>1, TelegramCommits
      <3> QED BY <3>2, BookedNow
    <2>3. ASSUME NEW h \in Handlers, NEW k \in Hooks, IngestSePayWebhook(h, k)
          PROVE  P
      <3>1. PICK c, v, row : c = Config /\ v = NativeVerdict(k, c) /\ row = Row(k, c, v)
        OBVIOUS
      <3>2. Commits(k, "native", v)
        BY <2>3, <3>1, NativeCommits
      <3> QED BY <3>2, BookedNow
    <2>4. ledger' = ledger \/ (\E h \in Handlers :
            \/ \E u \in Updates : IngestSePayNotification(h, u)
            \/ \E k \in Hooks : IngestSePayWebhook(h, k))
      BY DEF Next, Tick, Snapshot, RequestFails, IgnoreUpdate, SaveAdminConfig,
             SaveSePayManagedConfig, RegisterChecked, setWebhook, AdminFails, evidence
    <2> QED BY <2>1, <2>2, <2>3, <2>4
  <1> QED BY <1>1, IngestInvariance, PTL DEF Spec, BookedUnderAuthority
=============================================================================
