---------------------------- MODULE RealtimeJournal ----------------------------
(***************************************************************************)
(* The way of a committed event to a browser: the journal in the database, *)
(* the worker's JournalPublisher and its hub, the gateways' stream client  *)
(* and RealtimeCoordinator, the gateway hub, the SSE handler with its      *)
(* replay, and the browser's RealtimeClient with its cursor.               *)
(*                                                                         *)
(* Sequence numbers are given out by AUTOINCREMENT inside the committing   *)
(* transaction, so they are dense, and retention deletes from the oldest:  *)
(* the journal is the interval tail+1 .. head.  How old a row must be for  *)
(* that is left open; rows deleted under a running connection are kept in  *)
(* the history variables raced and lagged.                                 *)
(***************************************************************************)
EXTENDS Integers, Sequences

CONSTANTS Gateways, Clients,
          NoGateway,
          Writers,       \* the gateways that commit events themselves
          Streams,       \* the gateways that the worker lets read its stream
          Public,        \* the clients of publicEventsStream
          Hidden,        \* the events that publicEventsStream filters out
          MaxSeq,        \* bound on the events committed
          InputCap,      \* coordinator.input            (256 in the code)
          BufferCap,     \* a subscriber's channel       (128)
          Batch,         \* rows of one ReadJournalEvents (250)
          EarlyClients,  \* may clients connect before the coordinator's
                         \* first read of the journal
          FaultBudget    \* bound on restarts and broken connections

ASSUME JournalAssumption ==
    /\ NoGateway \notin Gateways
    /\ Writers \subseteq Gateways /\ Streams \subseteq Gateways
    /\ Public \subseteq Clients
    /\ MaxSeq \in Nat /\ FaultBudget \in Nat
    /\ InputCap \in Nat \ {0} /\ BufferCap \in Nat \ {0} /\ Batch \in Nat \ {0}
    /\ EarlyClients \in BOOLEAN

VARIABLES
    head, tail,      \* event_journal holds tail+1 .. head
    hints,           \* committed at a gateway, not yet submitted there
    cursor,          \* JournalPublisher.cursor
    stream,          \* a gateway's subscription to the worker's hub
    coord,           \* RealtimeCoordinator
    conn,            \* a client's SSE handler and gateway hub subscription
    page,            \* RealtimeClient
    raced, lagged,   \* history: rows ahead of a page that were deleted under
                     \* its replay, under its live stream
    faults

journal == <<head, tail>>
vars    == <<journal, hints, cursor, stream, coord, conn, page, raced, lagged,
             faults>>

Seqs == 1..MaxSeq

MaxJournalSeq == IF head = tail THEN 0 ELSE head
MinJournalSeq == IF head = tail THEN 0 ELSE tail + 1

\* The rows that ReadJournalEvents(after, Batch) returns are first .. end.
FirstAfter(after) == (IF after < tail THEN tail ELSE after) + 1
EndAfter(after)   == IF FirstAfter(after) + Batch - 1 < head
                     THEN FirstAfter(after) + Batch - 1 ELSE head

Visible(c, n) == c \notin Public \/ n \notin Hidden

-----------------------------------------------------------------------------
(* A gateway's subscription to the worker, a coordinator, a connection and a *)
(* page as they start.                                                       *)

NoStream == [up |-> FALSE, buf |-> <<>>, cut |-> FALSE]
NewCoordinator ==    \* pc: select, min, read, gone, publish
    [ready |-> FALSE, last |-> 0, input |-> <<>>, wake |-> FALSE, pc |-> "select",
     target |-> 0, next |-> 1, end |-> 0, full |-> FALSE]
NoConn ==            \* pc: off, hello, max, read, write, live
    [at |-> NoGateway, pc |-> "off", buf |-> <<>>, cut |-> FALSE, low |-> 0,
     wm |-> 0, next |-> 1, end |-> 0, full |-> FALSE, hint |-> 0]
NewPage ==           \* upto: shown so far; last: the last event since it was loaded
    [cursor |-> 0, upto |-> 0, last |-> 0]

Init == /\ head = 0 /\ tail = 0
        /\ hints = [g \in Gateways |-> {}]
        /\ cursor = 0
        /\ stream = [g \in Gateways |-> NoStream]
        /\ coord = [g \in Gateways |-> NewCoordinator]
        /\ conn = [c \in Clients |-> NoConn]
        /\ page = [c \in Clients |-> NewPage]
        /\ raced = [c \in Clients |-> {}]
        /\ lagged = [c \in Clients |-> {}]
        /\ faults = 0

Fault == faults < FaultBudget /\ faults' = faults + 1

history == <<raced, lagged>>

-----------------------------------------------------------------------------
(* The journal.                                                            *)

\* A transaction commits its event: at the worker, or at a gateway, whose
\* request will also submit it to its own coordinator.
CommitAtWorker ==
    /\ head < MaxSeq
    /\ head' = head + 1
    /\ UNCHANGED <<tail, hints, cursor, stream, coord, conn, page, history, faults>>

CommitAtGateway(g) ==
    /\ g \in Writers
    /\ head < MaxSeq
    /\ head' = head + 1
    /\ hints' = [hints EXCEPT ![g] = @ \cup {head + 1}]
    /\ UNCHANGED <<tail, cursor, stream, coord, conn, page, history, faults>>

\* The rows up to n that a running connection has not got to.
Overtaken(c, n) == {m \in tail + 1 .. n : m > conn[c].wm}

\* DeleteJournalBefore.
DeleteJournalBefore(n) ==
    /\ n \in tail + 1 .. head
    /\ tail' = n
    /\ raced' = [c \in Clients |->
                   IF conn[c].pc \in {"read", "write"} /\ conn[c].hint = 0
                   THEN raced[c] \cup Overtaken(c, n) ELSE raced[c]]
    /\ lagged' = [c \in Clients |->
                    IF \/ conn[c].pc = "live"
                       \/ conn[c].pc \in {"read", "write"} /\ conn[c].hint > 0
                    THEN lagged[c] \cup Overtaken(c, n) ELSE lagged[c]]
    /\ UNCHANGED <<head, hints, cursor, stream, coord, conn, page, faults>>
-----------------------------------------------------------------------------
(* The worker.                                                             *)

\* Hub.Publish for one subscriber: a full channel is closed; what it holds
\* can still be read.
PushedLossy(s, n) ==   \* faulty variant: a full channel only drops the event
    IF s.cut \/ Len(s.buf) >= BufferCap THEN s
    ELSE [s EXCEPT !.buf = Append(@, n)]

Pushed(s, n) ==
    IF s.cut THEN s
    ELSE IF Len(s.buf) < BufferCap THEN [s EXCEPT !.buf = Append(@, n)]
    ELSE [s EXCEPT !.cut = TRUE]

\* JournalPublisher.process, one row at a time: the jump over rows that
\* retention deleted, the read and the fan-out to the connected gateways.
Process ==
    /\ Streams # {}                 \* otherwise nobody can tell
    /\ FirstAfter(cursor) <= head
    /\ LET n == FirstAfter(cursor)
       IN  /\ cursor' = n
           /\ stream' = [g \in Gateways |-> IF stream[g].up THEN Pushed(stream[g], n)
                                            ELSE stream[g]]
    /\ UNCHANGED <<journal, hints, coord, conn, page, history, faults>>

\* The worker dies, taking the streams with it; its successor's Init starts
\* at the end of the journal.
RestartWorker ==
    /\ Streams # {}
    /\ Fault
    /\ cursor' = MaxJournalSeq
    /\ stream' = [g \in Gateways |-> NoStream]
    /\ UNCHANGED <<journal, hints, coord, conn, page, history>>

-----------------------------------------------------------------------------
(* A gateway: stream client and coordinator.                               *)

\* RealtimeCoordinator.Submit never waits: a full queue asks for recovery.
Submitted(k, n) == IF Len(k.input) < InputCap
                   THEN [k EXCEPT !.input = Append(@, n)]
                   ELSE [k EXCEPT !.wake = TRUE]

\* The request that committed n reaches its notifier; requests overtake one
\* another.
SubmitHint(g, n) ==
    /\ n \in hints[g]
    /\ hints' = [hints EXCEPT ![g] = @ \ {n}]
    /\ coord' = [coord EXCEPT ![g] = Submitted(@, n)]
    /\ UNCHANGED <<journal, cursor, stream, conn, page, history, faults>>

\* Client.Consume connects; OnConnect asks for recovery.
StreamConnect(g) ==
    /\ g \in Streams
    /\ ~stream[g].up
    /\ stream' = [stream EXCEPT ![g] = [NoStream EXCEPT !.up = TRUE]]
    /\ coord' = [coord EXCEPT ![g].wake = TRUE]
    /\ UNCHANGED <<journal, hints, cursor, conn, page, history, faults>>

StreamRead(g) ==
    /\ stream[g].buf # <<>>
    /\ stream' = [stream EXCEPT ![g].buf = Tail(@)]
    /\ coord' = [coord EXCEPT ![g] = Submitted(@, Head(stream[g].buf))]
    /\ UNCHANGED <<journal, hints, cursor, conn, page, history, faults>>

\* The server closed a slow subscription, or the connection breaks.
StreamEnds(g) ==
    /\ stream[g].up
    /\ \/ stream[g].cut /\ stream[g].buf = <<>> /\ UNCHANGED faults
       \/ Fault
    /\ stream' = [stream EXCEPT ![g] = NoStream]
    /\ UNCHANGED <<journal, hints, cursor, coord, conn, page, history>>

\* Run reads where the journal ends before it looks at its channels.
InitCoordinator(g) ==
    /\ ~coord[g].ready
    /\ coord' = [coord EXCEPT ![g].ready = TRUE, ![g].last = MaxJournalSeq]
    /\ UNCHANGED <<journal, hints, cursor, stream, conn, page, history, faults>>

Selecting(g) == coord[g].ready /\ coord[g].pc = "select"

\* Hub.Publish on the gateway, to the SSE handlers that are subscribed.
Published(g, n) == [c \in Clients |-> IF conn[c].at = g THEN Pushed(conn[c], n)
                                      ELSE conn[c]]

\* handle: the next event is published at once, an old one is ignored and a
\* gap is recovered from the journal.
Handle(g) ==
    /\ Selecting(g)
    /\ coord[g].input # <<>>
    /\ LET n == Head(coord[g].input)
           k == [coord[g] EXCEPT !.input = Tail(@)]
       IN  \/ /\ n <= k.last
              /\ coord' = [coord EXCEPT ![g] = k]
              /\ UNCHANGED conn
           \/ /\ n = k.last + 1
              /\ coord' = [coord EXCEPT ![g] = [k EXCEPT !.last = n]]
              /\ conn' = Published(g, n)
           \/ /\ n > k.last + 1
              /\ coord' = [coord EXCEPT ![g] =
                             [k EXCEPT !.pc = "min", !.target = n]]
              /\ UNCHANGED conn
    /\ UNCHANGED <<journal, hints, cursor, stream, page, history, faults>>

\* reconcile, for RequestReconcile and for the ticker: up to the current end.
Reconcile(g) ==
    /\ Selecting(g)
    /\ coord' = [coord EXCEPT ![g] = [@ EXCEPT !.wake = FALSE, !.pc = "min",
                                               !.target = MaxJournalSeq]]
    /\ UNCHANGED <<journal, hints, cursor, stream, conn, page, history, faults>>

Ended(k) == [k EXCEPT !.pc = "select", !.target = 0, !.next = 1, !.end = 0,
                      !.full = FALSE]

Jumped(k) == IF MinJournalSeq > 0 /\ k.last < MinJournalSeq - 1
             THEN [k EXCEPT !.last = MinJournalSeq - 1] ELSE k

ReconcileMin(g) ==
    /\ coord[g].pc = "min"
    /\ LET k == Jumped(coord[g])
       IN  coord' = [coord EXCEPT ![g] = IF k.last < k.target
                                         THEN [k EXCEPT !.pc = "read"] ELSE Ended(k)]
    /\ UNCHANGED <<journal, hints, cursor, stream, conn, page, history, faults>>

ReconcileRead(g) ==
    /\ coord[g].pc = "read"
    /\ LET k == coord[g]
           first == FirstAfter(k.last)
           end   == EndAfter(k.last)
       IN  coord' = [coord EXCEPT ![g] =
                       IF first > end THEN [k EXCEPT !.pc = "gone"]
                       ELSE [k EXCEPT !.pc = "publish", !.next = first, !.end = end,
                                      !.full = end - first + 1 = Batch]]
    /\ UNCHANGED <<journal, hints, cursor, stream, conn, page, history, faults>>

\* Nothing left to read below the target: the rows are gone for good if the
\* journal has since gone past it.
PassedOverEnd(k) == [k EXCEPT !.last = MaxJournalSeq]   \* faulty variant

PassedOver(k) == IF MaxJournalSeq >= k.target THEN [k EXCEPT !.last = k.target]
                 ELSE k

ReconcileGone(g) ==
    /\ coord[g].pc = "gone"
    /\ coord' = [coord EXCEPT ![g] = Ended(PassedOver(@))]
    /\ UNCHANGED <<journal, hints, cursor, stream, conn, page, history, faults>>

\* One entry of the batch; the last one, or one beyond the target, ends it.
AfterEntry(k) ==
    IF k.next <= k.end THEN k
    ELSE IF k.full /\ k.last < k.target THEN [k EXCEPT !.pc = "read"]
    ELSE Ended(k)

ReconcilePublish(g) ==
    /\ coord[g].pc = "publish"
    /\ LET k == coord[g]
       IN  \/ /\ k.next > k.target
              /\ coord' = [coord EXCEPT ![g] = Ended(k)]
              /\ UNCHANGED conn
           \/ /\ k.next <= k.target
              /\ coord' = [coord EXCEPT ![g] =
                             AfterEntry([k EXCEPT !.last = k.next, !.next = @ + 1])]
              /\ conn' = Published(g, k.next)
    /\ UNCHANGED <<journal, hints, cursor, stream, page, history, faults>>

\* A read of the journal fails: reconcile gives up until it is called again.
ReconcileFails(g) ==
    /\ coord[g].pc \in {"min", "read", "gone"}
    /\ Fault
    /\ coord' = [coord EXCEPT ![g] = Ended(@)]
    /\ UNCHANGED <<journal, hints, cursor, stream, conn, page, history>>

\* A gateway dies with its coordinator, its streams and its handlers.
RestartGateway(g) ==
    /\ Fault
    /\ hints' = [hints EXCEPT ![g] = {}]
    /\ stream' = [stream EXCEPT ![g] = NoStream]
    /\ coord' = [coord EXCEPT ![g] = NewCoordinator]
    /\ conn' = [c \in Clients |-> IF conn[c].at = g THEN NoConn ELSE conn[c]]
    /\ raced' = [c \in Clients |-> IF conn[c].at = g THEN {} ELSE raced[c]]
    /\ lagged' = [c \in Clients |-> IF conn[c].at = g THEN {} ELSE lagged[c]]
    /\ UNCHANGED <<journal, cursor, page>>

-----------------------------------------------------------------------------
(* The SSE handler of a client.                                            *)

\* writeJournalEntry, as the page receives it.  Filtered events are not written.
Received(c, n) ==
    IF Visible(c, n)
    THEN [page[c] EXCEPT !.cursor = n, !.last = n, !.upto = IF n > @ THEN n ELSE @]
    ELSE page[c]

\* A step of the handler.  History begins anew with every connection.
Ahead(S, k, p) == IF k.pc = "off" THEN {} ELSE {m \in S : m > p.upto}

ServeWith(c, k, p, rows) ==
    /\ conn' = [conn EXCEPT ![c] = k]
    /\ page' = [page EXCEPT ![c] = p]
    /\ raced' = [raced EXCEPT ![c] = Ahead(@ \cup rows, k, p)]
    /\ lagged' = [lagged EXCEPT ![c] = Ahead(@, k, p)]
    /\ UNCHANGED <<journal, hints, cursor, stream, coord, faults>>

Serve(c, k, p) == ServeWith(c, k, p, {})

\* eventsStreamFiltered subscribes before it reads the journal.
Connect(c, g) ==
    /\ conn[c].pc = "off"
    /\ EarlyClients \/ coord[g].ready
    /\ Serve(c, [NoConn EXCEPT !.at = g, !.pc = "hello"], page[c])

\* Without a cursor the client is given the end of the journal and reloads
\* all that is committed (onInitialState); an empty journal gives no cursor.
InitialState(c) ==
    /\ conn[c].pc = "hello"
    /\ page[c].cursor = 0
    /\ Serve(c, [conn[c] EXCEPT !.pc = "read", !.wm = MaxJournalSeq],
             [cursor |-> MaxJournalSeq, upto |-> head, last |-> 0])

\* With a cursor it reads the bounds of the journal, one after the other ...
CheckMin(c) ==
    /\ conn[c].pc = "hello"
    /\ page[c].cursor > 0
    /\ Serve(c, [conn[c] EXCEPT !.pc = "max", !.low = MinJournalSeq], page[c])

\* The deleted rows that the lower bound did not speak of: those that retention
\* took after it was read, and all of them if the journal was empty then.
Unseen(c) == {m \in page[c].cursor + 1 .. tail : m >= conn[c].low}

\* ... and resets a client whose cursor lies outside them.
RetentionIgnored(c) == page[c].cursor > MaxJournalSeq   \* faulty variant

MustReset(c) == \/ page[c].cursor > MaxJournalSeq
                \/ conn[c].low > 0 /\ page[c].cursor < conn[c].low - 1

CheckMax(c) ==
    /\ conn[c].pc = "max"
    /\ \/ /\ MustReset(c)
          /\ Serve(c, NoConn, [page[c] EXCEPT !.cursor = 0])
       \/ /\ ~MustReset(c)
          /\ ServeWith(c, [conn[c] EXCEPT !.pc = "read", !.wm = page[c].cursor],
                       page[c], Unseen(c))

\* ReadJournalEvents in the replay loop and in drainJournal.
ReadJournal(c) ==
    /\ conn[c].pc = "read"
    /\ LET k == conn[c]
           first == FirstAfter(k.wm)
           end   == EndAfter(k.wm)
       IN  Serve(c, [k EXCEPT !.pc = "write", !.next = first, !.end = end,
                              !.full = end - first + 1 = Batch], page[c])

WriteEntry(c) ==
    /\ conn[c].pc = "write"
    /\ conn[c].next <= conn[c].end
    /\ Serve(c, [conn[c] EXCEPT !.wm = conn[c].next, !.next = @ + 1],
             Received(c, conn[c].next))

\* The end of a batch: another one, the live stream, or the event whose gap
\* was drained; the connection is given up if the gap is still there.
Live(k) == [k EXCEPT !.pc = "live", !.hint = 0, !.next = 1, !.end = 0, !.full = FALSE]

EndOfBatch(c) ==
    /\ conn[c].pc = "write"
    /\ conn[c].next > conn[c].end
    /\ LET k == conn[c]
       IN  \/ k.full /\ Serve(c, [k EXCEPT !.pc = "read"], page[c])
          \/ /\ ~k.full /\ k.hint <= k.wm
             /\ Serve(c, Live(k), page[c])
          \/ /\ ~k.full /\ k.hint = k.wm + 1
             /\ Serve(c, Live([k EXCEPT !.wm = k.hint]), Received(c, k.hint))
          \/ /\ ~k.full /\ k.hint > k.wm + 1
             /\ Serve(c, NoConn, page[c])

\* An event of the gateway hub.
TakeAny(k, n) == n > 0                     \* faulty variant: no comparison
TakeNew(k, n) == n > k.wm

LiveEvent(c) ==
    /\ conn[c].pc = "live"
    /\ conn[c].buf # <<>>
    /\ LET n == Head(conn[c].buf)
           k == [conn[c] EXCEPT !.buf = Tail(@)]
       IN  \/ ~TakeNew(k, n) /\ Serve(c, k, page[c])
          \/ /\ TakeNew(k, n) /\ n <= k.wm + 1
             /\ Serve(c, [k EXCEPT !.wm = n], Received(c, n))
          \/ /\ TakeNew(k, n) /\ n > k.wm + 1
             /\ Serve(c, [k EXCEPT !.pc = "read", !.hint = n], page[c])

\* The hub closed the handler's channel; or the connection breaks, or a read of
\* the journal fails, at any moment.  The page keeps its cursor.
Closed(c) == /\ conn[c].pc = "live" /\ conn[c].cut /\ conn[c].buf = <<>>
             /\ Serve(c, NoConn, page[c])
         
Disconnect(c) == /\ conn[c].pc # "off"
                 /\ Fault
                 /\ conn' = [conn EXCEPT ![c] = NoConn]
                 /\ raced' = [raced EXCEPT ![c] = {}]
                 /\ lagged' = [lagged EXCEPT ![c] = {}]
                 /\ UNCHANGED <<journal, hints, cursor, stream, coord, page>>

-----------------------------------------------------------------------------

Coordinate(g) == \/ InitCoordinator(g) \/ Handle(g) \/ ReconcileMin(g)
                 \/ ReconcileRead(g) \/ ReconcileGone(g) \/ ReconcilePublish(g)

Handler(c) == \/ InitialState(c) \/ CheckMin(c) \/ CheckMax(c) \/ ReadJournal(c)
              \/ WriteEntry(c) \/ EndOfBatch(c) \/ LiveEvent(c) \/ Closed(c)

Next ==
    \/ CommitAtWorker
    \/ \E n \in Seqs : DeleteJournalBefore(n)
    \/ Process
    \/ RestartWorker
    \/ \E g \in Gateways :
          \/ CommitAtGateway(g) \/ StreamConnect(g) \/ StreamRead(g)
          \/ StreamEnds(g) \/ Coordinate(g) \/ Reconcile(g) \/ ReconcileFails(g)
          \/ RestartGateway(g)
          \/ \E n \in Seqs : SubmitHint(g, n)
    \/ \E c \in Clients :
          \/ Handler(c) \/ Disconnect(c)
          \/ \E g \in Gateways : Connect(c, g)

Spec == Init /\ [][Next]_vars

-----------------------------------------------------------------------------
(* Properties.                                                             *)

\* The events a step lets a page pass over: it receives a later one.
Skipped(c) == IF page'[c].last = page[c].last THEN {}
              ELSE {m \in page[c].upto + 1 .. page'[c].last - 1 : Visible(c, m)}

\* A page never runs over an event it was not shown, whatever was dropped,
\* restarted, filtered or out of order on the way, unless retention deleted
\* the event during the connection (eventsStreamFiltered, reconcile).
NoSilentGap == [][\A c \in Clients : Skipped(c) \subseteq raced[c] \cup lagged[c]]_vars

\* Until a page is loaded anew no event is shown to it twice or out of order,
\* over all its connections to all gateways (hint.Seq <= watermark,
\* Last-Event-ID): a payment is announced once.
ShownOnce ==
    [][\A c \in Clients : page'[c].last \notin {page[c].last, 0} =>
                            page'[c].last > page[c].last]_vars

\* The coordinator's cursor moves over an event only by publishing it or
\* because retention has deleted it (reconcile).
NothingPassedOver ==
    [][\A g \in Gateways :
          coord[g].ready /\ coord'[g].ready =>
            \A m \in coord[g].last + 1 .. coord'[g].last :
                m <= tail \/ (m = coord'[g].last /\ coord[g].pc # "gone")]_vars

\* Handlers and coordinator are never blocked for good, the coordinator ticks
\* every second, and a page reconnects until it is connected.  Nothing is asked
\* of the worker's stream: the ticks are enough.
Fairness ==
    /\ \A g \in Gateways : WF_vars(Coordinate(g)) /\ SF_vars(Reconcile(g))
    /\ \A c \in Clients : WF_vars(Handler(c)) /\ WF_vars(\E g \in Gateways : Connect(c, g))

FairSpec == Spec /\ Fairness

\* Every committed event reaches every page, as an event or because the page
\* reloads, unless retention deletes it first (RealtimeCoordinator.Run).
EventsArrive ==
    \A c \in Clients : \A n \in Seqs :
        head >= n /\ Visible(c, n) ~> page[c].upto >= n \/ tail >= n
=============================================================================
