---------------------------- MODULE RealtimeProofs ----------------------------
(***************************************************************************)
(* What a page is shown and what a coordinator passes over, for any number *)
(* of gateways, clients and events, any capacities and any faults.         *)
(***************************************************************************)
EXTENDS RealtimeJournal, TLAPS

-----------------------------------------------------------------------------
(* The inductive invariant.  Its parts speak of a coordinator, a handler   *)
(* and a page as values, so that a step is a fact about values.            *)

UpTo(s, h) == s \in Seq(Nat) /\ \A i \in 1..Len(s) : s[i] <= h

CoordPCs == {"select", "min", "read", "gone", "publish"}
ConnPCs  == {"off", "hello", "max", "read", "write", "live"}
Running  == {"read", "write", "live"}

Streaming == [up : BOOLEAN, buf : Seq(Nat), cut : BOOLEAN]

Coordinators ==
    [ready : BOOLEAN, last : Nat, input : Seq(Nat), wake : BOOLEAN, pc : CoordPCs,
     target : Nat, next : Nat, end : Nat, full : BOOLEAN]

Connections ==
    [at : Gateways \cup {NoGateway}, pc : ConnPCs, buf : Seq(Nat), cut : BOOLEAN,
     low : Nat, wm : Nat, next : Nat, end : Nat, full : BOOLEAN, hint : Nat]

Pages == [cursor : Nat, upto : Nat, last : Nat]

\* Nothing is queued that is not committed, and what a coordinator is about to
\* pass over is no longer in the journal.
Coordinated(k, h, t) ==
    /\ k \in Coordinators
    /\ UpTo(k.input, h)
    /\ k.target <= h
    /\ k.pc # "select" => k.ready
    /\ k.pc = "gone" => \A m \in k.last + 1 .. k.target : m <= t
    /\ k.pc = "publish" => \A m \in k.last + 1 .. k.next - 1 : m <= t

\* A page's cursor is an event it has got to, in the order of its events.
Paged(p) == /\ p \in Pages
            /\ p.cursor <= p.upto
            /\ p.cursor > 0 => p.last <= p.cursor

\* What lies behind the watermark of a handler, or is deleted ahead of it, has
\* been shown to the page, is hidden from it, or is known to be lost.
Served(c, k, p, lost, t) ==
    /\ k \in Connections
    /\ k.pc = "max" => p.cursor > 0
    /\ k.pc \in Running =>
         /\ p.last <= k.wm
         /\ \A m \in (p.upto + 1 .. k.wm) \cup (p.upto + 1 .. t) :
               Visible(c, m) => m \in lost
    /\ k.pc = "write" => k.wm < k.next /\ \A m \in k.wm + 1 .. k.next - 1 : m <= t

Committed == /\ head \in Nat /\ tail \in Nat /\ tail <= head /\ cursor \in Nat
             /\ hints \in [Gateways -> SUBSET Nat]
             /\ \A g \in Gateways : \A n \in hints[g] : n <= head

Streamed == /\ stream \in [Gateways -> Streaming]
            /\ \A g \in Gateways : UpTo(stream[g].buf, head)

Coordinating == /\ coord \in [Gateways -> Coordinators]
                /\ \A g \in Gateways : Coordinated(coord[g], head, tail)

Serving == /\ conn \in [Clients -> Connections] /\ page \in [Clients -> Pages]
           /\ raced \in [Clients -> SUBSET Nat] /\ lagged \in [Clients -> SUBSET Nat]
           /\ \A c \in Clients :
                 /\ Paged(page[c])
                 /\ Served(c, conn[c], page[c], raced[c] \cup lagged[c], tail)

RInv == Committed /\ Streamed /\ Coordinating /\ Serving

-----------------------------------------------------------------------------
(* Queues and the journal's bounds.                                        *)

LEMMA EmptyUpTo == \A h : UpTo(<<>>, h)
  BY DEF UpTo

LEMMA AppendUpTo ==
  ASSUME NEW h \in Nat, NEW s, UpTo(s, h), NEW n \in Nat, n <= h
  PROVE  UpTo(Append(s, n), h)
  BY DEF UpTo

LEMMA TailUpTo ==
  ASSUME NEW h \in Nat, NEW s, UpTo(s, h), s # <<>>
  PROVE  UpTo(Tail(s), h) /\ Head(s) \in Nat /\ Head(s) <= h
  <1>1. Len(s) \in Nat \ {0} /\ Len(Tail(s)) = Len(s) - 1 /\ Tail(s) \in Seq(Nat)
    BY DEF UpTo
  <1>2. \A i \in 1..Len(Tail(s)) : Tail(s)[i] = s[i + 1]
    BY <1>1 DEF UpTo
  <1>3. Head(s) = s[1] /\ s[1] \in Nat
    BY <1>1 DEF UpTo
  <1> QED BY <1>1, <1>2, <1>3 DEF UpTo

LEMMA UpToGrows ==
  ASSUME NEW h \in Nat, NEW h2 \in Nat, h <= h2, NEW s, UpTo(s, h)
  PROVE  UpTo(s, h2)
  BY DEF UpTo

\* What the bounds and the first rows of the journal are.
LEMMA Bounds ==
  ASSUME Committed
  PROVE  /\ MaxJournalSeq \in Nat /\ MaxJournalSeq <= head
         /\ MinJournalSeq \in Nat
         /\ MinJournalSeq > 0 => MinJournalSeq = tail + 1
  BY DEF Committed, MaxJournalSeq, MinJournalSeq

LEMMA Rows ==
  ASSUME Committed, NEW after \in Nat
  PROVE  /\ FirstAfter(after) \in Nat /\ EndAfter(after) \in Nat
         /\ after < FirstAfter(after)
         /\ \A m \in after + 1 .. FirstAfter(after) - 1 : m <= tail
         /\ EndAfter(after) <= head
         /\ FirstAfter(after) > EndAfter(after) =>
              \A m \in after + 1 .. head : m <= tail
  BY JournalAssumption DEF Committed, FirstAfter, EndAfter

-----------------------------------------------------------------------------
(* The parts of the invariant as the journal grows and is cut.             *)

LEMMA CoordinatedLater ==
  ASSUME NEW h \in Nat, NEW t \in Nat, NEW h2 \in Nat, NEW t2 \in Nat, h <= h2, t <= t2,
         NEW k, Coordinated(k, h, t)
  PROVE  Coordinated(k, h2, t2)
  <1>1. k.last \in Int /\ k.target \in Int /\ k.next \in Int
    BY DEF Coordinated, Coordinators
  <1>2. UpTo(k.input, h2)
    BY UpToGrows DEF Coordinated
  <1> QED BY <1>1, <1>2 DEF Coordinated

\* Retention records what it deletes ahead of a running handler.
LEMMA ServedLater ==
  ASSUME NEW c, NEW k, NEW p, NEW lost, NEW lost2, NEW t \in Nat, NEW t2 \in Nat, t <= t2,
         Paged(p), Served(c, k, p, lost, t), lost \subseteq lost2,
         k.pc \in Running => \A m \in t + 1 .. t2 : m > k.wm => m \in lost2
  PROVE  Served(c, k, p, lost2, t2)
  <1>1. k.wm \in Nat /\ k.next \in Nat /\ p.upto \in Nat
    BY DEF Served, Connections, Paged, Pages
  <1>2. ASSUME k.pc \in Running,
               NEW m \in (p.upto + 1 .. k.wm) \cup (p.upto + 1 .. t2), Visible(c, m)
        PROVE  m \in lost2
    <2>1. CASE m \in (p.upto + 1 .. k.wm) \cup (p.upto + 1 .. t)
      BY <1>2, <2>1 DEF Served
    <2>2. CASE m \notin (p.upto + 1 .. k.wm) \cup (p.upto + 1 .. t)
      <3>1. m \in t + 1 .. t2 /\ m > k.wm
        BY <1>1, <2>2
      <3> QED BY <1>2, <3>1
    <2> QED BY <2>1, <2>2
  <1>3. k.pc = "write" => \A m \in k.wm + 1 .. k.next - 1 : m <= t2
    BY <1>1 DEF Served
  <1> QED BY <1>2, <1>3 DEF Served

-----------------------------------------------------------------------------
(* Steps that change one coordinator, or the channels of the handlers.     *)

\* An event in a handler's channel is not yet part of what it has done.
LEMMA PushedServed ==
  ASSUME NEW c, NEW k, NEW p, NEW lost, NEW t, Served(c, k, p, lost, t), NEW n \in Nat
  PROVE  Served(c, Pushed(k, n), p, lost, t)
  <1> DEFINE b == Append(k.buf, n)
             k1 == [k EXCEPT !.buf = b]
             k2 == [k EXCEPT !.cut = TRUE]
  <1>1. k \in Connections /\ b \in Seq(Nat)
    BY DEF Served, Connections
  <1> HIDE DEF b
  <1>2. /\ k1 \in Connections /\ k1.pc = k.pc /\ k1.wm = k.wm /\ k1.next = k.next
    BY <1>1 DEF Connections
  <1>3. /\ k2 \in Connections /\ k2.pc = k.pc /\ k2.wm = k.wm /\ k2.next = k.next
    BY <1>1 DEF Connections
  <1>4. Pushed(k, n) \in {k, k1, k2}
    BY DEF Pushed, b
  <1> HIDE DEF k1, k2
  <1> QED BY <1>2, <1>3, <1>4 DEF Served

LEMMA PublishedServing ==
  ASSUME Serving, NEW g \in Gateways, NEW n \in Nat, UNCHANGED <<tail, page, raced, lagged>>,
         conn' = conn \/ conn' = Published(g, n)
  PROVE  Serving'
  <1>1. CASE conn' = conn
    BY <1>1 DEF Serving
  <1>2. CASE conn' = Published(g, n)
    <2>1. conn' = [c \in Clients |-> IF conn[c].at = g THEN Pushed(conn[c], n) ELSE conn[c]]
      BY <1>2 DEF Published
    <2>2. \A c \in Clients : conn'[c] \in {conn[c], Pushed(conn[c], n)}
      BY <2>1
    <2>3. \A c \in Clients : Served(c, conn'[c], page[c], raced[c] \cup lagged[c], tail)
      BY <2>2, PushedServed DEF Serving
    <2>4. conn' \in [Clients -> Connections]
      BY <2>1, <2>3 DEF Served
    <2> QED BY <2>3, <2>4 DEF Serving
  <1> QED BY <1>1, <1>2

LEMMA CoordinatorMoves ==
  ASSUME Coordinating, Committed, UNCHANGED <<head, tail>>, NEW g \in Gateways, NEW k,
         Coordinated(k, head, tail), coord' = [coord EXCEPT ![g] = k]
  PROVE  Coordinating'
  <1>1. k \in Coordinators
    BY DEF Coordinated
  <1>2. coord' \in [Gateways -> Coordinators]
    BY <1>1 DEF Coordinating
  <1>3. \A y \in Gateways : coord'[y] = IF y = g THEN k ELSE coord[y]
    BY DEF Coordinating
  <1> QED BY <1>2, <1>3 DEF Coordinating

-----------------------------------------------------------------------------
(* What a step may do to a coordinator and to a page.                      *)

\* A coordinator at k comes to be at k2.
Passing(k, k2, t) ==
    k.ready /\ k2.ready =>
      \A m \in k.last + 1 .. k2.last : m <= t \/ (m = k2.last /\ k.pc # "gone")

\* A page p comes to be q.
Showing(c, p, q, lost) ==
    q.last # p.last =>
      \/ q.last = 0
      \/ /\ q.last > p.last
         /\ \A m \in p.upto + 1 .. q.last - 1 : Visible(c, m) => m \in lost

StepRight ==
    /\ \A g \in Gateways : Passing(coord[g], coord'[g], tail)
    /\ \A c \in Clients : Showing(c, page[c], page'[c], raced[c] \cup lagged[c])

LEMMA NothingPassed ==
  ASSUME NEW k \in Coordinators, NEW k2, k2.last = k.last, NEW t
  PROVE  Passing(k, k2, t)
  BY DEF Coordinators, Passing

LEMMA CoordinatorStep ==
  ASSUME RInv, NEW g \in Gateways, NEW k, Coordinated(k, head, tail),
         Passing(coord[g], k, tail), coord' = [coord EXCEPT ![g] = k],
         NEW n \in Nat, conn' = conn \/ conn' = Published(g, n),
         UNCHANGED <<head, tail, page, raced, lagged>>, Committed', Streamed'
  PROVE  RInv' /\ StepRight
  <1>1. Coordinating' /\ Serving'
    BY CoordinatorMoves, PublishedServing DEF RInv
  <1>2. \A y \in Gateways : coord'[y] = IF y = g THEN k ELSE coord[y]
    BY DEF RInv, Coordinating
  <1>3. \A y \in Gateways : Passing(coord[y], coord'[y], tail)
    BY <1>2, NothingPassed DEF RInv, Coordinating
  <1>4. \A c \in Clients : Showing(c, page[c], page'[c], raced[c] \cup lagged[c])
    BY DEF Showing
  <1> QED BY <1>1, <1>3, <1>4 DEF RInv, StepRight

-----------------------------------------------------------------------------
(* A coordinator as a value.                                               *)

LEMMA SubmittedRight ==
  ASSUME NEW h \in Nat, NEW t \in Nat, NEW k, Coordinated(k, h, t), NEW n \in Nat, n <= h
  PROVE  Coordinated(Submitted(k, n), h, t) /\ Submitted(k, n).last = k.last
  <1> DEFINE q == Append(k.input, n)
             k1 == [k EXCEPT !.input = q]
             k2 == [k EXCEPT !.wake = TRUE]
  <1>1. k \in Coordinators /\ UpTo(q, h) /\ q \in Seq(Nat)
    BY AppendUpTo DEF Coordinated, UpTo
  <1> HIDE DEF q
  <1>2. /\ k1 \in Coordinators /\ k1.pc = k.pc /\ k1.last = k.last /\ k1.target = k.target
        /\ k1.next = k.next /\ k1.ready = k.ready /\ k1.input = q
    BY <1>1 DEF Coordinators
  <1>3. /\ k2 \in Coordinators /\ k2.pc = k.pc /\ k2.last = k.last /\ k2.target = k.target
        /\ k2.next = k.next /\ k2.ready = k.ready /\ k2.input = k.input
    BY <1>1 DEF Coordinators
  <1>4. Submitted(k, n) \in {k1, k2}
    BY DEF Submitted, q
  <1> HIDE DEF k1, k2
  <1> QED BY <1>1, <1>2, <1>3, <1>4 DEF Coordinated

LEMMA WokenRight ==
  ASSUME NEW h, NEW t, NEW k, Coordinated(k, h, t)
  PROVE  LET k2 == [k EXCEPT !.wake = TRUE]
         IN  Coordinated(k2, h, t) /\ k2.last = k.last
  <1> DEFINE k2 == [k EXCEPT !.wake = TRUE]
  <1>1. /\ k2 \in Coordinators /\ k2.pc = k.pc /\ k2.last = k.last /\ k2.target = k.target
        /\ k2.next = k.next /\ k2.ready = k.ready /\ k2.input = k.input
    BY DEF Coordinated, Coordinators
  <1> HIDE DEF k2
  <1>2. Coordinated(k2, h, t)
    BY <1>1 DEF Coordinated
  <1> QED BY <1>1, <1>2 DEF k2

LEMMA EndedRight ==
  ASSUME NEW h \in Nat, NEW t, NEW k \in Coordinators, UpTo(k.input, h)
  PROVE  Coordinated(Ended(k), h, t) /\ Ended(k).last = k.last /\ Ended(k).ready = k.ready
  <1>1. /\ Ended(k) \in Coordinators /\ Ended(k).pc = "select" /\ Ended(k).target = 0
        /\ Ended(k).input = k.input /\ Ended(k).last = k.last /\ Ended(k).ready = k.ready
    BY DEF Ended, Coordinators, CoordPCs
  <1> QED BY <1>1 DEF Coordinated

LEMMA NewCoordinatorRight ==
  ASSUME NEW h \in Nat, NEW t
  PROVE  Coordinated(NewCoordinator, h, t)
  <1>1. NewCoordinator \in Coordinators
    BY DEF NewCoordinator, Coordinators, CoordPCs
  <1>2. /\ NewCoordinator.input = <<>> /\ NewCoordinator.pc = "select"
        /\ NewCoordinator.target = 0
    BY DEF NewCoordinator
  <1> QED BY <1>1, <1>2, EmptyUpTo DEF Coordinated

-----------------------------------------------------------------------------
(* The steps of a coordinator.                                             *)

\* The journal's end is read before the channels are looked at.
LEMMA InitStep ==
  ASSUME RInv, NEW g \in Gateways, InitCoordinator(g)
  PROVE  RInv' /\ StepRight
  <1> SUFFICES ASSUME NEW k, k = coord[g], NEW e, e = MaxJournalSeq
               PROVE  RInv' /\ StepRight
    OBVIOUS
  <1> DEFINE k2 == [k EXCEPT !.ready = TRUE, !.last = e]
  <1>1. Coordinated(k, head, tail) /\ k \in Coordinators /\ e \in Nat /\ ~k.ready
    BY Bounds DEF RInv, Coordinating, InitCoordinator
  <1>2. /\ k2 \in Coordinators /\ k2.pc = k.pc /\ k2.target = k.target
        /\ k2.input = k.input /\ k2.ready = TRUE
    BY <1>1 DEF Coordinators
  <1>3. coord' = [coord EXCEPT ![g] = k2] /\ conn' = conn
        /\ UNCHANGED <<head, tail, cursor, hints, stream, page, raced, lagged>>
    BY DEF InitCoordinator, journal, history
  <1> HIDE DEF k2
  <1>4. Coordinated(k2, head, tail)
    BY <1>1, <1>2 DEF Coordinated
  <1>5. Passing(k, k2, tail)
    BY <1>1 DEF Passing
  <1>6. Committed' /\ Streamed'
    BY <1>3 DEF RInv, Committed, Streamed
  <1> QED BY <1>3, <1>4, <1>5, <1>6, CoordinatorStep

LEMMA StreamMoves ==
  ASSUME Streamed, NEW g \in Gateways, NEW s \in Streaming, UpTo(s.buf, head),
         stream' = [stream EXCEPT ![g] = s], head' = head
  PROVE  Streamed'
  <1>1. stream' \in [Gateways -> Streaming]
    BY DEF Streamed
  <1>2. \A y \in Gateways : stream'[y] = IF y = g THEN s ELSE stream[y]
    BY DEF Streamed
  <1> QED BY <1>1, <1>2 DEF Streamed

LEMMA NoStreamRight == NoStream \in Streaming /\ UpTo(NoStream.buf, head)
  <1>1. NoStream \in Streaming /\ NoStream.buf = <<>>
    BY DEF NoStream, Streaming
  <1> QED BY <1>1, EmptyUpTo

LEMMA SubmitHintStep ==
  ASSUME RInv, NEW g \in Gateways, NEW n, SubmitHint(g, n)
  PROVE  RInv' /\ StepRight
  <1> SUFFICES ASSUME NEW k, k = coord[g], NEW left, left = hints[g] \ {n}
               PROVE  RInv' /\ StepRight
    OBVIOUS
  <1> DEFINE k2 == Submitted(k, n)
  <1>0. RInv /\ head \in Nat /\ tail \in Nat /\ Coordinated(k, head, tail) /\ k \in Coordinators
    BY DEF RInv, Coordinating, Committed
  <1>1. n \in Nat /\ n <= head
    BY DEF RInv, Committed, SubmitHint
  <1>2. Coordinated(k2, head, tail) /\ k2.last = k.last
    BY <1>0, <1>1, SubmittedRight
  <1>3. /\ coord' = [coord EXCEPT ![g] = k2] /\ hints' = [hints EXCEPT ![g] = left]
        /\ conn' = conn
        /\ UNCHANGED <<head, tail, cursor, stream, page, raced, lagged>>
    BY DEF SubmitHint, journal, history
  <1> HIDE DEF k2
  <1>4. Passing(k, k2, tail)
    BY <1>0, <1>2, NothingPassed
  <1>5. Committed' /\ Streamed'
    BY <1>3 DEF RInv, Committed, Streamed
  <1> QED BY <1>1, <1>2, <1>3, <1>4, <1>5, CoordinatorStep

LEMMA StreamConnectStep ==
  ASSUME RInv, NEW g \in Gateways, StreamConnect(g)
  PROVE  RInv' /\ StepRight
  <1> SUFFICES ASSUME NEW k, k = coord[g]
               PROVE  RInv' /\ StepRight
    OBVIOUS
  <1> DEFINE k2 == [k EXCEPT !.wake = TRUE]
             s == [NoStream EXCEPT !.up = TRUE]
  <1>0. RInv /\ Coordinated(k, head, tail) /\ k \in Coordinators
    BY DEF RInv, Coordinating
  <1>1. Coordinated(k2, head, tail) /\ k2.last = k.last
    BY <1>0, WokenRight
  <1>2. s \in Streaming /\ s.buf = <<>>
    <2>1. ASSUME NEW r \in Streaming
          PROVE  [r EXCEPT !.up = TRUE] \in Streaming /\ [r EXCEPT !.up = TRUE].buf = r.buf
      BY DEF Streaming
    <2>2. NoStream \in Streaming /\ NoStream.buf = <<>>
      BY NoStreamRight DEF NoStream
    <2> QED BY <2>1, <2>2
  <1>3. /\ coord' = [coord EXCEPT ![g] = k2] /\ stream' = [stream EXCEPT ![g] = s]
        /\ conn' = conn
        /\ UNCHANGED <<head, tail, cursor, hints, page, raced, lagged>>
    BY DEF StreamConnect, journal, history
  <1> HIDE DEF k2, s
  <1>4. Passing(k, k2, tail)
    BY <1>0, <1>1, NothingPassed
  <1>5. Committed'
    BY <1>3 DEF RInv, Committed
  <1>6. Streamed'
    BY <1>2, <1>3, StreamMoves, EmptyUpTo DEF RInv
  <1> QED BY <1>1, <1>3, <1>4, <1>5, <1>6, CoordinatorStep

LEMMA StreamReadStep ==
  ASSUME RInv, NEW g \in Gateways, StreamRead(g)
  PROVE  RInv' /\ StepRight
  <1> SUFFICES ASSUME NEW k, k = coord[g], NEW r, r = stream[g], NEW n, n = Head(r.buf)
               PROVE  RInv' /\ StepRight
    OBVIOUS
  <1> DEFINE k2 == Submitted(k, n)
             s == [r EXCEPT !.buf = Tail(@)]
  <1>0. /\ RInv /\ head \in Nat /\ tail \in Nat /\ Coordinated(k, head, tail)
        /\ k \in Coordinators
    BY DEF RInv, Coordinating, Committed
  <1>1. r \in Streaming /\ UpTo(r.buf, head) /\ r.buf # <<>>
    BY DEF RInv, Streamed, StreamRead
  <1>2. UpTo(Tail(r.buf), head) /\ n \in Nat /\ n <= head
    BY <1>0, <1>1, TailUpTo
  <1>3. s \in Streaming /\ s.buf = Tail(r.buf)
    BY <1>1, <1>2 DEF Streaming, UpTo
  <1>4. Coordinated(k2, head, tail) /\ k2.last = k.last
    BY <1>0, <1>2, SubmittedRight
  <1>5. /\ coord' = [coord EXCEPT ![g] = k2] /\ stream' = [stream EXCEPT ![g] = s]
        /\ conn' = conn
        /\ UNCHANGED <<head, tail, cursor, hints, page, raced, lagged>>
    BY DEF StreamRead, journal, history
  <1> HIDE DEF k2, s
  <1>6. Passing(k, k2, tail)
    BY <1>0, <1>4, NothingPassed
  <1>7. Committed'
    BY <1>5 DEF RInv, Committed
  <1>8. Streamed'
    BY <1>2, <1>3, <1>5, StreamMoves DEF RInv
  <1> QED BY <1>2, <1>4, <1>5, <1>6, <1>7, <1>8, CoordinatorStep

Targeted(k, n) == [k EXCEPT !.pc = "min", !.target = n]

LEMMA TargetedRight ==
  ASSUME NEW k \in Coordinators, NEW n \in Nat
  PROVE  LET k2 == Targeted(k, n)
         IN  /\ k2 \in Coordinators /\ k2.pc = "min" /\ k2.input = k.input
             /\ k2.last = k.last /\ k2.target = n /\ k2.ready = k.ready
  BY DEF Targeted, Coordinators, CoordPCs

\* The next event is published at once; of a gap only the target is kept.
LEMMA HandleStep ==
  ASSUME RInv, NEW g \in Gateways, Handle(g)
  PROVE  RInv' /\ StepRight
  <1> SUFFICES ASSUME NEW k0, k0 = coord[g], NEW n, n = Head(k0.input),
                      NEW q, q = Tail(k0.input)
               PROVE  RInv' /\ StepRight
    OBVIOUS
  <1> DEFINE k == [k0 EXCEPT !.input = Tail(@)]
             k1 == [k EXCEPT !.last = n]
             k2 == Targeted(k, n)
  <1>0. /\ RInv /\ head \in Nat /\ Coordinated(k0, head, tail) /\ k0 \in Coordinators
        /\ UpTo(k0.input, head) /\ k0.pc = "select" /\ k0.ready /\ k0.input # <<>>
    BY DEF RInv, Coordinating, Committed, Coordinated, Handle, Selecting
  <1>1. UpTo(q, head) /\ n \in Nat /\ n <= head /\ q \in Seq(Nat)
    BY <1>0, TailUpTo DEF UpTo
  <1>2. k \in Coordinators
    BY <1>0, <1>1 DEF Coordinators
  <1>3. /\ k.pc = "select" /\ k.input = q /\ k.last = k0.last /\ k.target = k0.target
        /\ k.ready = k0.ready
    BY <1>0 DEF Coordinators
  <1>4. \/ coord' = [coord EXCEPT ![g] = k] /\ conn' = conn
        \/ n = k.last + 1 /\ coord' = [coord EXCEPT ![g] = k1] /\ conn' = Published(g, n)
        \/ coord' = [coord EXCEPT ![g] = k2] /\ conn' = conn
    BY DEF Handle, Targeted
  <1>5. UNCHANGED <<head, tail, cursor, hints, stream, page, raced, lagged>>
    BY DEF Handle, journal, history
  <1>6. Committed' /\ Streamed'
    BY <1>5 DEF RInv, Committed, Streamed
  <1> HIDE DEF k
  <1>7. /\ k1 \in Coordinators /\ k1.pc = "select" /\ k1.input = q /\ k1.last = n
        /\ k1.target = k.target
    BY <1>1, <1>2, <1>3 DEF Coordinators
  <1>8. /\ k2 \in Coordinators /\ k2.pc = "min" /\ k2.input = q /\ k2.last = k.last
        /\ k2.target = n /\ k2.ready = k.ready
    BY <1>1, <1>2, <1>3, TargetedRight
  <1> HIDE DEF k1, k2
  <1>9. /\ Coordinated(k, head, tail) /\ Coordinated(k1, head, tail)
        /\ Coordinated(k2, head, tail)
    BY <1>0, <1>1, <1>2, <1>3, <1>7, <1>8 DEF Coordinated
  <1>10. Passing(k0, k, tail) /\ Passing(k0, k2, tail)
    BY <1>0, <1>3, <1>8, NothingPassed
  <1>11. n = k.last + 1 => Passing(k0, k1, tail)
    <2>1. k0.last \in Nat /\ k0.pc # "gone" /\ k0.last = k.last /\ k1.last = n
      BY <1>0, <1>3, <1>7 DEF Coordinators
    <2> QED BY <1>1, <2>1 DEF Passing
  <1> QED BY <1>1, <1>4, <1>5, <1>6, <1>9, <1>10, <1>11, CoordinatorStep

LEMMA ReconcileStep ==
  ASSUME RInv, NEW g \in Gateways, Reconcile(g)
  PROVE  RInv' /\ StepRight
  <1> SUFFICES ASSUME NEW k, k = coord[g], NEW e, e = MaxJournalSeq
               PROVE  RInv' /\ StepRight
    OBVIOUS
  <1> DEFINE k2 == [k EXCEPT !.wake = FALSE, !.pc = "min", !.target = e]
  <1>1. /\ RInv /\ Coordinated(k, head, tail) /\ k \in Coordinators /\ e \in Nat /\ e <= head
        /\ k.ready
    BY Bounds DEF RInv, Coordinating, Reconcile, Selecting
  <1>2. /\ k2 \in Coordinators /\ k2.pc = "min" /\ k2.target = e /\ k2.last = k.last
        /\ k2.input = k.input /\ k2.ready = k.ready
    BY <1>1 DEF Coordinators, CoordPCs
  <1>3. coord' = [coord EXCEPT ![g] = k2] /\ conn' = conn
        /\ UNCHANGED <<head, tail, cursor, hints, stream, page, raced, lagged>>
    BY DEF Reconcile, journal, history
  <1> HIDE DEF k2
  <1>4. Coordinated(k2, head, tail)
    BY <1>1, <1>2 DEF Coordinated
  <1>5. Passing(k, k2, tail)
    BY <1>1, <1>2, NothingPassed
  <1>6. Committed' /\ Streamed'
    BY <1>3 DEF RInv, Committed, Streamed
  <1> QED BY <1>1, <1>3, <1>4, <1>5, <1>6, CoordinatorStep

\* The jump over the rows that retention deleted.
LEMMA JumpedRight ==
  ASSUME Committed, NEW k \in Coordinators
  PROVE  /\ Jumped(k) \in Coordinators /\ Jumped(k).pc = k.pc
         /\ Jumped(k).input = k.input /\ Jumped(k).target = k.target
         /\ Jumped(k).ready = k.ready
         /\ \A m \in k.last + 1 .. Jumped(k).last : m <= tail
  <1> SUFFICES ASSUME NEW b, b = MinJournalSeq
               PROVE  /\ Jumped(k) \in Coordinators /\ Jumped(k).pc = k.pc
                      /\ Jumped(k).input = k.input /\ Jumped(k).target = k.target
                      /\ Jumped(k).ready = k.ready
                      /\ \A m \in k.last + 1 .. Jumped(k).last : m <= tail
    OBVIOUS
  <1>1. b \in Nat /\ tail \in Nat /\ k.last \in Nat /\ (b > 0 => b = tail + 1)
    BY Bounds DEF Committed, Coordinators
  <1>2. Jumped(k) = IF b > 0 /\ k.last < b - 1 THEN [k EXCEPT !.last = b - 1] ELSE k
    BY DEF Jumped
  <1>3. ASSUME NEW l \in Nat
        PROVE  LET j == [k EXCEPT !.last = l]
               IN  /\ j \in Coordinators /\ j.pc = k.pc /\ j.input = k.input
                   /\ j.target = k.target /\ j.ready = k.ready /\ j.last = l
    BY DEF Coordinators
  <1>4. CASE b > 0 /\ k.last < b - 1
    BY <1>1, <1>2, <1>3, <1>4
  <1>5. CASE ~(b > 0 /\ k.last < b - 1)
    BY <1>1, <1>2, <1>5
  <1> QED BY <1>4, <1>5

At(k, pc) == [k EXCEPT !.pc = pc]

LEMMA AtRight ==
  ASSUME NEW k \in Coordinators, NEW pc \in CoordPCs
  PROVE  LET k2 == At(k, pc)
         IN  /\ k2 \in Coordinators /\ k2.pc = pc /\ k2.input = k.input /\ k2.last = k.last
             /\ k2.target = k.target /\ k2.next = k.next /\ k2.ready = k.ready
  BY DEF At, Coordinators

LEMMA ReconcileMinStep ==
  ASSUME RInv, NEW g \in Gateways, ReconcileMin(g)
  PROVE  RInv' /\ StepRight
  <1> SUFFICES ASSUME NEW k, k = coord[g], NEW j, j = Jumped(k)
               PROVE  RInv' /\ StepRight
    OBVIOUS
  <1> DEFINE k2 == IF j.last < j.target THEN At(j, "read") ELSE Ended(j)
  <1>0. /\ RInv /\ head \in Nat /\ Coordinated(k, head, tail) /\ k \in Coordinators
        /\ k.pc = "min" /\ UpTo(k.input, head) /\ k.ready /\ k.target <= head
    BY DEF RInv, Coordinating, Committed, Coordinated, ReconcileMin
  <1>1. /\ j \in Coordinators /\ j.input = k.input /\ j.target = k.target /\ j.ready
        /\ \A m \in k.last + 1 .. j.last : m <= tail
    BY <1>0, JumpedRight DEF RInv
  <1>2. coord' = [coord EXCEPT ![g] = k2] /\ conn' = conn
        /\ UNCHANGED <<head, tail, cursor, hints, stream, page, raced, lagged>>
    BY DEF ReconcileMin, At, journal, history
  <1>3. Coordinated(Ended(j), head, tail) /\ Ended(j).last = j.last
    BY <1>0, <1>1, EndedRight
  <1>4. Coordinated(At(j, "read"), head, tail) /\ At(j, "read").last = j.last
    BY <1>0, <1>1, AtRight DEF Coordinated, CoordPCs
  <1>5. Coordinated(k2, head, tail) /\ k2.last = j.last
    BY <1>3, <1>4
  <1> HIDE DEF k2
  <1>6. Passing(k, k2, tail)
    BY <1>1, <1>5 DEF Passing
  <1>7. Committed' /\ Streamed'
    BY <1>2 DEF RInv, Committed, Streamed
  <1> QED BY <1>0, <1>2, <1>5, <1>6, <1>7, CoordinatorStep

Reading(k, first, end) ==
    [k EXCEPT !.pc = "publish", !.next = first, !.end = end,
              !.full = end - first + 1 = Batch]

LEMMA ReadingRight ==
  ASSUME NEW k, NEW first, NEW end, k \in Coordinators, first \in Nat, end \in Nat
  PROVE  LET k2 == Reading(k, first, end)
         IN  /\ k2 \in Coordinators /\ k2.pc = "publish" /\ k2.input = k.input
             /\ k2.last = k.last /\ k2.target = k.target /\ k2.next = first
             /\ k2.ready = k.ready
  BY DEF Reading, Coordinators, CoordPCs

\* A target below the end of the journal is gone when nothing is read up to it.
LEMMA ReconcileReadStep ==
  ASSUME RInv, NEW g \in Gateways, ReconcileRead(g)
  PROVE  RInv' /\ StepRight
  <1> SUFFICES ASSUME NEW k, k = coord[g], NEW first, first = FirstAfter(k.last),
                      NEW end, end = EndAfter(k.last)
               PROVE  RInv' /\ StepRight
    OBVIOUS
  <1> DEFINE k2 == IF first > end THEN At(k, "gone") ELSE Reading(k, first, end)
  <1>0. /\ RInv /\ head \in Nat /\ Coordinated(k, head, tail) /\ k \in Coordinators
        /\ UpTo(k.input, head) /\ k.ready /\ k.target <= head /\ k.last \in Nat
        /\ k.target \in Nat
    BY DEF RInv, Coordinating, Committed, Coordinated, Coordinators, ReconcileRead
  <1>1. /\ first \in Nat /\ end \in Nat
        /\ \A m \in k.last + 1 .. first - 1 : m <= tail
        /\ first > end => \A m \in k.last + 1 .. head : m <= tail
    BY <1>0, Rows DEF RInv
  <1>2. coord' = [coord EXCEPT ![g] = k2] /\ conn' = conn
        /\ UNCHANGED <<head, tail, cursor, hints, stream, page, raced, lagged>>
    BY DEF ReconcileRead, At, Reading, journal, history
  <1>3. first > end => Coordinated(At(k, "gone"), head, tail)
    <2>1. /\ At(k, "gone") \in Coordinators /\ At(k, "gone").pc = "gone"
          /\ At(k, "gone").input = k.input /\ At(k, "gone").last = k.last
          /\ At(k, "gone").target = k.target /\ At(k, "gone").ready
      BY <1>0, AtRight DEF CoordPCs
    <2> QED BY <1>0, <1>1, <2>1 DEF Coordinated
  <1>4. Coordinated(Reading(k, first, end), head, tail)
    <2>1. LET r == Reading(k, first, end)
          IN  /\ r \in Coordinators /\ r.pc = "publish" /\ r.input = k.input
              /\ r.last = k.last /\ r.target = k.target /\ r.next = first /\ r.ready
      BY <1>0, <1>1, ReadingRight
    <2> QED BY <1>0, <1>1, <2>1 DEF Coordinated
  <1>5. At(k, "gone").last = k.last /\ Reading(k, first, end).last = k.last
    <2>1. At(k, "gone").last = k.last
      BY <1>0, AtRight DEF CoordPCs
    <2>2. Reading(k, first, end).last = k.last
      BY <1>0, <1>1, ReadingRight
    <2> QED BY <2>1, <2>2
  <1>6. Coordinated(k2, head, tail) /\ k2.last = k.last
    BY <1>3, <1>4, <1>5
  <1> HIDE DEF k2
  <1>7. Passing(k, k2, tail)
    BY <1>0, <1>6, NothingPassed
  <1>8. Committed' /\ Streamed'
    BY <1>2 DEF RInv, Committed, Streamed
  <1> QED BY <1>0, <1>2, <1>6, <1>7, <1>8, CoordinatorStep

LEMMA ReconcileGoneStep ==
  ASSUME RInv, NEW g \in Gateways, ReconcileGone(g)
  PROVE  RInv' /\ StepRight
  <1> SUFFICES ASSUME NEW k, k = coord[g], NEW j, j = PassedOver(k)
               PROVE  RInv' /\ StepRight
    OBVIOUS
  <1> DEFINE k2 == Ended(j)
  <1>0. /\ RInv /\ head \in Nat /\ Coordinated(k, head, tail) /\ k \in Coordinators
        /\ UpTo(k.input, head) /\ k.target \in Nat /\ k.last \in Nat
        /\ \A m \in k.last + 1 .. k.target : m <= tail
    BY DEF RInv, Coordinating, Committed, Coordinated, Coordinators, ReconcileGone
  <1>1. ASSUME NEW l \in Nat
        PROVE  LET r == [k EXCEPT !.last = l]
               IN  r \in Coordinators /\ r.input = k.input /\ r.last = l
    BY <1>0 DEF Coordinators
  <1>2. j = [k EXCEPT !.last = k.target] \/ j = k
    BY DEF PassedOver
  <1>3. j \in Coordinators /\ j.input = k.input /\ j.last \in {k.target, k.last}
    BY <1>0, <1>1, <1>2
  <1>4. Coordinated(k2, head, tail) /\ k2.last = j.last
    BY <1>0, <1>3, EndedRight
  <1>5. coord' = [coord EXCEPT ![g] = k2] /\ conn' = conn
        /\ UNCHANGED <<head, tail, cursor, hints, stream, page, raced, lagged>>
    BY DEF ReconcileGone, journal, history
  <1> HIDE DEF k2
  <1>6. Passing(k, k2, tail)
    BY <1>0, <1>3, <1>4 DEF Passing
  <1>7. Committed' /\ Streamed'
    BY <1>5 DEF RInv, Committed, Streamed
  <1> QED BY <1>0, <1>4, <1>5, <1>6, <1>7, CoordinatorStep

Moved(k, last, next) == [k EXCEPT !.last = last, !.next = next]

LEMMA MovedRight ==
  ASSUME NEW k, NEW last, NEW next, k \in Coordinators, last \in Nat, next \in Nat
  PROVE  LET e == Moved(k, last, next)
         IN  /\ e \in Coordinators /\ e.pc = k.pc /\ e.input = k.input /\ e.last = last
             /\ e.next = next /\ e.target = k.target /\ e.ready = k.ready
  BY DEF Moved, Coordinators

LEMMA ReconcilePublishStep ==
  ASSUME RInv, NEW g \in Gateways, ReconcilePublish(g)
  PROVE  RInv' /\ StepRight
  <1> SUFFICES ASSUME NEW k, k = coord[g], NEW e, e = Moved(k, k.next, k.next + 1)
               PROVE  RInv' /\ StepRight
    OBVIOUS
  <1>0. /\ RInv /\ head \in Nat /\ Coordinated(k, head, tail) /\ k \in Coordinators
        /\ UpTo(k.input, head) /\ k.next \in Nat /\ k.last \in Nat /\ k.pc = "publish"
        /\ k.ready /\ k.target <= head
        /\ \A m \in k.last + 1 .. k.next - 1 : m <= tail
    BY DEF RInv, Coordinating, Committed, Coordinated, Coordinators, ReconcilePublish
  <1>1. /\ e \in Coordinators /\ e.pc = "publish" /\ e.input = k.input /\ e.last = k.next
        /\ e.next = k.next + 1 /\ e.target = k.target /\ e.ready
    <2>1. k.next + 1 \in Nat
      BY <1>0
    <2> QED BY <1>0, <2>1, MovedRight
  <1>2. /\ \/ coord' = [coord EXCEPT ![g] = Ended(k)] /\ conn' = conn
           \/ coord' = [coord EXCEPT ![g] = AfterEntry(e)] /\ conn' = Published(g, k.next)
        /\ UNCHANGED <<head, tail, cursor, hints, stream, page, raced, lagged>>
    BY DEF ReconcilePublish, Moved, journal, history
  <1>3. Committed' /\ Streamed'
    BY <1>2 DEF RInv, Committed, Streamed
  <1>4. Coordinated(Ended(k), head, tail) /\ Passing(k, Ended(k), tail)
    BY <1>0, EndedRight, NothingPassed
  <1>5. Coordinated(e, head, tail)
    BY <1>0, <1>1 DEF Coordinated
  <1>6. Coordinated(Ended(e), head, tail) /\ Ended(e).last = e.last
    BY <1>0, <1>1, EndedRight
  <1>7. Coordinated(At(e, "read"), head, tail) /\ At(e, "read").last = e.last
    BY <1>0, <1>1, AtRight DEF Coordinated, CoordPCs
  <1>8. AfterEntry(e) \in {e, At(e, "read"), Ended(e)}
    BY DEF AfterEntry, At
  <1>9. Coordinated(AfterEntry(e), head, tail) /\ AfterEntry(e).last = k.next
    BY <1>1, <1>5, <1>6, <1>7, <1>8
  <1>10. Passing(k, AfterEntry(e), tail)
    BY <1>0, <1>9 DEF Passing
  <1> QED BY <1>0, <1>2, <1>3, <1>4, <1>9, <1>10, CoordinatorStep

LEMMA ReconcileFailsStep ==
  ASSUME RInv, NEW g \in Gateways, ReconcileFails(g)
  PROVE  RInv' /\ StepRight
  <1> SUFFICES ASSUME NEW k, k = coord[g]
               PROVE  RInv' /\ StepRight
    OBVIOUS
  <1>0. /\ RInv /\ head \in Nat /\ k \in Coordinators /\ UpTo(k.input, head)
    BY DEF RInv, Coordinating, Committed, Coordinated
  <1>1. coord' = [coord EXCEPT ![g] = Ended(k)] /\ conn' = conn
        /\ UNCHANGED <<head, tail, cursor, hints, stream, page, raced, lagged>>
    BY DEF ReconcileFails, journal, history
  <1>2. Committed' /\ Streamed'
    BY <1>1 DEF RInv, Committed, Streamed
  <1>3. Coordinated(Ended(k), head, tail) /\ Passing(k, Ended(k), tail)
    BY <1>0, EndedRight, NothingPassed
  <1> QED BY <1>0, <1>1, <1>2, <1>3, CoordinatorStep

-----------------------------------------------------------------------------
(* The steps of the journal, the worker and the processes' lives.          *)

\* A page that is left alone and coordinators that keep their place.
LEMMA Untouched ==
  ASSUME RInv, page' = page, \A g \in Gateways : coord'[g].last = coord[g].last
  PROVE  StepRight
  <1>1. \A g \in Gateways : Passing(coord[g], coord'[g], tail)
    BY NothingPassed DEF RInv, Coordinating
  <1> QED BY <1>1 DEF StepRight, Showing

LEMMA CommitStep ==
  ASSUME RInv, head' = head + 1,
         \/ hints' = hints
         \/ \E g \in Gateways : hints' = [hints EXCEPT ![g] = @ \cup {head + 1}],
         UNCHANGED <<tail, cursor, stream, coord, conn, page, raced, lagged>>
  PROVE  RInv' /\ StepRight
  <1>1. head \in Nat /\ head' \in Nat /\ head <= head' /\ tail \in Nat /\ tail <= head'
        /\ cursor \in Nat
    BY DEF RInv, Committed
  <1>2. Committed'
    <2>1. hints \in [Gateways -> SUBSET Nat] /\ \A g \in Gateways : \A n \in hints[g] : n <= head
      BY DEF RInv, Committed
    <2>2. \A g \in Gateways : hints'[g] \subseteq hints[g] \cup {head + 1}
      BY <2>1
    <2>3. hints' \in [Gateways -> SUBSET Nat]
      BY <1>1, <2>1
    <2>4. \A g \in Gateways : \A n \in hints'[g] : n <= head'
      <3> SUFFICES ASSUME NEW g \in Gateways, NEW n \in hints'[g]
                   PROVE  n <= head'
        OBVIOUS
      <3>1. n \in hints[g] \/ n = head + 1
        BY <2>2
      <3>2. n \in hints[g] => n \in Nat /\ n <= head
        BY <2>1
      <3> QED BY <1>1, <3>1, <3>2
    <2> QED BY <1>1, <2>3, <2>4 DEF Committed
  <1>3. Streamed'
    BY <1>1, UpToGrows DEF RInv, Streamed
  <1>4. Coordinating'
    BY <1>1, CoordinatedLater DEF RInv, Coordinating
  <1>5. Serving'
    BY DEF RInv, Serving
  <1> QED BY <1>2, <1>3, <1>4, <1>5, Untouched DEF RInv

\* What retention deletes ahead of a running handler is put on record.
LEMMA DeleteStep ==
  ASSUME RInv, NEW n, DeleteJournalBefore(n)
  PROVE  RInv' /\ StepRight
  <1>1. /\ n \in tail + 1 .. head /\ tail' = n /\ head \in Nat /\ tail \in Nat
        /\ n \in Nat /\ tail <= n /\ n <= head
        /\ UNCHANGED <<head, hints, cursor, stream, coord, conn, page>>
    BY DEF RInv, Committed, DeleteJournalBefore
  <1>2. Committed' /\ Streamed'
    BY <1>1 DEF RInv, Committed, Streamed
  <1>3. Coordinating'
    BY <1>1, CoordinatedLater DEF RInv, Coordinating
  <1>4. ASSUME NEW c \in Clients
        PROVE  /\ raced[c] \subseteq raced'[c] /\ lagged[c] \subseteq lagged'[c]
               /\ raced'[c] \subseteq raced[c] \cup Overtaken(c, n)
               /\ lagged'[c] \subseteq lagged[c] \cup Overtaken(c, n)
               /\ conn[c].pc \in Running =>
                    Overtaken(c, n) \subseteq raced'[c] \cup lagged'[c]
    <2>1. /\ raced'[c] = IF conn[c].pc \in {"read", "write"} /\ conn[c].hint = 0
                         THEN raced[c] \cup Overtaken(c, n) ELSE raced[c]
          /\ lagged'[c] = IF \/ conn[c].pc = "live"
                             \/ conn[c].pc \in {"read", "write"} /\ conn[c].hint > 0
                          THEN lagged[c] \cup Overtaken(c, n) ELSE lagged[c]
      BY DEF DeleteJournalBefore
    <2>2. conn[c].hint = 0 \/ conn[c].hint > 0
      BY DEF RInv, Serving, Connections
    <2> QED BY <2>1, <2>2 DEF Running
  <1>5. Serving'
    <2>1. \A c \in Clients : Overtaken(c, n) \subseteq Nat
      BY <1>1 DEF Overtaken
    <2>2. raced' \in [Clients -> SUBSET Nat] /\ lagged' \in [Clients -> SUBSET Nat]
      <3>1. raced' = [c \in Clients |-> raced'[c]] /\ lagged' = [c \in Clients |-> lagged'[c]]
        BY DEF DeleteJournalBefore
      <3>2. \A c \in Clients : raced'[c] \subseteq Nat /\ lagged'[c] \subseteq Nat
        BY <1>4, <2>1 DEF RInv, Serving
      <3> QED BY <3>1, <3>2
    <2>3. ASSUME NEW c \in Clients
          PROVE  Served(c, conn[c], page[c], raced'[c] \cup lagged'[c], n)
      <3>1. conn[c].pc \in Running =>
              \A m \in tail + 1 .. n : m > conn[c].wm => m \in raced'[c] \cup lagged'[c]
        BY <1>4 DEF Overtaken
      <3>2. /\ Paged(page[c])
            /\ Served(c, conn[c], page[c], raced[c] \cup lagged[c], tail)
        BY DEF RInv, Serving
      <3> QED BY <1>1, <1>4, <3>1, <3>2, ServedLater
    <2> QED BY <1>1, <2>2, <2>3 DEF RInv, Serving
  <1>6. StepRight
    BY <1>1, Untouched
  <1> QED BY <1>2, <1>3, <1>5, <1>6 DEF RInv

LEMMA PushedStreaming ==
  ASSUME NEW h \in Nat, NEW s \in Streaming, UpTo(s.buf, h), NEW n \in Nat, n <= h
  PROVE  Pushed(s, n) \in Streaming /\ UpTo(Pushed(s, n).buf, h)
  <1> DEFINE b == Append(s.buf, n)
             s1 == [s EXCEPT !.buf = b]
             s2 == [s EXCEPT !.cut = TRUE]
  <1>1. b \in Seq(Nat) /\ UpTo(b, h)
    BY AppendUpTo DEF UpTo
  <1> HIDE DEF b
  <1>2. s1 \in Streaming /\ s1.buf = b
    BY <1>1 DEF Streaming
  <1>3. s2 \in Streaming /\ s2.buf = s.buf
    BY DEF Streaming
  <1>4. Pushed(s, n) \in {s, s1, s2}
    BY DEF Pushed, b
  <1> QED BY <1>1, <1>2, <1>3, <1>4

LEMMA ProcessStep ==
  ASSUME RInv, Process
  PROVE  RInv' /\ StepRight
  <1> SUFFICES ASSUME NEW n, n = FirstAfter(cursor)
               PROVE  RInv' /\ StepRight
    OBVIOUS
  <1>1. /\ cursor' = n /\ head \in Nat /\ n <= head
        /\ stream' = [g \in Gateways |-> IF stream[g].up THEN Pushed(stream[g], n)
                                         ELSE stream[g]]
        /\ UNCHANGED <<head, tail, hints, coord, conn, page, raced, lagged>>
    BY DEF RInv, Committed, Process, journal, history
  <1>2. n \in Nat
    BY Rows DEF RInv, Committed
  <1>3. Committed'
    BY <1>1, <1>2 DEF RInv, Committed
  <1>4. \A g \in Gateways : stream'[g] \in {stream[g], Pushed(stream[g], n)}
    BY <1>1
  <1>5. \A g \in Gateways : stream'[g] \in Streaming /\ UpTo(stream'[g].buf, head)
    BY <1>1, <1>2, <1>4, PushedStreaming DEF RInv, Streamed
  <1>6. Streamed'
    BY <1>1, <1>5 DEF Streamed
  <1>7. Coordinating' /\ Serving' /\ StepRight
    BY <1>1, Untouched DEF RInv, Coordinating, Serving
  <1> QED BY <1>3, <1>6, <1>7 DEF RInv

LEMMA RestartWorkerStep ==
  ASSUME RInv, RestartWorker
  PROVE  RInv' /\ StepRight
  <1> SUFFICES ASSUME NEW e, e = MaxJournalSeq
               PROVE  RInv' /\ StepRight
    OBVIOUS
  <1>1. /\ cursor' = e /\ stream' = [g \in Gateways |-> NoStream]
        /\ UNCHANGED <<head, tail, hints, coord, conn, page, raced, lagged>>
    BY DEF RestartWorker, journal, history
  <1>2. Committed'
    BY <1>1, Bounds DEF RInv, Committed
  <1>3. Streamed'
    BY <1>1, NoStreamRight DEF Streamed
  <1>4. Coordinating' /\ Serving' /\ StepRight
    BY <1>1, Untouched DEF RInv, Coordinating, Serving
  <1> QED BY <1>2, <1>3, <1>4 DEF RInv

LEMMA StreamEndsStep ==
  ASSUME RInv, NEW g \in Gateways, StreamEnds(g)
  PROVE  RInv' /\ StepRight
  <1>1. /\ stream' = [stream EXCEPT ![g] = NoStream]
        /\ UNCHANGED <<head, tail, hints, cursor, coord, conn, page, raced, lagged>>
    BY DEF StreamEnds, journal, history
  <1>2. Committed'
    BY <1>1 DEF RInv, Committed
  <1>3. Streamed'
    BY <1>1, NoStreamRight, StreamMoves DEF RInv
  <1>4. Coordinating' /\ Serving' /\ StepRight
    BY <1>1, Untouched DEF RInv, Coordinating, Serving
  <1> QED BY <1>2, <1>3, <1>4 DEF RInv

LEMMA NoConnServed ==
  ASSUME NEW c, NEW p, NEW lost, NEW t
  PROVE  Served(c, NoConn, p, lost, t)
  <1>1. NoConn \in Connections
    BY DEF NoConn, Connections, ConnPCs
  <1>2. NoConn.pc = "off"
    BY DEF NoConn
  <1> QED BY <1>1, <1>2 DEF Served, Running

LEMMA RestartGatewayStep ==
  ASSUME RInv, NEW g \in Gateways, RestartGateway(g)
  PROVE  RInv' /\ StepRight
  <1>1. /\ hints' = [hints EXCEPT ![g] = {}]
        /\ stream' = [stream EXCEPT ![g] = NoStream]
        /\ coord' = [coord EXCEPT ![g] = NewCoordinator]
        /\ conn' = [c \in Clients |-> IF conn[c].at = g THEN NoConn ELSE conn[c]]
        /\ raced' = [c \in Clients |-> IF conn[c].at = g THEN {} ELSE raced[c]]
        /\ lagged' = [c \in Clients |-> IF conn[c].at = g THEN {} ELSE lagged[c]]
        /\ UNCHANGED <<head, tail, cursor, page>>
    BY DEF RestartGateway, journal
  <1>2. Committed'
    BY <1>1 DEF RInv, Committed
  <1>3. Streamed'
    BY <1>1, NoStreamRight, StreamMoves DEF RInv
  <1>4. Coordinated(NewCoordinator, head, tail)
    BY NewCoordinatorRight DEF RInv, Committed
  <1>5. Coordinating'
    BY <1>1, <1>4, CoordinatorMoves DEF RInv
  <1>6. Serving'
    <2>1. \A c \in Clients : \/ conn'[c] = NoConn /\ raced'[c] = {} /\ lagged'[c] = {}
                             \/ conn'[c] = conn[c] /\ raced'[c] = raced[c]
                                /\ lagged'[c] = lagged[c]
      BY <1>1
    <2>2. \A c \in Clients :
            Served(c, conn'[c], page[c], raced'[c] \cup lagged'[c], tail)
      BY <2>1, NoConnServed DEF RInv, Serving
    <2>3. conn' \in [Clients -> Connections]
      BY <1>1, <2>2 DEF Served
    <2>4. raced' \in [Clients -> SUBSET Nat] /\ lagged' \in [Clients -> SUBSET Nat]
      BY <1>1 DEF RInv, Serving
    <2> QED BY <1>1, <2>2, <2>3, <2>4 DEF RInv, Serving
  <1>7. StepRight
    <2>1. \A y \in Gateways : coord'[y] = IF y = g THEN NewCoordinator ELSE coord[y]
      BY <1>1 DEF RInv, Coordinating
    <2>2. \A y \in Gateways : Passing(coord[y], coord'[y], tail)
      <3>1. ~NewCoordinator.ready
        BY DEF NewCoordinator
      <3>2. \A y \in Gateways : Passing(coord[y], coord[y], tail)
        BY NothingPassed DEF RInv, Coordinating
      <3> QED BY <2>1, <3>1, <3>2 DEF Passing
    <2> QED BY <1>1, <2>2 DEF StepRight, Showing
  <1> QED BY <1>2, <1>3, <1>5, <1>6, <1>7 DEF RInv

-----------------------------------------------------------------------------
(* A handler and its page as values.                                       *)

LEMMA ServeStep ==
  ASSUME RInv, NEW c \in Clients, NEW k, NEW p, NEW rows, rows \subseteq Nat,
         ServeWith(c, k, p, rows), Paged(p),
         Served(c, k, p, raced[c] \cup lagged[c] \cup rows, tail),
         Showing(c, page[c], p, raced[c] \cup lagged[c])
  PROVE  RInv' /\ StepRight
  <1> SUFFICES ASSUME NEW r, r = Ahead(raced[c] \cup rows, k, p),
                      NEW l, l = Ahead(lagged[c], k, p)
               PROVE  RInv' /\ StepRight
    OBVIOUS
  <1>1. /\ conn' = [conn EXCEPT ![c] = k] /\ page' = [page EXCEPT ![c] = p]
        /\ raced' = [raced EXCEPT ![c] = r] /\ lagged' = [lagged EXCEPT ![c] = l]
        /\ UNCHANGED <<head, tail, hints, cursor, stream, coord>>
    BY DEF ServeWith, journal
  <1>2. raced[c] \subseteq Nat /\ lagged[c] \subseteq Nat /\ p.upto \in Nat /\ tail \in Nat
    BY DEF RInv, Serving, Paged, Pages, Committed
  <1>3. r \subseteq Nat /\ l \subseteq Nat
    BY <1>2 DEF Ahead
  <1>4. k \in Connections
    BY DEF Served
  <1>5. Served(c, k, p, r \cup l, tail)
    <2>1. CASE k.pc = "off"
      BY <2>1 DEF Served, Running
    <2>2. CASE k.pc # "off"
      <3>1. k.wm \in Nat
        BY <1>4 DEF Connections
      <3>2. r \cup l = {m \in raced[c] \cup lagged[c] \cup rows : m > p.upto}
        BY <2>2 DEF Ahead
      <3>3. \A m \in (p.upto + 1 .. k.wm) \cup (p.upto + 1 .. tail) :
              m \in raced[c] \cup lagged[c] \cup rows => m \in r \cup l
        BY <1>2, <3>1, <3>2
      <3> QED BY <3>3 DEF Served
    <2> QED BY <2>1, <2>2
  <1>6. Committed' /\ Streamed' /\ Coordinating'
    BY <1>1 DEF RInv, Committed, Streamed, Coordinating
  <1>7. Serving'
    <2>1. /\ conn' \in [Clients -> Connections] /\ page' \in [Clients -> Pages]
          /\ raced' \in [Clients -> SUBSET Nat] /\ lagged' \in [Clients -> SUBSET Nat]
      BY <1>1, <1>3, <1>4 DEF RInv, Serving, Paged
    <2>2. \A y \in Clients :
             IF y = c THEN conn'[y] = k /\ page'[y] = p /\ raced'[y] = r /\ lagged'[y] = l
             ELSE /\ conn'[y] = conn[y] /\ page'[y] = page[y]
                  /\ raced'[y] = raced[y] /\ lagged'[y] = lagged[y]
      BY <1>1 DEF RInv, Serving
    <2> QED BY <1>1, <1>5, <2>1, <2>2 DEF RInv, Serving
  <1>8. StepRight
    <2>1. \A y \in Clients : page'[y] = IF y = c THEN p ELSE page[y]
      BY <1>1 DEF RInv, Serving
    <2>2. \A y \in Clients : Showing(y, page[y], page'[y], raced[y] \cup lagged[y])
      BY <2>1 DEF Showing
    <2>3. \A g \in Gateways : Passing(coord[g], coord'[g], tail)
      BY <1>1, NothingPassed DEF RInv, Coordinating
    <2> QED BY <2>2, <2>3 DEF StepRight
  <1> QED BY <1>6, <1>7, <1>8 DEF RInv

LEMMA ServeStepPlain ==
  ASSUME RInv, NEW c \in Clients, NEW k, NEW p, Serve(c, k, p), Paged(p),
         Served(c, k, p, raced[c] \cup lagged[c], tail),
         Showing(c, page[c], p, raced[c] \cup lagged[c])
  PROVE  RInv' /\ StepRight
  <1>1. ServeWith(c, k, p, {})
    BY DEF Serve
  <1>2. raced[c] \cup lagged[c] \cup {} = raced[c] \cup lagged[c]
    OBVIOUS
  <1> QED BY <1>1, <1>2, ServeStep

\* What a handler knows of itself and of its page.
LEMMA ServedFacts ==
  ASSUME RInv, NEW c \in Clients
  PROVE  /\ conn[c] \in Connections /\ Paged(page[c]) /\ page[c] \in Pages
         /\ conn[c].wm \in Nat /\ conn[c].next \in Nat /\ conn[c].end \in Nat
         /\ conn[c].hint \in Nat /\ conn[c].low \in Nat /\ conn[c].buf \in Seq(Nat)
         /\ page[c].cursor \in Nat /\ page[c].upto \in Nat /\ page[c].last \in Nat
         /\ Served(c, conn[c], page[c], raced[c] \cup lagged[c], tail)
         /\ tail \in Nat /\ head \in Nat
  <1>1. conn[c] \in Connections /\ Paged(page[c]) /\ page[c] \in Pages
    BY DEF RInv, Serving
  <1> QED BY <1>1 DEF RInv, Serving, Committed, Connections, Pages

LEMMA PageKept ==
  ASSUME NEW c, NEW p, NEW lost
  PROVE  Showing(c, p, p, lost)
  BY DEF Showing

\* What is received becomes the page's cursor.
LEMMA ReceivedRight ==
  ASSUME NEW c, NEW n, n \in Nat, Paged(page[c])
  PROVE  /\ Paged(Received(c, n))
         /\ Visible(c, n) => /\ Received(c, n).last = n /\ n <= Received(c, n).upto
                             /\ page[c].upto <= Received(c, n).upto
         /\ ~Visible(c, n) => Received(c, n) = page[c]
  <1> SUFFICES ASSUME NEW p, p = page[c], Paged(p),
                      NEW r, r = Received(c, n)
               PROVE  /\ Paged(r)
                      /\ Visible(c, n) => r.last = n /\ n <= r.upto /\ p.upto <= r.upto
                      /\ ~Visible(c, n) => r = p
    OBVIOUS
  <1> DEFINE u == IF n > p.upto THEN n ELSE p.upto
  <1>1. p \in Pages /\ p.upto \in Nat /\ u \in Nat /\ n <= u /\ p.upto <= u
    BY DEF Paged, Pages
  <1>2. Visible(c, n) => r = [p EXCEPT !.cursor = n, !.last = n, !.upto = u]
    BY DEF Received
  <1>3. ~Visible(c, n) => r = p
    BY DEF Received
  <1> HIDE DEF u
  <1>4. LET q == [p EXCEPT !.cursor = n, !.last = n, !.upto = u]
        IN  q \in Pages /\ q.cursor = n /\ q.last = n /\ q.upto = u
    BY <1>1 DEF Pages
  <1>5. CASE Visible(c, n)
    <2>1. r \in Pages /\ r.cursor = n /\ r.last = n /\ r.upto = u
      BY <1>2, <1>4, <1>5
    <2> QED BY <1>1, <1>5, <2>1 DEF Paged
  <1>6. CASE ~Visible(c, n)
    BY <1>3, <1>6
  <1> QED BY <1>5, <1>6

\* An event beyond the watermark, when what lies between is deleted: nothing is
\* passed over but what is known to be lost, and the watermark may follow.
LEMMA Delivered ==
  ASSUME RInv, NEW c \in Clients, conn[c].pc \in Running, NEW n, n \in Nat,
         n > conn[c].wm, \A m \in conn[c].wm + 1 .. n - 1 : m <= tail
  PROVE  /\ Paged(Received(c, n))
         /\ Showing(c, page[c], Received(c, n), raced[c] \cup lagged[c])
         /\ Received(c, n).last <= n
         /\ \A m \in (Received(c, n).upto + 1 .. n) \cup (Received(c, n).upto + 1 .. tail) :
               Visible(c, m) => m \in raced[c] \cup lagged[c]
  <1> SUFFICES ASSUME NEW k, k = conn[c], NEW p, p = page[c], NEW r, r = Received(c, n),
                      NEW lost, lost = raced[c] \cup lagged[c]
               PROVE  /\ Paged(r) /\ Showing(c, p, r, lost) /\ r.last <= n
                      /\ \A m \in (r.upto + 1 .. n) \cup (r.upto + 1 .. tail) :
                            Visible(c, m) => m \in lost
    OBVIOUS
  <1>1. /\ k.wm \in Nat /\ p.upto \in Nat /\ p.last \in Nat /\ tail \in Nat /\ Paged(p)
        /\ p.last <= k.wm
        /\ \A m \in (p.upto + 1 .. k.wm) \cup (p.upto + 1 .. tail) :
              Visible(c, m) => m \in lost
    BY ServedFacts DEF Served
  <1>2. /\ Paged(r) /\ r.upto \in Nat
        /\ Visible(c, n) => r.last = n /\ n <= r.upto /\ p.upto <= r.upto
        /\ ~Visible(c, n) => r = p
    BY <1>1, ReceivedRight DEF Paged, Pages
  <1>3. ASSUME NEW m \in Nat, p.upto < m, m < n, Visible(c, m)
        PROVE  m \in lost
    <2>1. m <= k.wm \/ m <= tail
      BY <1>1, <1>3
    <2> QED BY <1>1, <1>3, <2>1
  <1>4. CASE Visible(c, n)
    <2>1. \A m \in p.upto + 1 .. r.last - 1 : Visible(c, m) => m \in lost
      BY <1>1, <1>2, <1>3, <1>4
    <2>2. Showing(c, p, r, lost)
      BY <1>1, <1>2, <1>4, <2>1 DEF Showing
    <2>3. \A m \in (r.upto + 1 .. n) \cup (r.upto + 1 .. tail) :
             m \in p.upto + 1 .. tail
      BY <1>1, <1>2, <1>4
    <2> QED BY <1>1, <1>2, <1>4, <2>2, <2>3
  <1>5. CASE ~Visible(c, n)
    <2>1. r = p /\ Showing(c, p, r, lost) /\ r.last <= n
      BY <1>1, <1>2, <1>5, PageKept
    <2>2. ASSUME NEW m \in (p.upto + 1 .. n) \cup (p.upto + 1 .. tail), Visible(c, m)
          PROVE  m \in lost
      <3>1. m # n /\ m \in Nat /\ p.upto < m
        BY <1>1, <1>5, <2>2
      <3>2. m < n \/ m \in p.upto + 1 .. tail
        BY <1>1, <3>1, <2>2
      <3> QED BY <1>1, <1>3, <2>2, <3>1, <3>2
    <2> QED BY <1>2, <2>1, <2>2
  <1> QED BY <1>4, <1>5

-----------------------------------------------------------------------------
(* The steps of a handler.                                                 *)

\* A handler at pc with the watermark wm, and one that writes a batch.
Watching(k, pc, wm) == [k EXCEPT !.pc = pc, !.wm = wm]

LEMMA WatchingRight ==
  ASSUME NEW k, NEW pc, NEW wm, k \in Connections, pc \in ConnPCs, wm \in Nat
  PROVE  LET k2 == Watching(k, pc, wm)
         IN  /\ k2 \in Connections /\ k2.pc = pc /\ k2.wm = wm /\ k2.next = k.next
             /\ k2.end = k.end /\ k2.hint = k.hint
  BY DEF Watching, Connections

Writing(k, first, end) ==
    [k EXCEPT !.pc = "write", !.next = first, !.end = end,
              !.full = end - first + 1 = Batch]

LEMMA WritingRight ==
  ASSUME NEW k, NEW first, NEW end, k \in Connections, first \in Nat, end \in Nat
  PROVE  LET k2 == Writing(k, first, end)
         IN  /\ k2 \in Connections /\ k2.pc = "write" /\ k2.wm = k.wm /\ k2.next = first
  BY DEF Writing, Connections, ConnPCs

LEMMA LiveRight ==
  ASSUME NEW k, k \in Connections
  PROVE  Live(k) \in Connections /\ Live(k).pc = "live" /\ Live(k).wm = k.wm
  BY DEF Live, Connections, ConnPCs

Greeting(k, g) == [k EXCEPT !.at = g, !.pc = "hello"]

LEMMA GreetingRight ==
  ASSUME NEW k, NEW g, k \in Connections, g \in Gateways
  PROVE  Greeting(k, g) \in Connections /\ Greeting(k, g).pc = "hello"
  BY DEF Greeting, Connections, ConnPCs

Wrote(k, wm, next) == [k EXCEPT !.wm = wm, !.next = next]

LEMMA WroteRight ==
  ASSUME NEW k, NEW wm, NEW next, k \in Connections, wm \in Nat, next \in Nat
  PROVE  LET k2 == Wrote(k, wm, next)
         IN  k2 \in Connections /\ k2.pc = k.pc /\ k2.wm = wm /\ k2.next = next
  BY DEF Wrote, Connections

LEMMA ConnectStep ==
  ASSUME RInv, NEW c \in Clients, NEW g \in Gateways, Connect(c, g)
  PROVE  RInv' /\ StepRight
  <1> SUFFICES ASSUME NEW p, p = page[c]
               PROVE  RInv' /\ StepRight
    OBVIOUS
  <1> DEFINE k2 == Greeting(NoConn, g)
  <1>1. Serve(c, k2, p)
    BY DEF Connect, Greeting
  <1>2. k2 \in Connections /\ k2.pc = "hello"
    <2>1. NoConn \in Connections
      BY NoConnServed DEF Served
    <2> QED BY <2>1, GreetingRight
  <1> HIDE DEF k2
  <1>3. Served(c, k2, p, raced[c] \cup lagged[c], tail)
    BY <1>2 DEF Served, Running
  <1> QED BY <1>1, <1>3, ServedFacts, PageKept, ServeStepPlain

LEMMA InitialStateStep ==
  ASSUME RInv, NEW c \in Clients, InitialState(c)
  PROVE  RInv' /\ StepRight
  <1> SUFFICES ASSUME NEW k, k = conn[c], NEW e, e = MaxJournalSeq
               PROVE  RInv' /\ StepRight
    OBVIOUS
  <1> DEFINE k2 == Watching(k, "read", e)
             p2 == [cursor |-> e, upto |-> head, last |-> 0]
  <1>1. Serve(c, k2, p2)
    BY DEF InitialState, Watching
  <1>2. e \in Nat /\ e <= head /\ head \in Nat /\ tail \in Nat /\ tail <= head
    BY Bounds DEF RInv, Committed
  <1>3. k2 \in Connections /\ k2.pc = "read" /\ k2.wm = e
    <2>1. k \in Connections /\ "read" \in ConnPCs
      BY ServedFacts DEF ConnPCs
    <2> QED BY <1>2, <2>1, WatchingRight
  <1>4. p2 \in Pages /\ p2.cursor = e /\ p2.upto = head /\ p2.last = 0
    BY <1>2 DEF Pages
  <1> HIDE DEF k2, p2
  <1>5. Paged(p2)
    BY <1>2, <1>4 DEF Paged
  <1>6. Served(c, k2, p2, raced[c] \cup lagged[c], tail)
    BY <1>2, <1>3, <1>4 DEF Served, Running
  <1>7. Showing(c, page[c], p2, raced[c] \cup lagged[c])
    BY <1>4 DEF Showing
  <1> QED BY <1>1, <1>5, <1>6, <1>7, ServeStepPlain

LEMMA CheckMinStep ==
  ASSUME RInv, NEW c \in Clients, CheckMin(c)
  PROVE  RInv' /\ StepRight
  <1> SUFFICES ASSUME NEW k, k = conn[c], NEW p, p = page[c], NEW b, b = MinJournalSeq
               PROVE  RInv' /\ StepRight
    OBVIOUS
  <1> DEFINE k2 == [k EXCEPT !.pc = "max", !.low = b]
  <1>1. Serve(c, k2, p) /\ p.cursor > 0
    BY DEF CheckMin
  <1>2. k2 \in Connections /\ k2.pc = "max"
    <2>1. k \in Connections /\ b \in Nat
      BY ServedFacts, Bounds DEF RInv
    <2> QED BY <2>1 DEF Connections, ConnPCs
  <1> HIDE DEF k2
  <1>3. Served(c, k2, p, raced[c] \cup lagged[c], tail)
    BY <1>1, <1>2 DEF Served, Running
  <1> QED BY <1>1, <1>3, ServedFacts, PageKept, ServeStepPlain

\* The rows deleted before the connection, that its bounds spoke of, lie before
\* the cursor; the others are put on record.
LEMMA CheckMaxStep ==
  ASSUME RInv, NEW c \in Clients, CheckMax(c)
  PROVE  RInv' /\ StepRight
  <1> SUFFICES ASSUME NEW k, k = conn[c], NEW p, p = page[c]
               PROVE  RInv' /\ StepRight
    OBVIOUS
  <1>1. /\ k \in Connections /\ Paged(p) /\ p \in Pages /\ p.cursor \in Nat /\ p.upto \in Nat
        /\ p.last \in Nat /\ k.low \in Nat /\ tail \in Nat /\ p.cursor > 0
        /\ p.cursor <= p.upto /\ p.last <= p.cursor
    BY ServedFacts DEF CheckMax, Served, Paged
  <1>2. CASE MustReset(c) /\ Serve(c, NoConn, [p EXCEPT !.cursor = 0])
    <2> DEFINE p2 == [p EXCEPT !.cursor = 0]
    <2>1. p2 \in Pages /\ p2.cursor = 0 /\ p2.upto = p.upto /\ p2.last = p.last
      BY <1>1 DEF Pages
    <2>2. Serve(c, NoConn, p2)
      BY <1>2
    <2> HIDE DEF p2
    <2>3. Paged(p2)
      BY <1>1, <2>1 DEF Paged
    <2>4. Showing(c, p, p2, raced[c] \cup lagged[c])
      BY <2>1 DEF Showing
    <2> QED BY <2>2, <2>3, <2>4, NoConnServed, ServeStepPlain
  <1>3. CASE ~MustReset(c) /\ ServeWith(c, Watching(k, "read", p.cursor), p, Unseen(c))
    <2> SUFFICES ASSUME NEW rows, rows = Unseen(c)
                 PROVE  RInv' /\ StepRight
      OBVIOUS
    <2> DEFINE k2 == Watching(k, "read", p.cursor)
    <2>1. ServeWith(c, k2, p, rows)
      BY <1>3
    <2>2. k2 \in Connections /\ k2.pc = "read" /\ k2.wm = p.cursor
      BY <1>1, WatchingRight DEF ConnPCs
    <2> HIDE DEF k2
    <2>3. rows = {m \in p.cursor + 1 .. tail : m >= k.low}
      BY DEF Unseen
    <2>4. rows \subseteq Nat
      BY <1>1, <2>3
    <2>5. \A m \in p.upto + 1 .. tail : m \in rows
      <3>1. k.low = 0 \/ p.cursor >= k.low - 1
        BY <1>1, <1>3 DEF MustReset
      <3> QED BY <1>1, <2>3, <3>1
    <2>6. Served(c, k2, p, raced[c] \cup lagged[c] \cup rows, tail)
      BY <1>1, <2>2, <2>5 DEF Served, Running
    <2> QED BY <1>1, <2>1, <2>4, <2>6, PageKept, ServeStep
  <1> QED BY <1>2, <1>3 DEF CheckMax, Watching

LEMMA ReadJournalStep ==
  ASSUME RInv, NEW c \in Clients, ReadJournal(c)
  PROVE  RInv' /\ StepRight
  <1> SUFFICES ASSUME NEW k, k = conn[c], NEW p, p = page[c],
                      NEW first, first = FirstAfter(k.wm), NEW end, end = EndAfter(k.wm)
               PROVE  RInv' /\ StepRight
    OBVIOUS
  <1> DEFINE k2 == Writing(k, first, end)
  <1>1. Serve(c, k2, p)
    BY DEF ReadJournal, Writing
  <1>2. k \in Connections /\ k.wm \in Nat /\ k.pc = "read"
    BY ServedFacts DEF ReadJournal
  <1>3. /\ first \in Nat /\ end \in Nat /\ k.wm < first
        /\ \A m \in k.wm + 1 .. first - 1 : m <= tail
    BY <1>2, Rows DEF RInv
  <1>4. k2 \in Connections /\ k2.pc = "write" /\ k2.wm = k.wm /\ k2.next = first
    BY <1>2, <1>3, WritingRight
  <1> HIDE DEF k2
  <1>5. Served(c, k, p, raced[c] \cup lagged[c], tail)
    BY ServedFacts
  <1>6. Served(c, k2, p, raced[c] \cup lagged[c], tail)
    BY <1>2, <1>3, <1>4, <1>5 DEF Served, Running
  <1> QED BY <1>1, <1>6, ServedFacts, PageKept, ServeStepPlain

LEMMA WriteEntryStep ==
  ASSUME RInv, NEW c \in Clients, WriteEntry(c)
  PROVE  RInv' /\ StepRight
  <1> SUFFICES ASSUME NEW k, k = conn[c], NEW r, r = Received(c, k.next),
                      NEW n, n = k.next, NEW lost, lost = raced[c] \cup lagged[c]
               PROVE  RInv' /\ StepRight
    OBVIOUS
  <1> DEFINE k2 == Wrote(k, n, n + 1)
  <1>1. Serve(c, k2, r)
    BY DEF WriteEntry, Wrote
  <1>2. k \in Connections /\ n \in Nat /\ k.wm \in Nat /\ k.pc = "write"
    BY ServedFacts DEF WriteEntry
  <1>3. n > k.wm /\ \A m \in k.wm + 1 .. n - 1 : m <= tail
    BY <1>2, ServedFacts DEF Served
  <1>4. /\ Paged(r) /\ Showing(c, page[c], r, lost) /\ r.last <= n
        /\ \A m \in (r.upto + 1 .. n) \cup (r.upto + 1 .. tail) : Visible(c, m) => m \in lost
    BY <1>2, <1>3, Delivered DEF Running
  <1>5. k2 \in Connections /\ k2.pc = "write" /\ k2.wm = n /\ k2.next = n + 1
    <2>1. n + 1 \in Nat
      BY <1>2
    <2> QED BY <1>2, <2>1, WroteRight
  <1> HIDE DEF k2
  <1>6. Served(c, k2, r, lost, tail)
    BY <1>2, <1>4, <1>5 DEF Served, Running
  <1> QED BY <1>1, <1>4, <1>6, ServeStepPlain

\* A handler that has written a batch: goes on, waits for the hub, takes the
\* event whose gap was drained, or gives up.
LEMMA EndOfBatchStep ==
  ASSUME RInv, NEW c \in Clients, EndOfBatch(c)
  PROVE  RInv' /\ StepRight
  <1> SUFFICES ASSUME NEW k, k = conn[c], NEW p, p = page[c], NEW n, n = k.hint,
                      NEW r, r = Received(c, n), NEW lost, lost = raced[c] \cup lagged[c]
               PROVE  RInv' /\ StepRight
    OBVIOUS
  <1> DEFINE k1 == Watching(k, "read", k.wm)
             k2 == Live(k)
             k3 == [k EXCEPT !.wm = n]
  <1>1. /\ k \in Connections /\ n \in Nat /\ k.wm \in Nat /\ k.pc = "write" /\ Paged(p)
        /\ Served(c, k, p, lost, tail)
    BY ServedFacts DEF EndOfBatch
  <1>2. \/ Serve(c, [k EXCEPT !.pc = "read"], p)
        \/ Serve(c, k2, p)
        \/ n = k.wm + 1 /\ Serve(c, Live(k3), r)
        \/ Serve(c, NoConn, p)
    BY DEF EndOfBatch
  <1>3. CASE Serve(c, [k EXCEPT !.pc = "read"], p)
    <2> DEFINE q == [k EXCEPT !.pc = "read"]
    <2>1. q \in Connections /\ q.pc = "read" /\ q.wm = k.wm
      BY <1>1 DEF Connections, ConnPCs
    <2>2. Serve(c, q, p)
      BY <1>3
    <2> HIDE DEF q
    <2>3. Served(c, q, p, lost, tail)
      BY <1>1, <2>1 DEF Served, Running
    <2> QED BY <1>1, <2>2, <2>3, PageKept, ServeStepPlain
  <1>4. CASE Serve(c, k2, p)
    <2>1. k2 \in Connections /\ k2.pc = "live" /\ k2.wm = k.wm
      BY <1>1, LiveRight
    <2> HIDE DEF k2
    <2>2. Served(c, k2, p, lost, tail)
      BY <1>1, <2>1 DEF Served, Running
    <2> QED BY <1>1, <1>4, <2>2, PageKept, ServeStepPlain
  <1>5. CASE n = k.wm + 1 /\ Serve(c, Live(k3), r)
    <2>1. k3 \in Connections /\ k3.wm = n
      BY <1>1 DEF Connections
    <2> HIDE DEF k3
    <2>2. Live(k3) \in Connections /\ Live(k3).pc = "live" /\ Live(k3).wm = n
      BY <2>1, LiveRight
    <2>3. /\ Paged(r) /\ Showing(c, p, r, lost) /\ r.last <= n
          /\ \A m \in (r.upto + 1 .. n) \cup (r.upto + 1 .. tail) :
                Visible(c, m) => m \in lost
      <3>1. n > k.wm /\ \A m \in k.wm + 1 .. n - 1 : m <= tail
        BY <1>1, <1>5
      <3> QED BY <1>1, <3>1, Delivered DEF Running
    <2>4. Served(c, Live(k3), r, lost, tail)
      BY <2>2, <2>3 DEF Served, Running
    <2> QED BY <1>5, <2>3, <2>4, ServeStepPlain
  <1>6. CASE Serve(c, NoConn, p)
    BY <1>1, <1>6, NoConnServed, PageKept, ServeStepPlain
  <1> QED BY <1>2, <1>3, <1>4, <1>5, <1>6

Gapped(k, n) == [k EXCEPT !.pc = "read", !.hint = n]

LEMMA GappedRight ==
  ASSUME NEW k, NEW n, k \in Connections, n \in Nat
  PROVE  Gapped(k, n) \in Connections /\ Gapped(k, n).pc = "read" /\ Gapped(k, n).wm = k.wm
  BY DEF Gapped, Connections, ConnPCs

\* An event of the hub: known, the next one, or one beyond a gap.
LEMMA LiveEventStep ==
  ASSUME RInv, NEW c \in Clients, LiveEvent(c)
  PROVE  RInv' /\ StepRight
  <1> SUFFICES ASSUME NEW k0, k0 = conn[c], NEW p, p = page[c], NEW n, n = Head(k0.buf),
                      NEW r, r = Received(c, n), NEW lost, lost = raced[c] \cup lagged[c],
                      NEW q, q = Tail(k0.buf)
               PROVE  RInv' /\ StepRight
    OBVIOUS
  <1> DEFINE k == [k0 EXCEPT !.buf = q]
             k1 == [k EXCEPT !.wm = n]
             k2 == Gapped(k, n)
  <1>1. /\ k0 \in Connections /\ k0.wm \in Nat /\ k0.pc = "live" /\ Paged(p)
        /\ Served(c, k0, p, lost, tail) /\ k0.buf \in Seq(Nat) /\ k0.buf # <<>>
    BY ServedFacts DEF LiveEvent
  <1>2. n \in Nat /\ q \in Seq(Nat)
    BY <1>1
  <1>3. k \in Connections /\ k.wm = k0.wm /\ k.pc = "live"
    BY <1>1, <1>2 DEF Connections
  <1>4. \/ Serve(c, k, p)
        \/ n > k.wm /\ n <= k.wm + 1 /\ Serve(c, k1, r)
        \/ Serve(c, k2, p)
    BY DEF LiveEvent, TakeNew, Gapped
  <1> HIDE DEF k
  <1>5. CASE Serve(c, k, p)
    <2>1. Served(c, k, p, lost, tail)
      BY <1>1, <1>3 DEF Served, Running
    <2> QED BY <1>1, <1>5, <2>1, PageKept, ServeStepPlain
  <1>6. CASE n > k.wm /\ n <= k.wm + 1 /\ Serve(c, k1, r)
    <2>1. k1 \in Connections /\ k1.pc = "live" /\ k1.wm = n
      BY <1>2, <1>3 DEF Connections
    <2> HIDE DEF k1
    <2>2. /\ Paged(r) /\ Showing(c, p, r, lost) /\ r.last <= n
          /\ \A m \in (r.upto + 1 .. n) \cup (r.upto + 1 .. tail) :
                Visible(c, m) => m \in lost
      <3>1. n > k0.wm /\ \A m \in k0.wm + 1 .. n - 1 : m <= tail
        BY <1>1, <1>2, <1>3, <1>6
      <3> QED BY <1>1, <1>2, <3>1, Delivered DEF Running
    <2>3. Served(c, k1, r, lost, tail)
      BY <2>1, <2>2 DEF Served, Running
    <2> QED BY <1>6, <2>2, <2>3, ServeStepPlain
  <1>7. CASE Serve(c, k2, p)
    <2>1. k2 \in Connections /\ k2.pc = "read" /\ k2.wm = k0.wm
      BY <1>2, <1>3, GappedRight
    <2> HIDE DEF k2
    <2>2. Served(c, k2, p, lost, tail)
      BY <1>1, <2>1 DEF Served, Running
    <2> QED BY <1>1, <1>7, <2>2, PageKept, ServeStepPlain
  <1> QED BY <1>4, <1>5, <1>6, <1>7

LEMMA ClosedStep ==
  ASSUME RInv, NEW c \in Clients, Closed(c)
  PROVE  RInv' /\ StepRight
  BY ServedFacts, NoConnServed, PageKept, ServeStepPlain DEF Closed

LEMMA DisconnectStep ==
  ASSUME RInv, NEW c \in Clients, Disconnect(c)
  PROVE  RInv' /\ StepRight
  <1>1. /\ conn' = [conn EXCEPT ![c] = NoConn]
        /\ raced' = [raced EXCEPT ![c] = {}] /\ lagged' = [lagged EXCEPT ![c] = {}]
        /\ UNCHANGED <<head, tail, hints, cursor, stream, coord, page>>
    BY DEF Disconnect, journal
  <1>2. NoConn \in Connections
    BY NoConnServed DEF Served
  <1>3. Committed' /\ Streamed' /\ Coordinating' /\ StepRight
    BY <1>1, Untouched DEF RInv, Committed, Streamed, Coordinating
  <1>4. Serving'
    <2>1. /\ conn' \in [Clients -> Connections]
          /\ raced' \in [Clients -> SUBSET Nat] /\ lagged' \in [Clients -> SUBSET Nat]
      BY <1>1, <1>2 DEF RInv, Serving
    <2>2. \A y \in Clients :
             IF y = c THEN conn'[y] = NoConn
             ELSE conn'[y] = conn[y] /\ raced'[y] = raced[y] /\ lagged'[y] = lagged[y]
      BY <1>1 DEF RInv, Serving
    <2>3. \A y \in Clients : Served(y, conn'[y], page[y], raced'[y] \cup lagged'[y], tail)
      BY <2>2, NoConnServed DEF RInv, Serving
    <2> QED BY <1>1, <2>1, <2>3 DEF RInv, Serving
  <1> QED BY <1>3, <1>4 DEF RInv

-----------------------------------------------------------------------------
(* The theorems.                                                           *)

LEMMA RInvInit == Init => RInv
  <1> SUFFICES ASSUME Init PROVE RInv
    OBVIOUS
  <1>1. /\ head = 0 /\ tail = 0 /\ cursor = 0 /\ hints = [g \in Gateways |-> {}]
        /\ stream = [g \in Gateways |-> NoStream]
        /\ coord = [g \in Gateways |-> NewCoordinator]
        /\ conn = [c \in Clients |-> NoConn] /\ page = [c \in Clients |-> NewPage]
        /\ raced = [c \in Clients |-> {}] /\ lagged = [c \in Clients |-> {}]
    BY DEF Init
  <1>2. Committed
    BY <1>1 DEF Committed
  <1>3. Streamed
    BY <1>1, NoStreamRight DEF Streamed
  <1>4. Coordinating
    <2>1. Coordinated(NewCoordinator, head, tail)
      BY <1>1, NewCoordinatorRight
    <2>2. NewCoordinator \in Coordinators
      BY <2>1 DEF Coordinated
    <2> QED BY <1>1, <2>1, <2>2 DEF Coordinating
  <1>5. Serving
    <2>1. NewPage \in Pages /\ Paged(NewPage)
      <3>1. NewPage \in Pages /\ NewPage.cursor = 0 /\ NewPage.upto = 0
        BY DEF NewPage, Pages
      <3> QED BY <3>1 DEF Paged
    <2>2. \A c \in Clients : Served(c, NoConn, NewPage, {} \cup {}, tail)
      BY NoConnServed
    <2>3. NoConn \in Connections
      BY NoConnServed DEF Served
    <2> QED BY <1>1, <2>1, <2>2, <2>3 DEF Serving
  <1> QED BY <1>2, <1>3, <1>4, <1>5 DEF RInv

LEMMA RInvStep ==
  ASSUME RInv, [Next]_vars
  PROVE  RInv' /\ StepRight
  <1>1. CASE UNCHANGED vars
    <2>1. /\ UNCHANGED <<head, tail, hints, cursor, stream, coord, conn, page, raced, lagged>>
      BY <1>1 DEF vars, journal
    <2>2. RInv'
      BY <2>1 DEF RInv, Committed, Streamed, Coordinating, Serving
    <2> QED BY <2>1, <2>2, Untouched
  <1>2. CASE CommitAtWorker
    BY <1>2, CommitStep DEF CommitAtWorker, history
  <1>3. ASSUME NEW n \in Seqs, DeleteJournalBefore(n)
        PROVE  RInv' /\ StepRight
    BY <1>3, DeleteStep
  <1>4. CASE Process
    BY <1>4, ProcessStep
  <1>5. CASE RestartWorker
    BY <1>5, RestartWorkerStep
  <1>6. ASSUME NEW g \in Gateways, CommitAtGateway(g)
        PROVE  RInv' /\ StepRight
    BY <1>6, CommitStep DEF CommitAtGateway, history
  <1>7. ASSUME NEW g \in Gateways, StreamConnect(g) \/ StreamRead(g) \/ StreamEnds(g)
        PROVE  RInv' /\ StepRight
    BY <1>7, StreamConnectStep, StreamReadStep, StreamEndsStep
  <1>8. ASSUME NEW g \in Gateways, Coordinate(g) \/ Reconcile(g) \/ ReconcileFails(g)
        PROVE  RInv' /\ StepRight
    BY <1>8, InitStep, HandleStep, ReconcileMinStep, ReconcileReadStep, ReconcileGoneStep,
       ReconcilePublishStep, ReconcileStep, ReconcileFailsStep DEF Coordinate
  <1>9. ASSUME NEW g \in Gateways, RestartGateway(g)
        PROVE  RInv' /\ StepRight
    BY <1>9, RestartGatewayStep
  <1>10. ASSUME NEW g \in Gateways, NEW n \in Seqs, SubmitHint(g, n)
         PROVE  RInv' /\ StepRight
    BY <1>10, SubmitHintStep
  <1>11. ASSUME NEW c \in Clients, Handler(c)
         PROVE  RInv' /\ StepRight
    BY <1>11, InitialStateStep, CheckMinStep, CheckMaxStep, ReadJournalStep, WriteEntryStep,
       EndOfBatchStep, LiveEventStep, ClosedStep DEF Handler
  <1>12. ASSUME NEW c \in Clients, Disconnect(c)
         PROVE  RInv' /\ StepRight
    BY <1>12, DisconnectStep
  <1>13. ASSUME NEW c \in Clients, NEW g \in Gateways, Connect(c, g)
         PROVE  RInv' /\ StepRight
    BY <1>13, ConnectStep
  <1> QED BY <1>1, <1>2, <1>3, <1>4, <1>5, <1>6, <1>7, <1>8, <1>9, <1>10, <1>11, <1>12, <1>13
          DEF Next

(* Whatever is lost, restarted or reordered on the way, what lies behind a *)
(* handler's watermark has been shown, is hidden, or is on record as       *)
(* deleted, and coordinators are only about to pass over deleted rows.     *)
THEOREM StreamInvariance == Spec => []RInv
  BY RInvInit, RInvStep, PTL DEF Spec

(* A page never runs over an event it was not shown, unless retention      *)
(* deleted it during the connection: over every reconnection, restart,     *)
(* closed channel and drained gap (eventsStreamFiltered, reconcile).       *)
THEOREM PagesMissNothing == Spec => NoSilentGap
  <1>1. ASSUME RInv, [Next]_vars
        PROVE  [\A c \in Clients : Skipped(c) \subseteq raced[c] \cup lagged[c]]_vars
    <2>1. ASSUME NEW c \in Clients, NEW m \in Skipped(c)
          PROVE  m \in raced[c] \cup lagged[c]
      <3>1. /\ page'[c].last # page[c].last
            /\ m \in page[c].upto + 1 .. page'[c].last - 1 /\ Visible(c, m)
        BY <2>1 DEF Skipped
      <3>2. page[c].upto \in Nat
        BY <1>1, ServedFacts
      <3>3. Showing(c, page[c], page'[c], raced[c] \cup lagged[c])
        BY <1>1, RInvStep DEF StepRight
      <3>4. page'[c].last # 0
        BY <3>1, <3>2
      <3> QED BY <3>1, <3>3, <3>4 DEF Showing
    <2> QED BY <2>1
  <1> QED BY <1>1, RInvInit, RInvStep, PTL DEF Spec, NoSilentGap

(* Until a page is loaded anew no event is shown to it twice or out of     *)
(* order, over all its connections (hint.Seq <= watermark, Last-Event-ID). *)
THEOREM PagesShowOnce == Spec => ShownOnce
  <1>1. ASSUME RInv, [Next]_vars
        PROVE  [\A c \in Clients : page'[c].last \notin {page[c].last, 0} =>
                                     page'[c].last > page[c].last]_vars
    BY <1>1, RInvStep DEF StepRight, Showing
  <1> QED BY <1>1, RInvInit, RInvStep, PTL DEF Spec, ShownOnce

(* A coordinator's cursor moves over an event only by publishing it or     *)
(* because retention has deleted it (handle, reconcile).                   *)
THEOREM CoordinatorsPassNothing == Spec => NothingPassedOver
  <1>1. ASSUME RInv, [Next]_vars
        PROVE  [\A g \in Gateways :
                  coord[g].ready /\ coord'[g].ready =>
                    \A m \in coord[g].last + 1 .. coord'[g].last :
                        m <= tail \/ (m = coord'[g].last /\ coord[g].pc # "gone")]_vars
    BY <1>1, RInvStep DEF StepRight, Passing
  <1> QED BY <1>1, RInvInit, RInvStep, PTL DEF Spec, NothingPassedOver
=============================================================================
