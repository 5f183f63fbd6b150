----------------------------- MODULE PaymentLedger -----------------------------
(***************************************************************************)
(* What the payOS integration promises, without leases, reconciliation or  *)
(* processes: a transfer is booked at most once, for its own order, and a  *)
(* callback is answered only when its money is booked or its payload is    *)
(* kept.  Nothing booked or kept is ever taken back.                       *)
(***************************************************************************)
CONSTANTS Orders, Refs, NoRef, Transfers, Callbacks, Samples

VARIABLES received,    \* transfers the provider received
          booked,      \* the reference booked for each order, or NoRef
          held,        \* callbacks kept for confirmation or review
          resolved,    \* held callbacks whose money is booked
          answered     \* callbacks answered with success

ledgerVars == <<received, booked, held, resolved, answered>>

LedgerInit == /\ received = {}
              /\ booked = [o \in Orders |-> NoRef]
              /\ held = {} /\ resolved = {} /\ answered = {}

Receive(t) == /\ received' = received \cup {t}
              /\ UNCHANGED <<booked, held, resolved, answered>>

\* The only financial step.  It may answer the callback that brought the
\* evidence, or resolve the held callback that it consumes.
Book(t) ==
    /\ t \in received
    /\ booked[t.order] = NoRef
    /\ \A o \in Orders : booked[o] # t.ref
    /\ booked' = [booked EXCEPT ![t.order] = t.ref]
    /\ answered' \in {answered, answered \cup {t}}
    /\ resolved' \in {resolved, resolved \cup (held \cap {t})}
    /\ UNCHANGED <<received, held>>

\* A callback whose money is booked is only answered, or its row resolved.
Confirm(c) ==
    /\ booked[c.order] = c.ref
    /\ answered' \in {answered, answered \cup {c}}
    /\ resolved' \in {resolved, resolved \cup (held \cap {c})}
    /\ UNCHANGED <<received, booked, held>>

\* Any other callback is kept, and answered because it is kept.
Hold(c) == /\ held' = held \cup {c}
           /\ answered' = answered \cup {c}
           /\ UNCHANGED <<received, booked, resolved>>

AnswerSample(c) == /\ answered' = answered \cup {c}
                   /\ UNCHANGED <<received, booked, held, resolved>>

LedgerNext == \/ \E t \in Transfers : Receive(t) \/ Book(t)
              \/ \E c \in Callbacks : Confirm(c) \/ Hold(c)
              \/ \E c \in Samples : AnswerSample(c)

LedgerSpec == LedgerInit /\ [][LedgerNext]_ledgerVars
=============================================================================
