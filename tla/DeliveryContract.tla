--------------------------- MODULE DeliveryContract ---------------------------
(***************************************************************************)
(* What the outbox promises the operator: an event is enqueued for a       *)
(* channel once, filed as delivered only after the receiver took it and    *)
(* then for good, and given up only until somebody replays it.  A receiver *)
(* may be given the same event again.                                      *)
(***************************************************************************)
CONSTANTS Deliveries

VARIABLES state,   \* "none", "open", "delivered" or "dead"
          taken    \* the deliveries whose receiver took them at least once

Start == /\ state = [d \in Deliveries |-> "none"]
         /\ taken = {}

\* One event for several channels.
Enqueue(ds) ==
    /\ \A d \in ds : state[d] = "none"
    /\ state' = [d \in Deliveries |-> IF d \in ds THEN "open" ELSE state[d]]
    /\ UNCHANGED taken

Take(d) == /\ state[d] # "none"
           /\ taken' = taken \cup {d}
           /\ UNCHANGED state

Move(d, from, to) == /\ state[d] = from
                     /\ state' = [state EXCEPT ![d] = to]
                     /\ UNCHANGED taken

Deliver(d) == d \in taken /\ Move(d, "open", "delivered")
GiveUp(d)  == Move(d, "open", "dead")
Replay(d)  == Move(d, "dead", "open")

Step == \/ \E ds \in SUBSET Deliveries : Enqueue(ds)
        \/ \E d \in Deliveries : Take(d) \/ Deliver(d) \/ GiveUp(d) \/ Replay(d)

ContractSpec == Start /\ [][Step]_<<state, taken>>
=============================================================================
