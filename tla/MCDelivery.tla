------------------------------ MODULE MCDelivery ------------------------------
(* Instances of DeliveryOutbox for TLC; events and channels are strings.    *)
EXTENDS DeliveryOutbox, TLC

CONSTANTS w1, w2

\* A bound on how much happens at once: a behaviour in which a channel is
\* edited and something fails has one event, not two.
EditsApart ==
    \/ faults' = 0
    \/ Cardinality(emitted') < 2
    \/ \A p \in Endpoints : endpoint'[p].version = NewEndpoint.version

MCNext == Next /\ EditsApart
MCSpec == Init /\ [][MCNext]_vars /\ Fairness
=============================================================================
