------------------------------- MODULE MCControl -------------------------------
(* An instance of WorkerLifecycle, and with it of ProviderConfig and        *)
(* DeploymentGate, for TLC.                                                 *)
EXTENDS WorkerLifecycle

CONSTANTS g1, w1, d1, c1

Draft(client, api, sum, enabled) ==
    [client |-> client, api |-> api, sum |-> sum, enabled |-> enabled]

\* The first keys, the API key inherited, switched off; another checksum key;
\* another client.
MCDrafts == {Draft("c1", Blank, "s1", FALSE), Draft("c1", "k1", "s2", TRUE),
             Draft("c2", "k2", "s3", TRUE)}
MCKeys == [client |-> "c1", api |-> "k1", sum |-> "s1"]

\* The worker reconciles; no gateway cancels here, which is the same operation.
MCDuties == [o \in {g1, w1} |-> IF o = w1 THEN {"reconcile"} ELSE Kinds \ {"reconcile"}]
=============================================================================
