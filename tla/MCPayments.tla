------------------------------ MODULE MCPayments ------------------------------
(* Instances of PaymentService for TLC.                                    *)
EXTENDS PaymentService

CONSTANTS o1, o2, r1, r2, a1

Ev(o, l, r, amt, acc, f) == [order |-> o, link |-> l, ref |-> r,
                             amount |-> amt, account |-> acc, fault |-> f]

Paid1 == Ev(o1, "own", r1, "full", a1, "none")

\* One transfer for the order.
OneTransfer == {Paid1}

\* The payloads an order may meet: a second transfer, the first announced
\* without its receiving account, another link, an underpayment, a refusal and
\* the confirmation sample.
Mixed == {Paid1, Ev(o1, "own", r2, "full", a1, "none"),
          Ev(o1, "own", r1, "full", NoAccount, "none"),
          Ev(o1, "other", r1, "full", a1, "none"),
          Ev(o1, "own", r2, "part", a1, "none"),
          Ev(o1, "own", r2, "full", a1, "NON_SUCCESS"),
          Ev(o1, "own", r2, "full", a1, "SAMPLE")}

\* One bank reference claimed for two orders.
Shared == {Paid1, Ev(o2, "own", r1, "full", a1, "none")}
=============================================================================
