-------------------------------- MODULE MCSePay --------------------------------
(* Instances of SePayIngest for TLC, and with them the calls of TextRules, *)
(* which neither read nor change what SePayIngest keeps: a behaviour begins*)
(* with one and ends there, or makes none.                                 *)
EXTENDS SePayIngest, TextRules, TLC

CONSTANTS h1, h2, a1, a2, s1, s2, r1, r2, t1, t2, k1, k2, k3

\* Telegram texts and native bodies: transfer t1 is made at time 2.
Text(ref, amount, account) ==
    [template |-> TRUE, direction |-> "vao", amount |-> amount, dated |-> TRUE,
     ref |-> ref, account |-> account, at |-> 2]

Update(id, msg, edited, text) ==
    [id |-> id, msg |-> msg, edited |-> edited, trusted |-> TRUE, text |-> text]

Plainly == Text(t1, 5, r1)

\* The message; the same under another update id; the same transfer in
\* another message, under an update id used before; an edit of the message;
\* a message of somebody else.  The webhook, sent twice under different ids,
\* and forgeries of it.
MCUpdates == {Update(1, 1, FALSE, Plainly), Update(2, 1, FALSE, Plainly),
              Update(2, 2, FALSE, Plainly), Update(2, 1, TRUE, Text(t1, 7, r1)),
              [Update(3, 3, FALSE, Plainly) EXCEPT !.trusted = FALSE]}
MCHooks   == {[id |-> k1, signed |-> TRUE, text |-> Plainly],
              [id |-> k2, signed |-> TRUE, text |-> Plainly],
              [id |-> k3, signed |-> FALSE, text |-> Plainly],
              [id |-> k3, signed |-> TRUE, text |-> Text(t1, 0, r1)]}

Draft(mode, transport, nativeMode, verified, store, receiver, attest) ==
    [mode |-> mode, transport |-> transport, nativeMode |-> nativeMode,
     verified |-> verified, store |-> store, receiver |-> receiver,
     source |-> receiver, bot |-> TRUE, attest |-> attest, activation |-> None]

Telegram(store, receiver, attest) ==
    Draft("active", "telegram", "observe", FALSE, store, receiver, attest)
Native(verified, store, attest) ==
    Draft("active", "native", "active", verified, store, r1, attest)

\* Back to watching, from a time that the owner names.
Observe == [Telegram(s1, r1, TRUE) EXCEPT !.mode = "observe", !.activation = 1]

MCDrafts == {Observe, Telegram(s1, r1, TRUE), Telegram(s1, r2, TRUE), Telegram(s2, r1, FALSE),
             Native(TRUE, s1, TRUE), Native(FALSE, s1, TRUE)}

MCSwitch == {Telegram(s1, r1, TRUE), Native(TRUE, s1, TRUE)}

Legacy(d, secret, activation, hook) ==
    [config |-> [mode |-> d.mode, transport |-> d.transport, nativeMode |-> d.nativeMode,
                 verified |-> d.verified, store |-> d.store, receiver |-> d.receiver,
                 source |-> d.source, bot |-> d.bot, separated |-> TRUE,
                 secret |-> secret, activation |-> activation, saved |-> 0],
     webhook |-> hook]

Disabled == [Telegram(s1, r1, TRUE) EXCEPT !.mode = "disabled"]

\* A file that activates Telegram or native at time 1, one that will activate
\* native at time 3, and no file.
MCLegacies == {Legacy(Telegram(s1, r1, TRUE), "file", 1, "file"),
               Legacy(Native(TRUE, s1, TRUE), "file", 1, "file"),
               Legacy(Native(TRUE, s1, TRUE), "file", 3, None),
               Legacy(Disabled, None, 0, None),
               Legacy(Disabled, None, 0, Foreign)}

MCDigits  == [c \in {"0", "1", "9"} |-> CASE c = "0" -> 0 [] c = "1" -> 1 [] OTHER -> 9]
\* Amounts of up to four groups in detail, and roughly those of all sizes.
MCSpokenGroups == {[0..3 -> {0, 1, 5, 10, 15, 41, 105, 550}], [0..6 -> {0, 1, 20}]}

MCMoments == [sec: 0..1, tenth: {0, 1, 2, 9}, hundredth: {0, 1, 2, 9}]

\* Rows of the same moment, and rows of two.  Reviews of both transports, 1
\* (native) and 2 (telegram) in the order of their names: the moment, the
\* transport, the id at the source.
MCRows == [
    ListSePayReviews   |-> [key: {<<1, 1, 1>>, <<1, 2, 1>>, <<1, 1, 2>>, <<1, 2, 2>>, <<2, 1, 1>>}],
    ListAuditLogsPage  |-> [key: {<<1, 1>>, <<1, 2>>, <<2, 1>>, <<2, 2>>}],
    ListDeliveriesPage |-> [key: {<<1, 1>>, <<1, 2>>, <<2, 1>>}],
    ListPaymentReviews |-> [key: {<<1, 1>>, <<1, 2>>, <<2, 1>>}, processed: BOOLEAN],
    ListPaymentOrders  |-> [key: {<<1, 1>>, <<1, 2>>, <<2, 1>>}, status: {"PENDING", "PAID"}],
    ListTransactionsFiltered |->
        {[key |-> <<1, 1>>, day |-> 1, credit |-> TRUE],  [key |-> <<1, 2>>, day |-> 0, credit |-> TRUE],
         [key |-> <<2, 1>>, day |-> 1, credit |-> FALSE], [key |-> <<2, 2>>, day |-> 2, credit |-> TRUE]}]

MCInit == Init /\ call = NoCall
MCNext == \/ call = NoCall /\ Next /\ UNCHANGED call
          \/ Init /\ webhook = Foreign /\ Call /\ UNCHANGED vars
MCSpec == MCInit /\ [][MCNext]_<<vars, call>>

\* Owners, and the two deliveries of the webhook.
Symmetry == Permutations(Admins) \cup Permutations({k1, k2})
=============================================================================
