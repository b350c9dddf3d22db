-------------------------- MODULE MCWebhookService --------------------------
(***************************************************************************)
(* Instance of WebhookService for TLC: a HubSpot body with three events,   *)
(* the second without a binding, delivered twice, and a Stripe event that  *)
(* has none.  The runs r3 and r4 are those of the second attempt; they     *)
(* propose the changes of r1 and r2 again.  r5 is a run of the task        *)
(* endpoint.                                                               *)
(***************************************************************************)
EXTENDS WebhookService, TLC

CONSTANTS
    closed, invoice,        \* deliveries, and the bodies they have
    altered, binary, cut,   \* bodies others made of them: changed, not UTF-8, not JSON
    hook, elsewhere,        \* urls
    hubspotKey, stripeKey, otherKey,
    noon, soon, night, garbled,   \* timestamps
    r1, r2, r3, r4, r5, c1, c2,
    auto, autoAgain, human, humanAgain,
    KAuto, KHuman

MCSecrets ==
    ("hubspot" :> hubspotKey) @@ ("stripe" :> stripeKey) @@ ("zendesk" :> otherKey)

\* HubSpot's timestamps are milliseconds, Stripe's are seconds.
MCTimeOf == (noon :> 10000) @@ (soon :> 10) @@ (night :> 90000)

MCEventsOf ==
    (<<"hubspot", closed>> :> <<"deal.closed", "deal.noted", "deal.closed">>) @@
    (<<"hubspot", altered>> :> <<"deal.closed", "deal.noted", "deal.closed">>) @@
    (<<"stripe", invoice>> :> <<"invoice.paid">>)

MCBindings == {<<"hubspot", "deal.closed">>}

Pair(name, value) == [name |-> name, value |-> value]

\* A HubSpot request at some time, signed with the timestamp t for body at url with key.
Hub(at, body, t, key, url, signedBody) ==
    [source |-> "hubspot", url |-> hook, body |-> body, at |-> at, fields |->
        <<Pair("x-hubspot-request-timestamp", t),
          Pair("x-hubspot-signature-v3", Hmac(key, <<"POST", url, signedBody, t>>))>>]

Stripe(body, fields) ==
    [source |-> "stripe", url |-> hook, body |-> body, at |-> 10500, fields |-> fields]

V1(key, body, t) == Pair("v1", Hmac(key, <<t, body>>))

\* The tolerance is one second: the first is on its edge, or was tampered with.
First ==
    {Hub(11000, closed, noon, hubspotKey, hook, closed),
     Hub(10000, altered, noon, hubspotKey, hook, closed),
     Hub(10000, closed, garbled, hubspotKey, hook, closed)}

\* Delivered again, replayed too late, signed ahead of the time or for another endpoint; or
\* genuine, but cut off.
Second ==
    {Hub(9000, closed, noon, hubspotKey, hook, closed),
     Hub(11001, closed, noon, hubspotKey, hook, closed),
     Hub(10000, closed, night, hubspotKey, hook, closed),
     Hub(10000, closed, noon, hubspotKey, elsewhere, closed),
     Hub(10000, cut, noon, hubspotKey, hook, cut)}

\* While its secret is rotated Stripe signs with both.  Only the last counts.
Third ==
    {Stripe(invoice, <<Pair("t", soon), V1(otherKey, invoice, soon), V1(stripeKey, invoice, soon)>>),
     Stripe(invoice, <<Pair("t", soon), V1(stripeKey, invoice, soon), V1(otherKey, invoice, soon)>>),
     Stripe(binary, <<Pair("t", soon), Pair("v1", NotAscii)>>),
     Stripe(invoice, <<Pair("t", soon)>>),
     [source |-> "zendesk", url |-> hook, body |-> invoice, at |-> 10500, fields |-> <<>>],
     [source |-> "nobody", url |-> hook, body |-> invoice, at |-> 10500, fields |-> <<>>]}

MCAttempts == {<<closed, 1>>, <<closed, 2>>, <<invoice, 1>>}

MCIncoming == (<<closed, 1>> :> First) @@ (<<closed, 2>> :> Second) @@ (<<invoice, 1>> :> Third)

MCRunsOf ==
    (<<closed, 1>> :> ((1 :> r1) @@ (3 :> r2))) @@
    (<<closed, 2>> :> ((1 :> r3) @@ (3 :> r4))) @@
    (<<invoice, 1>> :> <<>>)

MCProposals ==
    (r1 :> <<human>>) @@ (r2 :> <<auto>>) @@ (r3 :> <<humanAgain>>) @@ (r4 :> <<autoAgain>>)
    @@ (r5 :> <<>>)

MCKeyOf == [i \in Intents |-> IF i \in {auto, autoAgain} THEN KAuto ELSE KHuman]

MCVerdict == [i \in Intents |-> IF i \in {auto, autoAgain} THEN "yes" ELSE "no"]
=============================================================================
