------------------------ MODULE WebhookVerification ------------------------
(***************************************************************************)
(* What WebhookListener.verify makes of a request.  A request has its      *)
(* source, the url it was sent to, its body, the time of the clock when it *)
(* is verified, in milliseconds, and fields: for HubSpot its headers, for  *)
(* Stripe the items "name=value" of the Stripe-Signature header, in either *)
(* case in order, as a name may come more than once.                       *)
(*                                                                         *)
(* A timestamp is the text in the field; TimeOf gives its value, in the    *)
(* unit of the source, to those that int() accepts.  A signature is the    *)
(* HMAC of a content under a secret: HMACs of different contents, or under *)
(* different secrets, are taken to be different.                           *)
(***************************************************************************)
EXTENDS Integers, Sequences

CONSTANTS
    Secrets,    \* Secrets[source]: its signing secret
    Tolerance,  \* tolerance_seconds
    TimeOf,     \* the value of the timestamps that are numbers
    NotText,    \* bodies that are not UTF-8
    NotAscii    \* a signature that is not ASCII

ASSUME VerificationAssumption ==
    /\ Tolerance \in Nat
    /\ \A t \in DOMAIN TimeOf : TimeOf[t] \in Int

Schemes == {"stripe", "hubspot"}

\* The fields that a scheme looks at, and its unit of time in milliseconds.
StampField(source) == IF source = "stripe" THEN "t" ELSE "x-hubspot-request-timestamp"
SignatureField(source) == IF source = "stripe" THEN "v1" ELSE "x-hubspot-signature-v3"
Unit(source) == IF source = "stripe" THEN 1000 ELSE 1

Hmac(secret, content) == [secret |-> secret, content |-> content]

\* What the signature of a request with the timestamp t covers.
SignedContent(q, t) ==
    IF q.source = "stripe" THEN <<t, q.body>> ELSE <<"POST", q.url, q.body, t>>

-----------------------------------------------------------------------------
\* Of several fields with one name, dict() keeps the last.
Latest(q, name) ==
    {k \in DOMAIN q.fields :
        /\ q.fields[k].name = name
        /\ \A l \in DOMAIN q.fields : l > k => q.fields[l].name # name}

Has(q, name) == Latest(q, name) # {}

Field(q, name) == q.fields[CHOOSE k \in Latest(q, name) : TRUE].value

Stamp(q)     == Field(q, StampField(q.source))
Signature(q) == Field(q, SignatureField(q.source))

Known(q) == q.source \in DOMAIN Secrets

\* There is a scheme for the source, and the request has the fields of it.
Complete(q) ==
    /\ q.source \in Schemes
    /\ Has(q, StampField(q.source)) /\ Has(q, SignatureField(q.source))

\* int() accepts the timestamp.
Legible(q) == Stamp(q) \in DOMAIN TimeOf

\* How long before the clock the timestamp is, in milliseconds.
Age(q) == q.at - Unit(q.source) * TimeOf[Stamp(q)]

Abs(n) == IF n < 0 THEN -n ELSE n

\* Mutant of InTime: abs is forgotten.
NotOld(q) == Age(q) <= 1000 * Tolerance

InTime(q) == Abs(Age(q)) <= 1000 * Tolerance

\* Stripe's scheme decodes the body, and compare_digest refuses strings that are not ASCII.
Comparable(q) ==
    /\ q.source = "stripe" => q.body \notin NotText
    /\ Signature(q) # NotAscii

Matches(q) == Signature(q) = Hmac(Secrets[q.source], SignedContent(q, Stamp(q)))

\* Verify raises WebhookVerificationError.
Unverified(q) ==
    \/ ~ Complete(q)
    \/ Legible(q) /\ ~ InTime(q)
    \/ Legible(q) /\ InTime(q) /\ Comparable(q) /\ ~ Matches(q)

\* Verify raises another exception.
Unreadable(q) ==
    /\ Complete(q)
    /\ ~ Legible(q) \/ (InTime(q) /\ ~ Comparable(q))

\* What knows_source and verify say of a request.
Outcome(q) ==
    CASE ~ Known(q) -> "unknown"
      [] Known(q) /\ Unverified(q) -> "unverified"
      [] Known(q) /\ Unreadable(q) -> "unreadable"
      [] OTHER -> "verified"

-----------------------------------------------------------------------------
(* The reference: who signed what, and when, whatever way it was checked.  *)

\* A signature that the request carries was made with the secret of the source, for just
\* this request, with a timestamp it carries and that is no more than Tolerance away.
Authentic(q) ==
    /\ q.source \in Schemes \cap DOMAIN Secrets
    /\ \E k, l \in DOMAIN q.fields :
          LET t == q.fields[k].value
              s == q.fields[l].value
          IN  /\ q.fields[k].name = StampField(q.source)
              /\ q.fields[l].name = SignatureField(q.source)
              /\ s = Hmac(Secrets[q.source], SignedContent(q, t))
              /\ t \in DOMAIN TimeOf
              /\ Unit(q.source) * TimeOf[t] \in (q.at - 1000 * Tolerance)..(q.at + 1000 * Tolerance)
=============================================================================
