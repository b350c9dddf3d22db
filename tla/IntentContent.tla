--------------------------- MODULE IntentContent ---------------------------
(***************************************************************************)
(* What write intents say, and what the pipeline makes of it: the field    *)
(* allowlists decide which are allowed, and the idempotency key is derived *)
(* from the role, the operation, the target and the new values, unless the *)
(* agent gave the intent a key of its own.  WritePipeline knows only the   *)
(* outcome, as Allowed and KeyOf.                                          *)
(***************************************************************************)
EXTENDS WritePipeline

CONSTANTS
    Content,          \* Content[i]: role, operation, target, changes and given key
    FieldAllowlists,  \* FieldAllowlists[role]: the fields that may be changed
    NoKey             \* the given key of an intent that was given none

\* Mutant of Violation: it is enough that a field is in the allowlist.
ViolationOfAll(c) ==
    \/ c.role \notin DOMAIN FieldAllowlists
    \/ DOMAIN c.changes \cap FieldAllowlists[c.role] = {}

\* A role without an allowlist, or a field that is not in it.
Violation(c) ==
    \/ c.role \notin DOMAIN FieldAllowlists
    \/ ~ DOMAIN c.changes \subseteq FieldAllowlists[c.role]

NewValues(c) == [f \in DOMAIN c.changes |-> c.changes[f].new]

\* Mutant of DerivedKey: the target is left out.
KeyWithoutTarget(c) == <<c.role, c.operation, NewValues(c)>>

\* The hash of these; different payloads are taken to have different hashes.
DerivedKey(c) == <<c.role, c.operation, c.target, NewValues(c)>>

IdempotencyKey(c) == IF c.key = NoKey THEN DerivedKey(c) ELSE c.key

ASSUME ContentAssumption ==
    /\ Allowed = {i \in Intents : ~ Violation(Content[i])}
    /\ KeyOf = [i \in Intents |-> IdempotencyKey(Content[i])]

\* No agent gives an intent a key that is the hash of another one.
ASSUME GivenKeyAssumption ==
    \A i, j \in Intents : Content[i].key # NoKey => Content[i].key # DerivedKey(Content[j])
-----------------------------------------------------------------------------
(* Properties.                                                             *)

\* The same change, whatever the old values were.
SameWrite(c, d) ==
    /\ c.role = d.role /\ c.operation = d.operation /\ c.target.record = d.target.record
    /\ NewValues(c) = NewValues(d)

\* "Idempotent: an identical write was already applied": an intent that is shown as applied,
\* written or skipped, is matched by a confirmed write of just this change.  An agent that
\* gives its intents keys answers for them itself.
AppliedIsIdentical ==
    \A i \in Intents : status[i] = "applied" /\ Content[i].key = NoKey =>
        \E call \in landed \cap answered : SameWrite(Content[call[2]], Content[i])

\* "A policy only permits fields that are explicitly allowlisted per connector role": no
\* other field of a remote record is ever written, also by an approval.
OnlyAllowlisted ==
    \A call \in inTransit \cup landed :
        LET c == Content[call[2]]
        IN  \A f \in DOMAIN c.changes :
               c.role \in DOMAIN FieldAllowlists /\ f \in FieldAllowlists[c.role]
=============================================================================
