-------------------------- MODULE MCWritePipeline --------------------------
(***************************************************************************)
(* Instances of WritePipeline for TLC, with the content of the intents.    *)
(* By what happens to them:                                                *)
(*   refused  changes a field that is not in the allowlist                 *)
(*   human    auto_approve leaves it to a human                            *)
(*   auto     auto_approve accepts it; the change of human at another deal *)
(*   extra    one too many in its run, for MaxWrites = 2; creates a deal   *)
(*   copy, again   the change of human once more (the same key), accepted  *)
(*   broken   auto_approve raises on it; its agent gave it a key           *)
(*   behind   comes after broken                                           *)
(*   stuck    left to a human, but its role cannot be written              *)
(***************************************************************************)
EXTENDS IntentContent, TLC

CONSTANTS
    r1, r2, r3, c1, c2,
    refused, human, auto, extra, copy, again, broken, behind, stuck,
    ticket   \* a key given by an agent

\* r1 meets every branch of the policy, r2 ends in the exception of auto_approve, r3 is
\* what the redelivery of a webhook starts.
MixedProposals ==
    (r1 :> <<refused, human, auto, extra>>) @@ (r2 :> <<stuck, broken, behind>>) @@ (r3 :> <<copy, again>>)

\* The same with less to do.
SettlingProposals == (r1 :> <<human, auto>>) @@ (r2 :> <<stuck, copy, broken>>)

\* Two runs with the same change.
TwinProposals == (r1 :> <<human, auto>>) @@ (r2 :> <<copy>>)

Intent(role, operation, deal, changes, key) ==
    [role |-> role, operation |-> operation, target |-> [record |-> deal, url |-> "none"],
     changes |-> changes, key |-> key]

Close(old) == "stage" :> [old |-> old, new |-> "won"]

MCContent == [i \in Intents |->
    CASE i = refused -> Intent("crm", "update", "D-1",
                               Close("open") @@ ("owner" :> [old |-> "Ann", new |-> "Bob"]), NoKey)
      [] i = human   -> Intent("crm", "update", "D-1", Close("open"), NoKey)
      [] i = auto    -> Intent("crm", "update", "D-2", Close("open"), NoKey)
      [] i = extra   -> Intent("crm", "create", "D-1", Close("open"), NoKey)
      [] i \in {copy, again} -> Intent("crm", "update", "D-1", Close("won"), NoKey)
      [] i = broken  -> Intent("crm", "update", "D-1", Close("lost"), ticket)
      [] i = behind  -> Intent("crm", "update", "D-2", Close("lost"), ticket)
      [] i = stuck   -> Intent("billing", "update", "D-1", Close("open"), NoKey)]

MCAllowlists == ("crm" :> {"stage", "amount"}) @@ ("billing" :> {"stage"})

MCAllowed == {i \in Intents : ~ Violation(Content[i])}

MCKeyOf == [i \in Intents |-> IdempotencyKey(Content[i])]

MCKeys == {IdempotencyKey(Content[i]) : i \in Intents}

MCWritable == {i \in Intents : Content[i].role = "crm"}

MCVerdict == [i \in Intents |->
    CASE i \in {human, stuck} -> "no"
      [] i = broken -> "raises"
      [] OTHER -> "yes"]

\* auto_approve is None.
HumanVerdict == [i \in Intents |-> "no"]

ApprovalSymmetry == Permutations(Approvals)
=============================================================================
