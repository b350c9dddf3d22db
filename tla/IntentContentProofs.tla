------------------------ MODULE IntentContentProofs ------------------------
(***************************************************************************)
(* What the gates and the idempotency keys of the pipeline mean for the    *)
(* content of the intents, for any intents and allowlists.                 *)
(***************************************************************************)
EXTENDS IntentContent, WritePipelineProofs

\* Intents with one derived key make the same change.
LEMMA SameKeySameWrite ==
    ASSUME NEW i \in Intents, NEW j \in Intents, Content[i].key = NoKey, KeyOf[j] = KeyOf[i]
    PROVE  SameWrite(Content[j], Content[i])
<1>1. KeyOf[i] = DerivedKey(Content[i])
  BY ContentAssumption DEF IdempotencyKey
<1>2. KeyOf[j] = DerivedKey(Content[j])
  BY <1>1, ContentAssumption, GivenKeyAssumption DEF IdempotencyKey
<1>3. <<Content[j].role, Content[j].operation, Content[j].target, NewValues(Content[j])>>
        = <<Content[i].role, Content[i].operation, Content[i].target, NewValues(Content[i])>>
  BY <1>1, <1>2 DEF DerivedKey
<1>4. /\ Content[j].role = Content[i].role /\ Content[j].operation = Content[i].operation
      /\ Content[j].target = Content[i].target
      /\ NewValues(Content[j]) = NewValues(Content[i])
  BY <1>3
<1>. QED BY <1>4 DEF SameWrite

\* What is shown as applied has been written to the remote system by a confirmed call with
\* just this content, also where _apply_intent has skipped the write as a duplicate.
THEOREM AppliedHasItsWrite == Spec => []AppliedIsIdentical
<1>1. TypeOK /\ AppliedIsBacked => AppliedIsIdentical
  <2> SUFFICES ASSUME TypeOK, AppliedIsBacked,
                      NEW i \in Intents, status[i] = "applied", Content[i].key = NoKey
               PROVE  \E call \in landed \cap answered : SameWrite(Content[call[2]], Content[i])
    BY DEF AppliedIsIdentical
  <2>1. PICK call \in landed \cap answered : KeyOf[call[2]] = KeyOf[i]
    BY DEF AppliedIsBacked
  <2>2. call[2] \in Intents
    BY <2>1 DEF TypeOK, Calls
  <2>. QED BY <2>1, <2>2, SameKeySameWrite
<1>. QED BY <1>1, TypeCorrect, AppliedIsNeverAGuess, PTL

\* No field outside the allowlist of its role is ever sent, by a run or by an approval.
THEOREM FieldsAreAllowlisted == Spec => []OnlyAllowlisted
<1>1. TypeOK /\ GatedWrites => OnlyAllowlisted
  <2> SUFFICES ASSUME TypeOK, GatedWrites, NEW call \in inTransit \cup landed,
                      NEW f \in DOMAIN Content[call[2]].changes
               PROVE  /\ Content[call[2]].role \in DOMAIN FieldAllowlists
                      /\ f \in FieldAllowlists[Content[call[2]].role]
    BY DEF OnlyAllowlisted
  <2>1. call[2] \in Allowed
    BY DEF GatedWrites, Gated
  <2>2. ~ Violation(Content[call[2]])
    BY <2>1, ContentAssumption
  <2>. QED BY <2>2 DEF Violation
<1>. QED BY <1>1, TypeCorrect, WritesAreGated, PTL
=============================================================================
