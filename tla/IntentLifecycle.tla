-------------------------- MODULE IntentLifecycle --------------------------
(***************************************************************************)
(* What the write-intent pipeline promises, with the engine, the ledger,   *)
(* the event loop and the HTTP calls left out: an intent is decided once,  *)
(* a decision is final, only an undecided intent is written, the writes of *)
(* one idempotency key reach the remote system at most once, and "applied" *)
(* means that they did.  WritePipeline is the detailed specification; it   *)
(* implements this one when the calls of the API are made one after the    *)
(* other and every answer arrives.                                         *)
(***************************************************************************)
EXTENDS Naturals

CONSTANTS
    Intents,    \* write intents
    KeyOf       \* KeyOf[i]: the idempotency key of intent i

VARIABLES
    status,     \* status of each intent
    writes      \* writes[i]: how often the change of i reached the remote system

vars == <<status, writes>>

\* The statuses from which an intent may still be decided.
Open == {"proposed", "pending"}

SameKey(i) == {j \in Intents : KeyOf[j] = KeyOf[i]}

Init ==
    /\ status = [i \in Intents |-> "proposed"]
    /\ writes = [i \in Intents |-> 0]

\* The change of an undecided intent reaches the remote system: the first of its key.
Write(i) ==
    /\ status[i] \in Open
    /\ \A j \in SameKey(i) : writes[j] = 0
    /\ writes' = [writes EXCEPT ![i] = 1]
    /\ UNCHANGED status

Decide(i, s) ==
    /\ status[i] \in Open
    /\ status' = [status EXCEPT ![i] = s]
    /\ UNCHANGED writes

\* An intent that was not written is queued for a human, rejected, or has failed.
Decline(i) ==
    /\ writes[i] = 0
    /\ \/ status[i] = "proposed" /\ Decide(i, "pending")
       \/ Decide(i, "rejected")
       \/ Decide(i, "failed")

\* An intent is applied only when the change of its key was written.
Apply(i) ==
    /\ \E j \in SameKey(i) : writes[j] = 1
    /\ Decide(i, "applied")

Next == \E i \in Intents : Write(i) \/ Decline(i) \/ Apply(i)

Spec == Init /\ [][Next]_vars
=============================================================================
