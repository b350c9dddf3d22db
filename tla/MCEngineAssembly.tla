-------------------------- MODULE MCEngineAssembly --------------------------
(***************************************************************************)
(* Instance of EngineAssembly for TLC.  The writer needs a CRM that may be *)
(* written; the analyst, which needs a model, reads both roles; the rival  *)
(* has the task type of the writer and the name of the analyst.            *)
(***************************************************************************)
EXTENDS EngineAssembly, TLC

CONSTANTS
    crm, warehouse,          \* roles
    hubspot, sql,            \* connectors
    writer, analyst, rival,  \* agents
    nudge, evaluate          \* task types

MCDeclared == (hubspot :> {"read", "write"}) @@ (sql :> {"read"})

MCNameOf == [a \in Agents |-> IF a = rival THEN analyst ELSE a]

MCTaskOf == (writer :> nudge) @@ (rival :> nudge) @@ (analyst :> evaluate)

MCRequires ==
    (writer :> (crm :> {"read", "write"})) @@
    (rival :> (crm :> {"read"})) @@
    (analyst :> ((crm :> {"read"}) @@ (warehouse :> {"read"})))
=============================================================================
