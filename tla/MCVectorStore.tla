--------------------------- MODULE MCVectorStore ---------------------------
(***************************************************************************)
(* Instance of VectorStore for TLC: three upserts of two ids, the second   *)
(* of which has the same id twice, and two searches, one with a filter.    *)
(***************************************************************************)
EXTENDS VectorStore, TLC

CONSTANTS
    u1, u2, u3, s1, s2,
    a1, a2, a3, b1, b2, b3,   \* documents: versions of a and b
    A, B,                     \* their ids
    near, far                 \* texts

MCBatch == (u1 :> <<a1, b1>>) @@ (u2 :> <<b2, a2, b3>>) @@ (u3 :> <<a3>>)

MCIdOf == [d \in Documents |-> IF d \in {a1, a2, a3} THEN A ELSE B]

MCTextOf == [d \in Documents |-> IF d \in {a1, a2, b3} THEN near ELSE far]

\* s1 has no filter, s2 one that most versions of b satisfy.
MCMatching == (s1 :> Documents) @@ (s2 :> {a3, b1, b2})

MCScore == [s \in Searches |-> (near :> 2) @@ (far :> 1)]

MCK == (s1 :> 2) @@ (s2 :> 1)
=============================================================================
