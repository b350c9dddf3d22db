---------------------------- MODULE MCPagedReads ----------------------------
(***************************************************************************)
(* Instance of PagedReads for TLC: a read, of either method, over five     *)
(* objects, in pages of two, with up to three changes of the list.         *)
(***************************************************************************)
EXTENDS PagedReads

MCIds == 1..5

\* None, one page cut short, one page, two pages the second of which is cut, all.
MCWanted == {0, 1, 2, 3, 6}
=============================================================================
