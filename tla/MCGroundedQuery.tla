--------------------------- MODULE MCGroundedQuery ---------------------------
(* A small instance of GroundedQuery for TLC: sources 1 and 2 fill the       *)
(* budget exactly, 2 and 3 exceed it by their separator.                     *)
EXTENDS GroundedQuery

ChunkLengths == <<4, 6, 5, 3>>
=============================================================================
