----------------------------- MODULE MCRankFusion -----------------------------
(* A small instance of RankFusion for TLC.  420 is a multiple of 2 to 7;    *)
(* with rrf_k = 1 rank 1 in one ranking ties with rank 3 in both, with       *)
(* rrf_k = 3 rank 4 is still within rrf_k + 1.                              *)
EXTENDS RankFusion
=============================================================================
