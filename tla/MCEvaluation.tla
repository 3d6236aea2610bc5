----------------------------- MODULE MCEvaluation -----------------------------
(* A small instance of Evaluation for TLC: two chunks of one document and one *)
(* of each of two others, and two cases.                                      *)
EXTENDS Evaluation

SourceNames == [c \in Chunks |-> IF c = 4 THEN "b" ELSE IF c = 3 THEN "c" ELSE "a"]

\* A question with two sources, and one that must be refused.
Dataset == <<[expected |-> {"a", "b"}, forbidden |-> {"c"}, shouldAnswer |-> TRUE],
             [expected |-> {}, forbidden |-> {"a"}, shouldAnswer |-> FALSE]>>
=============================================================================
