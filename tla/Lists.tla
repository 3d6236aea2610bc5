-------------------------------- MODULE Lists --------------------------------
(***************************************************************************)
(* Loops over a list, written as recursive functions: the number of        *)
(* elements passed gives what the loop has accumulated by then.            *)
(***************************************************************************)
EXTENDS Naturals, Sequences

\* The elements of list that are in S, in their order: a loop that skips the others.
Kept(list, S) ==
    LET kept[n \in 0 .. Len(list)] ==
            IF n = 0 THEN <<>>
            ELSE IF list[n] \in S THEN Append(kept[n - 1], list[n]) ELSE kept[n - 1]
    IN  kept[Len(list)]

\* sum(values)
Total(values) ==
    LET total[n \in 0 .. Len(values)] ==
            IF n = 0 THEN 0 ELSE total[n - 1] + values[n]
    IN  total[Len(values)]
=============================================================================
