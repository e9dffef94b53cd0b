-------------------------------- MODULE Lists --------------------------------
(***************************************************************************)
(* [x for x in list if x in S], which the code keeps writing.  SelectSeq   *)
(* says the same, but as a definition the prover cannot look into.         *)
(***************************************************************************)
EXTENDS Integers, Sequences

Kept(list, S) ==
  LET kept[n \in 0..Len(list)] ==
        IF n = 0 THEN <<>>
        ELSE IF list[n] \in S THEN Append(kept[n - 1], list[n]) ELSE kept[n - 1]
  IN  kept[Len(list)]
=============================================================================
