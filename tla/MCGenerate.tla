----------------------------- MODULE MCGenerate -----------------------------
(* The generation flow on small instances. *)
EXTENDS Generate, TLC

CONSTANTS editor, drawer, spare

(* openai or kling can do both, pollinations only draws from text *)
ThreeProviders == <<editor, drawer, spare>>
OneProvider == <<editor>>
Abilities == [p \in Providers |-> IF p = drawer THEN {"text_to_image"} ELSE Operations]

Symmetry == Permutations(Requests)
=============================================================================
