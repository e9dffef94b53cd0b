----------------------------- MODULE MCLibrary -----------------------------
EXTENDS Library, TLC

CONSTANTS w1, w2, p1, p2, j1, j2, c1, c2

(* Works, photographs and requests are interchangeable. *)
Symmetric == Permutations({w1, w2}) \cup Permutations({p1, p2}) \cup Permutations({j1, j2})
               \cup Permutations({c1, c2})

(* Bound: a behaviour is about pictures or about the thread, since no      *)
(* action reads the variables of both; and a thread that somebody scrolls  *)
(* through has three transactions.                                         *)
OneConcern ==
  /\ jobs = 0 \/ (clock = 0 /\ reader = Closed /\ \A c \in Talkers : talk[c] = Silent)
  /\ clock <= 3 \/ reader = Closed
=============================================================================
