----------------------------- MODULE MCAccounts -----------------------------
EXTENDS Accounts, TLC

CONSTANTS u1, u2, u3, s1, s2, s3, r1, r2

(* Users, session ids and requests are interchangeable. *)
Symmetric == Permutations({u1, u2, u3}) \cup Permutations({s1, s2, s3}) \cup Permutations({r1, r2})
Quiz == answered # {}
NoTokens == \A t \in Tokens : token[t] = "none"

(* Bound: behaviours of four and five events either use tokens or answer   *)
(* the quiz, and those of five answer it and do without Apple.             *)
Focus == events > 3 => /\ Quiz => NoTokens
                       /\ events = 5 => Quiz /\ identity["apple"] = None
=============================================================================
