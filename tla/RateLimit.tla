----------------------------- MODULE RateLimit -----------------------------
(***************************************************************************)
(* The fixed-window rate limiter (app/core/rate_limit.py) for one key.  A  *)
(* hit is two Redis commands, INCR and, on the first hit of a window,      *)
(* EXPIRE: each is atomic, other hits run between them, and the process    *)
(* may die between them.                                                   *)
(***************************************************************************)
EXTENDS Integers

CONSTANTS
  Hitters,      \* requests that may be inside hit() together
  Limit,        \* the `limit` argument
  Window,       \* the `window_seconds` argument, in ticks
  MaxTime,      \* bound: the last tick
  MaxCount      \* bound: hits counted in one life of the key

ASSUME RateLimitAssumption ==
  /\ Limit \in Nat /\ Window \in Nat \ {0}
  /\ MaxTime \in Nat /\ MaxCount \in Nat \ {0}

Forever == -1     \* the TTL of a key EXPIRE was not called on

VARIABLES
  now,
  count,      \* ratelimit:{key}; 0 when the key does not exist
  expiry,     \* the tick at which Redis removes the key
  opening,    \* the hitters whose INCR returned 1 and whose EXPIRE is due
  lost,       \* history: the hitters that were lost before they set the expiry
  admitted    \* history: how many hits were allowed before each tick

limiterVars == <<now, count, expiry, opening, lost, admitted>>

Ticks == 0..MaxTime
Times == 0..(MaxTime + 1)

LimiterInit ==
  /\ now = 0
  /\ count = 0
  /\ expiry = Forever
  /\ opening = {}
  /\ lost = {}
  /\ admitted = [t \in Times |-> 0]

(* Operators named Mutant... are plausible mistakes in the definition they *)
(* precede; the specification never uses them.                             *)
MutantStartsOnRefusal(current) == current = Limit + 1
StartsWindow(current) == current = 1

MutantOneTooMany(current) == current <= Limit + 1
Allowed(current) == current <= Limit

(* INCR; a hit that does not open a window has nothing more to do *)
Incr(h) ==
  /\ h \notin opening /\ count < MaxCount
  /\ count' = count + 1
  /\ opening' = IF StartsWindow(count') THEN opening \cup {h} ELSE opening
  /\ admitted' = [t \in Times |->
       IF t > now /\ Allowed(count') THEN admitted[t] + 1 ELSE admitted[t]]
  /\ UNCHANGED <<now, expiry, lost>>

(* EXPIRE; on a key that does not exist it does nothing *)
SetExpiry(h) ==
  /\ h \in opening
  /\ opening' = opening \ {h}
  /\ expiry' = IF count > 0 THEN now + Window ELSE Forever
  /\ UNCHANGED <<now, count, lost, admitted>>

(* The connection or the process is lost between the two commands *)
Lose(h) ==
  /\ h \in opening
  /\ opening' = opening \ {h}
  /\ lost' = lost \cup {h}
  /\ UNCHANGED <<now, count, expiry, admitted>>

Tick ==
  /\ now < MaxTime
  /\ now' = now + 1
  /\ IF expiry = now'
     THEN count' = 0 /\ expiry' = Forever
     ELSE UNCHANGED <<count, expiry>>
  /\ UNCHANGED <<opening, lost, admitted>>

LimiterNext == Tick \/ \E h \in Hitters : Incr(h) \/ SetExpiry(h) \/ Lose(h)
LimiterSpec == LimiterInit /\ [][LimiterNext]_limiterVars

-----------------------------------------------------------------------------
(* Every variable holds a value of its kind; a key never outlives its      *)
(* window (the second argument of EXPIRE, rate_limit.py).                  *)
LimiterTypeOK ==
  /\ now \in Ticks /\ count \in 0..MaxCount
  /\ expiry \in {Forever} \cup (now + 1)..(now + Window)
  /\ opening \subseteq Hitters /\ lost \subseteq Hitters
  /\ admitted \in [Times -> Nat]

(* The window "starts on the first hit and expires after window_seconds":  *)
(* a counted key has its expiry, or a hit that is just about to set it.    *)
(* Only the loss of that very hit, between its two commands, leaves a key  *)
(* that refuses its user for ever.                                         *)
WindowEnds == count > 0 => expiry # Forever \/ opening # {} \/ lost # {}

(* What a fixed window guarantees whatever the interleaving and wherever   *)
(* its boundary falls: no interval as long as the window, even one that    *)
(* straddles two windows, admits more than twice the limit.                *)
TwicePerWindow ==
  \A t, u \in Times :
    t <= u /\ u - t <= Window => admitted[u] - admitted[t] <= 2 * Limit
=============================================================================
