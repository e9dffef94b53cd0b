----------------------------- MODULE RemoteTask -----------------------------
(***************************************************************************)
(* A task that a provider computes on its side while the backend polls it: *)
(* the videos of kie.ai (app/services/video_gen.py) and the pictures of    *)
(* Kling (providers/kling.py).  Time is counted in polling intervals: each *)
(* turn of the polling loop takes at least one and, since its GET may hang *)
(* until its own timeout, perhaps several.                                 *)
(***************************************************************************)
EXTENDS Integers, Sequences

CONSTANTS
  Clients,     \* one call of an adapter each
  KlingCalls,  \* those of them that are Kling's
  Polls        \* video_poll_timeout / video_poll_interval, and Kling's

ASSUME RemoteTaskAssumption == KlingCalls \subseteq Clients /\ Polls \in Nat \ {0}

VARIABLES
  task,     \* the provider's side of a call; "none" before it accepts it
  client,   \* where the adapter stands; "got" and "failed" are its results
  left      \* intervals until the deadline of the polling loop

remoteVars == <<task, client, left>>

(* "empty": reported as a success that names no result                     *)
TaskStates == {"none", "working", "ready", "empty", "broken"}
ClientStates == {"idle", "create", "poll", "fetch", "got", "linked", "failed"}

RemoteInit ==
  /\ task = [c \in Clients |-> "none"]
  /\ client = [c \in Clients |-> "idle"]
  /\ left = [c \in Clients |-> 0]

Move(c, state) == client' = [client EXCEPT ![c] = state]

Call(c) == client[c] = "idle" /\ Move(c, "create") /\ UNCHANGED <<task, left>>

(* createTask / _create: the answer is HTTP 200, code 200 (0), with an id  *)
Create(c) ==
  /\ client[c] = "create"
  /\ task' = [task EXCEPT ![c] = "working"]
  /\ left' = [left EXCEPT ![c] = Polls]
  /\ Move(c, "poll")

(* Any other answer, or none: the task may exist for all that              *)
CreateFails(c) ==
  /\ client[c] = "create"
  /\ \E state \in {"none", "working"} : task' = [task EXCEPT ![c] = state]
  /\ Move(c, "failed")
  /\ UNCHANGED left

(* The provider, which promises nothing about when                         *)
Work(c) ==
  /\ task[c] = "working"
  /\ \E state \in {"ready", "empty", "broken"} : task' = [task EXCEPT ![c] = state]
  /\ UNCHANGED <<client, left>>

(* Operators named Mutant... are plausible mistakes in the definition they *)
(* precede; the specification never uses them.                             *)
MutantDeadlineMoves(c) == left' = [left EXCEPT ![c] = IF @ = 1 THEN Polls ELSE @ - 1]
Elapse(c) == \E rest \in 0..(left[c] - 1) : left' = [left EXCEPT ![c] = rest]

MutantImpatient(c) ==
  /\ client[c] = "poll" /\ left[c] > 0
  /\ Elapse(c)
  /\ Move(c, IF task[c] = "ready" THEN "fetch" ELSE "failed")
  /\ UNCHANGED task

(* One turn of the loop whose GET was answered                             *)
Poll(c) ==
  /\ client[c] = "poll" /\ left[c] > 0
  /\ Elapse(c)
  /\ Move(c, CASE task[c] = "ready" -> "fetch"
               [] task[c] = "working" -> "poll"
               [] OTHER -> "failed")
  /\ UNCHANGED task

(* A turn whose GET failed.  Both adapters go on; only Kling's takes an    *)
(* answer that is not HTTP 200, not JSON or not code 0 for a refusal.      *)
PollMissed(c) ==
  /\ client[c] = "poll" /\ left[c] > 0
  /\ Elapse(c)
  /\ \E state \in {"poll"} \cup (IF c \in KlingCalls THEN {"failed"} ELSE {}) : Move(c, state)
  /\ UNCHANGED task

Deadline(c) ==
  /\ client[c] = "poll" /\ left[c] = 0
  /\ Move(c, "failed")
  /\ UNCHANGED <<task, left>>

Fetch(c) ==
  /\ client[c] = "fetch"
  /\ Move(c, "got")
  /\ UNCHANGED <<task, left>>

(* A video that cannot be downloaded is handed on as the provider's link,  *)
(* which is not kept for ever; a picture is bytes or nothing.              *)
FetchFails(c) ==
  /\ client[c] = "fetch"
  /\ Move(c, IF c \in KlingCalls THEN "failed" ELSE "linked")
  /\ UNCHANGED <<task, left>>

Advance(c) ==
  Create(c) \/ CreateFails(c) \/ Poll(c) \/ PollMissed(c) \/ Deadline(c) \/ Fetch(c) \/ FetchFails(c)

-----------------------------------------------------------------------------
RemoteTypeOK ==
  /\ task \in [Clients -> TaskStates]
  /\ client \in [Clients -> ClientStates]
  /\ left \in [Clients -> 0..Polls]

(* An adapter returns a result only for a task that made one, and a video  *)
(* that is ready is given up in one way only: the loop ran out of time     *)
(* (or the answer to createTask was lost, and nobody knows the task).      *)
ReadyIsFetched ==
  \A c \in Clients :
    /\ client[c] \in {"got", "linked"} => task[c] = "ready"
    /\ client[c] = "failed" /\ task[c] = "ready" /\ c \notin KlingCalls => left[c] = 0
=============================================================================
