-------------------------------- MODULE Push --------------------------------
(***************************************************************************)
(* One person's Web Push subscriptions (app/services/push_service.py and   *)
(* routers/push.py): a JSON list under one Redis key that every operation  *)
(* reads, changes and writes back in two commands.  The operators take the *)
(* operation x, a request of one of the person's browsers or the           *)
(* notification at the end of a video job.  All of them run in the event   *)
(* loop of one process (the Dockerfile starts uvicorn without workers).    *)
(***************************************************************************)
EXTENDS Integers, Sequences, SequencesExt, FiniteSets, Lists

CONSTANTS
  Browsers,    \* requests of the person's browsers
  Senders,     \* notifications (in VideoJob: the jobs)
  Endpoints,   \* PushSubscription.endpoint
  MaxSubs      \* _MAX_SUBS_PER_USER

ASSUME PushAssumption ==
  /\ Browsers \cap Senders = {}
  /\ MaxSubs \in Nat \ {0}

VARIABLES
  stored,   \* Redis has the key push_subs:{user_id}, which nothing removes again
  subs,     \* the list under it
  alive,    \* the endpoints the push service knows
  push,     \* the operations under way
  owed,     \* history: the endpoints that were subscribed and not taken off
  raced     \* history: the endpoints that one operation changed while another
            \* one was between its read and its write

pushVars == <<stored, subs, alive, push, owed, raced>>
Operators == Browsers \cup Senders

(* raw: the list read; stale: endpoints still to be deleted *)
Idle == [pc |-> "idle", endpoint |-> "", raw |-> <<>>, stale |-> <<>>]

(* webpush() is called in the event loop and waits for the push service:   *)
(* no other handler or task takes a step before it returns.                *)
Standing == \E x \in Senders : push[x].pc = "call"

PushInit ==
  /\ stored = FALSE /\ subs = <<>>
  /\ alive = Endpoints
  /\ push = [x \in Operators |-> Idle]
  /\ owed = {} /\ raced = {}

Without(list, endpoint) == Kept(list, Endpoints \ {endpoint})

MutantKeepFirst(list, endpoint) ==
  LET all == Append(Without(list, endpoint), endpoint)
  IN  SubSeq(all, 1, IF Len(all) > MaxSubs THEN MaxSubs ELSE Len(all))

(* subs[-_MAX_SUBS_PER_USER:] *)
With(list, endpoint) ==
  LET all == Append(Without(list, endpoint), endpoint)
  IN  SubSeq(all, IF Len(all) > MaxSubs THEN Len(all) - MaxSubs + 1 ELSE 1, Len(all))

-----------------------------------------------------------------------------
Becomes(x, operation) == push' = [push EXCEPT ![x] = operation]
Data == <<stored, subs, alive, owed, raced>>

Read(x, pc, endpoint, stale) ==
  Becomes(x, [pc |-> pc, endpoint |-> endpoint, raw |-> subs, stale |-> stale])

(* What is left of an operation: the endpoints it still has to delete      *)
After(stale) ==
  [Idle EXCEPT !.pc = IF stale = <<>> THEN "idle" ELSE "drop", !.stale = stale]

(* The list is replaced: what it gained or lost since it was read is lost, *)
(* but for the endpoint the operation is about.                            *)
Overwrite(x, list) ==
  LET read == ToSet(push[x].raw)
      now == ToSet(subs)
  IN  /\ stored' = TRUE /\ subs' = list
      /\ raced' = (raced \cup (read \ now) \cup (now \ read)) \ {push[x].endpoint}

Subscribe(x, endpoint) ==
  /\ push[x].pc = "idle" /\ ~Standing
  /\ Read(x, "save", endpoint, <<>>)
  /\ UNCHANGED Data

Save(x) ==
  LET list == With(push[x].raw, push[x].endpoint)
  IN  /\ push[x].pc = "save"
      /\ Overwrite(x, list)
      /\ owed' = (owed \ (ToSet(push[x].raw) \ ToSet(list))) \cup {push[x].endpoint}
      /\ Becomes(x, Idle)
      /\ UNCHANGED alive

(* delete_subscription writes nothing when it finds no key.  An empty list *)
(* is a key, with the text "[]" under it.                                  *)
ReadToDelete(x, endpoint, stale) ==
  /\ \/ stored /\ Read(x, "delete", endpoint, stale)
     \/ ~stored /\ Becomes(x, After(stale))
  /\ UNCHANGED Data

Unsubscribe(x, endpoint) ==
  push[x].pc = "idle" /\ ~Standing /\ ReadToDelete(x, endpoint, <<>>)

Delete(x) ==
  /\ push[x].pc = "delete"
  /\ Overwrite(x, Without(push[x].raw, push[x].endpoint))
  /\ owed' = owed \ {push[x].endpoint}
  /\ Becomes(x, After(push[x].stale))
  /\ UNCHANGED alive

(* send_push_to_user *)
ReadList(x) ==
  /\ push[x].pc = "idle" /\ ~Standing
  /\ Read(x, "send", "", <<>>)
  /\ UNCHANGED Data

Send(x) ==
  /\ push[x].pc = "send"
  /\ Becomes(x, IF push[x].raw = <<>> THEN Idle ELSE [push[x] EXCEPT !.pc = "call"])
  /\ UNCHANGED Data

(* The push services have answered for every endpoint read.  Any of those  *)
(* they have forgotten may have been answered 404 or 410; another error is *)
(* only logged.                                                            *)
Answered(x) ==
  /\ push[x].pc = "call"
  /\ \E gone \in SUBSET (Endpoints \ alive) : Becomes(x, After(Kept(push[x].raw, gone)))
  /\ UNCHANGED Data

DropStale(x) ==
  push[x].pc = "drop" /\ ReadToDelete(x, Head(push[x].stale), Tail(push[x].stale))

(* A Redis command raises: the operation ends there, nothing written *)
PushFails(x) ==
  /\ push[x].pc \in {"save", "delete", "drop"}
  /\ Becomes(x, Idle)
  /\ UNCHANGED Data

(* A browser drops its subscription, and may ask for the same one again    *)
Forget(endpoint) ==
  /\ endpoint \in alive
  /\ alive' = alive \ {endpoint}
  /\ UNCHANGED <<stored, subs, push, owed, raced>>

(* The process dies with every operation in it *)
Die == push' = [x \in Operators |-> Idle] /\ UNCHANGED Data

PushStep(x) ==
  ~Standing /\ (Save(x) \/ Delete(x) \/ Send(x) \/ DropStale(x) \/ PushFails(x))

PushNext ==
  \/ \E x \in Browsers, e \in Endpoints : Subscribe(x, e) \/ Unsubscribe(x, e)
  \/ \E x \in Senders : ReadList(x) \/ Answered(x)
  \/ \E x \in Operators : PushStep(x)
  \/ \E e \in Endpoints : Forget(e)
  \/ Die

PushSpec == PushInit /\ [][PushNext]_pushVars

-----------------------------------------------------------------------------
PushTypeOK ==
  /\ stored \in BOOLEAN /\ subs \in Seq(Endpoints)
  /\ alive \subseteq Endpoints /\ owed \subseteq Endpoints /\ raced \subseteq Endpoints
  /\ \A x \in Operators :
       /\ push[x].pc \in {"idle", "save", "delete", "send", "call", "drop"}
       /\ push[x].raw \in Seq(Endpoints) /\ push[x].stale \in Seq(Endpoints)

(* Whatever overlaps, no device is notified twice for one video and the    *)
(* list never outgrows its limit.                                          *)
OneEntryPerDevice ==
  /\ \A i, j \in DOMAIN subs : subs[i] = subs[j] => i = j
  /\ Len(subs) <= MaxSubs

(* A device that was subscribed stays on the list until it is taken off,   *)
(* goes stale or is pushed out by newer ones, and one that was taken off   *)
(* stays off: only an operation that overwrites what another one changed   *)
(* since it read the list can break that.                                  *)
ListIsWhatWasAsked ==
  \A e \in Endpoints \ raced : e \in ToSet(subs) <=> e \in owed

(* The list of push_service holds the devices it was asked to hold, each   *)
(* once, whatever two calls do to each other.                              *)
DevicesAsAsked == OneEntryPerDevice /\ ListIsWhatWasAsked
=============================================================================
