-------------------------------- MODULE Chat --------------------------------
(***************************************************************************)
(* The one thread of one person: routers/chat.py, repositories/chat.py and *)
(* the history that services/gpt.py passes on.  created_at is now(), the   *)
(* start of the transaction, and not the moment a row becomes visible: a   *)
(* turn waits for the model, and a picture for its provider, between the   *)
(* two.  A reader pages backwards with created_at as the cursor.           *)
(***************************************************************************)
EXTENDS Integers, Sequences, FiniteSets, SequencesExt, FiniteSetsExt

CONSTANTS
  Talkers,   \* requests of the thread in flight
  Window,    \* chat_context_messages
  Kept,      \* the messages chat_reply passes on
  PageSize,  \* limit of GET /api/chat/messages
  MaxClock   \* bound: transactions of one behaviour

ASSUME ChatAssumption ==
  /\ Window \in Nat \ {0} /\ Kept \in Nat \ {0} /\ PageSize \in Nat \ {0} /\ MaxClock \in Nat

VARIABLES
  thread,     \* chat_messages: the committed rows
  marker,     \* users.chat_context_started_at, 0 for NULL
  clock,      \* now() of the latest transaction
  lastId,     \* the sequence of chat_messages.id
  talk,       \* requests
  reader,     \* a client scrolling back
  forgotten   \* history: ids that were committed when a Clear, committed
              \* since, began

thread_ == <<thread, marker, clock, lastId>>
chatVars == <<thread_, talk, reader, forgotten>>

Silent == [pc |-> "idle", kind |-> "none", since |-> 0, at |-> 0, context |-> <<>>,
           rows |-> {}, past |-> {}]
Closed == [pc |-> "closed", before |-> 0, seen |-> {}, first |-> {}, cuts |-> {}]

ChatInit ==
  /\ thread = {} /\ marker = 0 /\ clock = 0 /\ lastId = 0
  /\ talk = [c \in Talkers |-> Silent]
  /\ reader = Closed
  /\ forgotten = {}

(* ORDER BY created_at DESC, id DESC *)
Later(a, b) == a.at > b.at \/ (a.at = b.at /\ a.id > b.id)
Newest(rows, n) ==
  [i \in 1..Min({n, Cardinality(rows)}) |->
     CHOOSE m \in rows : Cardinality({x \in rows : Later(x, m)}) = i - 1]

(* context_messages: the limit counts rows without words, too *)
Spoken(m) == m.role # "picture"
Stored(since) ==
  {m \in ToSet(Newest({x \in thread : x.at >= since}, Window)) : Spoken(m)}

(* Oldest first; chat_reply passes on the end of it *)
Told(stored) == Reverse(Newest(stored, Kept))

Tick == clock < MaxClock /\ clock' = clock + 1
Say(c, t) == talk' = [talk EXCEPT ![c] = t]

-----------------------------------------------------------------------------
(* A request begins with its context: for a turn, a detached user row      *)
Arrive(c, kind) ==
  /\ talk[c].pc = "idle"
  /\ Say(c, [Silent EXCEPT !.pc = "arrived", !.kind = kind, !.since = marker, !.past = forgotten])
  /\ UNCHANGED <<thread_, reader, forgotten>>

(* POST /chat: the history is read, and the model is asked *)
Ask(c) ==
  /\ talk[c].pc = "arrived" /\ talk[c].kind = "turn" /\ Tick
  /\ Say(c, [talk[c] EXCEPT !.pc = "question", !.at = clock', !.context = Told(Stored(talk[c].since))])
  /\ UNCHANGED <<thread, marker, lastId, reader, forgotten>>

(* POST /generate: the transaction that will store a picture's message     *)
Draw(c) ==
  /\ talk[c].pc = "arrived" /\ talk[c].kind = "picture" /\ Tick
  /\ Say(c, [talk[c] EXCEPT !.pc = "picture", !.at = clock'])
  /\ UNCHANGED <<thread, marker, lastId, reader, forgotten>>

(* add_message *)
AddMessage(c) ==
  LET t == talk[c]
      row == [id |-> lastId + 1, at |-> t.at, role |-> t.pc]
  IN  /\ t.pc \in {"question", "answer", "picture"}
      /\ lastId' = lastId + 1
      /\ Say(c, [t EXCEPT !.rows = @ \cup {row}, !.pc = IF t.pc = "question" THEN "answer" ELSE "commit"])
      /\ UNCHANGED <<thread, marker, clock, reader, forgotten>>

(* POST /chat/clear: the UPDATE; a second one waits for the row *)
Clear(c) ==
  /\ talk[c].pc = "arrived" /\ talk[c].kind = "clear" /\ Tick
  /\ \A d \in Talkers : ~(talk[d].kind = "clear" /\ talk[d].pc = "commit")
  /\ Say(c, [talk[c] EXCEPT !.pc = "commit", !.at = clock', !.past = {m.id : m \in thread}])
  /\ UNCHANGED <<thread, marker, lastId, reader, forgotten>>

MutantDetached(t) == marker
Marked(t) == IF t.kind = "clear" THEN t.at ELSE marker

CommitTalk(c) ==
  LET t == talk[c]
  IN  /\ t.pc = "commit"
      /\ thread' = thread \cup t.rows
      /\ marker' = Marked(t)
      /\ forgotten' = IF t.kind = "clear" THEN forgotten \cup t.past ELSE forgotten
      /\ Say(c, Silent)
      /\ UNCHANGED <<clock, lastId, reader>>

AbortTalk(c) ==
  /\ talk[c].pc \in {"question", "answer", "picture", "commit"}
  /\ Say(c, Silent)
  /\ UNCHANGED <<thread_, reader, forgotten>>

-----------------------------------------------------------------------------
(* GET /chat/messages, page after page, with the last row's created_at     *)
Open == [Closed EXCEPT !.pc = "open", !.before = MaxClock + 1, !.first = {m.id : m \in thread}]

MutantWholeSeconds(m, before) == m.at < before - 1
Earlier(m, before) == m.at < before

ReadPage ==
  LET old == IF reader.pc = "open" THEN reader ELSE Open
      page == Newest({m \in thread : Earlier(m, old.before)}, PageSize)
      cursor == page[Len(page)].at
  IN  /\ reader.pc # "end"
      /\ reader' = IF Len(page) < PageSize
                   THEN [old EXCEPT !.pc = "end", !.seen = @ \cup {m.id : m \in ToSet(page)}]
                   ELSE [old EXCEPT !.seen = @ \cup {m.id : m \in ToSet(page)},
                                    !.before = cursor, !.cuts = @ \cup {cursor}]
      /\ UNCHANGED <<thread_, talk, forgotten>>

ChatNext ==
  \/ \E c \in Talkers :
       \/ \E kind \in {"turn", "picture", "clear"} : Arrive(c, kind)
       \/ Ask(c) \/ Draw(c) \/ AddMessage(c) \/ Clear(c) \/ CommitTalk(c) \/ AbortTalk(c)
  \/ ReadPage

-----------------------------------------------------------------------------
Message == [id : 1..lastId, at : 1..clock, role : {"question", "answer", "picture"}]
ChatTypeOK ==
  /\ thread \subseteq Message /\ marker \in 0..clock /\ clock \in 0..MaxClock
  /\ \A a, b \in thread : a.id = b.id => a = b
  /\ \A c \in Talkers : talk[c].rows \subseteq Message /\ Len(talk[c].context) <= Kept

(* "Clear ... the model forgets": a turn that begins after Clear answered  *)
(* is not told anything that was in the thread when Clear was pressed.     *)
ForgetsOnClear ==
  \A c \in Talkers : talk[c].kind = "turn" =>
    \A i \in DOMAIN talk[c].context : talk[c].context[i].id \notin talk[c].past

(* The model is told whole turns, oldest first, however turns overlap: an  *)
(* answer follows its question, and only a picture's row in the window     *)
(* leaves an answer without one.                                           *)
WholeTurns ==
  \A c \in Talkers :
    LET told == talk[c].context
        pictured == \E m \in thread : m.role = "picture"
    IN  \A i \in DOMAIN told : told[i].role = "answer" =>
          \/ i > 1 /\ told[i - 1].role = "question" /\ told[i - 1].at = told[i].at
          \/ i = 1 /\ pictured

(* "scroll back to it": a reader who reaches the end has been shown every  *)
(* message that was there when it opened the thread, but for one: of two   *)
(* rows of one transaction, which share created_at, a page that ends       *)
(* between them loses the older.                                           *)
ScrolledBack ==
  reader.pc = "end" =>
    \A m \in thread : m.id \in reader.first \ reader.seen => m.at \in reader.cuts /\ m.role = "question"

(* What the model is told of a conversation (context_for_model): whole     *)
(* turns in their order, no more of them than it is given room for, and    *)
(* nothing from before Clear.                                              *)
ModelIsTold == ChatTypeOK /\ ForgetsOnClear /\ WholeTurns
=============================================================================
