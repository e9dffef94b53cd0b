------------------------------- MODULE Studio -------------------------------
(***************************************************************************)
(* From what a person asks for to the words a provider gets: the shelf     *)
(* they choose from, the prompt of a picture, the storyboard of a video.   *)
(* Requests do not share anything, so a behaviour is one request; what     *)
(* makes it a behaviour is the language model that writes the prompt, or   *)
(* does not.                                                               *)
(***************************************************************************)
EXTENDS Prompts, Storyboards, Catalogue

CONSTANTS
  Requests,   \* what people ask for
  MaxCalls,   \* attempts of gpt._call
  PageLimit   \* limit of list_styles where the caller gives none

Text == Seq(STRING)
Tile == [id : STRING, template : {"none", "picture", "card"}, title : Text, questions : Text]
Style == [id : Int, category : STRING, home : BOOLEAN, shot : BOOLEAN, active : BOOLEAN]

(* What is in a request, whoever sends it: every question of a tile has an *)
(* answer, which may be empty.  The catalogue's own words are Latin, and   *)
(* no picture with a template carries a greeting (tiles_data.py).  A video *)
(* is asked for by the options of its tile, but an animal, a greeting and  *)
(* a name are typed (allow_custom in tiles_data.py; video_prompts.py:461). *)
PictureAsked(r) ==
  /\ r.tile \in Tile /\ r.free \in Text /\ r.style \in Text
  /\ r.editing \in BOOLEAN /\ r.enabled \in BOOLEAN
  /\ r.answers \in [DOMAIN r.answers -> Text] /\ ToSet(r.tile.questions) \subseteq DOMAIN r.answers
  /\ ~HasNonLatin(r.tile.title)
  /\ r.tile.template = "picture" => "text" \notin ToSet(r.tile.questions)
ShelfAsked(r) ==
  /\ r.shelf \in Seq(Style) /\ \A i, j \in DOMAIN r.shelf : r.shelf[i].id = r.shelf[j].id => i = j
  /\ r.kind \in {"home", "catalogue"} => r.liked \subseteq STRING
  /\ r.kind # "catalogue" => r.limit \in Nat \ {0}
  /\ r.kind \in {"shots", "bootstrap"} => r.day \in Nat /\ r.override \subseteq Int

Typed == {"animal", "text", "who"}
VideoAsked(r) ==
  /\ r.free \in Text /\ r.photo \in BOOLEAN /\ r.enabled \in BOOLEAN
  /\ \A q \in DOMAIN r.answers : r.answers[q] \in [word : STRING, dressed : BOOLEAN]
  /\ r.tile \in DOMAIN Questions =>
       /\ DOMAIN r.answers \subseteq DOMAIN Questions[r.tile] \cup {"audio", "who"}
       /\ \A q \in (DOMAIN r.answers \cap DOMAIN Questions[r.tile]) \ Typed :
            r.answers[q].word \in Questions[r.tile][q]

Shelves == {"home", "catalogue", "shots", "bootstrap"}
Kinds == {"image", "style", "video"} \cup Shelves
ASSUME StudioAssumption ==
  /\ MaxCalls \in Nat \ {0} /\ PageLimit \in Nat \ {0} /\ Categories \in Seq(STRING)
  /\ \A r \in Requests :
       /\ r.kind \in Kinds
       /\ r.kind = "image" => PictureAsked(r)
       /\ r.kind = "style" => r.style.text \in Text /\ r.editing \in BOOLEAN
       /\ r.kind = "video" => VideoAsked(r)
       /\ r.kind \in Shelves => ShelfAsked(r)

(* What can be said of the words of a greeting in a picture is said of     *)
(* words that stand for it: a greeting is told apart from what else was    *)
(* typed and from what the builders add.                                   *)
GreetingApart(r) ==
  LET Added == {"default", "mood", "pixar", "cat", "mountain", "superhero", "sea-sponge", "character"}
      Elsewhere == ToSet(r.tile.title) \cup ToSet(r.free) \cup Added
                     \cup UNION {ToSet(r.answers[q]) : q \in DOMAIN r.answers \ {"text"}}
  IN  ToSet(r.answers["text"]) \cap Elsewhere \subseteq NonLatin
ASSUME GreetingAssumption ==
  \A r \in Requests : r.kind = "image" /\ "text" \in DOMAIN r.answers => GreetingApart(r)
(* So is a word that was typed for a video from the options of its other   *)
(* questions.                                                              *)
TypedApart(r) ==
  \A q \in DOMAIN r.answers \cap Typed : \A x \in DOMAIN Questions[r.tile] \ {q} :
    r.answers[q].word \notin Questions[r.tile][x]
ASSUME TypedAssumption ==
  \A r \in Requests : r.kind = "video" /\ r.tile \in DOMAIN Questions => TypedApart(r)

VARIABLES
  ask,       \* the request
  pc,        \* "asked", "calling", "fallback", or how it ended
  calls,     \* requests sent to the language model
  timeouts,  \* history: those that ran into the timeout
  result,    \* blocks of a prompt, a storyboard, or a shelf
  negative   \* what a picture must not be

vars == <<ask, pc, calls, timeouts, result, negative>>

Ends == {"written", "refused", "raised"}
Init ==
  /\ ask \in Requests
  /\ pc = "asked" /\ calls = 0 /\ timeouts = 0 /\ result = <<>> /\ negative = "none"

Write(words, bad) ==
  /\ pc' = "written" /\ result' = words /\ negative' = bad
  /\ UNCHANGED <<ask, timeouts>>
Become(state) ==
  /\ pc' = state
  /\ UNCHANGED <<ask, result, negative>>

(* The shelf *)
Home ==
  /\ pc = "asked" /\ ask.kind = "home"
  /\ Write(HomeStyles(ask.shelf, ask.liked, ask.limit), "none")
  /\ UNCHANGED calls
Browse ==
  /\ pc = "asked" /\ ask.kind = "catalogue"
  /\ Write(WholeCatalogue(ask.shelf, ask.liked, PageLimit), "none")
  /\ UNCHANGED calls
Shots ==
  /\ pc = "asked" /\ ask.kind = "shots"
  /\ Write(DailyShots(ask.shelf, ask.day, ask.limit, ask.override), "none")
  /\ UNCHANGED calls

(* A cold start shows both, the showcase as we ordered it for everybody *)
Bootstrap ==
  /\ pc = "asked" /\ ask.kind = "bootstrap"
  /\ Write(ListStyles(ask.shelf, OnHome(ask.shelf), ask.limit)
             \o DailyShots(ask.shelf, ask.day, ask.limit, ask.override), "none")
  /\ UNCHANGED calls

(* A style writes its own prompt, and so does the tile of a video *)
WriteStyle ==
  /\ pc = "asked" /\ ask.kind = "style"
  /\ Write(StylePrompt(ask.style, ask.editing), NegativeFor(StyleAnchor(ask.style, ask.editing)))
  /\ UNCHANGED calls
WriteBoard ==
  /\ pc = "asked" /\ ask.kind = "video"
  /\ ask.tile \in DOMAIN Scripts \/ Animated(ask.tile, ask.photo)
  /\ Write(BoardOf(ask.tile, ask.photo, ask.answers), "none")
  /\ UNCHANGED calls

(* Everything else is put to the language model, if there is a key: what   *)
(* was typed, or else the answers to the tile of a photograph nobody sent  *)
Worded ==
  \/ ask.kind = "image"
  \/ ask.kind = "video" /\ ask.tile \notin DOMAIN Scripts /\ ~Animated(ask.tile, ask.photo)
Combined ==
  IF ask.free # <<>> THEN ask.free
  ELSE LET ids == SetToSeq(DOMAIN ask.answers) IN [i \in DOMAIN ids |-> ask.answers[ids[i]].word]
Consult ==
  /\ pc = "asked" /\ Worded
  /\ Become(IF ask.enabled THEN "calling" ELSE "fallback")
  /\ UNCHANGED <<calls, timeouts>>

(* A refusal that comes at once (429, 5xx, a broken connection) is retried *)
(* for a picture, once ...                                                 *)
MutantNeverTired ==
  /\ pc = "calling"
  /\ calls' = (calls + 1) % MaxCalls
  /\ Become(IF ask.kind = "image" THEN "calling" ELSE "fallback")
  /\ UNCHANGED timeouts
Refused ==
  /\ pc = "calling"
  /\ calls' = calls + 1
  /\ Become(IF ask.kind = "image" /\ calls' < MaxCalls THEN "calling" ELSE "fallback")
  /\ UNCHANGED timeouts
(* ... a timeout, an answer of another kind or an unreadable one is not    *)
TimesOut ==
  /\ pc = "calling"
  /\ calls' = calls + 1
  /\ timeouts' = timeouts + 1
  /\ Become("fallback")
Rejected ==
  /\ pc = "calling"
  /\ calls' = calls + 1
  /\ Become("fallback")
  /\ UNCHANGED timeouts

(* An empty answer is no answer.  Templates come back as one line with two *)
(* parts, of which the second may be missing.                              *)
Reply ==
  /\ pc = "calling" /\ ask.kind = "image"
  /\ calls' = calls + 1
  /\ \E reply \in Replies(ask), tail \in {"given", "blank", "missing"} :
       IF reply = <<>> THEN Become("fallback") /\ UNCHANGED timeouts
       ELSE Write(FromReply(ask, reply),
                  IF ask.tile.template = "none" THEN "general" ELSE SplitNegative(tail))
(* The fields of a storyboard are read outside the try: JSON of another    *)
(* shape than the one asked for ends the job.                              *)
ReplyBoard ==
  /\ pc = "calling" /\ ask.kind = "video"
  /\ calls' = calls + 1
  /\ \/ \E present \in SUBSET Fields :
          Write(JsonBoard(Translated(NeutralizeIp(Combined)), present), "none")
     \/ Become("raised") /\ UNCHANGED timeouts

(* Without the language model *)
FallBack ==
  /\ pc = "fallback"
  /\ IF ask.kind = "video" THEN Write(FallbackBoard(NeutralizeIp(Combined)), "none")
     ELSE IF Untranslatable(ask) THEN Become("refused") /\ UNCHANGED timeouts
     ELSE Write(Mechanical(ask), "general")
  /\ UNCHANGED calls

Next ==
  \/ Home \/ Browse \/ Shots \/ Bootstrap \/ WriteStyle \/ WriteBoard
  \/ Consult \/ Refused \/ TimesOut \/ Rejected \/ Reply \/ ReplyBoard \/ FallBack

(* Every call has a timeout and nothing else is waited for *)
Spec == Init /\ [][Next]_vars /\ WF_vars(Next)
-----------------------------------------------------------------------------
Written(kind) == pc = "written" /\ ask.kind = kind
Words == WordsOf(result)
NameWords == UNION {ToSet(n) : n \in Names}
Templated == ask.tile.template # "none" /\ \E i \in DOMAIN result : result[i][1] = "template"

(* Types; a picture is never sent without a list of what it must not be.   *)
TypeOK ==
  /\ ask.kind \in Kinds
  /\ pc \in {"asked", "calling", "fallback"} \cup Ends
  /\ calls \in 0..MaxCalls /\ timeouts \in 0..calls
  /\ negative \in {"none", "general", "drawn", "given"}
  /\ Written("image") \/ Written("style") => negative # "none"

(* gpt.py:232-236: nobody waits for the timeout twice, and a picture costs *)
(* at most two calls; once an answer has been had nothing more is sent.    *)
OnePatience == timeouts <= 1 /\ (timeouts = 1 => pc # "calling")

(* prompt_style.py:215-221: whoever sends a photograph finds the demand to *)
(* keep the person before anything about style, whichever of the three     *)
(* writers wrote; only the templates of a tile say nothing of the person.  *)
FaceFirst ==
  (Written("image") \/ Written("style")) /\ ask.editing =>
    \/ result[1][1] = "identity"
    \/ ask.kind = "image" /\ Templated

(* "NEVER pass a copyrighted character name" (prompt_style.py:503-507): no *)
(* part of a name somebody typed as a wish reaches a provider while the    *)
(* language model answers; what is left are the answers to a tile and the  *)
(* mechanical builder, which do not look for names.                        *)
NamesStayHome ==
  LET Loose == {ask.free[j] : j \in {k \in DOMAIN ask.free :
                  \A i \in 1..k : \A n \in NamesAt(ask.free, i) : k >= i + Len(n)}}
      Answers == UNION {ToSet(ask.answers[q]) : q \in ToSet(Answered(ask))}
  IN  Written("image") =>
        \/ Words \cap NameWords \subseteq Loose \cup Answers
        \/ result = Mechanical(ask)

(* Names of studios make providers refuse: none is left, wherever it came  *)
(* from, but in a tile's template.                                         *)
BrandsStripped ==
  (Written("image") \/ Written("style")) /\ Words \cap Brands # {} => ask.kind = "image" /\ Templated

(* content_gen.py:141-143: a picture is never made from words nobody       *)
(* translated; a refusal says that there were some, and no model.          *)
NeverUntranslated ==
  /\ Written("image") => Words \cap NonLatin = {}
  /\ pc = "refused" => (~ask.enabled \/ calls > 0) /\ Untranslatable(ask)

(* "no people, no characters" (prompt_style.py:60-75) is never said of a   *)
(* wish for somebody, unless the person chose the scenery.  A name that    *)
(* has been paraphrased counts as somebody, if the paraphrase shows it.    *)
NobodyVanishes ==
  Written("image") /\ ~Templated /\ StyleOf(ask) = <<>>
    /\ (ask.editing \/ ToSet(ask.free) \cap (LivingWords \cup {"spongebob"}) # {}) =>
      \A i \in DOMAIN result : result[i][1] = "anchor" => result[i][2][1] \notin Scenes

(* The greeting is laid over the picture later: the mechanical builder     *)
(* draws the other answers and never that one (card_prompts.py:6-8).       *)
GreetingNotDrawn ==
  Written("image") /\ "text" \in DOMAIN ask.answers => Words \cap ToSet(ask.answers["text"]) = {}

(* Whoever wrote the prompt, what was answered and wished is in it, except *)
(* the style, which is an anchor; the mechanical builder leaves a wish out *)
(* of the template of a picture.                                           *)
NothingLost ==
  Written("image") =>
    /\ \A q \in ToSet(Answered(ask)) \ {"text", "style"} :
         ToSet(StripBrands(Translated(ask.answers[q]))) \subseteq Words
    /\ ask.tile.template # "picture" \/ result # Mechanical(ask) =>
         ToSet(StripBrands(ask.free)) \ (NameWords \cup NonLatin) \subseteq Words

(* tiles_data.py:21-22: an answer fills the place its question asks about, *)
(* unless an earlier question of the tile was left out.                    *)
AnswersInPlace ==
  Written("image") /\ ask.tile.template = "picture" /\ result = Mechanical(ask) =>
    \A i \in DOMAIN ask.tile.questions :
      (\A j \in 1..i : ask.answers[ask.tile.questions[j]] # <<>>) =>
        result[i + 1] = <<"slot", ask.answers[ask.tile.questions[i]]>>

(* The questions of a video tile no builder reads, and the options of the  *)
(* others that no table knows (tiles_data.py:345-423 against the tables of *)
(* video_prompts.py)                                                       *)
Unread ==
  [animate_photo |-> {"target", "movement", "mood"}, animate_pet |-> {"action", "effect", "mood"},
   cartoon_character_video |-> {"style", "palette"}, video_greeting |-> {"audience", "subject"},
   living_nature |-> {}, cute_animal_video |-> {"mood"}, morning_video |-> {"mood"},
   inspiring_video |-> {"mood"}]
Unknown ==
  [animate_photo |-> {}, animate_pet |-> {}, living_nature |-> {},
   cartoon_character_video |-> {"laughing", "surprised"},
   video_greeting |-> {"jubilee", "new year", "other"},
   cute_animal_video |-> {"surprised", "in the forest", "outside"},
   morning_video |-> {"nature", "tea", "pastel", "bright", "golden", "soft"},
   inspiring_video |-> {"mountains", "forest", "sunset", "flowers",
                        "sunny", "fog", "golden hour", "stars"}]
(* An answer to a tile of a video changes what is filmed or what is laid   *)
(* over it, whatever else was answered, with these exceptions and no other *)
OptionsAreHeard ==
  Written("video") /\ ~Worded =>
    \A q \in DOMAIN ask.answers \cap DOMAIN Questions[ask.tile] :
      LET word == Bare(ask.answers[q])
          heard == {result.scene[s] : s \in DOMAIN result.scene} \cup ToSet(result.overlay)
      IN  word \in heard <=> q \notin Unread[ask.tile] /\ word \notin Unknown[ask.tile]

(* The builders pay for sound exactly if there is one (video_gen.py:206),  *)
(* and silence asked for is silence, not a word without an entry.          *)
SilenceIsKept ==
  Written("video") /\ ~Worded =>
    /\ result.paidSound <=> result.sound # ""
    /\ "audio" \in DOMAIN ask.answers /\ ask.answers["audio"].word = "silence" => result.sound = ""

(* repositories/styles.py:3-6: nobody sees on the showcase what they did   *)
(* not mark before what they did, and among those our order is kept; only  *)
(* a style that stands behind three screens is not looked at.              *)
LikedOnTop ==
  Written("home") =>
    LET rows == Kept(ask.shelf, Live(ask.shelf) \cap OnHome(ask.shelf))
        Place(id) == CHOOSE i \in DOMAIN rows : rows[i].id = id
        Liked(s) == s.category \in ask.liked
    IN  /\ Len(result) = Min({ask.limit, Len(rows)})
        /\ \A i, j \in DOMAIN result : i < j =>
             (Liked(result[i]) = Liked(result[j]) => Place(result[i].id) < Place(result[j].id))
               /\ (Liked(result[j]) => Liked(result[i]))
        /\ \A i \in DOMAIN rows :
             Liked(rows[i]) /\ rows[i].id \notin Ids(result) /\ i <= 3 * ask.limit =>
               \A k \in DOMAIN result : Liked(result[k])

(* repositories/styles.py:63-69: every style of the pool has its day, in   *)
(* as many days as there are styles, and no day shows fewer than it could. *)
EverybodyHasADay ==
  Written("shots") /\ ask.override = {} =>
    LET pool == Pool(ask.shelf)
    IN  /\ Cardinality(Ids(result)) = Min({ask.limit, Len(pool)})
        /\ \A i \in DOMAIN pool : \E d \in 0..(Len(pool) - 1) :
             pool[i].id \in Ids(Rotation(ask.shelf, ask.day + d, ask.limit))

(* What the shelf shows can be opened, except a style switched off after   *)
(* it was scheduled for a day.                                             *)
ShownCanBeOpened ==
  (\E kind \in Shelves : Written(kind)) =>
    \A id \in Ids(result) :
      Opens(ask.shelf, id) \/ (ask.kind \in {"shots", "bootstrap"} /\ id \in ask.override)

(* The person stays in the picture: their face comes first and no writer   *)
(* empties the scene of somebody who was asked for.                        *)
PersonKept == FaceFirst /\ NobodyVanishes

(* No word goes to a provider that must not: names of others' characters,  *)
(* of studios, and words the provider does not read.                       *)
NothingForeign == NamesStayHome /\ BrandsStripped /\ NeverUntranslated

(* What was answered is drawn, each answer in its place, and only the      *)
(* greeting is left to the caption.                                        *)
AnswersArrive == NothingLost /\ AnswersInPlace /\ GreetingNotDrawn

(* An answer to a video tile is heard, but for the exceptions above, and   *)
(* silence asked for is neither filmed with sound nor paid for.            *)
AnswersAreHeard == OptionsAreHeard /\ SilenceIsKept

(* Every list of the shelf keeps the order it promises, gives everybody a  *)
(* turn and opens what it shows.                                           *)
ShelfInOrder == LikedOnTop /\ EverybodyHasADay /\ ShownCanBeOpened

(* Every request ends, whatever the language model does, and nobody has    *)
(* waited for its timeout twice by then (gpt._call).                       *)
EverybodyAnswered == [](TypeOK /\ OnePatience) /\ <>(pc \in Ends)
=============================================================================
