------------------------------ MODULE Prompts ------------------------------
(***************************************************************************)
(* What a picture's prompt is made of: services/content_gen.py,            *)
(* services/gpt.py, services/prompt_style.py and the templates of          *)
(* picture_prompts.py and card_prompts.py.  A text is a sequence of words, *)
(* a prompt a sequence of blocks <<kind, words>>; the wording of a block   *)
(* is left out, its place and the words of the person in it are kept.      *)
(***************************************************************************)
EXTENDS Integers, Sequences, FiniteSets, SequencesExt, Lists

(* A few words stand for the lists of the code.  "koshka" is in Cyrillic. *)
LivingWords == {"cat", "character", "koshka"}
EpicWords == {"mountain"}
Brands == {"pixar"}
NonLatin == {"koshka", "gory"}
Names == {<<"spongebob">>, <<"spongebob", "squarepants">>, <<"batman">>}
Paraphrase(name) ==
  IF name = <<"batman">> THEN <<"superhero">> ELSE <<"sea-sponge", "character">>

HasNonLatin(text) == \E i \in DOMAIN text : text[i] \in NonLatin
HasLiving(text) == \E i \in DOMAIN text : text[i] \in LivingWords
IsEpic(text) == \E i \in DOMAIN text : text[i] \in EpicWords
StripBrands(text) == Kept(text, STRING \ Brands)

(* The longest name wins over its own beginning; what stands for a name is *)
(* not looked at again.                                                    *)
Longest(names) == CHOOSE n \in names : \A m \in names : Len(n) >= Len(m)
NamesAt(text, i) == {n \in Names : IsPrefix(n, SubSeq(text, i, Len(text)))}
Scan(text, s, i) ==
  IF i < s.next THEN s
  ELSE IF NamesAt(text, i) = {} THEN [out |-> Append(s.out, text[i]), next |-> i + 1]
  ELSE LET name == Longest(NamesAt(text, i))
       IN  [out |-> s.out \o Paraphrase(name), next |-> i + Len(name)]
NeutralizeIp(text) ==
  LET scanned[i \in 0..Len(text)] ==
        IF i = 0 THEN [out |-> <<>>, next |-> 1] ELSE Scan(text, scanned[i - 1], i)
  IN  scanned[Len(text)].out

(* Style anchors *)
DefaultStyle == "3d_cartoon"
Scenes == {"scene_cozy", "scene_epic"}
Presets == {"3d_cartoon", "semi_real_3d", "anime", "realistic"} \cup Scenes
StyleMap == [cartoon |-> "3d_cartoon", watercolor |-> "3d_cartoon", fairytale |-> "scene_cozy",
             cinematic |-> "scene_epic", anime |-> "anime", photo |-> "realistic"]
MapStyle(style) ==
  IF style # <<>> /\ style[1] \in DOMAIN StyleMap THEN StyleMap[style[1]] ELSE DefaultStyle
IsDrawn(key) == key # "realistic"
NegativeFor(key) == IF IsDrawn(key) THEN "drawn" ELSE "general"
IdentityClause(subject, drawn) ==
  IF subject = "pet" THEN "pet" ELSE IF drawn THEN "drawn person" ELSE "person"

(* The first words are read first: the person, then the style *)
Assemble(scene, key, isText, editing, subject) ==
  LET preset == IF key \in Presets THEN key ELSE DefaultStyle
  IN  (IF editing THEN << <<"identity", <<IdentityClause(subject, IsDrawn(key))>> >> >> ELSE <<>>)
      \o << <<"anchor", <<preset>> >>, <<"scene", StripBrands(scene)>> >>
      \o (IF isText THEN << <<"layout", <<"text">> >> >> ELSE <<>>)
      \o << <<"technical", <<preset>> >> >>

(* Tiles of the catalogue that make pictures: one with a template of       *)
(* picture_prompts, one with a template of card_prompts                    *)
Nature == [id |-> "nature", template |-> "picture", title |-> <<"nature">>,
           questions |-> <<"place", "time_of_day", "detail">>]
Wedding == [id |-> "wedding", template |-> "card", title |-> <<"wedding">>,
            questions |-> <<"names", "style", "scene", "text">>]
NoTile == [id |-> "none", template |-> "none", title |-> <<>>, questions |-> <<>>]
Tiles == {Nature, Wedding, NoTile}

Answered(r) == Kept(r.tile.questions, {q \in ToSet(r.tile.questions) : r.answers[q] # <<>>})
Without(questions, ids) == Kept(questions, STRING \ ids)
AnswersTo(r, questions) == FlattenSeq([i \in DOMAIN questions |-> r.answers[questions[i]]])
Drawable(r) == Without(Answered(r), {"text", "style"})
StyleOf(r) ==
  IF r.style # <<>> \/ "style" \notin DOMAIN r.answers THEN r.style ELSE r.answers["style"]

(* The mechanical builder: what was answered fills the template from the   *)
(* left, and free text has no place in it ...                              *)
MutantFromRight(r) ==
  LET said == Reverse(Answered(r))
  IN  [i \in DOMAIN r.tile.questions |->
         IF i <= Len(said) THEN r.answers[said[i]] ELSE <<"default">>]
Fill(r) ==
  LET said == Answered(r)
  IN  [i \in DOMAIN r.tile.questions |->
         IF i <= Len(said) THEN r.answers[said[i]] ELSE <<"default">>]
(* ... or it is put behind the title and the answers *)
SceneParts(r) == r.tile.title \o AnswersTo(r, Drawable(r)) \o r.free \o <<"mood">>
Mechanical(r) ==
  IF r.tile.template = "picture"
  THEN << <<"template", <<r.tile.id>> >> >>
       \o [i \in DOMAIN Fill(r) |-> <<"slot", Fill(r)[i]>>]
  ELSE Assemble(SceneParts(r),
                IF r.editing /\ StyleOf(r) = <<>> THEN "realistic" ELSE MapStyle(StyleOf(r)),
                r.tile.template = "card", r.editing, "person")

(* What nobody can translate is refused: the wish and the answers, those   *)
(* that will not be drawn included.                                        *)
MutantReadWish(r) == HasNonLatin(r.free)
Untranslatable(r) ==
  HasNonLatin(r.free) \/ \E q \in DOMAIN r.answers : HasNonLatin(r.answers[q])

(* The anchor of a wish in words.  Only pictures without a tile get here:  *)
(* the others have templates.                                              *)
MutantNameUnread(r) ==
  LET words == r.free
  IN  IF StyleOf(r) # <<>> THEN MapStyle(StyleOf(r))
      ELSE IF r.editing THEN "realistic"
      ELSE IF HasLiving(words) THEN "3d_cartoon"
      ELSE IF IsEpic(words) THEN "scene_epic" ELSE "scene_cozy"
AnchorFor(r) ==
  LET words == NeutralizeIp(r.free)
  IN  IF StyleOf(r) # <<>> THEN MapStyle(StyleOf(r))
      ELSE IF r.editing THEN "realistic"
      ELSE IF HasLiving(words) THEN "3d_cartoon"
      ELSE IF IsEpic(words) THEN "scene_epic" ELSE "scene_cozy"

(* What the model is told to draw: what was said, or where nothing was,    *)
(* something warm and friendly, or the template's own defaults.  A card's  *)
(* greeting is told as well, as what to leave clean space for, and is not  *)
(* expected in the answer.  That is a translation of what there is to      *)
(* draw, with a brand it was told to avoid, or nothing at all.             *)
Asking(r) == AnswersTo(r, Without(Answered(r), {"text"})) \o NeutralizeIp(r.free)
Unsaid(r) == IF r.tile.template = "none" THEN "mood" ELSE "default"
Told(r) == IF Asking(r) = <<>> THEN <<Unsaid(r)>> ELSE Asking(r)
Translated(text) ==
  [i \in DOMAIN text |->
     CASE text[i] = "koshka" -> "cat" [] text[i] = "gory" -> "mountain" [] OTHER -> text[i]]
Replies(r) == {<<>>, Translated(Told(r)), Append(Translated(Told(r)), "pixar")}

(* "prompt | negative": the part behind the bar may be missing or empty *)
SplitNegative(tail) == IF tail = "given" THEN "given" ELSE "general"
FromReply(r, reply) ==
  IF r.tile.template = "none" THEN Assemble(reply, AnchorFor(r), FALSE, r.editing, "person")
  ELSE << <<"template", <<r.tile.id>> >>, <<"scene", reply>> >>

(* A style of the catalogue is drawn by its own text *)
StyleAnchor(style, editing) ==
  IF style.anchor # "none" THEN style.anchor ELSE IF editing THEN "realistic" ELSE DefaultStyle
StylePrompt(style, editing) ==
  Assemble(style.text, StyleAnchor(style, editing), FALSE, editing, style.subject)

WordsOf(blocks) == UNION {ToSet(b[2]) : b \in {x \in ToSet(blocks) : x[1] \in {"scene", "slot"}}}
=============================================================================
