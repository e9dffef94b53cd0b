------------------------------ MODULE MCStudio ------------------------------
EXTENDS Studio, TLC

(* Bound: a wish of at most two words, or the longest name alone. *)
Vocabulary == {"teapot", "cat", "mountain", "gory", "pixar", "spongebob", "squarepants", "batman"}
Wishes == {<<>>} \cup {<<v>> : v \in Vocabulary} \cup {<<v, w>> : v, w \in Vocabulary}
            \cup {<<"spongebob", "squarepants", "cat">>}
Said == {<<>>, <<"tea">>, <<"gory">>, <<"spongebob">>}
Labels == {<<>>, <<"anime">>, <<"photo">>, <<"fairytale">>, <<"delicate">>}

Image(tile, answers, free, style, editing, enabled) ==
  [kind |-> "image", tile |-> tile, answers |-> answers, free |-> free, style |-> style,
   editing |-> editing, enabled |-> enabled]
Images ==
  {Image(NoTile, <<>>, free, style, editing, enabled) :
     free \in Wishes, style \in Labels, editing \in BOOLEAN, enabled \in BOOLEAN}
  \cup {Image(NoTile, [style |-> style], <<"cat">>, <<>>, FALSE, TRUE) : style \in Labels}
  \cup {Image(Nature, [place |-> a, time_of_day |-> b, detail |-> c], free, <<>>, editing, enabled) :
          a, b, c \in Said, free \in {<<>>, <<"cat">>, <<"spongebob", "squarepants">>},
          editing \in BOOLEAN, enabled \in BOOLEAN}
  \cup {Image(Wedding, [names |-> a, style |-> style, scene |-> b, text |-> text], free, <<>>,
              editing, enabled) :
          a, b \in Said, style \in {<<>>, <<"delicate">>}, text \in {<<>>, <<"love">>, <<"gory">>},
          free \in {<<>>, <<"cat">>, <<"batman">>}, editing \in BOOLEAN, enabled \in BOOLEAN}

CatalogueStyles ==
  {[kind |-> "style", editing |-> editing,
    style |-> [text |-> text, anchor |-> anchor, subject |-> subject]] :
     editing \in BOOLEAN, text \in {<<"cat">>, <<"pixar", "cat">>},
     anchor \in Presets \cup {"none", "removed"}, subject \in {"person", "pet"}}

Video(tile, answers, free, photo, enabled) ==
  [kind |-> "video", tile |-> tile, answers |-> answers, free |-> free, photo |-> photo,
   enabled |-> enabled]
Sounds == {"silence", "calm melody", "music", "animal sound", "drums"}
(* Every question of the tile is answered with an option or left out *)
Answers(tile) ==
  FoldSet(LAMBDA q, some : some \cup {f @@ (q :> Option(o)) : f \in some, o \in Questions[tile][q]},
          {<<>>}, DOMAIN Questions[tile])
Videos ==
  UNION {{Video(tile, answers, <<>>, tile \in PhotoTiles, TRUE) : answers \in Answers(tile)} :
           tile \in DOMAIN Questions}
  \cup {Video(tile, ("audio" :> Option(s)), <<>>, tile \in PhotoTiles, TRUE) :
          tile \in DOMAIN Questions, s \in Sounds}
  \cup {Video("animate_pet", ("action" :> Option("blinks")), <<>>, FALSE, TRUE)}
  \cup {Video("video_greeting", ("who" :> Plain("ann") @@ "text" :> Plain("love")), <<>>, FALSE, TRUE)}
  \cup {Video(tile, <<>>, free, photo, enabled) :
          tile \in {"none", "living_nature"} \cup PhotoTiles, free \in {<<>>, <<"cat">>, <<"gory">>},
          photo \in BOOLEAN, enabled \in BOOLEAN}

(* Bound: shelves of five styles in two directions. *)
Shelf(active, shot) ==
  [i \in 1..5 |-> [id |-> (i * 3) % 5, category |-> IF i \in {2, 5} THEN "pets" ELSE "magic",
                   home |-> i # 1, shot |-> i \in shot, active |-> i \in active]]
Directions == <<"magic", "pets">>
ShelvesAsked ==
  {[kind |-> "home", shelf |-> Shelf(active, {}), liked |-> liked, limit |-> limit] :
     active \in SUBSET (1..5), liked \in SUBSET {"pets", "magic"}, limit \in 1..3}
  \cup {[kind |-> "catalogue", shelf |-> Shelf(active, {}), liked |-> liked] :
          active \in SUBSET (1..5), liked \in SUBSET {"pets", "magic"}}
  \cup {[kind |-> kind, shelf |-> Shelf({1, 2, 3, 4}, shot), day |-> day, limit |-> limit,
         override |-> override] :
          kind \in {"shots", "bootstrap"}, shot \in SUBSET (1..5), day \in 7..9, limit \in 1..6, override \in {{}, {0, 3}, {2, 4}}}

Asked == Images \cup CatalogueStyles \cup Videos \cup ShelvesAsked
=============================================================================
