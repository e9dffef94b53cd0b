---------------------------- MODULE Storyboards ----------------------------
(***************************************************************************)
(* What a video's prompt is made of (services/video_prompts.py) and the    *)
(* questions of the tiles it has to understand (services/tiles_data.py).   *)
(* An answer is a word and whether it is dressed in capitals or an emoji,  *)
(* as all options are; of a description only the key it was found by is    *)
(* kept, of the keys the English ones.                                     *)
(***************************************************************************)
EXTENDS Sequences, Lists

Option(word) == [word |-> word, dressed |-> TRUE]
Plain(word) == [word |-> word, dressed |-> FALSE]
Bare(answer) == answer.word

(* answers.get(a) or answers.get(b) or default *)
FirstAnswer(answers, ids, default) ==
  LET given == Kept(ids, DOMAIN answers)
  IN  IF given = <<>> THEN Plain(default) ELSE answers[given[1]]

(* A slot of a tile's text: the questions it listens to, the word it takes *)
(* when none is answered, the words it knows                               *)
Slot(ids, default, knows) == [ids |-> ids, default |-> default, knows |-> knows]
NatureSlots ==
  [place |-> Slot(<<"place">>, "forest", {"forest", "sea", "mountains", "field"}),
   time |-> Slot(<<"time", "time_season">>, "summer morning",
                 {"summer morning", "autumn sunset", "winter night", "spring day"}),
   special |-> Slot(<<"special">>, "wind", {"wind", "fog", "snow", "blossoming", "blossom"}),
   mood |-> Slot(<<"mood">>, "calm", {"calm", "magical", "vivid"})]
MorningSlots ==
  [scene |-> Slot(<<"scene", "subject">>, "sunrise", {"sunrise", "flowers", "cup of coffee", "window"}),
   special |-> Slot(<<"special", "light">>, "sun rays",
                    {"sun rays", "light fog", "blooming flowers", "light dust", "floating light"})]
InspiringSlots ==
  [scene |-> Slot(<<"scene", "subject">>, "sunny landscape",
                  {"sunny landscape", "blooming field", "sea", "city"}),
   special |-> Slot(<<"special", "light">>, "light breeze",
                    {"light wind", "light breeze", "sun glints", "floating petals", "drifting clouds"})]
AnimalSlots ==
  [animal |-> Slot(<<"animal">>, "kitten",
                   {"cat", "kitten", "dog", "puppy", "rabbit", "bunny", "fox", "fox cub"}),
   action |-> Slot(<<"action">>, "sitting & blinking",
                   {"sitting", "sitting & blinking", "playing", "grooming", "wagging",
                    "wagging tail", "sleeping"}),
   setting |-> Slot(<<"setting", "place">>, "on a cozy blanket",
                    {"at home", "on a cozy blanket", "in garden", "in the garden",
                     "on windowsill", "on the windowsill", "in flowers", "among flowers"})]
CartoonSlots ==
  [character |-> Slot(<<"character", "hero">>, "wizard",
                      {"wizard", "knight", "fairy", "robot", "human", "animal", "creature"}),
   action |-> Slot(<<"action">>, "waving", {"waving", "dancing", "casting", "jumping"}),
   setting |-> Slot(<<"setting">>, "in a village",
                    {"village", "in a village", "forest", "in a forest", "city", "in the city",
                     "castle", "in a castle"})]
Occasions == {"birthday", "milestone birthday", "valentine's day", "wedding", "anniversary",
              "mother's day", "father's day", "easter", "thanksgiving", "new year / christmas",
              "graduation", "get well soon", "just because"}
GreetingSlots == [occasion |-> Slot(<<"occasion">>, "birthday", Occasions)]
(* An animal's or a hero's name nobody knows is drawn as it was typed *)
Echoed == {"animal", "character"}

(* Sounds by word; "" is silence, and a word nobody knows has a sound, too.*)
(* The voice of an animal, and every sound of a photograph, is recognised  *)
(* by a part of the word: the words given here stand for those they are in *)
Silent(words) == [w \in words |-> IF w = "silence" THEN "" ELSE w]
Sound(default, knows, unknown) == [default |-> default, knows |-> Silent(knows), unknown |-> unknown]
Scripts ==
  [living_nature |->
     [slots |-> NatureSlots, loop |-> TRUE, duration |-> 8, overlay |-> "none",
      audio |-> Sound("nature sounds", {"nature sounds", "calm music", "calm melody", "silence"}, "")],
   morning_video |->
     [slots |-> MorningSlots, loop |-> FALSE, duration |-> 8, overlay |-> "Good morning!",
      audio |-> Sound("calm melody", {"calm melody", "morning sounds", "morning birds", "silence"}, "music")],
   inspiring_video |->
     [slots |-> InspiringSlots, loop |-> FALSE, duration |-> 8, overlay |-> "Have a great day!",
      audio |-> Sound("light upbeat music", {"light positive music", "light upbeat music",
                                             "nature sounds", "silence"}, "music")],
   cute_animal_video |->
     [slots |-> AnimalSlots, loop |-> TRUE, duration |-> 8, overlay |-> "none",
      audio |-> Sound("animal sound", {"animal sound", "voice", "cute melody", "nature sounds", "silence"}, "")],
   cartoon_character_video |->
     [slots |-> CartoonSlots, loop |-> FALSE, duration |-> 8, overlay |-> "none",
      audio |-> Sound("fun music", {"fun music", "magical sounds", "silence"}, "music")],
   video_greeting |->
     [slots |-> GreetingSlots, loop |-> FALSE, duration |-> 10, overlay |-> "Greeting",
      audio |-> Sound("festive music", {"festive music", "warm melody", "silence"}, "music")]]

(* An entry that is "" is an entry *)
MutantEmptyIsMissing(known, key, default) ==
  IF key \in DOMAIN known /\ known[key] # "" THEN known[key] ELSE default
Lookup(known, key, default) == IF key \in DOMAIN known THEN known[key] ELSE default
Describe(slot, name, answers) ==
  LET key == Bare(FirstAnswer(answers, slot.ids, slot.default))
  IN  IF key \in slot.knows \/ name \in Echoed THEN key ELSE "anything"
AudioOf(tile, answers) ==
  LET audio == Scripts[tile].audio
  IN  Lookup(audio.knows, Bare(FirstAnswer(answers, <<"audio">>, audio.default)), audio.unknown)
(* A greeting is signed with the name it is for *)
OverlayOf(tile, answers) ==
  LET words == IF Scripts[tile].overlay = "none" THEN <<>>
               ELSE <<Bare(FirstAnswer(answers, <<"text">>, Scripts[tile].overlay))>>
      whom == Kept(IF tile = "video_greeting" THEN <<"who">> ELSE <<>>, DOMAIN answers)
  IN  words \o [i \in DOMAIN whom |-> Bare(answers[whom[i]])]

TileBoard(tile, answers) ==
  [scene |-> [s \in DOMAIN Scripts[tile].slots |-> Describe(Scripts[tile].slots[s], s, answers)],
   sound |-> AudioOf(tile, answers), paidSound |-> AudioOf(tile, answers) # "",
   overlay |-> OverlayOf(tile, answers),
   loop |-> Scripts[tile].loop, duration |-> Scripts[tile].duration]

(* A photograph is only set in motion *)
PhotoSlots ==
  [motion |-> Slot(<<"motion">>, "gentle life",
                   {"blink", "blinking", "head tilt", "nod", "warm smile", "yawn", "wagging tail",
                    "gentle life", "light animation"}),
   intensity |-> Slot(<<"intensity">>, "soft", {"barely", "barely noticeable", "soft", "expressive"})]
WithMusic == {"music", "calm music", "fun music", "festive music", "light upbeat music",
              "light positive music"}
PhotoSounds == [w \in {"pet sounds"} \cup WithMusic |-> IF w \in WithMusic THEN "music" ELSE w]
PhotoBoard(answers) ==
  LET sound == Lookup(PhotoSounds, Bare(FirstAnswer(answers, <<"audio">>, "silence")), "")
  IN  [scene |-> [s \in DOMAIN PhotoSlots |-> Describe(PhotoSlots[s], s, answers)],
       sound |-> sound, paidSound |-> sound # "", overlay |-> <<>>, loop |-> TRUE, duration |-> 5]

(* Free text: what the model's JSON says, or a calm scene "inspired by" it *)
FallbackBoard(text) ==
  [scene |-> [wish |-> text], sound |-> "music", paidSound |-> TRUE, overlay |-> <<>>,
   loop |-> TRUE, duration |-> 8]
Fields == {"anchor", "enabled", "prompt", "textOverlay"}
JsonBoard(text, present) ==
  [scene |-> [wish |-> IF "anchor" \in present THEN text ELSE <<>>],
   sound |-> IF "prompt" \in present THEN "music" ELSE "",
   paidSound |-> "enabled" \in present,
   overlay |-> IF "textOverlay" \in present THEN <<"said">> ELSE <<>>,
   loop |-> TRUE, duration |-> 8]

(* What the video tiles ask, and the options they offer *)
Questions ==
  [animate_photo |->
     [target |-> {"face", "background", "everything"},
      movement |-> {"light breathing", "wind", "parallax effect"},
      intensity |-> {"barely noticeable", "soft", "expressive"},
      mood |-> {"tender", "lively", "magical"}],
   animate_pet |->
     [action |-> {"looks at the camera", "moves", "blinks"},
      effect |-> {"light breathing", "playful movement", "wink"},
      mood |-> {"tender", "playful", "funny"}],
   cartoon_character_video |->
     [hero |-> {"human", "animal", "creature"},
      action |-> {"dancing", "waving", "laughing", "surprised"},
      style |-> {"pixar", "anime", "fairytale", "cartoon"},
      palette |-> {"bright & cheerful", "soft & tender", "magical"}],
   video_greeting |->
     [occasion |-> {"birthday", "jubilee", "new year", "other"},
      audience |-> {"woman", "man", "child"},
      subject |-> {"flowers", "candles", "balloons", "nature"},
      text |-> {"happy birthday!", "happy holiday!"}],
   living_nature |->
     [place |-> {"forest", "sea", "mountains", "field"},
      time |-> {"summer morning", "autumn sunset", "winter night", "spring day"},
      special |-> {"wind", "fog", "snow", "blossoming"},
      mood |-> {"calm", "magical", "vivid"}],
   cute_animal_video |->
     [animal |-> {"cat", "dog", "rabbit", "other"},
      action |-> {"sleeping", "playing", "surprised"},
      place |-> {"at home", "in the forest", "outside"},
      mood |-> {"funny", "tender", "touching"}],
   morning_video |->
     [subject |-> {"flowers", "nature", "tea", "sunrise"},
      light |-> {"pastel", "bright", "golden", "soft"},
      mood |-> {"tender", "cheerful", "warm"},
      text |-> {"good morning!", "smile"}],
   inspiring_video |->
     [subject |-> {"mountains", "forest", "sunset", "flowers"},
      light |-> {"sunny", "fog", "golden hour", "stars"},
      mood |-> {"solemn", "quiet", "joyful"},
      text |-> {"live life fully", "dream big"}]]
PhotoTiles == {"animate_photo", "animate_pet"}
(* A photo tile without its photograph is a text like any other *)
Animated(tile, photo) == photo /\ tile \in PhotoTiles
BoardOf(tile, photo, answers) ==
  IF Animated(tile, photo) THEN PhotoBoard(answers) ELSE TileBoard(tile, answers)
=============================================================================
