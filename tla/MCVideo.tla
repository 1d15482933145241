------------------------------- MODULE MCVideo -------------------------------
(***************************************************************************)
(* Small instances of the four modules of the renderer for TLC.  They      *)
(* share no state, so that a behaviour takes the steps of one of them and  *)
(* leaves the others at rest.                                              *)
(***************************************************************************)
EXTENDS Renderer

CONSTANT none

VARIABLE subject   \* whose steps are taken

timelineVars == <<texts, n, up, t>>
overlayVars == <<overlay, u>>
motionVars == <<motion, frames, on>>

-----------------------------------------------------------------------------
(* Timeline: carousels of up to nine milliseconds.  What matters is how    *)
(* the number of texts divides the time, not how long it is.               *)

Times == {<<s, e>> \in (0..2) \X (1..9) : s < e}
MCCarousels ==
  {[start |-> p[1], end |-> p[2], fadeIn |-> i, fadeOut |-> o, at |-> 0] :
     p \in Times, i \in 0..2, o \in 0..1}

-----------------------------------------------------------------------------
(* Overlay: up to three animations, in order, overlapping and out of       *)
(* order.  Coordinates are small; what matters is which are equal.         *)

Slides ==
  {[type |-> "slide_in", at |-> a, dur |-> 2, dir |-> d, dist |-> s, target |-> none] :
     a \in {0, 3}, d \in {"left", "right", "top", ""}, s \in {none, 4}}
Moves ==
  {[type |-> "move", at |-> a, dur |-> d, dir |-> "", dist |-> none, target |-> x] :
     a \in {0, 3, 5}, d \in {1, 2}, x \in {none, 0, 7}}
Pop == [type |-> "pop_in", at |-> 0, dur |-> 2, dir |-> "", dist |-> none, target |-> none]
Fade == [type |-> "fade_in", at |-> 0, dur |-> 1, dir |-> "", dist |-> none,
         target |-> none]

TargetMoves == {m \in Moves : m.target # none}
Short == {<<>>, <<Fade>>} \cup {<<a>> : a \in Slides \cup Moves}
Chains ==
  {<<a, b>> : a \in Slides \cup TargetMoves, b \in Slides \cup TargetMoves}
  \cup {<<a, Fade, b, c>> :
          a \in {s \in Slides : s.dist = none /\ s.dir # ""},
          b \in TargetMoves, c \in {m \in TargetMoves : m.dur = 1}}

\* An image with and without a width, and a generated picture.
Pictures == {<<0, none, 4>>, <<2, none, 4>>, <<0, 4, 4>>}
Popping ==
  {<<Pop>>} \cup {<<a, Pop, b>> : a \in Slides, b \in {m \in TargetMoves : m.at = 3}}
  \cup {<<Pop, a, [Pop EXCEPT !.at = 3], b>> : a, b \in {m \in TargetMoves : m.dur = 2}}
Gravities ==
  {"North", "South", "West", "East", "NorthWest", "NorthEast", "SouthWest",
   "SouthEast", "center", ""}

With(g, p, c) ==
  [gravity |-> g, pos |-> 3, width |-> p[1], png |-> p[2], picture |-> p[3],
   start |-> 1, anims |-> c]
MCAnimated ==
  {With(g, p, c) : g \in Gravities, p \in Pictures, c \in Short}
  \cup {With("center", <<0, 4, 4>>, c) : c \in Chains}
  \cup {With(g, <<0, 10, 10>>, c) : g \in {"center", "East", "NorthEast", "West"}, c \in Popping}

-----------------------------------------------------------------------------
(* BackgroundMotion: every type, speed and choice of ranges.               *)

MCMotions ==
  [type : {"drift", "pulse", "glance", "linear"}, speed : {"fast", "slow", ""},
   zoom : {<<>>, <<110, 130>>, <<130, 110>>}]

-----------------------------------------------------------------------------
(* VideoGeneration: templates of up to three layers, from layers that get  *)
(* on with each other and layers whose names meet.                         *)

Plain ==
  [name |-> <<"a">>, type |-> "text", text |-> "t", asset |-> <<"system", "f", ".ttf">>,
   motion |-> FALSE, effect |-> "", shadow |-> FALSE, box |-> FALSE]

Background == [Plain EXCEPT !.name = <<"background">>, !.type = "image",
               !.asset = <<"project", "b", ".jpg">>, !.motion = TRUE, !.effect = "film"]
Picture == [Background EXCEPT !.name = <<"p">>]
Still == [Picture EXCEPT !.name = <<"q">>, !.asset = <<"project", "q", ".jpg">>]
Boxed == [Plain EXCEPT !.shadow = TRUE, !.box = TRUE]
Logo == [Plain EXCEPT !.name = <<"logo">>, !.type = "icon",
         !.asset = <<"system", "logo", ".png">>]
OtherLogo == [Logo EXCEPT !.name = <<"logo2">>, !.asset = <<"project", "logo", ".png">>]
Carousel == [Plain EXCEPT !.name = <<"c">>, !.type = "text_carousel"]
Pager == [Plain EXCEPT !.name = <<"n">>, !.type = "pager"]
SecondItem == [Plain EXCEPT !.name = <<"c", "_", "1">>]
RawName == [Plain EXCEPT !.name = <<"raw_", "a">>, !.type = "box", !.asset = none]
MotionLogo == [Logo EXCEPT !.name = <<"m">>, !.asset = <<"project", "bg_motion.mp4">>]
Unknown == [Plain EXCEPT !.name = <<"v">>, !.type = "video"]
Topic == [Plain EXCEPT !.name = <<"t">>, !.type = "topic"]
Quote == [Boxed EXCEPT !.name = <<"s">>, !.type = "text_quote"]
EmptyQuote == [Quote EXCEPT !.text = ""]
Title == [Topic EXCEPT !.type = "title", !.asset = none]

Pool == {Background, Picture, Still, Boxed, Logo, OtherLogo, Carousel, Pager, SecondItem,
         RawName, Unknown, Topic}
Stacks == {<<>>, <<Title>>, <<EmptyQuote, Logo>>, <<Quote, Boxed, Unknown>>, <<Carousel, Quote>>,
           <<Background, MotionLogo>>}
          \cup {<<x>> : x \in Pool} \cup {<<x, y>> : x, y \in Pool}
          \cup {<<x, y, z>> : x \in Pool \ {Topic}, y, z \in Pool \ {Picture}}

Sounds == {{}} \cup {{[file |-> f, plain |-> p]} : f \in {none, <<"m">>}, p \in BOOLEAN}
MCTextPrefixed ==
  {"text_topic", "text_title", "text_carousel_item", "text_pager_item", "text_carousel",
   "text_quote"}
MCTemplates == [layers : Stacks, tracks : Sounds]
MCPayloads ==
  {[topic |-> <<"x">>], [texts |-> <<"x">>], [texts |-> <<"x", "y">>],
   [texts |-> <<"x", NotText>>]}

-----------------------------------------------------------------------------

\* A module at rest.
AtRest(who) ==
  /\ who = "files" =>
       /\ tmpl = [layers |-> <<>>, tracks |-> {}] /\ payload = [topic |-> <<"x">>]
       /\ Fresh
  /\ who = "texts" => texts = (CHOOSE c \in Carousels : TRUE) /\ n = 1 /\ up = {} /\ t = 0
  /\ who = "overlay" => overlay = With("center", <<0, 4, 4>>, <<>>) /\ u = 0
  /\ who = "motion" =>
       motion = (CHOOSE m \in Motions : TRUE) /\ frames = 2 /\ on = 0

Subjects == {"files", "texts", "overlay", "motion"}

MCInit ==
  /\ subject \in Subjects
  /\ IF subject = "files" THEN Init ELSE AtRest("files")
  /\ IF subject = "texts" THEN T!Init ELSE AtRest("texts")
  /\ IF subject = "overlay" THEN O!Init ELSE AtRest("overlay")
  /\ IF subject = "motion" THEN C!Init ELSE AtRest("motion")

MCNext ==
  /\ UNCHANGED subject
  /\ \/ subject = "files" /\ Next /\ UNCHANGED <<timelineVars, overlayVars, motionVars>>
     \/ subject = "texts" /\ T!Play /\ UNCHANGED <<vars, overlayVars, motionVars>>
     \/ subject = "overlay" /\ O!Play /\ UNCHANGED <<vars, timelineVars, motionVars>>
     \/ subject = "motion" /\ C!NextFrame /\ UNCHANGED <<vars, timelineVars, overlayVars>>

MCSpec == MCInit /\ [][MCNext]_<<subject, vars, timelineVars, overlayVars, motionVars>>
=============================================================================
