------------------------------ MODULE Timeline ------------------------------
(***************************************************************************)
(* What a viewer sees of a text_carousel and of a pager as the video plays *)
(* (renderer/renderer.go): expandSemanticLayers gives every text an equal  *)
(* part of the layer's time, and buildOverlayFilter shows it there, faded  *)
(* in and out.                                                             *)
(*                                                                         *)
(* The seconds of the template are whole milliseconds here.  The code      *)
(* computes in float64 and prints with %.3f: the error of the former only  *)
(* tells when a time lies halfway between two milliseconds, and then every *)
(* expression of the source may be printed up or down, for itself.         *)
(* The video's clock t counts half milliseconds, so that a frame may fall  *)
(* on a printed time or between two.                                       *)
(***************************************************************************)
EXTENDS Integers, FiniteSets

CONSTANTS
  Layers,   \* carousels: their start and end, their fades and where those start
  Counts    \* how many texts the payload may have

\* The layers and the counts are such.
TimelineAssumption ==
  /\ Counts \subseteq Nat \ {0}
  /\ \A l \in Layers :
       /\ {l.start, l.end, l.fadeIn, l.fadeOut, l.at} \subseteq Nat
       /\ l.start < l.end

VARIABLES
  layer, n,
  up,         \* the ends halfway between two milliseconds that are printed up
  t

vars == <<layer, n, up, t>>

Items == 0..n - 1

\* fmt.Sprintf("%.3f") of the end e: num/n to the next millisecond.  Any other
\* fraction is at least 1/2n from a half, far more than float64 gets wrong.
Halfway(num) == (2 * num + n) % (2 * n) = 0
Millis(num, e) ==
  (2 * num + n) \div (2 * n) - IF Halfway(num) /\ e \notin up THEN 1 ELSE 0

\* The numerator, over n, of the layer's start and of the i-th part's end.
Length == layer.end - layer.start
PartStart(i) == n * layer.start + i * Length
\* Seeded fault: the parts of a carousel with one text more; parts of whole
\* milliseconds.
PartEndEarly(i) == n * layer.start + (n * (i + 1) * Length) \div (n + 1)
PartEndWhole(i) == PartStart(i) + n * ((Length + n - 1) \div n)
PartEnd(i) == n * layer.start + (i + 1) * Length

\* Where a text ends and the next one starts is one expression.
ItemStart(i) == Millis(PartStart(i), <<"text", i - 1>>)
ItemEnd(i) == Millis(PartEnd(i), <<"text", i>>)

\* The pager adds a part's length to its start.
\* Seeded fault: its parts are as long as if there were one page less.
PageEndLong(i) == Millis(PartStart(i) + (n * Length) \div (n - 1), <<"page", i>>)
PageEnd(i) == Millis(PartStart(i) + Length, <<"page", i>>)

\* A fade_out starts its duration before the item's end.
FadeOutStart(i) == Millis(PartEnd(i) - n * layer.fadeOut, <<"fade", i>>)

Init ==
  /\ layer \in Layers
  /\ n \in Counts
  /\ up \in SUBSET {e \in {"text", "page", "fade"} \X Items : Halfway(PartEnd(e[2]))}
  /\ t = 0

\* The video plays to a little after the layer's end.
Play ==
  /\ t < 2 * (layer.end + 1)
  /\ t' = t + 1
  /\ UNCHANGED <<layer, n, up>>

Spec == Init /\ [][Play]_vars

\* enable='between(t, start, end)', at the moment u.
Between(u, a, b) == 2 * a <= u /\ u <= 2 * b
ShownAt(i, u) == Between(u, ItemStart(i), ItemEnd(i))
Shown(i) == ShownAt(i, t)
PageShown(i) == Between(t, ItemStart(i), PageEnd(i))

\* An animation that has no time of its own starts with its item.
\* Seeded fault: it is moved by the item's start once more when it is drawn.
AnimationStartTwice(i) ==
  IF layer.at = 0 THEN 2 * ItemStart(i) ELSE layer.at
AnimationStart(i) == IF layer.at = 0 THEN ItemStart(i) ELSE layer.at

\* fade_in: transparent before it starts; fade_out: transparent after its end.
FadedIn(i, u) == u >= 2 * (AnimationStart(i) + layer.fadeIn)
FadingOut(i, u) == u > 2 * FadeOutStart(i)
Opaque(i, u) == ShownAt(i, u) /\ FadedIn(i, u) /\ ~FadingOut(i, u)

-----------------------------------------------------------------------------
(* Properties.                                                             *)

\* While the layer lasts some text is on the screen, and no other time: the
\* rounded parts leave no gap, and the last one ends with the layer.  Two
\* texts are on the screen together only at the very moment when one takes
\* over from the other.
TextsTakeTurns ==
  /\ Between(t, layer.start, layer.end) <=> \E i \in Items : Shown(i)
  /\ \A i, j \in Items : i < j /\ Shown(i) /\ Shown(j) => t = 2 * ItemStart(j)

\* Of a carousel and a pager with the same times, the pager shows the number of
\* the text that is shown, but for one millisecond where one text takes over
\* from another halfway between two milliseconds: their ends are computed by two
\* expressions, and one may be printed up and the other down.
PagerKeepsUp ==
  n >= 2 => \A i \in Items : PageShown(i) # Shown(i) =>
    Halfway(PartEnd(i)) /\ t \in 2 * ItemEnd(i) - 1..2 * ItemEnd(i) + 2

\* How many texts a carousel can take: if a text's part is a millisecond longer
\* than its fades, every text is legible at some moment; if it is more than a
\* millisecond shorter, so that one fade begins before the other is over, none
\* ever is.  The rounding of a text's start, of its end and of where it begins
\* to fade tells only in between.
Fits(slack) == n * (layer.fadeIn + layer.fadeOut + slack) <= Length
EverLegible(i) == \E u \in 0..2 * layer.end : Opaque(i, u)
EveryTextLegible ==
  t = 0 /\ layer.at = 0 =>
    /\ Fits(1) => \A i \in Items : EverLegible(i)
    /\ ~Fits(-1) => \A i \in Items : ~EverLegible(i)
=============================================================================
