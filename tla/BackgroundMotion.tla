-------------------------- MODULE BackgroundMotion --------------------------
(***************************************************************************)
(* The camera over the background (renderer/renderer.go,                   *)
(* renderBackgroundMotion): zoompan's expressions, frame by frame.         *)
(*                                                                         *)
(* Zooms and places are in hundredths, as fractions with the denominator   *)
(* of the wave that they follow.  For sin stands the triangle wave of the  *)
(* same period: it rises, falls and meets -1, 0 and 1 at the same frames,  *)
(* and that is all the properties look at.  The bounds that zoompan puts   *)
(* on what it is told are ffmpeg's.                                        *)
(***************************************************************************)
EXTENDS Integers

CONSTANTS
  Motions,   \* layer.motion: type, speed and ranges
  Frames     \* the numbers of frames

\* A range that a template may leave out.
NoRange == <<>>

\* The motions and the frames are such.
MotionAssumption ==
  /\ Frames \subseteq Nat \ {0, 1}
  /\ \A m \in Motions :
       /\ m.type \in {"drift", "pulse", "glance", "linear"}
       /\ m.speed \in {"fast", "slow", ""}
       /\ m.zoom = NoRange \/ m.zoom \in Int \X Int   \* in or out

VARIABLES
  motion,
  totalFrames,   \* round(duration * fps)
  on             \* zoompan's number of the frame

vars == <<motion, totalFrames, on>>

\* sin(2 pi num/den), times den, as a triangle; cos is a quarter ahead.
Sin(num, den) ==
  LET r == (4 * num) % (4 * den)
  IN  IF r <= den THEN r ELSE IF r <= 3 * den THEN 2 * den - r ELSE r - 4 * den
Cos(num, den) == Sin(4 * num + den, 4 * den) \div 4

\* In how many frames the wave comes round once.
\* drift: multiples of the duration, for the zoom and for the pan.
PanPeriod == totalFrames * (CASE motion.speed = "fast" -> 1
                              [] motion.speed = "slow" -> 3 [] OTHER -> 2)
\* Seeded fault: the zoom has the pan's period.
ZoomPeriodPan == PanPeriod
ZoomPeriod == totalFrames * (CASE motion.speed = "fast" -> 2
                               [] motion.speed = "slow" -> 6 [] OTHER -> 4)
\* pulse and glance: seconds, a frame each here.
PulsePeriod == CASE motion.speed = "slow" -> 8 [] motion.speed = "fast" -> 3 [] OTHER -> 5
GlancePeriod == CASE motion.speed = "slow" -> 15 [] motion.speed = "fast" -> 7 [] OTHER -> 10

Or(range, otherwise) == IF range = NoRange THEN otherwise ELSE range
ZoomRange ==
  CASE motion.type = "drift" -> Or(motion.zoom, <<100, 125>>)
    [] motion.type = "pulse" -> Or(motion.zoom, <<100, 115>>)
    [] motion.type = "glance" -> LET z == Or(motion.zoom, <<115, 115>>) IN <<z[1], z[1]>>
    [] OTHER -> Or(motion.zoom, <<100, 105>>)

\* from + (to - from) * num/den, times den.
Blend(range, num, den) == range[1] * den + (range[2] - range[1]) * num

\* (sin + 1)/2, as a fraction of 2 * den.
Wave(num, den) == Sin(num, den) + den

\* What the frames of a linear motion are counted against.
\* Seeded fault: all of them.
LastFrameAll == totalFrames
LastFrame == totalFrames - 1

\* The zoom, and the fraction's denominator.
ZoomDen ==
  CASE motion.type = "drift" -> ZoomPeriod
    [] motion.type = "pulse" -> 2 * PulsePeriod
    [] motion.type = "glance" -> 1
    [] OTHER -> LastFrame
Zoom ==
  CASE motion.type = "drift" -> Blend(ZoomRange, Sin(on, ZoomPeriod), ZoomDen)
    [] motion.type = "pulse" -> Blend(ZoomRange, Wave(on, PulsePeriod), ZoomDen)
    [] motion.type = "glance" -> ZoomRange[1]
    [] OTHER -> Blend(ZoomRange, on, ZoomDen)

\* How far the pan is from the middle of its range, left to right and top to
\* bottom: half a range is PanDen.
PanDen ==
  CASE motion.type = "drift" -> PanPeriod
    [] motion.type = "glance" -> GlancePeriod
    [] OTHER -> LastFrame
PanX ==
  CASE motion.type = "drift" -> Sin(on, PanPeriod)
    [] motion.type = "glance" -> Sin(on, GlancePeriod)
    [] motion.type = "pulse" -> 0
    [] OTHER -> 2 * on - LastFrame
PanY ==
  CASE motion.type = "drift" -> Cos(on, PanPeriod)
    [] motion.type = "linear" -> 2 * on - LastFrame
    [] OTHER -> 0

Init == motion \in Motions /\ totalFrames \in Frames /\ on = 0
NextFrame ==
  /\ on < totalFrames - 1
  /\ on' = on + 1
  /\ UNCHANGED <<motion, totalFrames>>
Spec == Init /\ [][NextFrame]_vars

-----------------------------------------------------------------------------
(* Properties.                                                             *)

\* A drifting camera turns back at most once, at the speed fast and in the
\* second half: the zoom's period is so chosen that the whole video sees a
\* quarter of it or less, at fast half of it.  ("Zoom: Always moves in ONE
\* direction (In or Out).  No yo-yo.")
TurnsBack ==
  \/ ZoomRange[1] < ZoomRange[2] /\ Zoom' < Zoom
  \/ ZoomRange[2] < ZoomRange[1] /\ Zoom < Zoom'
TurnsBackOnlyFast ==
  [][ motion.type = "drift" /\ TurnsBack =>
        motion.speed = "fast" /\ 2 * on' >= totalFrames ]_vars

Within(x, a, b) == (a <= x /\ x <= b) \/ (b <= x /\ x <= a)

\* The camera stays in the ranges of the template, or of the defaults, and a
\* linear motion's last frame is the end that the template asks for.
KeepsItsRanges ==
  /\ Within(Zoom, ZoomRange[1] * ZoomDen, ZoomRange[2] * ZoomDen)
  /\ Within(PanX, - PanDen, PanDen) /\ Within(PanY, - PanDen, PanDen)
  /\ motion.type = "linear" /\ on = totalFrames - 1 =>
       Zoom = ZoomRange[2] * ZoomDen /\ PanX = PanDen /\ PanY = PanDen
=============================================================================
