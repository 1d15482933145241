------------------------------- MODULE Renderer -------------------------------
(***************************************************************************)
(* The four modules of the renderer side by side: the files and the filter *)
(* graph of generateVideo, and what ffmpeg then shows of a carousel and    *)
(* its pager, of an overlay and of the background.  They share no state.   *)
(***************************************************************************)
EXTENDS VideoGeneration

CONSTANTS
  Carousels, Counts,      \* Timeline
  Animated, CanvasWidth,  \* Overlay
  Motions, Frames         \* BackgroundMotion

VARIABLES
  texts, n, up, t,
  overlay, u,
  motion, frames, on

T == INSTANCE Timeline WITH Layers <- Carousels, layer <- texts
O == INSTANCE Overlay WITH Layers <- Animated, layer <- overlay, t <- u
C == INSTANCE BackgroundMotion WITH totalFrames <- frames

ASSUME CarouselsAssumption == T!TimelineAssumption
ASSUME OverlaysAssumption == O!OverlayAssumption
ASSUME MotionsAssumption == C!MotionAssumption

-----------------------------------------------------------------------------
(* Their properties: see the modules.                                      *)

\* Texts of a carousel follow each other without gap or overlap.
TextsTakeTurns == T!TextsTakeTurns

\* The pager shows the number of the carousel's text, but for a millisecond.
PagerKeepsUp == T!PagerKeepsUp

\* Texts that last a millisecond longer than their fades are legible at some
\* moment, texts that last less than their fades never.
EveryTextLegible == T!EveryTextLegible

\* Chained moves in order never make an overlay jump.
NeverJumps == O!NeverJumps

\* An overlay ends where the last move listed leads to.
Settles == O!Settles

\* The drifting zoom turns back at the speed fast only.
TurnsBackOnlyFast == C!TurnsBackOnlyFast

\* The camera keeps to its ranges and ends where a linear motion should.
KeepsItsRanges == C!KeepsItsRanges
=============================================================================
