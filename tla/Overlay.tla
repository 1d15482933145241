------------------------------- MODULE Overlay -------------------------------
(***************************************************************************)
(* Where an overlay is as the video plays (renderer/renderer.go,           *)
(* calculateOverlayPosition and the animations of buildOverlayFilter): an  *)
(* ffmpeg expression is built up animation by animation, each around the   *)
(* one before it, and evaluated at every frame.                            *)
(*                                                                         *)
(* One axis is modelled, x; y has the same code with top and bottom for    *)
(* left and right.  Of an easing only its ends matter: on the way from one *)
(* place to another the overlay is between the two.  A pop_in does not     *)
(* enter the expression, but scales the picture from frame to frame, and   *)
(* with it the w that the expression is evaluated with: a place is that of *)
(* a picture of some width w, and Sizes are the widths of the moment.      *)
(* Time is in half milliseconds as in Timeline.                            *)
(***************************************************************************)
EXTENDS Integers, Sequences, FiniteSets

CONSTANTS
  Layers,        \* the overlays: see OverlayAssumption
  CanvasWidth,
  None           \* a distance or a target that the template does not give

Gravities ==
  {"North", "South", "West", "East", "NorthWest", "NorthEast", "SouthWest",
   "SouthEast", "center", ""}

Animations ==
  [type : {"slide_in", "move", "pop_in", "fade_in"}, at : Nat, dur : Nat \ {0},
   dir : {"left", "right", "top", "bottom", ""},
   dist : Nat \cup {None}, target : Int \cup {None}]

\* The overlays are such.
OverlayAssumption ==
  /\ CanvasWidth \in Nat
  /\ \A l \in Layers :
       /\ l.gravity \in Gravities /\ l.pos \in Int
       /\ l.width \in Nat     \* the template's, 0 for none ("fit" may draw less)
       /\ l.png \in Nat \cup {None}   \* the generated picture's
       /\ l.picture \in Nat   \* the picture's own
       /\ l.start \in Nat
       /\ l.anims \in Seq(Animations)

VARIABLES layer, t

vars == <<layer, t>>

\* What is drawn is as wide as the template says, if it says so.
Drawn == IF layer.width > 0 THEN layer.width ELSE layer.picture

\* calculateOverlayPosition.
Default(w) ==
  CASE layer.gravity \in {"North", "South", "center"} -> layer.pos - w \div 2
    [] layer.gravity = "East" -> layer.pos - w
    [] layer.gravity \in {"NorthEast", "SouthEast"} -> CanvasWidth - layer.pos - w
    [] OTHER -> layer.pos

\* A place is the pair of where an overlay comes from and where it goes to;
\* one that rests is at both.
Rest(x) == <<x, x>>
Between(a, b) == <<a, b>>

Start(a) == IF a.at = 0 THEN layer.start ELSE a.at
Finish(a) == Start(a) + a.dur

\* Where p goes from 0 to 1 while the animation lasts.
Glide(a, from, to) ==
  IF t <= 2 * Start(a) THEN Rest(from)
  ELSE IF t >= 2 * Finish(a) THEN Rest(to)
  ELSE Between(from, to)

-----------------------------------------------------------------------------
(* pop_in.                                                                 *)

\* From 8/10 of the size it overshoots to 102/100 before it gets to the size.
Pops ==
  {k \in DOMAIN layer.anims :
     layer.anims[k].type = "pop_in" /\ t < 2 * Finish(layer.anims[k])}

Sizes ==
  LET n == Cardinality(Pops)
  IN  IF Pops = {} THEN {Drawn}
      ELSE (8^n * Drawn) \div 10^n .. (102^n * Drawn) \div 100^n

-----------------------------------------------------------------------------
(* slide_in.                                                               *)

\* The picture's width is known if it was generated here: an image has none.
Width ==
  IF layer.width > 0 THEN layer.width ELSE IF layer.png # None THEN layer.png ELSE 0

Edge(a) == IF a.dir = "right" THEN CanvasWidth ELSE - Width

SlideFrom(a, w) ==
  IF a.dist = None \/ a.dir = "" THEN Edge(a)
  ELSE IF a.dir = "right" THEN Default(w) + a.dist ELSE Default(w) - a.dist

Slides(a) == a.type = "slide_in" /\ a.dir \notin {"top", "bottom"}
Slide(a, w) == Glide(a, SlideFrom(a, w), Default(w))

-----------------------------------------------------------------------------
(* move.                                                                   *)

Moves(a) == a.type = "move" /\ a.target # None

\* if(lt(t, start), before, if(gt(t, end), target, lerp)).
\* Seeded faults: a move starts from the template's position, not from where
\* the move before it ended; when it is over, what was before comes back.
MoveFromPos(a, before, last) ==
  IF t < 2 * Start(a) THEN before ELSE Glide(a, layer.pos, a.target)
MoveBack(a, before, last) ==
  IF t < 2 * Start(a) \/ t > 2 * Finish(a) THEN before ELSE Glide(a, last, a.target)
Move(a, before, last) ==
  IF t < 2 * Start(a) THEN before ELSE Glide(a, last, a.target)

\* An animation around the expression before it, with the place that the next
\* move starts from.
Around(before, a, w) ==
  IF Slides(a) THEN [x |-> Slide(a, w), last |-> Default(w)]
  ELSE IF Moves(a) THEN [x |-> Move(a, before.x, before.last), last |-> a.target]
  ELSE before

\* The expression after the first k animations.
Expr(w) ==
  LET e[k \in 0..Len(layer.anims)] ==
        IF k = 0 THEN [x |-> Rest(Default(w)), last |-> Default(w)]
        ELSE Around(e[k - 1], layer.anims[k], w)
  IN  e[Len(layer.anims)]

\* Where a picture is that is w wide at the moment.
Place(w) == Expr(w).x

-----------------------------------------------------------------------------

\* The end of the last animation.
Over == \A k \in DOMAIN layer.anims : t > 2 * Finish(layer.anims[k])

Init == layer \in Layers /\ t = 0
Play ==
  /\ ~Over
  /\ t' = t + 1
  /\ UNCHANGED layer
Spec == Init /\ [][Play]_vars

-----------------------------------------------------------------------------
(* Properties.                                                             *)

Moving(a) == Slides(a) \/ Moves(a)

\* A template whose animations of this axis are listed in the order of their
\* times, none before the end of another, a slide before all moves.
InOrder ==
  \A j, k \in DOMAIN layer.anims :
    j < k /\ Moving(layer.anims[j]) /\ Moving(layer.anims[k]) =>
      /\ ~Slides(layer.anims[k])
      /\ Finish(layer.anims[j]) <= Start(layer.anims[k])

\* From one moment to the next an overlay stays, sets out from where it is or
\* arrives where it was going: chained moves never make it jump, whatever the
\* width that a pop_in gives it at the moment.
Joins(p, q) ==
  \/ p = q
  \/ p[1] = p[2] /\ q[1] = p[2]
  \/ q[1] = q[2] /\ q[1] = p[2]
NeverJumps == [][InOrder => \A w \in Sizes : Joins(Place(w), Place(w)')]_vars

\* When all animations are over the overlay rests where the last move listed
\* leads to, or else at the place of its full size, whatever order the
\* animations come in.
LastMove ==
  {k \in DOMAIN layer.anims : /\ Moves(layer.anims[k])
                              /\ \A j \in DOMAIN layer.anims :
                                   j > k => ~Moving(layer.anims[j])}
Settled(x) ==
  IF LastMove = {} THEN x = Rest(Default(Drawn))
  ELSE \A k \in LastMove : x = Rest(layer.anims[k].target)
Settles == Over => \A w \in Sizes : Settled(Place(w))
=============================================================================
