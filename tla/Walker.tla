------------------------------ MODULE Walker ------------------------------
(***************************************************************************)
(* What the five movement modules have in common: a sprite is a position,  *)
(* a motion and the flag play, all registers of one always_ff block that   *)
(* fires on the rising edge of the vertical sync (frame_clk).              *)
(*                                                                         *)
(*   x, y     Ball_X_Pos, Ball_Y_Pos        10 bits                        *)
(*   xm, ym   Ball_X_Motion, Ball_Y_Motion  10 bits, -1 is 1023            *)
(*   play     the game was started with the space bar                      *)
(*                                                                         *)
(* A frame tests the position of BEFORE the step, chooses the motion of    *)
(* the NEXT step from those tests, and moves by the motion chosen one      *)
(* frame earlier: every wall test is one pixel late.                       *)
(***************************************************************************)
EXTENDS Maze

CONSTANTS
  X_Min, X_Max,    \* parameters Ball_X_Min, Ball_X_Max: the playfield
  Y_Min, Y_Max     \* parameters Ball_Y_Min, Ball_Y_Max

(***************************************************************************)
(* The playfield is wider than a sprite and far from the ends of the       *)
(* 10-bit range.                                                           *)
(***************************************************************************)
ASSUME PlayfieldAssumption ==
  /\ X_Min \in Int /\ X_Max \in Int /\ 1 <= X_Min /\ X_Min + 34 <= X_Max /\ X_Max <= 1022
  /\ Y_Min \in Int /\ Y_Max \in Int /\ 1 <= Y_Min /\ Y_Min + 34 <= Y_Max /\ Y_Max <= 1022

KeySpace == 44   \* 8'h2c: the key that starts the game

W10(n)   == n % 1024
MinusOne == 1023
Motion   == {0, 1, MinusOne}
Word10   == {n \in Int : 0 <= n /\ n < 1024}

Walkers == [x : Word10, y : Word10, xm : Motion, ym : Motion, play : BOOLEAN]

\* Mutant of EdgeBlocks: the test against the right edge is forgotten.
EdgeBlocks_NoRight(x, y) ==
  When(W10(y + Ball_Size) >= Y_Max, {"down"})
  \cup When(W10(y - Ball_Size) <= Y_Min, {"up"})
  \cup When(W10(x - Ball_Size) <= X_Min, {"left"})

\* The four tests against the edges of the playfield.
EdgeBlocks(x, y) ==
  When(W10(y + Ball_Size) >= Y_Max, {"down"})
  \cup When(W10(y - Ball_Size) <= Y_Min, {"up"})
  \cup When(W10(x + Ball_Size) >= X_Max, {"right"})
  \cup When(W10(x - Ball_Size) <= X_Min, {"left"})

\* Mutant of Held: a test clears its flag but not the motion.
Held_FlagOnly(m, blocked, axis, halt) == IF halt THEN 0 ELSE m

\* Mutant of Held: the sprite bounces off.
Held_Bounces(m, blocked, axis, halt) ==
  IF halt THEN 0 ELSE IF blocked \cap axis # {} THEN W10(-m) ELSE m

(***************************************************************************)
(* A test that clears a flag also clears the motion along its axis, and    *)
(* game_over clears both.                                                  *)
(***************************************************************************)
Held(m, blocked, axis, halt) ==
  IF halt \/ blocked \cap axis # {} THEN 0 ELSE m

\* Mutant of HeadX: the motion as a signed number instead of a 10-bit register.
HeadX_Signed(d) == CASE d = "left" -> -1 [] d = "right" -> 1 [] OTHER -> 0

\* The motion a key or a chase asks for: one pixel along one axis.
HeadX(d) == CASE d = "left" -> MinusOne [] d = "right" -> 1 [] OTHER -> 0
HeadY(d) == CASE d = "up"   -> MinusOne [] d = "down"  -> 1 [] OTHER -> 0

\* Mutant of Advance: a horizontal turn leaves the vertical motion alone.
Advance_KeepsYMotion(s, x, blocked, halt, turn, play) ==
  [ x    |-> W10(x + s.xm),
    y    |-> W10(s.y + s.ym),
    xm   |-> IF turn = {} THEN Held(s.xm, blocked, Sideways, halt)
                          ELSE HeadX(CHOOSE d \in turn : TRUE),
    ym   |-> IF turn \cap Vertical = {} THEN Held(s.ym, blocked, Vertical, halt)
                          ELSE HeadY(CHOOSE d \in turn : TRUE),
    play |-> play ]

(***************************************************************************)
(* The end of the block: s is the sprite before the edge, x its column     *)
(* (the tunnel may have changed it), turn the directions asked for that    *)
(* pass every test (at most one).  The old motion moves the sprite.        *)
(***************************************************************************)
Advance(s, x, blocked, halt, turn, play) ==
  [ x    |-> W10(x + s.xm),
    y    |-> W10(s.y + s.ym),
    xm   |-> IF turn = {} THEN Held(s.xm, blocked, Sideways, halt)
                          ELSE HeadX(CHOOSE d \in turn : TRUE),
    ym   |-> IF turn = {} THEN Held(s.ym, blocked, Vertical, halt)
                          ELSE HeadY(CHOOSE d \in turn : TRUE),
    play |-> play ]

-----------------------------------------------------------------------------
(***************************************************************************)
(* The playfield a sprite can reach: a test at distance Ball_Size stops it *)
(* one pixel later.                                                        *)
(***************************************************************************)
InsideX(x) == x >= X_Min + Ball_Size - 1 /\ x <= X_Max - Ball_Size + 1
InsideY(y) == y >= Y_Min + Ball_Size - 1 /\ y <= Y_Max - Ball_Size + 1

(***************************************************************************)
(* The inductive form, along one axis: the coordinate p stays between lo   *)
(* and hi, and at the last pixel the motion m no longer points outwards.   *)
(***************************************************************************)
Bounded(p, m, lo, hi, min, max) ==
  /\ lo <= p /\ p <= hi
  /\ p <= min + Ball_Size - 1 => m # MinusOne
  /\ p >= max - Ball_Size + 1 => m # 1

BoundedX(s) ==
  Bounded(s.x, s.xm, X_Min + Ball_Size - 1, X_Max - Ball_Size + 1, X_Min, X_Max)
BoundedY(s) ==
  Bounded(s.y, s.ym, Y_Min + Ball_Size - 1, Y_Max - Ball_Size + 1, Y_Min, Y_Max)

\* A sprite never moves along both axes: a turn replaces both motions.
OneAxis(s) == s.xm = 0 \/ s.ym = 0

(***************************************************************************)
(* The solid part of the bars: at half-width Core no sprite enters one.    *)
(***************************************************************************)
Core == 7
Clear(W, s) ==
  \A w \in W.bars :
    \/ s.x + Core <= w[1] \/ s.x - Core >= w[2]
    \/ s.y + Core <= w[3] \/ s.y - Core >= w[4]

(***************************************************************************)
(* What keeps a sprite clear of the bars is more than that it is clear of  *)
(* them.  The bars that touch are joined into islands, and so are the four *)
(* boxes beside the tunnel, which have no bars but closed spans all round. *)
(* A sprite is off every island by Moat pixels, and so is the pixel its    *)
(* motion leads to, because the walls tested one pixel late already close  *)
(* the direction that would lead the step after it onto the island.        *)
(***************************************************************************)
Moat == 8

BarIslands ==
  { <<315, 325, 90, 130>>, <<205, 235, 110, 130>>, <<255, 294, 110, 130>>,
    <<345, 385, 110, 130>>, <<405, 435, 110, 130>>, <<205, 235, 150, 160>>,
    <<255, 265, 150, 220>>, <<285, 355, 150, 160>>, <<315, 325, 150, 190>>,
    <<375, 385, 150, 220>>, <<405, 435, 150, 160>>, <<255, 295, 180, 190>>,
    <<345, 385, 180, 190>>, <<285, 355, 210, 250>>, <<255, 265, 240, 280>>,
    <<375, 385, 240, 280>>, <<285, 355, 270, 280>>, <<315, 325, 270, 310>>,
    <<205, 235, 300, 310>>, <<225, 235, 300, 340>>, <<255, 295, 300, 310>>,
    <<345, 385, 300, 310>>, <<405, 435, 300, 310>>, <<405, 415, 300, 340>>,
    <<185, 205, 330, 340>>, <<255, 265, 330, 370>>, <<285, 355, 330, 340>>,
    <<315, 325, 330, 370>>, <<375, 385, 330, 370>>, <<435, 455, 330, 340>>,
    <<205, 295, 360, 370>>, <<345, 435, 360, 370>> }

TunnelBoxes ==
  { <<160, 235, 190, 220>>, <<160, 235, 240, 280>>,
    <<405, 480, 190, 220>>, <<405, 480, 240, 280>> }

Islands == BarIslands \cup TunnelBoxes

Ashore(w, x, y) ==
  /\ w[1] - Moat < x /\ x < w[2] + Moat
  /\ w[3] - Moat < y /\ y < w[4] + Moat

Afloat(x, y) == \A w \in Islands : ~Ashore(w, x, y)

KeepsAfloat(s) ==
  Afloat(s.x, s.y) /\ Afloat(W10(s.x + s.xm), W10(s.y + s.ym))

(***************************************************************************)
(* The walls only fence the islands within this frame: above it nothing    *)
(* closes the gap at the top, and beside it the boxes have no ends.        *)
(***************************************************************************)
InFrame(x, y) == 177 <= x /\ x <= 463 /\ 98 <= y

ASSUME FrameAssumption == X_Min >= 162 /\ X_Max <= 478 /\ Y_Min >= 83
=============================================================================
