------------------------------- MODULE Maze -------------------------------
(***************************************************************************)
(* The maze of the game, as the five movement modules (pacman, rghost,     *)
(* bghost, oghost, pghost) encode it: no drawing, only the list of `if`s   *)
(* that clear the flags left, right, up and down for a sprite whose centre *)
(* is (x, y).  The lists are those of pacman.sv; each ghost carries its own *)
(* copy (module GhostWalls).                                               *)
(*                                                                         *)
(* A wall is <<left, right, top, bottom>>, in pixels of the 640x480 frame; *)
(* y grows downwards.                                                      *)
(***************************************************************************)
EXTENDS Integers

Directions == {"left", "right", "up", "down"}
Sideways   == {"left", "right"}
Vertical   == {"up", "down"}

\* Ball_Size: half of the 32 pixels a sprite takes in the side checks.
Ball_Size == 16

(***************************************************************************)
(* A coordinate has 10 bits, but a literal such as 8 has 32: p - k is a    *)
(* 32-bit difference, and below zero it borrows and becomes huge.          *)
(***************************************************************************)
AtMost(p, k, lim)  == p >= k /\ p - k <= lim
AtLeast(p, k, lim) == p < k \/ p - k >= lim

\* Bars that close both side exits, upper half of the maze.
AlleyBarsUpper ==
  { <<405, 435, 110, 130>>, <<345, 385, 110, 130>>, <<325, 315, 110, 130>>,
    <<255, 295, 110, 130>>, <<205, 235, 110, 130>>, <<205, 235, 150, 160>>,
    <<255, 265, 150, 160>>, <<285, 355, 150, 160>>, <<375, 385, 150, 160>>,
    <<405, 435, 150, 160>>, <<255, 295, 180, 190>>, <<315, 325, 180, 190>>,
    <<345, 385, 180, 190>>, <<255, 265, 210, 220>>, <<285, 355, 210, 220>>,
    <<375, 385, 210, 220>>, <<255, 265, 240, 250>>, <<285, 355, 240, 250>>,
    <<375, 385, 240, 250>> }

\* Cells of the two inner columns, closed on both sides.
AlleyCells ==
  { <<235, 255, 180, 220>>, <<235, 255, 240, 280>>, <<385, 405, 180, 220>>,
    <<385, 405, 240, 280>> }

\* Bars that close both side exits, lower half of the maze.
AlleyBarsLower ==
  { <<255, 265, 270, 280>>, <<285, 355, 270, 280>>, <<375, 385, 270, 280>>,
    <<205, 235, 300, 310>>, <<255, 295, 300, 310>>, <<315, 325, 300, 310>>,
    <<345, 385, 300, 310>>, <<405, 435, 300, 310>>, <<185, 205, 330, 340>>,
    <<225, 235, 330, 340>>, <<285, 355, 330, 340>>, <<375, 385, 330, 340>>,
    <<405, 415, 330, 340>>, <<435, 455, 330, 340>>, <<205, 295, 360, 370>>,
    <<315, 325, 360, 370>>, <<345, 435, 360, 370>> }

\* Cells whose right exit is closed.
RightWalls ==
  { <<296, 319, 90, 110>>, <<295, 319, 160, 190>>, <<358, 378, 160, 190>>,
    <<236, 256, 160, 190>>, <<358, 378, 190, 210>>, <<265, 285, 210, 250>>,
    <<355, 375, 250, 270>>, <<295, 315, 280, 300>>, <<205, 225, 310, 330>>,
    <<385, 405, 310, 330>>, <<235, 255, 340, 360>>, <<295, 315, 340, 360>>,
    <<355, 375, 340, 360>> }

\* Cells whose left exit is closed.
LeftWalls ==
  { <<322, 345, 90, 110>>, <<322, 345, 160, 190>>, <<264, 284, 160, 190>>,
    <<375, 405, 160, 190>>, <<264, 284, 190, 210>>, <<355, 375, 210, 250>>,
    <<265, 285, 250, 270>>, <<325, 345, 280, 300>>, <<235, 255, 310, 330>>,
    <<415, 435, 310, 330>>, <<265, 285, 340, 360>>, <<325, 345, 340, 360>>,
    <<385, 405, 340, 360>> }

\* Spans closed above and below.
AlleysUpDown ==
  { <<285, 355, 250, 270>>, <<405, 460, 220, 240>>, <<375, 385, 220, 240>>,
    <<255, 265, 220, 240>>, <<180, 235, 220, 240>> }

\* Spans closed below, upper half.  The third one is written with < 295.
DownWallsUpper ==
  { <<345, 385, 90, 110>>, <<405, 435, 90, 110>>, <<255, 294, 90, 110>>,
    <<205, 235, 90, 110>>, <<285, 355, 130, 150>>, <<405, 435, 130, 150>>,
    <<205, 235, 130, 150>>, <<375, 385, 130, 150>>, <<255, 265, 130, 150>>,
    <<405, 455, 160, 190>>, <<185, 235, 160, 190>>, <<345, 375, 160, 190>>,
    <<265, 295, 160, 190>>, <<285, 355, 190, 210>> }

\* Spans closed below, lower half.
DownWallsLower ==
  { <<405, 435, 280, 300>>, <<345, 385, 280, 300>>, <<255, 295, 280, 300>>,
    <<205, 235, 280, 300>>, <<435, 455, 310, 330>>, <<375, 385, 310, 330>>,
    <<285, 355, 310, 330>>, <<185, 205, 310, 330>>, <<255, 265, 310, 330>>,
    <<205, 255, 340, 360>>, <<265, 295, 340, 360>>, <<345, 375, 340, 360>>,
    <<385, 435, 340, 360>> }

\* Spans closed above, upper half.
UpWallsUpper ==
  { <<345, 385, 130, 150>>, <<405, 435, 130, 150>>, <<255, 295, 130, 150>>,
    <<205, 235, 130, 150>>, <<315, 325, 130, 150>>, <<285, 315, 160, 180>>,
    <<325, 355, 160, 180>>, <<405, 435, 160, 180>>, <<205, 235, 160, 180>>,
    <<265, 295, 190, 210>>, <<345, 375, 190, 210>>, <<315, 325, 190, 210>> }

\* Spans closed above, lower half.
UpWallsLower ==
  { <<185, 235, 280, 300>>, <<255, 265, 280, 300>>, <<285, 315, 280, 300>>,
    <<325, 355, 280, 300>>, <<375, 385, 280, 300>>, <<405, 455, 280, 300>>,
    <<205, 225, 310, 330>>, <<255, 295, 310, 330>>, <<315, 325, 310, 330>>,
    <<345, 385, 310, 330>>, <<415, 435, 310, 330>>, <<435, 455, 340, 360>>,
    <<405, 415, 340, 360>>, <<325, 355, 340, 360>>, <<285, 315, 340, 360>>,
    <<225, 235, 340, 360>>, <<185, 205, 340, 360>>, <<205, 295, 370, 390>>,
    <<345, 435, 370, 390>>, <<315, 325, 370, 390>> }

(***************************************************************************)
(* The three shapes of test.  Abuts: the sprite, widened to Ball_Size on   *)
(* its left and right, meets the bar.  Inside: it is inside the cell.      *)
(* Faces: it is inside the band of the span and over part of its width.    *)
(***************************************************************************)
Abuts(w, x, y) ==
  /\ AtMost(x, Ball_Size, w[2]) /\ x + Ball_Size >= w[1]
  /\ AtMost(y, 8, w[4])         /\ y + 8 >= w[3]

Inside(w, x, y) ==
  /\ AtLeast(x, 8, w[1]) /\ x + 8 <= w[2]
  /\ AtLeast(y, 8, w[3]) /\ y + 8 <= w[4]

Faces(w, x, y) ==
  /\ AtLeast(y, 8, w[3]) /\ y + 8 <= w[4]
  /\ AtMost(x, 8, w[2])  /\ x + 8 >= w[1]

When(test, dirs) == IF test THEN dirs ELSE {}

(***************************************************************************)
(* One module's copy of the lists, gathered by the exits they close.       *)
(***************************************************************************)
PacmanWalls ==
  [ bars   |-> AlleyBarsUpper \cup AlleyBarsLower,
    cells  |-> AlleyCells,
    right  |-> RightWalls,
    left   |-> LeftWalls,
    shafts |-> AlleysUpDown,
    down   |-> DownWallsUpper \cup DownWallsLower,
    up     |-> UpWallsUpper \cup UpWallsLower ]

\* The flags the side lists of W clear at (x, y) ...
SideBlocks(W, x, y) ==
  When(\/ \E w \in W.bars  : Abuts(w, x, y)
       \/ \E w \in W.cells : Inside(w, x, y), Sideways)
  \cup When(\E w \in W.right : Inside(w, x, y), {"right"})
  \cup When(\E w \in W.left  : Inside(w, x, y), {"left"})

\* ... the flags the up and down lists clear ...
VerticalBlocks(W, x, y) ==
  When(\E w \in W.shafts : Faces(w, x, y), Vertical)
  \cup When(\E w \in W.down : Faces(w, x, y), {"down"})
  \cup When(\E w \in W.up   : Faces(w, x, y), {"up"})

\* ... and all of them.
WallBlocks(W, x, y) == SideBlocks(W, x, y) \cup VerticalBlocks(W, x, y)
=============================================================================
