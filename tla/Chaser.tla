------------------------------- MODULE Chaser -------------------------------
(***************************************************************************)
(* What rghost.sv, bghost.sv, oghost.sv and pghost.sv compute in a frame.  *)
(* They share the walker of module Walker and differ in                    *)
(*                                                                         *)
(*   home    the position Reset loads                                      *)
(*   xm      the horizontal motion Reset loads                             *)
(*   rank    the order in which a direction towards Pac-Man is tried       *)
(*   late    play is a nonblocking assignment: the chase of the frame that *)
(*           sees the space bar still reads the old value (rghost)         *)
(*   halts   the motion is cleared in every frame, because the `if` in     *)
(*           front of the game_over block is commented out (bghost)        *)
(*   walls   its copy of the maze                                          *)
(*                                                                         *)
(* No ghost has the tunnel of pacman.sv.                                   *)
(***************************************************************************)
EXTENDS Walker, GhostWalls

CONSTANT
  Breed       \* the ghosts considered: a function from names to such records

Names == DOMAIN Breed
Ranks == [Directions -> 1..4]

(***************************************************************************)
(* A home is at most as far out as the late edge tests allow, or starts    *)
(* with no motion that leads further out.                                  *)
(***************************************************************************)
HomeOK(b) ==
  /\ b.home.x \in Int /\ 16 <= b.home.x /\ b.home.x <= 1007
  /\ b.home.y \in Int /\ InsideY(b.home.y)
  /\ b.xm \in Motion
  /\ b.home.x <= X_Min + Ball_Size - 1 => b.xm # MinusOne
  /\ b.home.x >= X_Max - Ball_Size + 1 => b.xm # 1
  /\ b.rank \in Ranks /\ b.late \in BOOLEAN /\ b.halts \in BOOLEAN

ASSUME BreedAssumption == \A n \in Names : HomeOK(Breed[n])

(***************************************************************************)
(* A ghost that Reset sets in motion (rghost) starts to the right, so near *)
(* the left edge that the edge test of the first frame stops it.           *)
(***************************************************************************)
HeldAtHome(b) == b.xm = 0 \/ (b.xm = 1 /\ b.home.x - Ball_Size <= X_Min)

ASSUME StartAssumption == \A n \in Names : HeldAtHome(Breed[n])

(***************************************************************************)
(* Every ghost has one of the five copies of the maze, and its home, and   *)
(* the pixel its first motion leads to, are off the islands of that maze.  *)
(***************************************************************************)
Mazes == {PacmanWalls, R_Walls, B_Walls, O_Walls, P_Walls}

HomeAfloat(b) ==
  /\ b.walls \in Mazes
  /\ 177 <= b.home.x /\ b.home.x <= 463
  /\ Afloat(b.home.x, b.home.y) /\ Afloat(W10(b.home.x + b.xm), b.home.y)

ASSUME AfloatAssumption == \A n \in Names : HomeAfloat(Breed[n])

\* Mutant of ResetGhost: the motion is not reset to the value of the file.
ResetGhost_Left(b) ==
  [x |-> b.home.x, y |-> b.home.y, xm |-> MinusOne, ym |-> 0, play |-> FALSE]

\* The registers Reset (and power-up) loads.
ResetGhost(b) ==
  [x |-> b.home.x, y |-> b.home.y, xm |-> b.xm, ym |-> 0, play |-> FALSE]

GhostBlocks(b, s) == EdgeBlocks(s.x, s.y) \cup WallBlocks(b.walls, s.x, s.y)

\* The directions that lead from s towards (px, py).
Toward(s, px, py) ==
  When(px > s.x, {"right"}) \cup When(px < s.x, {"left"})
  \cup When(py > s.y, {"down"}) \cup When(py < s.y, {"up"})

Bearings == {T \in SUBSET Directions : ~(Sideways \subseteq T) /\ ~(Vertical \subseteq T)}

\* The if / else if chain: the open direction of lowest rank.
FirstOpen(b, open) == {d \in open : \A e \in open : b.rank[d] <= b.rank[e]}

\* Mutant of GhostFrame: the chase does not look at the walls.
GhostFrame_Blind(b, s, blocked, toward, key, over) ==
  LET play == s.play \/ key = KeySpace
      seen == IF b.late THEN s.play ELSE play
      turn == IF seen /\ ~over THEN FirstOpen(b, toward) ELSE {}
  IN  Advance(s, s.x, blocked, over \/ b.halts, turn, play)

\* Mutant of GhostFrame: the start is latched from the value the chase reads.
GhostFrame_LateLatch(b, s, blocked, toward, key, over) ==
  LET play == s.play \/ key = KeySpace
      seen == IF b.late THEN s.play ELSE play
      turn == IF seen /\ ~over THEN FirstOpen(b, toward \ blocked) ELSE {}
  IN  Advance(s, s.x, blocked, over \/ b.halts, turn, seen)

\* Mutant of GhostFrame: the chase goes on after game_over.
GhostFrame_NeverOver(b, s, blocked, toward, key, over) ==
  LET play == s.play \/ key = KeySpace
      seen == IF b.late THEN s.play ELSE play
      turn == IF seen THEN FirstOpen(b, toward \ blocked) ELSE {}
  IN  Advance(s, s.x, blocked, over \/ b.halts, turn, play)

\* One edge of frame_clk for ghost b.
GhostFrame(b, s, blocked, toward, key, over) ==
  LET play == s.play \/ key = KeySpace
      seen == IF b.late THEN s.play ELSE play
      turn == IF seen /\ ~over THEN FirstOpen(b, toward \ blocked) ELSE {}
  IN  Advance(s, s.x, blocked, over \/ b.halts, turn, play)

-----------------------------------------------------------------------------
(***************************************************************************)
(* The columns a ghost can reach: those the late edge tests leave it, and  *)
(* those between them and its home, which may lie further out.             *)
(***************************************************************************)
LowX(b)  == LET x == X_Min + Ball_Size - 1 IN IF b.home.x < x THEN b.home.x ELSE x
HighX(b) == LET x == X_Max - Ball_Size + 1 IN IF b.home.x > x THEN b.home.x ELSE x

\* Within those bounds, and at the last pixel no motion leads outwards.
GhostBounded(b, s) ==
  /\ Bounded(s.x, s.xm, LowX(b), HighX(b), X_Min, X_Max)
  /\ BoundedY(s)

(***************************************************************************)
(* What a ghost does before the game has started: it carries the motion of *)
(* Reset for one frame, and rests one pixel further at the most.           *)
(***************************************************************************)
Waits(b, s) ==
  ~s.play => /\ s.y = b.home.y /\ s.ym = 0
             /\ \/ s.x = b.home.x /\ s.xm = b.xm
                \/ s.x \in b.home.x .. b.home.x + 1 /\ s.xm = 0
=============================================================================
