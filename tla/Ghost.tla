------------------------------- MODULE Ghost -------------------------------
(***************************************************************************)
(* One ghost on its own: where Pac-Man is and whether the game is over are *)
(* arbitrary inputs of every frame.  Module Game connects them.            *)
(***************************************************************************)
EXTENDS Chaser

CONSTANT
  GhostKeys   \* the values of keycode considered

VARIABLES
  me,         \* the name of this ghost; fixed when the design is built
  ghost,      \* its registers (a Walker)
  keycode     \* keycode_export

vars == <<me, ghost, keycode>>

ASSUME GhostKeysAssumption == GhostKeys \subseteq 0..255 /\ 0 \in GhostKeys

-----------------------------------------------------------------------------
Init ==
  /\ me \in Names
  /\ ghost = ResetGhost(Breed[me])
  /\ keycode = 0

Frame ==
  /\ \E blocked \in {GhostBlocks(Breed[me], ghost)}, toward \in Bearings, over \in BOOLEAN :
       ghost' = GhostFrame(Breed[me], ghost, blocked, toward, keycode, over)
  /\ UNCHANGED <<me, keycode>>

Reset ==
  /\ ghost' = ResetGhost(Breed[me])
  /\ UNCHANGED <<me, keycode>>

SetKeycode ==
  /\ keycode' \in GhostKeys
  /\ UNCHANGED <<me, ghost>>

Next ==
  \/ Frame
  \/ Reset
  \/ SetKeycode

Spec == Init /\ [][Next]_vars

-----------------------------------------------------------------------------
\* The registers keep their widths, and motions are -1, 0 or 1.
TypeOK ==
  /\ me \in Names
  /\ ghost \in Walkers
  /\ keycode \in GhostKeys

(***************************************************************************)
(* A ghost leaves the playfield no further than its own home, whatever it  *)
(* chases: the edge tests, one pixel late, hold it.                        *)
(***************************************************************************)
InPlayfield ==
  /\ LowX(Breed[me]) <= ghost.x /\ ghost.x <= HighX(Breed[me])
  /\ InsideY(ghost.y)

\* The inductive invariant behind it.
IInv == TypeOK /\ GhostBounded(Breed[me], ghost)

(***************************************************************************)
(* Whatever Pac-Man does and whenever the game is over or reset, the walls *)
(* tested one pixel late keep every ghost out of every bar.                *)
(***************************************************************************)
ClearOfBars == Clear(Breed[me].walls, ghost)

(***************************************************************************)
(* Until the space bar is seen a ghost waits at home; rghost, which Reset  *)
(* sets in motion, is stopped by the edge test after one pixel.            *)
(***************************************************************************)
StaysHome ==
  ~ghost.play => ghost.y = Breed[me].home.y /\ ghost.x \in Breed[me].home.x .. Breed[me].home.x + 1

\* The inductive invariant behind StaysHome and OnePixel.
StepIInv == IInv /\ OneAxis(ghost) /\ Waits(Breed[me], ghost)

\* The inductive invariant behind ClearOfBars.
FloatIInv == StepIInv /\ KeepsAfloat(ghost)

(***************************************************************************)
(* A ghost has no tunnel: between two frames it moves at most one pixel,   *)
(* along one axis, through a change of mind at a corner too.               *)
(***************************************************************************)
OnePixel ==
  [][ \/ ghost' = ResetGhost(Breed[me])
      \/ /\ ghost'.x - ghost.x \in {-1, 0, 1}
         /\ ghost'.y - ghost.y \in {-1, 0, 1}
         /\ ghost'.x = ghost.x \/ ghost'.y = ghost.y ]_vars
=============================================================================
