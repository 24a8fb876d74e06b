----------------------------- MODULE GhostProofs -----------------------------
(***************************************************************************)
(* A ghost stays in the playfield (or between it and its home), moves one  *)
(* pixel a frame and waits for the space bar: for every playfield, every   *)
(* home, every order of directions and every list of walls.  In the maze   *)
(* of the game it stays clear of the bars.                                 *)
(***************************************************************************)
EXTENDS Ghost, SpriteProofs

\* Power-up satisfies IInv.
LEMMA InitIInv == Init => IInv
BY ResetGhostSafe, GhostKeysAssumption DEF Init, IInv, TypeOK

\* IInv is inductive.
LEMMA NextIInv == IInv /\ [Next]_vars => IInv'
<1> SUFFICES ASSUME IInv, [Next]_vars PROVE IInv'
  OBVIOUS
<1>1. me \in Names /\ ghost \in Walkers /\ GhostBounded(Breed[me], ghost)
  BY DEF IInv, TypeOK
<1>2. CASE Frame
  <2>1. PICK toward \in Bearings, over \in BOOLEAN :
          ghost' = GhostFrame(Breed[me], ghost, GhostBlocks(Breed[me], ghost),
                              toward, keycode, over)
    BY <1>2 DEF Frame
  <2>2. EdgeBlocks(ghost.x, ghost.y) \subseteq GhostBlocks(Breed[me], ghost)
    BY DEF GhostBlocks
  <2>3. toward \in SUBSET Directions
    BY DEF Bearings
  <2>4. ghost' \in Walkers /\ GhostBounded(Breed[me], ghost')
    BY <1>1, <2>1, <2>2, <2>3, GhostFrameSafe
  <2> QED BY <1>2, <2>4 DEF Frame, IInv, TypeOK, GhostBounded, BoundedY
<1>3. CASE Reset
  BY <1>1, <1>3, ResetGhostSafe DEF Reset, IInv, TypeOK, GhostBounded, BoundedY
<1>4. CASE SetKeycode
  BY <1>1, <1>4 DEF SetKeycode, IInv, TypeOK, GhostBounded, BoundedY
<1>5. CASE UNCHANGED vars
  BY <1>1, <1>5 DEF vars, IInv, TypeOK, GhostBounded, BoundedY
<1> QED BY <1>2, <1>3, <1>4, <1>5 DEF Next

(***************************************************************************)
(* The registers of every ghost keep their widths, and its motions are -1, *)
(* 0 or 1, whichever ghost it is.                                          *)
(***************************************************************************)
THEOREM GhostTypeCorrect == Spec => []TypeOK
<1>1. IInv => TypeOK
  BY DEF IInv
<1> QED BY <1>1, InitIInv, NextIInv, PTL DEF Spec

(***************************************************************************)
(* The one-frame delay of the edge tests costs a ghost at most one pixel,  *)
(* whatever it chases and whichever direction it prefers.                  *)
(***************************************************************************)
THEOREM GhostStaysInPlayfield == Spec => []InPlayfield
<1>1. IInv => InPlayfield
  BY DEF IInv, GhostBounded, BoundedY, Bounded, InPlayfield, InsideY
<1> QED BY <1>1, InitIInv, NextIInv, PTL DEF Spec

\* Power-up satisfies StepIInv, and so does Reset.
LEMMA ResetGhostSteps ==
  ASSUME NEW n \in Names
  PROVE  OneAxis(ResetGhost(Breed[n])) /\ Waits(Breed[n], ResetGhost(Breed[n]))
BY DEF OneAxis, Waits, ResetGhost

\* A frame keeps StepIInv and moves the ghost at most one pixel along one axis.
LEMMA FrameSteps ==
  ASSUME StepIInv, Frame
  PROVE  SmallStep(Breed[me], ghost, ghost')
<1>1. PICK toward \in Bearings, over \in BOOLEAN :
        ghost' = GhostFrame(Breed[me], ghost, GhostBlocks(Breed[me], ghost),
                            toward, keycode, over)
  BY DEF Frame
<1>2. /\ me \in Names /\ ghost \in Walkers /\ GhostBounded(Breed[me], ghost)
      /\ OneAxis(ghost) /\ Waits(Breed[me], ghost)
  BY DEF StepIInv, IInv, TypeOK
<1>3. EdgeBlocks(ghost.x, ghost.y) \subseteq GhostBlocks(Breed[me], ghost)
  BY DEF GhostBlocks
<1>4. toward \in SUBSET Directions
  BY DEF Bearings
<1> QED BY <1>1, <1>2, <1>3, <1>4, GhostFrameSteps

\* StepIInv is inductive.
LEMMA NextStepIInv == StepIInv /\ [Next]_vars => StepIInv'
<1> SUFFICES ASSUME StepIInv, [Next]_vars PROVE StepIInv'
  OBVIOUS
<1>1. IInv' /\ me \in Names
  BY NextIInv DEF StepIInv, IInv, TypeOK
<1>2. CASE Frame
  BY <1>1, <1>2, FrameSteps DEF Frame, StepIInv, SmallStep, OneAxis, Waits
<1>3. CASE Reset
  BY <1>1, <1>3, ResetGhostSteps DEF Reset, StepIInv, OneAxis, Waits
<1>4. CASE SetKeycode \/ UNCHANGED vars
  BY <1>1, <1>4 DEF SetKeycode, vars, StepIInv, OneAxis, Waits
<1> QED BY <1>2, <1>3, <1>4 DEF Next

\* StepIInv holds initially.
LEMMA InitStepIInv == Init => StepIInv
BY InitIInv, ResetGhostSteps DEF Init, StepIInv

(***************************************************************************)
(* Until the space bar is seen every ghost waits at home, at most a pixel  *)
(* to the right of it, whatever the maze around that home.                 *)
(***************************************************************************)
THEOREM GhostWaitsAtHome == Spec => []StaysHome
<1>1. StepIInv => StaysHome
  <2> SUFFICES ASSUME StepIInv, ~ghost.play
               PROVE  /\ ghost.y = Breed[me].home.y
                      /\ ghost.x \in Breed[me].home.x .. Breed[me].home.x + 1
    BY DEF StaysHome
  <2>1. Breed[me].home.x \in Int
    BY BreedFacts DEF StepIInv, IInv, TypeOK, HomeOK
  <2> QED BY <2>1 DEF StepIInv, Waits
<1> QED BY <1>1, InitStepIInv, NextStepIInv, PTL DEF Spec

(***************************************************************************)
(* No step of a ghost but Reset moves it by more than one pixel, or along  *)
(* both axes at once: a change of direction at a corner does neither.      *)
(***************************************************************************)
THEOREM GhostMovesOnePixel == Spec => OnePixel
<1>1. ASSUME StepIInv, [Next]_vars
      PROVE  [ \/ ghost' = ResetGhost(Breed[me])
               \/ /\ ghost'.x - ghost.x \in {-1, 0, 1}
                  /\ ghost'.y - ghost.y \in {-1, 0, 1}
                  /\ ghost'.x = ghost.x \/ ghost'.y = ghost.y ]_vars
  <2>1. CASE Frame
    BY <1>1, <2>1, FrameSteps DEF SmallStep
  <2>2. CASE Reset
    BY <2>2 DEF Reset
  <2>3. CASE SetKeycode
    <3>1. ghost.x \in Int /\ ghost.y \in Int
      BY <1>1 DEF StepIInv, IInv, TypeOK, Walkers, Word10
    <3> QED BY <2>3, <3>1 DEF SetKeycode
  <2> QED BY <1>1, <2>1, <2>2, <2>3 DEF Next
<1> QED BY <1>1, InitStepIInv, NextStepIInv, PTL DEF Spec, OnePixel

\* FloatIInv is inductive.
LEMMA NextFloatIInv == FloatIInv /\ [Next]_vars => FloatIInv'
<1> SUFFICES ASSUME FloatIInv, [Next]_vars PROVE FloatIInv'
  OBVIOUS
<1>1. StepIInv /\ StepIInv' /\ KeepsAfloat(ghost)
  BY NextStepIInv DEF FloatIInv
<1>2. me \in Names /\ ghost \in Walkers /\ GhostBounded(Breed[me], ghost) /\ OneAxis(ghost)
  BY <1>1 DEF StepIInv, IInv, TypeOK
<1>3. CASE Frame
  <2>1. PICK toward \in Bearings, over \in BOOLEAN :
          ghost' = GhostFrame(Breed[me], ghost, GhostBlocks(Breed[me], ghost),
                              toward, keycode, over)
    BY <1>3 DEF Frame
  <2>2. toward \in SUBSET Directions
    BY DEF Bearings
  <2>3. WallBlocks(Breed[me].walls, ghost.x, ghost.y) \subseteq GhostBlocks(Breed[me], ghost)
    BY DEF GhostBlocks
  <2>4. KeepsAfloat(ghost')
    BY <1>1, <1>2, <2>1, <2>2, <2>3, GhostFrameAfloat
  <2> QED BY <1>1, <2>4 DEF FloatIInv, KeepsAfloat
<1>4. CASE Reset
  BY <1>1, <1>2, <1>4, ResetGhostAfloat DEF Reset, FloatIInv, KeepsAfloat
<1>5. CASE SetKeycode \/ UNCHANGED vars
  BY <1>1, <1>5 DEF SetKeycode, vars, FloatIInv, KeepsAfloat
<1> QED BY <1>3, <1>4, <1>5 DEF Next

(***************************************************************************)
(* No ghost ever enters a bar of its maze, whatever it chases, in whatever *)
(* order it tries the directions, and whenever it is halted or reset: the  *)
(* walls, tested one pixel late, are drawn one pixel early everywhere.     *)
(***************************************************************************)
THEOREM GhostClearOfBars == Spec => []ClearOfBars
<1>1. Init => FloatIInv
  BY InitStepIInv, ResetGhostAfloat DEF Init, FloatIInv
<1>2. FloatIInv => ClearOfBars
  <2> SUFFICES ASSUME FloatIInv PROVE ClearOfBars
    OBVIOUS
  <2>1. me \in Names /\ ghost.x \in Int /\ ghost.y \in Int /\ Afloat(ghost.x, ghost.y)
    BY DEF FloatIInv, StepIInv, IInv, TypeOK, Walkers, Word10, KeepsAfloat
  <2> QED BY <2>1, OneMaze, AfloatIsClear DEF ClearOfBars
<1> QED BY <1>1, <1>2, NextFloatIInv, PTL DEF Spec
=============================================================================
