---------------------------- MODULE PacmanProofs ----------------------------
(***************************************************************************)
(* Pac-Man stays in the playfield: for every playfield, every start inside *)
(* it, every set of keys and every list of walls.  In the maze of the game *)
(* it stays clear of the bars, and moves one pixel a frame but through the *)
(* tunnel: for every playfield within the maze, and every start in it that *)
(* is not on an island.                                                    *)
(***************************************************************************)
EXTENDS Pacman, SpriteProofs

\* The blocking assignments of the tunnel, seen from outside.
LEMMA TunnelCases ==
  ASSUME NEW x \in Int, NEW y \in Int
  PROVE  \/ Tunnel(x, y) = x
         \/ Tunnel(x, y) = 198
         \/ Tunnel(x, y) = 442
BY DEF Tunnel, Ball_Size

\* One frame, along x: either the ordinary step or a landing in the tunnel.
LEMMA FrameBoundedX ==
  ASSUME TypeOK, BoundedX(pac), NEW t \in Walkers, NEW xt,
         xt = Tunnel(pac.x, pac.y), t.x = W10(xt + pac.xm),
         "left"  \in EdgeBlocks(pac.x, pac.y) => t.xm # MinusOne,
         "right" \in EdgeBlocks(pac.x, pac.y) => t.xm # 1
  PROVE  BoundedX(t)
<1>1. /\ pac.x \in Int /\ pac.y \in Int /\ pac.xm \in Motion /\ t.xm \in Motion
  BY DEF TypeOK, Walkers, Word10
<1>2. /\ W10(pac.x - Ball_Size) <= X_Min => t.xm # MinusOne
      /\ W10(pac.x + Ball_Size) >= X_Max => t.xm # 1
  BY <1>1, EdgeBlocksExact
<1>3. CASE xt = pac.x
  <2>1. t.x = W10(pac.x + pac.xm)
    BY <1>3
  <2> DEFINE lo == X_Min + Ball_Size - 1
             hi == X_Max - Ball_Size + 1
  <2>2. /\ X_Min \in Int /\ X_Max \in Int /\ 1 <= X_Min /\ X_Min + 34 <= X_Max
        /\ X_Max <= 1022 /\ lo \in Int /\ hi \in Int /\ 16 <= lo /\ hi <= 1007
        /\ lo <= X_Min + 15 /\ X_Max - 15 <= hi
    BY PlayfieldAssumption DEF Ball_Size
  <2>3. Bounded(pac.x, pac.xm, lo, hi, X_Min, X_Max)
    BY DEF BoundedX
  <2> HIDE DEF lo, hi
  <2>4. Bounded(W10(pac.x + pac.xm), t.xm, lo, hi, X_Min, X_Max)
    BY <1>1, <1>2, <2>2, <2>3, BoundedStep
  <2> QED BY <2>1, <2>4 DEF BoundedX, lo, hi
<1>4. CASE xt = 198 \/ xt = 442
  <2>1. t.x = IF pac.xm = MinusOne THEN xt - 1 ELSE xt + pac.xm
    BY <1>1, <1>4, TenBitStep
  <2>2. xt - 1 <= t.x /\ t.x <= xt + 1 /\ t.x \in Int /\ xt \in Int
    BY <1>1, <1>4, <2>1 DEF Motion, MinusOne
  <2>3. X_Min + 15 < t.x /\ t.x < X_Max - 15
    BY <1>4, <2>2, TunnelAssumption, PlayfieldAssumption
  <2> QED BY <2>2, <2>3, PlayfieldAssumption DEF BoundedX, Bounded, Ball_Size
<1> QED BY <1>1, <1>3, <1>4, TunnelCases

\* One frame, along y, where no tunnel interferes.
LEMMA FrameBoundedY ==
  ASSUME TypeOK, BoundedY(pac), NEW t \in Walkers, t.y = W10(pac.y + pac.ym),
         "up"   \in EdgeBlocks(pac.x, pac.y) => t.ym # MinusOne,
         "down" \in EdgeBlocks(pac.x, pac.y) => t.ym # 1
  PROVE  BoundedY(t)
<1>1. /\ pac.x \in Int /\ pac.y \in Int /\ pac.ym \in Motion /\ t.ym \in Motion
  BY DEF TypeOK, Walkers, Word10
<1>2. /\ W10(pac.y - Ball_Size) <= Y_Min => t.ym # MinusOne
      /\ W10(pac.y + Ball_Size) >= Y_Max => t.ym # 1
  BY <1>1, EdgeBlocksExact
<1> DEFINE lo == Y_Min + Ball_Size - 1
           hi == Y_Max - Ball_Size + 1
<1>3. /\ Y_Min \in Int /\ Y_Max \in Int /\ 1 <= Y_Min /\ Y_Min + 34 <= Y_Max
      /\ Y_Max <= 1022 /\ lo \in Int /\ hi \in Int /\ 16 <= lo /\ hi <= 1007
      /\ lo <= Y_Min + 15 /\ Y_Max - 15 <= hi
  BY PlayfieldAssumption DEF Ball_Size
<1>4. Bounded(pac.y, pac.ym, lo, hi, Y_Min, Y_Max)
  BY DEF BoundedY
<1> HIDE DEF lo, hi
<1>5. Bounded(W10(pac.y + pac.ym), t.ym, lo, hi, Y_Min, Y_Max)
  BY <1>1, <1>2, <1>3, <1>4, BoundedStep
<1> QED BY <1>5 DEF BoundedY, lo, hi

\* What Reset loads is a sprite inside the playfield and at rest.
LEMMA ResetSafe == ResetPac \in Walkers /\ BoundedX(ResetPac) /\ BoundedY(ResetPac)
<1>1. /\ X_Center \in Int /\ X_Min + 15 <= X_Center /\ X_Center <= X_Max - 15
      /\ Y_Center \in Int /\ Y_Min + 15 <= Y_Center /\ Y_Center <= Y_Max - 15
  BY CenterAssumption, PlayfieldAssumption DEF InsideX, InsideY, Ball_Size
<1>2. ResetPac \in Walkers
  BY <1>1, PlayfieldAssumption DEF ResetPac, Walkers, Word10, Motion
<1> QED
  BY <1>1, <1>2, PlayfieldAssumption
  DEF ResetPac, BoundedX, BoundedY, Bounded, Ball_Size, MinusOne

\* Power-up satisfies IInv.
LEMMA InitIInv == Init => IInv
BY ResetSafe, KeycodesAssumption DEF Init, IInv, TypeOK

\* A frame preserves IInv, for either value of game_over.
LEMMA FrameIInv ==
  ASSUME IInv, Frame
  PROVE  IInv'
<1> USE DEF IInv
<1>1. PICK over \in BOOLEAN : pac' = PacFrame(pac, PacBlocks(pac), keycode, over)
  BY DEF Frame
<1> DEFINE xt == Tunnel(pac.x, pac.y)
           blocked == PacBlocks(pac)
           play == pac.play \/ keycode = KeySpace
           turn == {d \in Directions \ blocked : KeyTurns[d] = keycode /\ play /\ ~over}
<1>2. pac' = Advance(pac, xt, blocked, over, turn, play)
  BY <1>1 DEF PacFrame
<1>3. /\ pac.x \in Int /\ pac.y \in Int /\ pac.x \in Word10 /\ xt \in Word10
      /\ play \in BOOLEAN /\ turn \in SUBSET (Directions \ blocked)
  <2>1. pac.x \in Int /\ pac.y \in Int /\ pac.x \in Word10 /\ pac.play \in BOOLEAN
    BY DEF TypeOK, Walkers, Word10
  <2>2. xt \in Word10
    BY <2>1, TunnelCases DEF Word10
  <2> QED BY <2>1, <2>2
<1> HIDE DEF xt, play, turn
<1>4. /\ pac' \in Walkers
      /\ pac'.x = W10(xt + pac.xm) /\ pac'.y = W10(pac.y + pac.ym)
      /\ "left"  \in blocked => pac'.xm # MinusOne
      /\ "right" \in blocked => pac'.xm # 1
      /\ "up"    \in blocked => pac'.ym # MinusOne
      /\ "down"  \in blocked => pac'.ym # 1
  BY <1>2, <1>3, AdvanceRespectsBlocks DEF TypeOK
<1>5. EdgeBlocks(pac.x, pac.y) \subseteq blocked
  BY DEF PacBlocks
<1>6. BoundedX(pac')
  BY <1>4, <1>5, FrameBoundedX DEF xt
<1>7. BoundedY(pac')
  BY <1>4, <1>5, FrameBoundedY
<1>8. TypeOK'
  BY <1>4 DEF Frame, TypeOK
<1> QED BY <1>6, <1>7, <1>8 DEF BoundedX, BoundedY

\* IInv is inductive.
LEMMA NextIInv == IInv /\ [Next]_vars => IInv'
<1> SUFFICES ASSUME IInv, [Next]_vars PROVE IInv'
  OBVIOUS
<1>1. CASE Frame
  BY <1>1, FrameIInv
<1>2. CASE Reset
  BY <1>2, ResetSafe DEF Reset, IInv, TypeOK, BoundedX, BoundedY
<1>3. CASE SetKeycode
  BY <1>3 DEF SetKeycode, IInv, TypeOK, BoundedX, BoundedY
<1>4. CASE UNCHANGED vars
  BY <1>4 DEF vars, IInv, TypeOK, BoundedX, BoundedY
<1> QED BY <1>1, <1>2, <1>3, <1>4 DEF Next

(***************************************************************************)
(* The registers of pacman.sv keep their widths, and its motions are -1, 0 *)
(* or 1.                                                                   *)
(***************************************************************************)
THEOREM TypeCorrect == Spec => []TypeOK
<1>1. IInv => TypeOK
  BY DEF IInv
<1> QED BY <1>1, InitIInv, NextIInv, PTL DEF Spec

(***************************************************************************)
(* The one-frame delay of the edge tests costs at most one pixel, through  *)
(* the tunnel too: Pac-Man never leaves the playfield.                     *)
(***************************************************************************)
THEOREM StaysInPlayfield == Spec => []InPlayfield
<1>1. IInv => InPlayfield
  BY DEF IInv, BoundedX, BoundedY, Bounded, InPlayfield, InsideX, InsideY
<1> QED BY <1>1, InitIInv, NextIInv, PTL DEF Spec

-----------------------------------------------------------------------------
\* Reset puts the sprite afloat, at rest.
LEMMA ResetAfloat == KeepsAfloat(ResetPac) /\ OneAxis(ResetPac) /\ LevelInTunnel(ResetPac)
<1>1. /\ X_Center \in Int /\ 0 <= X_Center /\ X_Center < 1024
      /\ Y_Center \in Int /\ 0 <= Y_Center /\ Y_Center < 1024
  BY CenterAssumption, PlayfieldAssumption DEF InsideX, InsideY, Ball_Size
<1>2. W10(X_Center + 0) = X_Center /\ W10(Y_Center + 0) = Y_Center
  BY <1>1 DEF W10
<1> QED
  BY <1>2, CenterAfloatAssumption DEF KeepsAfloat, OneAxis, LevelInTunnel, ResetPac

\* The frame as a step of the walker, whose turn no test forbids.
TurnsOf(over) ==
  {d \in Directions \ PacBlocks(pac) :
     KeyTurns[d] = keycode /\ (pac.play \/ keycode = KeySpace) /\ ~over}

LEMMA FrameIsAdvance ==
  ASSUME Frame
  PROVE  \E over \in BOOLEAN :
           pac' = Advance(pac, Tunnel(pac.x, pac.y), PacBlocks(pac), over, TurnsOf(over),
                          pac.play \/ keycode = KeySpace)
BY DEF Frame, PacFrame, TurnsOf

(***************************************************************************)
(* The tunnel moves the sprite only in its own rows, where it is level,    *)
(* and to one of two columns from one of two.                              *)
(***************************************************************************)
LEMMA TunnelJumps ==
  ASSUME FloatIInv, Tunnel(pac.x, pac.y) # pac.x
  PROVE  /\ pac.y \in 228..232 /\ pac.ym = 0
         /\ \/ pac.x = 443 /\ Tunnel(pac.x, pac.y) = 198
            \/ pac.x = 197 /\ Tunnel(pac.x, pac.y) = 442
<1>1. pac.x \in Int /\ pac.y \in Int /\ 98 <= pac.y
  BY FrameAssumption, PlayfieldAssumption
  DEF FloatIInv, IInv, TypeOK, Walkers, Word10, BoundedY, Bounded, Ball_Size
<1>2. /\ pac.y \in 228..232
      /\ \/ pac.x = 443 /\ Tunnel(pac.x, pac.y) = 198
         \/ pac.x = 197 /\ Tunnel(pac.x, pac.y) = 442
  <2>1. CASE InTunnelRow(pac.y)
    <3>1. pac.y \in 228..232
      BY <1>1, <2>1 DEF InTunnelRow, AtLeast
    <3>2. CASE pac.x = 443
      <4>1. pac.x + Ball_Size = 459 /\ 198 - Ball_Size # 181
        BY <3>2 DEF Ball_Size
      <4>2. Tunnel(pac.x, pac.y) = 198
        BY <2>1, <4>1 DEF Tunnel
      <4> QED BY <3>1, <3>2, <4>2
    <3>3. CASE pac.x # 443
      <4>1. pac.x + Ball_Size # 459
        BY <1>1, <3>3 DEF Ball_Size
      <4>2. pac.x - Ball_Size = 181 /\ Tunnel(pac.x, pac.y) = 442
        BY <2>1, <4>1 DEF Tunnel
      <4> QED BY <1>1, <3>1, <4>2 DEF Ball_Size
    <3> QED BY <3>2, <3>3
  <2>2. CASE ~InTunnelRow(pac.y)
    BY <2>2 DEF Tunnel
  <2> QED BY <2>1, <2>2
<1> QED BY <1>1, <1>2 DEF FloatIInv, LevelInTunnel

\* The column a frame starts from, after the tunnel, is as good as the one before it.
LEMMA TunnelAfloat ==
  ASSUME FloatIInv, NEW xt, xt = Tunnel(pac.x, pac.y)
  PROVE  /\ xt \in Int /\ 177 <= xt /\ xt <= 463
         /\ Afloat(xt, pac.y) /\ Afloat(W10(xt + pac.xm), W10(pac.y + pac.ym))
<1>1. /\ pac.x \in Int /\ pac.y \in Int /\ pac.xm \in Motion
      /\ 177 <= pac.x /\ pac.x <= 463
  BY FrameAssumption, PlayfieldAssumption
  DEF FloatIInv, IInv, TypeOK, Walkers, Word10, BoundedX, Bounded, Ball_Size
<1>2. CASE xt = pac.x
  BY <1>1, <1>2 DEF FloatIInv, KeepsAfloat
<1>3. CASE xt # pac.x
  <2>1. pac.y \in 228..232 /\ pac.ym = 0 /\ (xt = 198 \/ xt = 442)
    BY <1>3, TunnelJumps
  <2>2. /\ W10(xt + pac.xm) \in 197..199 \/ W10(xt + pac.xm) \in 441..443
        /\ W10(pac.y + pac.ym) = pac.y
    BY <1>1, <2>1 DEF W10, Motion, MinusOne
  <2>3. \A x \in 197..199 \cup 441..443 : Afloat(x, pac.y)
    BY <2>1 DEF Afloat, Ashore, Moat, Islands, BarIslands, TunnelBoxes
  <2> QED BY <2>1, <2>2, <2>3
<1> QED BY <1>2, <1>3

(***************************************************************************)
(* A sprite between the boxes beside the tunnel was in the same row one    *)
(* frame ago, because above and below there are the boxes; and in that row *)
(* the tests close the vertical directions.                                *)
(***************************************************************************)
LEMMA FrameLevel ==
  ASSUME FloatIInv, NEW xt, xt = Tunnel(pac.x, pac.y), NEW t \in Walkers,
         t.x = W10(xt + pac.xm), t.y = W10(pac.y + pac.ym),
         "up"   \in PacBlocks(pac) => t.ym # MinusOne,
         "down" \in PacBlocks(pac) => t.ym # 1
  PROVE  LevelInTunnel(t)
<1> SUFFICES ASSUME t.y \in 228..232, t.x <= 242 \/ t.x >= 398
             PROVE  t.ym = 0
  BY DEF LevelInTunnel
<1>1. /\ pac.x \in Int /\ pac.y \in Int /\ pac.xm \in Motion /\ pac.ym \in Motion
      /\ pac.xm = 0 \/ pac.ym = 0
  BY DEF FloatIInv, IInv, TypeOK, Walkers, Word10, OneAxis
<1>2. /\ 98 <= pac.y /\ pac.y <= 1007
  BY <1>1, FrameAssumption, PlayfieldAssumption
  DEF FloatIInv, IInv, BoundedY, Bounded, Ball_Size
<1>3. xt \in Int /\ 177 <= xt /\ xt <= 463 /\ Afloat(xt, pac.y)
  BY TunnelAfloat
<1>4. /\ t.x = (IF pac.xm = MinusOne THEN xt - 1 ELSE xt + pac.xm)
      /\ t.y = (IF pac.ym = MinusOne THEN pac.y - 1 ELSE pac.y + pac.ym)
  BY <1>1, <1>2, <1>3, TenBitStep
<1>5. pac.y \in 228..232 /\ (xt <= 243 \/ xt >= 397)
  <2>1. CASE pac.ym = 0
    BY <1>1, <1>2, <1>3, <1>4, <2>1 DEF Motion, MinusOne
  <2>2. CASE pac.ym # 0
    <3>1. t.x = xt /\ t.y - pac.y \in {-1, 1}
      BY <1>1, <1>2, <1>3, <1>4, <2>2 DEF Motion, MinusOne
    <3>2. \A w \in TunnelBoxes : ~Ashore(w, xt, pac.y)
      BY <1>3 DEF Afloat, Islands
    <3>3. /\ ~Ashore(<<160, 235, 190, 220>>, xt, pac.y)
          /\ ~Ashore(<<160, 235, 240, 280>>, xt, pac.y)
          /\ ~Ashore(<<405, 480, 190, 220>>, xt, pac.y)
          /\ ~Ashore(<<405, 480, 240, 280>>, xt, pac.y)
      BY <3>2 DEF TunnelBoxes
    <3>4. pac.y # 227 /\ pac.y # 233
      BY <1>3, <3>1, <3>3 DEF Ashore, Moat
    <3> QED BY <1>1, <1>3, <3>1, <3>4
  <2> QED BY <2>1, <2>2
<1>6. \E w \in AlleysUpDown : Faces(w, xt, pac.y)
  <2>1. Faces(<<180, 235, 220, 240>>, xt, pac.y) \/ Faces(<<405, 460, 220, 240>>, xt, pac.y)
    BY <1>1, <1>3, <1>5 DEF Faces, AtMost, AtLeast
  <2> QED BY <2>1 DEF AlleysUpDown
<1>7. "up" \in PacBlocks(pac) /\ "down" \in PacBlocks(pac)
  BY <1>6 DEF PacBlocks, WallBlocks, VerticalBlocks, When, PacmanWalls, Vertical
<1> QED BY <1>7 DEF Walkers, Motion

\* A frame keeps the sprite afloat, on one axis, and level in the tunnel.
LEMMA FrameFloats ==
  ASSUME FloatIInv, Frame
  PROVE  FloatIInv'
<1>1. PICK over \in BOOLEAN :
        pac' = Advance(pac, Tunnel(pac.x, pac.y), PacBlocks(pac), over, TurnsOf(over),
                       pac.play \/ keycode = KeySpace)
  BY FrameIsAdvance
<1> DEFINE xt == Tunnel(pac.x, pac.y)
           blocked == PacBlocks(pac)
           play == pac.play \/ keycode = KeySpace
           turn == TurnsOf(over)
<1>2. turn \in SUBSET (Directions \ blocked)
  BY DEF TurnsOf
<1>3. pac \in Walkers /\ OneAxis(pac) /\ pac.play \in BOOLEAN
  BY DEF FloatIInv, IInv, TypeOK, Walkers
<1>4. /\ xt \in Int /\ 177 <= xt /\ xt <= 463
      /\ Afloat(xt, pac.y) /\ Afloat(W10(xt + pac.xm), W10(pac.y + pac.ym))
  BY TunnelAfloat
<1>5. pac.y \in Int /\ 98 <= pac.y /\ pac.y <= 1007
  BY <1>3, FrameAssumption, PlayfieldAssumption
  DEF FloatIInv, IInv, Walkers, Word10, BoundedY, Bounded, Ball_Size
<1>6. WallBlocks(PacmanWalls, xt, pac.y) \subseteq blocked
  BY DEF PacBlocks
<1>7. play \in BOOLEAN /\ xt \in Word10
  BY <1>3, <1>4 DEF Word10
<1>8. pac' = Advance(pac, xt, blocked, over, turn, play)
  BY <1>1
<1> HIDE DEF xt, blocked, play, turn
<1>9. KeepsAfloat(pac')
  BY <1>2, <1>3, <1>4, <1>5, <1>6, <1>8, AdvanceAfloat
<1>10. OneAxis(pac')
  BY <1>3, <1>8, AdvanceOneAxis
<1>11. LevelInTunnel(pac')
  <2>1. /\ pac' \in Walkers
        /\ pac'.x = W10(xt + pac.xm) /\ pac'.y = W10(pac.y + pac.ym)
        /\ "left"  \in blocked => pac'.xm # MinusOne
        /\ "right" \in blocked => pac'.xm # 1
        /\ "up"    \in blocked => pac'.ym # MinusOne
        /\ "down"  \in blocked => pac'.ym # 1
    BY <1>2, <1>3, <1>7, <1>8, AdvanceRespectsBlocks
  <2> QED BY <2>1, FrameLevel DEF xt, blocked
<1>12. IInv'
  BY FrameIInv DEF FloatIInv
<1> QED BY <1>9, <1>10, <1>11, <1>12 DEF FloatIInv, KeepsAfloat, OneAxis, LevelInTunnel

\* FloatIInv is inductive.
LEMMA NextFloatIInv == FloatIInv /\ [Next]_vars => FloatIInv'
<1> SUFFICES ASSUME FloatIInv, [Next]_vars PROVE FloatIInv'
  OBVIOUS
<1>1. IInv'
  BY NextIInv DEF FloatIInv
<1>2. CASE Frame
  BY <1>2, FrameFloats
<1>3. CASE Reset
  BY <1>1, <1>3, ResetAfloat DEF Reset, FloatIInv, KeepsAfloat, OneAxis, LevelInTunnel
<1>4. CASE SetKeycode \/ UNCHANGED vars
  BY <1>1, <1>4 DEF SetKeycode, vars, FloatIInv, KeepsAfloat, OneAxis, LevelInTunnel
<1> QED BY <1>2, <1>3, <1>4 DEF Next

\* FloatIInv holds initially.
LEMMA InitFloatIInv == Init => FloatIInv
BY InitIInv, ResetAfloat DEF Init, FloatIInv

(***************************************************************************)
(* Pac-Man never enters a bar of the maze, whatever keys are pressed at    *)
(* whatever frames, through the tunnel and over a Reset too.               *)
(***************************************************************************)
THEOREM PacmanClearOfBars == Spec => []ClearOfBars
<1>1. FloatIInv => ClearOfBars
  BY AfloatIsClear
  DEF FloatIInv, IInv, TypeOK, Walkers, Word10, KeepsAfloat, ClearOfBars
<1> QED BY <1>1, InitFloatIInv, NextFloatIInv, PTL DEF Spec

(***************************************************************************)
(* Between two frames Pac-Man moves by at most one pixel along one axis,   *)
(* except through the tunnel, which it leaves in the row it entered.       *)
(***************************************************************************)
THEOREM PacmanStepsOrTunnels == Spec => StepOrTunnel
<1>1. ASSUME FloatIInv, [Next]_vars
      PROVE  [ \/ pac' = ResetPac
               \/ /\ Near(pac'.x, pac.x) /\ Near(pac'.y, pac.y)
                  /\ pac'.x = pac.x \/ pac'.y = pac.y
               \/ Crosses(pac, pac') ]_vars
  <2>1. /\ pac.x \in Int /\ pac.y \in Int /\ pac.xm \in Motion /\ pac.ym \in Motion
        /\ pac.xm = 0 \/ pac.ym = 0
    BY <1>1 DEF FloatIInv, IInv, TypeOK, Walkers, Word10, OneAxis
  <2>2. /\ 1 <= pac.x /\ pac.x <= 1022 /\ 1 <= pac.y /\ pac.y <= 1022
    BY <1>1, <2>1, PlayfieldAssumption
    DEF FloatIInv, IInv, BoundedX, BoundedY, Bounded, Ball_Size
  <2>3. CASE Frame
    <3> DEFINE xt == Tunnel(pac.x, pac.y)
    <3>1. pac'.x = W10(xt + pac.xm) /\ pac'.y = W10(pac.y + pac.ym)
      BY <2>3, FrameIsAdvance DEF Advance
    <3>2. CASE xt = pac.x
      BY <2>1, <2>2, <3>1, <3>2, StepNear DEF Near
    <3>3. CASE xt # pac.x
      <4>1. /\ pac.y \in 228..232 /\ pac.ym = 0
            /\ \/ pac.x = 443 /\ xt = 198
               \/ pac.x = 197 /\ xt = 442
        BY <1>1, <3>3, TunnelJumps
      <4> HIDE DEF xt
      <4>2. pac'.y = pac.y
        BY <2>1, <2>2, <3>1, <4>1, StepNear
      <4>3. \/ pac.x = 443 /\ pac'.x \in 197..199
            \/ pac.x = 197 /\ pac'.x \in 441..443
        BY <2>1, <3>1, <4>1 DEF W10, Motion, MinusOne
      <4> QED BY <4>2, <4>3 DEF Crosses
    <3> QED BY <3>2, <3>3
  <2>4. CASE Reset
    BY <2>4 DEF Reset
  <2>5. CASE SetKeycode
    BY <2>1, <2>5 DEF SetKeycode, Near
  <2> QED BY <1>1, <2>3, <2>4, <2>5 DEF Next
<1> QED BY <1>1, InitFloatIInv, NextFloatIInv, PTL DEF Spec, StepOrTunnel
=============================================================================
