---------------------------- MODULE SpriteProofs ----------------------------
(***************************************************************************)
(* Facts about one step of a sprite and one frame of one ghost.  They hold *)
(* for every playfield, every home, every order of directions and every    *)
(* list of walls; only those about islands (BarIslands, Ashore, Afloat)    *)
(* look inside the game's own lists.                                       *)
(***************************************************************************)
EXTENDS Chaser, TLAPS

-----------------------------------------------------------------------------
\* Walker.
(***************************************************************************)
(* The 10-bit sum of a coordinate and a motion, away from the ends of the  *)
(* range: 1023 counts as -1.                                               *)
(***************************************************************************)
LEMMA TenBitStep ==
  ASSUME NEW p \in Int, 1 <= p, p <= 1022, NEW m \in Motion
  PROVE  W10(p + m) = IF m = MinusOne THEN p - 1 ELSE p + m
BY DEF W10, Motion, MinusOne

(***************************************************************************)
(* One axis of one frame.  If the two late edge tests at p forbid the new  *)
(* motion n to point outwards, Bounded is preserved by the step.           *)
(***************************************************************************)
LEMMA BoundedStep ==
  ASSUME NEW min \in Int, NEW max \in Int, 1 <= min, min + 34 <= max, max <= 1022,
         NEW lo \in Int, NEW hi \in Int,
         16 <= lo, lo <= min + 15, max - 15 <= hi, hi <= 1007,
         NEW p \in Int, NEW m \in Motion, NEW n \in Motion,
         Bounded(p, m, lo, hi, min, max),
         W10(p - Ball_Size) <= min => n # MinusOne,
         W10(p + Ball_Size) >= max => n # 1
  PROVE  Bounded(W10(p + m), n, lo, hi, min, max)
<1>1. 16 <= p /\ p <= 1007
  BY DEF Bounded
<1>2. W10(p - Ball_Size) = p - 16 /\ W10(p + Ball_Size) = p + 16
  BY <1>1 DEF W10, Ball_Size
<1>3. W10(p + m) = IF m = MinusOne THEN p - 1 ELSE p + m
  BY <1>1, TenBitStep
<1>4. CASE m = MinusOne
  BY <1>1, <1>2, <1>3, <1>4 DEF Bounded, Ball_Size, MinusOne, Motion
<1>5. CASE m = 0
  BY <1>1, <1>2, <1>3, <1>5 DEF Bounded, Ball_Size, MinusOne, Motion
<1>6. CASE m = 1
  BY <1>1, <1>2, <1>3, <1>6 DEF Bounded, Ball_Size, MinusOne, Motion
<1> QED BY <1>4, <1>5, <1>6 DEF Motion

(***************************************************************************)
(* The edge tests put a direction into the blocked set.                    *)
(***************************************************************************)
LEMMA EdgeBlocksExact ==
  ASSUME NEW x \in Int, NEW y \in Int
  PROVE  /\ ("left"  \in EdgeBlocks(x, y)) <=> (W10(x - Ball_Size) <= X_Min)
         /\ ("right" \in EdgeBlocks(x, y)) <=> (W10(x + Ball_Size) >= X_Max)
         /\ ("up"    \in EdgeBlocks(x, y)) <=> (W10(y - Ball_Size) <= Y_Min)
         /\ ("down"  \in EdgeBlocks(x, y)) <=> (W10(y + Ball_Size) >= Y_Max)
BY DEF EdgeBlocks, When

(***************************************************************************)
(* A blocked direction is never the next motion: it is neither kept (the   *)
(* test cleared the motion) nor chosen (the flag is down).                 *)
(***************************************************************************)
LEMMA AdvanceRespectsBlocks ==
  ASSUME NEW s \in Walkers, NEW x \in Word10, NEW blocked, NEW halt \in BOOLEAN,
         NEW turn \in SUBSET (Directions \ blocked), NEW play \in BOOLEAN
  PROVE  LET t == Advance(s, x, blocked, halt, turn, play)
         IN  /\ t \in Walkers
             /\ t.x = W10(x + s.xm) /\ t.y = W10(s.y + s.ym) /\ t.play = play
             /\ "left"  \in blocked => t.xm # MinusOne
             /\ "right" \in blocked => t.xm # 1
             /\ "up"    \in blocked => t.ym # MinusOne
             /\ "down"  \in blocked => t.ym # 1
<1> DEFINE t == Advance(s, x, blocked, halt, turn, play)
           d == CHOOSE e \in turn : TRUE
<1>1. s.x \in Word10 /\ s.y \in Word10 /\ s.xm \in Motion /\ s.ym \in Motion
  BY DEF Walkers
<1>2. W10(x + s.xm) \in Word10 /\ W10(s.y + s.ym) \in Word10
  BY <1>1 DEF W10, Motion, MinusOne, Word10
<1>3. /\ t.x = W10(x + s.xm) /\ t.y = W10(s.y + s.ym) /\ t.play = play
      /\ t.xm = IF turn = {} THEN Held(s.xm, blocked, Sideways, halt) ELSE HeadX(d)
      /\ t.ym = IF turn = {} THEN Held(s.ym, blocked, Vertical, halt) ELSE HeadY(d)
      /\ t = [x |-> t.x, y |-> t.y, xm |-> t.xm, ym |-> t.ym, play |-> t.play]
  BY DEF Advance
<1>4. CASE turn = {}
  <2>1. t.xm = Held(s.xm, blocked, Sideways, halt) /\ t.ym = Held(s.ym, blocked, Vertical, halt)
    BY <1>3, <1>4
  <2>2. t.xm \in Motion /\ t.ym \in Motion
    BY <1>1, <2>1 DEF Held, Motion
  <2>3. ("left" \in blocked \/ "right" \in blocked) => t.xm = 0
    BY <2>1 DEF Held, Sideways
  <2>4. ("up" \in blocked \/ "down" \in blocked) => t.ym = 0
    BY <2>1 DEF Held, Vertical
  <2> QED BY <1>2, <1>3, <2>2, <2>3, <2>4 DEF Walkers, MinusOne
<1>5. CASE turn # {}
  <2>1. d \in Directions \ blocked
    BY <1>5
  <2>2. t.xm = HeadX(d) /\ t.ym = HeadY(d)
    BY <1>3, <1>5
  <2>3. /\ HeadX(d) \in Motion /\ HeadY(d) \in Motion
        /\ HeadX(d) = MinusOne => d = "left"
        /\ HeadX(d) = 1 => d = "right"
        /\ HeadY(d) = MinusOne => d = "up"
        /\ HeadY(d) = 1 => d = "down"
    BY <2>1 DEF HeadX, HeadY, Motion, MinusOne, Directions
  <2> QED BY <1>2, <1>3, <2>1, <2>2, <2>3 DEF Walkers
<1> QED BY <1>4, <1>5

\* Away from the ends of the range a step moves a coordinate by at most one.
LEMMA StepNear ==
  ASSUME NEW p \in Int, 1 <= p, p <= 1022, NEW m \in Motion
  PROVE  /\ W10(p + m) - p \in {-1, 0, 1}
         /\ m = 0 => W10(p + m) = p
BY TenBitStep DEF Motion, MinusOne

\* The play flag is what the caller passes.
LEMMA AdvancePlay ==
  ASSUME NEW s, NEW x, NEW blocked, NEW halt, NEW turn, NEW play
  PROVE  Advance(s, x, blocked, halt, turn, play).play = play
BY DEF Advance

\* A turn sets one of the two motions to 0, and nothing else raises one.
LEMMA AdvanceOneAxis ==
  ASSUME NEW s, OneAxis(s), NEW x, NEW blocked, NEW halt \in BOOLEAN, NEW turn, NEW play
  PROVE  OneAxis(Advance(s, x, blocked, halt, turn, play))
<1> DEFINE t == Advance(s, x, blocked, halt, turn, play)
           d == CHOOSE e \in turn : TRUE
<1>1. CASE turn = {}
  <2>1. t.xm = Held(s.xm, blocked, Sideways, halt) /\ t.ym = Held(s.ym, blocked, Vertical, halt)
    BY <1>1 DEF Advance
  <2> QED BY <2>1 DEF OneAxis, Held
<1>2. CASE turn # {}
  <2>1. t.xm = HeadX(d) /\ t.ym = HeadY(d)
    BY <1>2 DEF Advance
  <2>2. HeadX(d) = 0 \/ HeadY(d) = 0
    BY DEF HeadX, HeadY
  <2> QED BY <2>1, <2>2 DEF OneAxis
<1> QED BY <1>1, <1>2

-----------------------------------------------------------------------------
(***************************************************************************)
(* The rest looks inside the wall lists.  One pixel away, or none, along   *)
(* one axis:                                                               *)
(***************************************************************************)
Beside(x, y, u, v) ==
  u - x \in {-1, 0, 1} /\ v - y \in {-1, 0, 1} /\ (u = x \/ v = y)

\* Off the islands at half-width Moat is clear of the bars at half-width Core.
LEMMA AfloatIsClear ==
  ASSUME NEW s, s.x \in Int, s.y \in Int, Afloat(s.x, s.y)
  PROVE  Clear(PacmanWalls, s)
BY DEF Clear, Core, Afloat, Ashore, Moat, Islands, BarIslands, TunnelBoxes,
       PacmanWalls, AlleyBarsUpper, AlleyBarsLower

(***************************************************************************)
(* The fences.  From (x, y) the sprite moves to (u, v); if both are off    *)
(* the islands and the tests at (x, y) leave a direction open, then that   *)
(* direction does not lead from (u, v) onto an island.                     *)
(***************************************************************************)
LEMMA FenceDown ==
  ASSUME NEW x \in Int, NEW y \in Int, NEW u \in Int, NEW v \in Int,
         InFrame(x, y), Beside(x, y, u, v), Afloat(x, y), Afloat(u, v),
         "down" \notin WallBlocks(PacmanWalls, x, y)
  PROVE  Afloat(u, v + 1)
<1>1. \A w \in DownWallsUpper \cup DownWallsLower \cup AlleysUpDown : ~Faces(w, x, y)
  BY DEF WallBlocks, VerticalBlocks, When, PacmanWalls, Vertical
<1>2. SUFFICES ASSUME NEW w \in Islands, Ashore(w, u, v + 1) PROVE FALSE
  BY DEF Afloat
<1> QED
  BY <1>1, <1>2
  DEF InFrame, Beside, Afloat, Ashore, Moat, Islands, BarIslands, TunnelBoxes,
      Faces, AtMost, AtLeast, DownWallsUpper, DownWallsLower, AlleysUpDown

LEMMA FenceUp ==
  ASSUME NEW x \in Int, NEW y \in Int, NEW u \in Int, NEW v \in Int,
         InFrame(x, y), Beside(x, y, u, v), Afloat(x, y), Afloat(u, v),
         "up" \notin WallBlocks(PacmanWalls, x, y)
  PROVE  Afloat(u, v - 1)
<1>1. \A w \in UpWallsUpper \cup UpWallsLower \cup AlleysUpDown : ~Faces(w, x, y)
  BY DEF WallBlocks, VerticalBlocks, When, PacmanWalls, Vertical
<1>2. SUFFICES ASSUME NEW w \in Islands, Ashore(w, u, v - 1) PROVE FALSE
  BY DEF Afloat
<1> QED
  BY <1>1, <1>2
  DEF InFrame, Beside, Afloat, Ashore, Moat, Islands, BarIslands, TunnelBoxes,
      Faces, AtMost, AtLeast, UpWallsUpper, UpWallsLower, AlleysUpDown

LEMMA FenceRight ==
  ASSUME NEW x \in Int, NEW y \in Int, NEW u \in Int, NEW v \in Int,
         InFrame(x, y), Beside(x, y, u, v), Afloat(x, y), Afloat(u, v),
         "right" \notin WallBlocks(PacmanWalls, x, y)
  PROVE  Afloat(u + 1, v)
<1>1. /\ \A w \in AlleyBarsUpper \cup AlleyBarsLower : ~Abuts(w, x, y)
      /\ \A w \in AlleyCells \cup RightWalls : ~Inside(w, x, y)
  BY DEF WallBlocks, SideBlocks, When, PacmanWalls, Sideways
<1>2. SUFFICES ASSUME NEW w \in Islands, Ashore(w, u + 1, v) PROVE FALSE
  BY DEF Afloat
<1> QED
  BY <1>1, <1>2
  DEF InFrame, Beside, Afloat, Ashore, Moat, Islands, BarIslands, TunnelBoxes,
      Abuts, Inside, AtMost, AtLeast, Ball_Size,
      AlleyBarsUpper, AlleyBarsLower, AlleyCells, RightWalls

LEMMA FenceLeft ==
  ASSUME NEW x \in Int, NEW y \in Int, NEW u \in Int, NEW v \in Int,
         InFrame(x, y), Beside(x, y, u, v), Afloat(x, y), Afloat(u, v),
         "left" \notin WallBlocks(PacmanWalls, x, y)
  PROVE  Afloat(u - 1, v)
<1>1. /\ \A w \in AlleyBarsUpper \cup AlleyBarsLower : ~Abuts(w, x, y)
      /\ \A w \in AlleyCells \cup LeftWalls : ~Inside(w, x, y)
  BY DEF WallBlocks, SideBlocks, When, PacmanWalls, Sideways
<1>2. SUFFICES ASSUME NEW w \in Islands, Ashore(w, u - 1, v) PROVE FALSE
  BY DEF Afloat
<1> QED
  BY <1>1, <1>2
  DEF InFrame, Beside, Afloat, Ashore, Moat, Islands, BarIslands, TunnelBoxes,
      Abuts, Inside, AtMost, AtLeast, Ball_Size,
      AlleyBarsUpper, AlleyBarsLower, AlleyCells, LeftWalls

\* At rest, or moving in a direction that no test closed.
Headed(t, blocked) ==
  \/ t.xm = 0 /\ t.ym = 0
  \/ \E d \in Directions \ blocked : t.xm = HeadX(d) /\ t.ym = HeadY(d)

\* The motion after a frame is one the tests of the frame left open.
LEMMA AdvanceHeaded ==
  ASSUME NEW s \in Walkers, OneAxis(s), NEW x, NEW blocked, NEW halt \in BOOLEAN,
         NEW turn \in SUBSET (Directions \ blocked), NEW play, NEW t,
         t = Advance(s, x, blocked, halt, turn, play)
  PROVE  Headed(t, blocked)
<1>1. CASE turn # {}
  <2> DEFINE d == CHOOSE e \in turn : TRUE
  <2>1. d \in Directions \ blocked
    BY <1>1
  <2>2. t.xm = HeadX(d) /\ t.ym = HeadY(d)
    BY <1>1 DEF Advance
  <2> QED BY <2>1, <2>2 DEF Headed
<1>2. CASE turn = {}
  <2>1. /\ t.xm = Held(s.xm, blocked, Sideways, halt)
        /\ t.ym = Held(s.ym, blocked, Vertical, halt)
    BY <1>2 DEF Advance
  <2>2. s.xm \in Motion /\ s.ym \in Motion
    BY DEF Walkers
  <2>3. CASE t.xm = 0 /\ t.ym = 0
    BY <2>3 DEF Headed
  <2>4. CASE t.xm # 0
    <3>1. t.xm = s.xm /\ s.ym = 0 /\ t.ym = 0 /\ blocked \cap Sideways = {}
      BY <2>1, <2>4 DEF Held, OneAxis
    <3>2. CASE t.xm = 1
      <4>1. "right" \in Directions \ blocked /\ HeadX("right") = 1 /\ HeadY("right") = 0
        BY <3>1 DEF Directions, Sideways, HeadX, HeadY
      <4> QED BY <3>1, <3>2, <4>1 DEF Headed
    <3>3. CASE t.xm = MinusOne
      <4>1. /\ "left" \in Directions \ blocked
            /\ HeadX("left") = MinusOne /\ HeadY("left") = 0
        BY <3>1 DEF Directions, Sideways, HeadX, HeadY
      <4> QED BY <3>1, <3>3, <4>1 DEF Headed
    <3> QED BY <2>2, <2>4, <3>1, <3>2, <3>3 DEF Motion
  <2>5. CASE t.ym # 0
    <3>1. t.ym = s.ym /\ s.xm = 0 /\ t.xm = 0 /\ blocked \cap Vertical = {}
      BY <2>1, <2>5 DEF Held, OneAxis
    <3>2. CASE t.ym = 1
      <4>1. "down" \in Directions \ blocked /\ HeadX("down") = 0 /\ HeadY("down") = 1
        BY <3>1 DEF Directions, Vertical, HeadX, HeadY
      <4> QED BY <3>1, <3>2, <4>1 DEF Headed
    <3>3. CASE t.ym = MinusOne
      <4>1. /\ "up" \in Directions \ blocked
            /\ HeadX("up") = 0 /\ HeadY("up") = MinusOne
        BY <3>1 DEF Directions, Vertical, HeadX, HeadY
      <4> QED BY <3>1, <3>3, <4>1 DEF Headed
    <3> QED BY <2>2, <2>5, <3>1, <3>2, <3>3 DEF Motion
  <2> QED BY <2>3, <2>4, <2>5
<1> QED BY <1>1, <1>2

(***************************************************************************)
(* One frame, from column x: if the sprite is afloat before and after the  *)
(* step, it is afloat after the step that its new motion announces.        *)
(***************************************************************************)
LEMMA AdvanceAfloat ==
  ASSUME NEW s \in Walkers, OneAxis(s), NEW x \in Int, 177 <= x, x <= 463,
         98 <= s.y, s.y <= 1007,
         Afloat(x, s.y), Afloat(W10(x + s.xm), W10(s.y + s.ym)),
         NEW blocked, WallBlocks(PacmanWalls, x, s.y) \subseteq blocked,
         NEW halt \in BOOLEAN, NEW turn \in SUBSET (Directions \ blocked),
         NEW play, NEW t, t = Advance(s, x, blocked, halt, turn, play)
  PROVE  KeepsAfloat(t)
<1>1. s.y \in Int /\ s.xm \in Motion /\ s.ym \in Motion
  BY DEF Walkers, Word10
<1> DEFINE u == W10(x + s.xm)
           v == W10(s.y + s.ym)
<1>2. t.x = u /\ t.y = v
  BY DEF Advance
<1>3. /\ u = (IF s.xm = MinusOne THEN x - 1 ELSE x + s.xm)
      /\ v = (IF s.ym = MinusOne THEN s.y - 1 ELSE s.y + s.ym)
  BY <1>1, TenBitStep
<1>4. /\ u \in Int /\ 176 <= u /\ u <= 464 /\ v \in Int /\ 97 <= v /\ v <= 1008
  BY <1>1, <1>3 DEF Motion, MinusOne
<1>5. Beside(x, s.y, u, v) /\ InFrame(x, s.y)
  BY <1>1, <1>3 DEF Beside, InFrame, OneAxis, Motion, MinusOne
<1>6. Headed(t, blocked)
  BY AdvanceHeaded
<1> HIDE DEF u, v
<1>7. CASE t.xm = 0 /\ t.ym = 0
  <2>1. W10(t.x + t.xm) = u /\ W10(t.y + t.ym) = v
    BY <1>2, <1>4, <1>7 DEF W10
  <2> QED BY <1>2, <2>1 DEF KeepsAfloat, u, v
<1>8. ASSUME NEW d \in Directions \ blocked, t.xm = HeadX(d), t.ym = HeadY(d)
      PROVE  KeepsAfloat(t)
  <2>1. d \notin WallBlocks(PacmanWalls, x, s.y)
    OBVIOUS
  <2>2. Afloat(x, s.y) /\ Afloat(u, v)
    BY DEF u, v
  <2>3. CASE d = "left"
    <3>1. W10(u + HeadX(d)) = u - 1 /\ W10(v + HeadY(d)) = v
      BY <1>4, <2>3 DEF HeadX, HeadY, W10, MinusOne
    <3> QED BY <1>1, <1>2, <1>4, <1>5, <1>8, <2>1, <2>2, <2>3, <3>1, FenceLeft DEF KeepsAfloat
  <2>4. CASE d = "right"
    <3>1. W10(u + HeadX(d)) = u + 1 /\ W10(v + HeadY(d)) = v
      BY <1>4, <2>4 DEF HeadX, HeadY, W10
    <3> QED BY <1>1, <1>2, <1>4, <1>5, <1>8, <2>1, <2>2, <2>4, <3>1, FenceRight DEF KeepsAfloat
  <2>5. CASE d = "up"
    <3>1. W10(u + HeadX(d)) = u /\ W10(v + HeadY(d)) = v - 1
      BY <1>4, <2>5 DEF HeadX, HeadY, W10, MinusOne
    <3> QED BY <1>1, <1>2, <1>4, <1>5, <1>8, <2>1, <2>2, <2>5, <3>1, FenceUp DEF KeepsAfloat
  <2>6. CASE d = "down"
    <3>1. W10(u + HeadX(d)) = u /\ W10(v + HeadY(d)) = v + 1
      BY <1>4, <2>6 DEF HeadX, HeadY, W10
    <3> QED BY <1>1, <1>2, <1>4, <1>5, <1>8, <2>1, <2>2, <2>6, <3>1, FenceDown DEF KeepsAfloat
  <2> QED BY <2>3, <2>4, <2>5, <2>6 DEF Directions
<1> QED BY <1>6, <1>7, <1>8 DEF Headed

-----------------------------------------------------------------------------
\* Chaser.
\* What HomeOK says of a ghost, with the bounds of the playfield put in.
LEMMA BreedFacts ==
  ASSUME NEW n \in Names
  PROVE  /\ HomeOK(Breed[n])
         /\ LowX(Breed[n]) \in Int /\ HighX(Breed[n]) \in Int
         /\ 16 <= LowX(Breed[n]) /\ LowX(Breed[n]) <= X_Min + 15
         /\ X_Max - 15 <= HighX(Breed[n]) /\ HighX(Breed[n]) <= 1007
         /\ LowX(Breed[n]) <= Breed[n].home.x /\ Breed[n].home.x <= HighX(Breed[n])
<1>1. HomeOK(Breed[n])
  BY BreedAssumption
<1>2. /\ Breed[n].home.x \in Int /\ 16 <= Breed[n].home.x /\ Breed[n].home.x <= 1007
      /\ X_Min \in Int /\ X_Max \in Int /\ 1 <= X_Min /\ X_Min + 34 <= X_Max /\ X_Max <= 1022
  BY <1>1, PlayfieldAssumption DEF HomeOK
<1> QED BY <1>1, <1>2 DEF LowX, HighX, Ball_Size

\* What Reset loads is a sprite within its bounds.
LEMMA ResetGhostSafe ==
  ASSUME NEW n \in Names
  PROVE  ResetGhost(Breed[n]) \in Walkers /\ GhostBounded(Breed[n], ResetGhost(Breed[n]))
<1> DEFINE b == Breed[n]
<1>1. /\ b.home.x \in Int /\ 16 <= b.home.x /\ b.home.x <= 1007 /\ b.xm \in Motion
      /\ b.home.x <= X_Min + 15 => b.xm # MinusOne
      /\ b.home.x >= X_Max - 15 => b.xm # 1
      /\ b.home.y \in Int /\ Y_Min + 15 <= b.home.y /\ b.home.y <= Y_Max - 15
  <2>1. HomeOK(b)
    BY BreedFacts
  <2>2. /\ X_Min \in Int /\ X_Max \in Int /\ Y_Min \in Int /\ Y_Max \in Int
    BY PlayfieldAssumption
  <2> HIDE DEF b
  <2> QED BY <2>1, <2>2 DEF HomeOK, InsideY, Ball_Size
<1>2. LowX(b) <= b.home.x /\ b.home.x <= HighX(b)
  BY BreedFacts
<1>3. /\ 1 <= Y_Min /\ Y_Max <= 1022 /\ Y_Min \in Int /\ Y_Max \in Int
      /\ X_Min \in Int /\ X_Max \in Int
  BY PlayfieldAssumption
<1> HIDE DEF b
<1>4. b.home.x \in Word10 /\ b.home.y \in Word10
  BY <1>1, <1>3 DEF Word10
<1>5. ResetGhost(b) \in Walkers
  BY <1>1, <1>4 DEF ResetGhost, Walkers, Motion
<1>6. Bounded(b.home.x, b.xm, LowX(b), HighX(b), X_Min, X_Max)
  BY <1>1, <1>2, <1>3 DEF Bounded, Ball_Size
<1>7. BoundedY(ResetGhost(b))
  BY <1>1, <1>3 DEF ResetGhost, BoundedY, Bounded, Ball_Size, MinusOne
<1> QED BY <1>5, <1>6, <1>7 DEF b, GhostBounded, ResetGhost

(***************************************************************************)
(* A step that respects a superset of the edge tests keeps a ghost within  *)
(* its bounds.                                                             *)
(***************************************************************************)
LEMMA AdvanceBounded ==
  ASSUME NEW n \in Names, NEW s \in Walkers, GhostBounded(Breed[n], s),
         NEW blocked, EdgeBlocks(s.x, s.y) \subseteq blocked,
         NEW halt \in BOOLEAN, NEW turn \in SUBSET (Directions \ blocked),
         NEW play \in BOOLEAN, NEW t, t = Advance(s, s.x, blocked, halt, turn, play)
  PROVE  t \in Walkers /\ GhostBounded(Breed[n], t)
<1>1. /\ s.x \in Word10 /\ s.x \in Int /\ s.y \in Int
      /\ s.xm \in Motion /\ s.ym \in Motion
  BY DEF Walkers, Word10
<1>2. /\ t \in Walkers
      /\ t.x = W10(s.x + s.xm) /\ t.y = W10(s.y + s.ym)
      /\ "left"  \in blocked => t.xm # MinusOne
      /\ "right" \in blocked => t.xm # 1
      /\ "up"    \in blocked => t.ym # MinusOne
      /\ "down"  \in blocked => t.ym # 1
  BY <1>1, AdvanceRespectsBlocks
<1>3. /\ W10(s.x - Ball_Size) <= X_Min => t.xm # MinusOne
      /\ W10(s.x + Ball_Size) >= X_Max => t.xm # 1
      /\ W10(s.y - Ball_Size) <= Y_Min => t.ym # MinusOne
      /\ W10(s.y + Ball_Size) >= Y_Max => t.ym # 1
  BY <1>1, <1>2, EdgeBlocksExact
<1>4. t.xm \in Motion /\ t.ym \in Motion
  BY <1>2 DEF Walkers
<1>5. Bounded(t.x, t.xm, LowX(Breed[n]), HighX(Breed[n]), X_Min, X_Max)
  <2> DEFINE lo == LowX(Breed[n])
             hi == HighX(Breed[n])
  <2>1. /\ X_Min \in Int /\ X_Max \in Int /\ 1 <= X_Min /\ X_Min + 34 <= X_Max
        /\ X_Max <= 1022
    BY PlayfieldAssumption
  <2>2. /\ lo \in Int /\ hi \in Int /\ 16 <= lo /\ lo <= X_Min + 15
        /\ X_Max - 15 <= hi /\ hi <= 1007
    BY BreedFacts
  <2>3. Bounded(s.x, s.xm, lo, hi, X_Min, X_Max)
    BY DEF GhostBounded
  <2> HIDE DEF lo, hi
  <2>4. Bounded(W10(s.x + s.xm), t.xm, lo, hi, X_Min, X_Max)
    BY <1>1, <1>3, <1>4, <2>1, <2>2, <2>3, BoundedStep
  <2> QED BY <1>2, <2>4 DEF lo, hi
<1>6. BoundedY(t)
  <2> DEFINE lo == Y_Min + Ball_Size - 1
             hi == Y_Max - Ball_Size + 1
  <2>1. /\ Y_Min \in Int /\ Y_Max \in Int /\ 1 <= Y_Min /\ Y_Min + 34 <= Y_Max
        /\ Y_Max <= 1022 /\ lo \in Int /\ hi \in Int /\ 16 <= lo /\ hi <= 1007
        /\ lo <= Y_Min + 15 /\ Y_Max - 15 <= hi
    BY PlayfieldAssumption DEF Ball_Size
  <2>2. Bounded(s.y, s.ym, lo, hi, Y_Min, Y_Max)
    BY DEF GhostBounded, BoundedY
  <2> HIDE DEF lo, hi
  <2>3. Bounded(W10(s.y + s.ym), t.ym, lo, hi, Y_Min, Y_Max)
    BY <1>1, <1>3, <1>4, <2>1, <2>2, BoundedStep
  <2> QED BY <1>2, <2>3 DEF BoundedY, lo, hi
<1> QED BY <1>2, <1>5, <1>6 DEF GhostBounded

\* The parts of GhostFrame: the flag play after the edge, the turn, and whether it halts.
PlayOf(s, key) == s.play \/ key = KeySpace
TurnOf(b, s, blocked, toward, key, over) ==
  IF (IF b.late THEN s.play ELSE PlayOf(s, key)) /\ ~over
  THEN FirstOpen(b, toward \ blocked) ELSE {}
HaltOf(b, over) == over \/ b.halts

\* A frame of a ghost is a step of the walker.
LEMMA GhostFrameIsAdvance ==
  ASSUME NEW b, b.halts \in BOOLEAN, b.late \in BOOLEAN, NEW s \in Walkers, NEW blocked,
         NEW toward \in SUBSET Directions, NEW key, NEW over \in BOOLEAN
  PROVE  /\ GhostFrame(b, s, blocked, toward, key, over)
              = Advance(s, s.x, blocked, HaltOf(b, over),
                        TurnOf(b, s, blocked, toward, key, over), PlayOf(s, key))
         /\ HaltOf(b, over) \in BOOLEAN /\ PlayOf(s, key) \in BOOLEAN
         /\ ~PlayOf(s, key) => TurnOf(b, s, blocked, toward, key, over) = {}
<1>1. s.play \in BOOLEAN
  BY DEF Walkers
<1>2. GhostFrame(b, s, blocked, toward, key, over)
        = Advance(s, s.x, blocked, HaltOf(b, over),
                  TurnOf(b, s, blocked, toward, key, over), PlayOf(s, key))
  BY DEF GhostFrame, HaltOf, TurnOf, PlayOf
<1>3. HaltOf(b, over) \in BOOLEAN /\ PlayOf(s, key) \in BOOLEAN
  BY DEF HaltOf, PlayOf
<1>4. ~PlayOf(s, key) => TurnOf(b, s, blocked, toward, key, over) = {}
  BY <1>1 DEF TurnOf, PlayOf
<1> QED BY <1>2, <1>3, <1>4

\* The play flag after a frame: set by the space bar, and kept.
LEMMA GhostFramePlay ==
  ASSUME NEW b, NEW s, NEW blocked, NEW toward, NEW key, NEW over
  PROVE  GhostFrame(b, s, blocked, toward, key, over).play = (s.play \/ key = KeySpace)
BY DEF GhostFrame, Advance

(***************************************************************************)
(* One frame keeps a ghost within its bounds, wherever Pac-Man is, whether *)
(* or not the game is over, and whatever else the walls block.             *)
(***************************************************************************)
LEMMA GhostFrameSafe ==
  ASSUME NEW n \in Names, NEW s \in Walkers, GhostBounded(Breed[n], s),
         NEW blocked, EdgeBlocks(s.x, s.y) \subseteq blocked,
         NEW toward \in SUBSET Directions, NEW key, NEW over \in BOOLEAN, NEW t,
         t = GhostFrame(Breed[n], s, blocked, toward, key, over)
  PROVE  t \in Walkers /\ GhostBounded(Breed[n], t)
<1>1. Breed[n].halts \in BOOLEAN /\ Breed[n].late \in BOOLEAN
  BY BreedFacts DEF HomeOK
<1> DEFINE halt == HaltOf(Breed[n], over)
           play == PlayOf(s, key)
           turn == TurnOf(Breed[n], s, blocked, toward, key, over)
<1>2. /\ t = Advance(s, s.x, blocked, halt, turn, play)
      /\ halt \in BOOLEAN /\ play \in BOOLEAN
  BY <1>1, GhostFrameIsAdvance
<1>3. turn \in SUBSET (Directions \ blocked)
  BY DEF TurnOf, FirstOpen
<1> HIDE DEF halt, turn, play
<1> QED BY <1>2, <1>3, AdvanceBounded

\* At most one pixel along one axis, to a position a waiting ghost may have.
SmallStep(b, s, t) ==
  /\ OneAxis(t)
  /\ Waits(b, t)
  /\ t.x - s.x \in {-1, 0, 1} /\ t.y - s.y \in {-1, 0, 1}
  /\ t.x = s.x \/ t.y = s.y

(***************************************************************************)
(* One frame moves a ghost at most one pixel along one axis, and before    *)
(* the game starts it leaves it waiting at home.                           *)
(***************************************************************************)
LEMMA GhostFrameSteps ==
  ASSUME NEW n \in Names, NEW s \in Walkers, GhostBounded(Breed[n], s),
         OneAxis(s), Waits(Breed[n], s),
         NEW blocked, EdgeBlocks(s.x, s.y) \subseteq blocked,
         NEW toward \in SUBSET Directions, NEW key, NEW over \in BOOLEAN, NEW t,
         t = GhostFrame(Breed[n], s, blocked, toward, key, over)
  PROVE  SmallStep(Breed[n], s, t)
<1> DEFINE halt == HaltOf(Breed[n], over)
           play == PlayOf(s, key)
           turn == TurnOf(Breed[n], s, blocked, toward, key, over)
<1>1. /\ t = Advance(s, s.x, blocked, halt, turn, play)
      /\ halt \in BOOLEAN /\ play \in BOOLEAN
      /\ ~play => turn = {}
  <2>1. Breed[n].halts \in BOOLEAN /\ Breed[n].late \in BOOLEAN
    BY BreedFacts DEF HomeOK
  <2> QED BY <2>1, GhostFrameIsAdvance
<1> HIDE DEF halt, turn, play
<1>2. /\ s.x \in Int /\ 16 <= s.x /\ s.x <= 1007 /\ s.y \in Int /\ 16 <= s.y /\ s.y <= 1007
      /\ s.xm \in Motion /\ s.ym \in Motion
  <2>1. /\ s.x \in Int /\ s.y \in Int /\ s.xm \in Motion /\ s.ym \in Motion
    BY DEF Walkers, Word10
  <2>2. 16 <= s.x /\ s.x <= 1007
    BY <2>1, BreedFacts DEF GhostBounded, Bounded
  <2>3. 16 <= s.y /\ s.y <= 1007
    BY <2>1, PlayfieldAssumption DEF GhostBounded, BoundedY, Bounded, Ball_Size
  <2> QED BY <2>1, <2>2, <2>3
<1>3. OneAxis(t)
  BY <1>1, AdvanceOneAxis
<1>4. t.x = W10(s.x + s.xm) /\ t.y = W10(s.y + s.ym)
  BY <1>1 DEF Advance
<1>5. /\ t.x - s.x \in {-1, 0, 1} /\ (s.xm = 0 => t.x = s.x)
      /\ t.y - s.y \in {-1, 0, 1} /\ (s.ym = 0 => t.y = s.y)
  BY <1>2, <1>4, StepNear
<1>6. Waits(Breed[n], t)
  <2> DEFINE hx == Breed[n].home.x
             hy == Breed[n].home.y
             hm == Breed[n].xm
  <2> SUFFICES ASSUME ~t.play
               PROVE  /\ t.y = hy /\ t.ym = 0
                      /\ \/ t.x = hx /\ t.xm = hm
                         \/ t.x \in hx .. hx + 1 /\ t.xm = 0
    BY DEF Waits
  <2>0. ~play /\ ~s.play
    <3>1. t.play = play
      BY <1>1, AdvancePlay
    <3>2. ~play
      BY <3>1
    <3> QED BY <3>2 DEF play, PlayOf
  <2>1. /\ s.y = hy /\ s.ym = 0
        /\ \/ s.x = hx /\ s.xm = hm
           \/ s.x \in hx .. hx + 1 /\ s.xm = 0
    BY <2>0 DEF Waits
  <2>2. /\ t.xm = Held(s.xm, blocked, Sideways, halt)
        /\ t.ym = Held(s.ym, blocked, Vertical, halt)
    BY <1>1, <2>0 DEF Advance
  <2>3. hm = 0 \/ (hm = 1 /\ hx - 16 <= X_Min)
    BY StartAssumption DEF HeldAtHome, Ball_Size
  <2> HIDE DEF hx, hy, hm
  <2>4. t.y = hy /\ t.ym = 0
    BY <1>5, <2>1, <2>2 DEF Held
  <2>5. CASE s.xm = 0
    BY <1>2, <1>5, <2>1, <2>2, <2>4, <2>5 DEF Held
  <2>6. CASE s.xm # 0
    <3>1. s.x = hx /\ s.xm = 1 /\ hx - 16 <= X_Min
      BY <2>1, <2>3, <2>6
    <3>2. W10(s.x - Ball_Size) <= X_Min
      BY <1>2, <3>1 DEF W10, Ball_Size
    <3>3. t.xm = 0
      BY <1>2, <2>2, <3>2, EdgeBlocksExact DEF Held, Sideways
    <3>4. t.x = hx + 1
      BY <1>2, <1>4, <3>1, TenBitStep DEF Motion, MinusOne
    <3> QED BY <1>2, <2>4, <3>1, <3>3, <3>4
  <2> QED BY <2>5, <2>6
<1> QED BY <1>3, <1>5, <1>6 DEF OneAxis, SmallStep

-----------------------------------------------------------------------------
\* The copies of the maze are one maze.
LEMMA OneMaze ==
  ASSUME NEW n \in Names
  PROVE  Breed[n].walls = PacmanWalls
<1>1. Breed[n].walls \in Mazes
  BY AfloatAssumption DEF HomeAfloat
<1>2. R_Walls = PacmanWalls
  BY DEF R_Walls, PacmanWalls, R_AlleyBarsUpper, R_AlleyBarsLower, R_AlleyCells, R_RightWalls,
         R_LeftWalls, R_AlleysUpDown, R_DownWallsUpper, R_DownWallsLower,
         R_UpWallsUpper, R_UpWallsLower
<1>3. B_Walls = PacmanWalls
  BY DEF B_Walls, PacmanWalls, B_AlleyBarsUpper, B_AlleyBarsLower, B_AlleyCells, B_RightWalls,
         B_LeftWalls, B_AlleysUpDown, B_DownWallsUpper, B_DownWallsLower,
         B_UpWallsUpper, B_UpWallsLower
<1>4. O_Walls = PacmanWalls
  BY DEF O_Walls, PacmanWalls, O_AlleyBarsUpper, O_AlleyBarsLower, O_AlleyCells, O_RightWalls,
         O_LeftWalls, O_AlleysUpDown, O_DownWallsUpper, O_DownWallsLower,
         O_UpWallsUpper, O_UpWallsLower
<1>5. P_Walls = PacmanWalls
  BY DEF P_Walls, PacmanWalls, P_AlleyBarsUpper, P_AlleyBarsLower, P_AlleyCells, P_RightWalls,
         P_LeftWalls, P_AlleysUpDown, P_DownWallsUpper, P_DownWallsLower,
         P_UpWallsUpper, P_UpWallsLower
<1> QED BY <1>1, <1>2, <1>3, <1>4, <1>5 DEF Mazes

\* A ghost is afloat at home.
LEMMA ResetGhostAfloat ==
  ASSUME NEW n \in Names
  PROVE  KeepsAfloat(ResetGhost(Breed[n]))
<1>1. Afloat(Breed[n].home.x, Breed[n].home.y)
  BY AfloatAssumption DEF HomeAfloat
<1>2. Afloat(W10(Breed[n].home.x + Breed[n].xm), Breed[n].home.y)
  BY AfloatAssumption DEF HomeAfloat
<1>3. Breed[n].home.y \in Int /\ Y_Min + 15 <= Breed[n].home.y /\ Breed[n].home.y <= Y_Max - 15
  <2>1. HomeOK(Breed[n])
    BY BreedFacts
  <2> QED BY <2>1, PlayfieldAssumption DEF HomeOK, InsideY, Ball_Size
<1>4. W10(Breed[n].home.y + 0) = Breed[n].home.y
  BY <1>3, PlayfieldAssumption DEF W10
<1> QED BY <1>1, <1>2, <1>4 DEF KeepsAfloat, ResetGhost

\* A frame keeps a ghost afloat, whatever it chases.
LEMMA GhostFrameAfloat ==
  ASSUME NEW n \in Names, NEW s \in Walkers, GhostBounded(Breed[n], s),
         OneAxis(s), KeepsAfloat(s),
         NEW blocked, WallBlocks(Breed[n].walls, s.x, s.y) \subseteq blocked,
         NEW toward \in SUBSET Directions, NEW key, NEW over \in BOOLEAN, NEW t,
         t = GhostFrame(Breed[n], s, blocked, toward, key, over)
  PROVE  KeepsAfloat(t)
<1> DEFINE halt == HaltOf(Breed[n], over)
           play == PlayOf(s, key)
           turn == TurnOf(Breed[n], s, blocked, toward, key, over)
<1>1. t = Advance(s, s.x, blocked, halt, turn, play) /\ halt \in BOOLEAN
  <2>1. Breed[n].halts \in BOOLEAN /\ Breed[n].late \in BOOLEAN
    BY BreedFacts DEF HomeOK
  <2> QED BY <2>1, GhostFrameIsAdvance
<1>2. turn \in SUBSET (Directions \ blocked)
  BY DEF TurnOf, FirstOpen
<1>3. WallBlocks(PacmanWalls, s.x, s.y) \subseteq blocked
  BY OneMaze
<1> HIDE DEF halt, play, turn
<1>4. s.x \in Int /\ s.y \in Int
  BY DEF Walkers, Word10
<1>5. 177 <= s.x /\ s.x <= 463
  <2> DEFINE hx == Breed[n].home.x
             lo == LowX(Breed[n])
             hi == HighX(Breed[n])
  <2>1. hx \in Int /\ lo \in Int /\ hi \in Int
    BY BreedFacts DEF HomeOK
  <2>2. 177 <= hx /\ hx <= 463
    BY AfloatAssumption DEF HomeAfloat
  <2>3. lo = hx \/ lo = X_Min + 15
    BY DEF LowX, Ball_Size
  <2>4. hi = hx \/ hi = X_Max - 15
    BY PlayfieldAssumption DEF HighX, Ball_Size
  <2>5. lo <= s.x /\ s.x <= hi
    BY DEF GhostBounded, Bounded
  <2> HIDE DEF hx, lo, hi
  <2> QED BY <1>4, <2>1, <2>2, <2>3, <2>4, <2>5, FrameAssumption, PlayfieldAssumption
<1>6. 98 <= s.y /\ s.y <= 1007
  BY <1>4, FrameAssumption, PlayfieldAssumption DEF GhostBounded, BoundedY, Bounded, Ball_Size
<1>7. Afloat(s.x, s.y) /\ Afloat(W10(s.x + s.xm), W10(s.y + s.ym))
  BY DEF KeepsAfloat
<1> QED BY <1>1, <1>2, <1>3, <1>4, <1>5, <1>6, <1>7, AdvanceAfloat
=============================================================================
