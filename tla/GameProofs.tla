----------------------------- MODULE GameProofs -----------------------------
(***************************************************************************)
(* The game as a whole, for every playfield, every list of walls, any      *)
(* number of ghosts with any homes and preferences, and every set of keys; *)
(* only SpritesStayClear, and the tunnel in OverlapsStayShallow, look at   *)
(* the maze of the game.                                                   *)
(***************************************************************************)
EXTENDS Game, PacmanProofs

(***************************************************************************)
(* A frame of the game is a frame of Pac-Man for one value of its input    *)
(* game_over, and so is every other step or it leaves Pac-Man alone.       *)
(***************************************************************************)
LEMMA GameStepIsPacmanStep == [GameNext]_gameVars => [Next]_vars
<1> SUFFICES ASSUME [GameNext]_gameVars PROVE [Next]_vars
  OBVIOUS
<1>1. CASE GameFrame
  <2>1. GameOver \in BOOLEAN
    BY DEF GameOver
  <2> QED BY <1>1, <2>1 DEF GameFrame, Next, Frame
<1>2. CASE GameReset
  BY <1>2 DEF GameReset, Next
<1>3. CASE GameKey
  BY <1>3 DEF GameKey, Next
<1>4. CASE UNCHANGED gameVars
  BY <1>4 DEF gameVars, vars
<1> QED BY <1>1, <1>2, <1>3, <1>4 DEF GameNext

\* Power-up satisfies the invariants of all sprites.
LEMMA GameInitIInv == GameInit => GameIInv
<1> SUFFICES ASSUME GameInit PROVE GameIInv
  OBVIOUS
<1>1. IInv
  BY InitIInv DEF GameInit
<1>2. \A n \in Names : ghosts[n] \in Walkers /\ GhostBounded(Breed[n], ghosts[n])
  BY ResetGhostSafe DEF GameInit
<1> QED BY <1>1, <1>2 DEF GameIInv, GameInit

\* GameIInv is inductive: a step of the game is one of Pac-Man and one of each ghost.
LEMMA GameNextIInv == GameIInv /\ [GameNext]_gameVars => GameIInv'
<1> SUFFICES ASSUME GameIInv, [GameNext]_gameVars PROVE GameIInv'
  OBVIOUS
<1>1. IInv'
  BY NextIInv, GameStepIsPacmanStep DEF GameIInv
<1>2. /\ ghosts' = [n \in Names |-> ghosts'[n]]
      /\ \A n \in Names : ghosts'[n] \in Walkers /\ GhostBounded(Breed[n], ghosts'[n])
  <2>1. CASE GameFrame
    <3>1. PICK over \in BOOLEAN : ghosts' = [n \in Names |-> GhostStep(n, over)]
      BY <2>1 DEF GameFrame, GameOver
    <3>2. ASSUME NEW n \in Names
          PROVE  ghosts'[n] \in Walkers /\ GhostBounded(Breed[n], ghosts'[n])
      <4>1. ghosts[n] \in Walkers /\ GhostBounded(Breed[n], ghosts[n])
        BY DEF GameIInv
      <4>2. /\ EdgeBlocks(ghosts[n].x, ghosts[n].y) \subseteq GhostBlocks(Breed[n], ghosts[n])
            /\ Toward(ghosts[n], pac.x, pac.y) \in SUBSET Directions
        BY DEF GhostBlocks, Toward, When, Directions
      <4>3. GhostStep(n, over) \in Walkers /\ GhostBounded(Breed[n], GhostStep(n, over))
        BY <3>1, <4>1, <4>2, GhostFrameSafe DEF GhostStep
      <4> QED BY <3>1, <4>3
    <3> QED BY <3>1, <3>2
  <2>2. CASE GameReset
    BY <2>2, ResetGhostSafe DEF GameReset
  <2>3. CASE ghosts' = ghosts
    BY <2>3 DEF GameIInv
  <2> QED BY <2>1, <2>2, <2>3 DEF GameNext, GameKey, gameVars
<1>3. \A n \in Names : GhostBounded(Breed[n], ghosts[n])'
  BY <1>2 DEF GhostBounded, BoundedY
<1> QED BY <1>1, <1>2, <1>3 DEF GameIInv

(***************************************************************************)
(* In the game, too, every register of every sprite keeps its width.       *)
(***************************************************************************)
THEOREM GameTypeCorrect == GameSpec => []GameTypeOK
<1>1. GameIInv => GameTypeOK
  BY DEF GameIInv, IInv, GameTypeOK
<1> QED BY <1>1, GameInitIInv, GameNextIInv, PTL DEF GameSpec

(***************************************************************************)
(* No sprite of the game leaves the playfield, whatever the keys.          *)
(***************************************************************************)
THEOREM GameStaysInPlayfield == GameSpec => []AllInPlayfield
<1>1. GameIInv => AllInPlayfield
  BY DEF GameIInv, IInv, GhostBounded, BoundedX, BoundedY, Bounded,
         AllInPlayfield, InPlayfield, InsideX, InsideY
<1> QED BY <1>1, GameInitIInv, GameNextIInv, PTL DEF GameSpec

(***************************************************************************)
(* The game implements module Pacman: connecting game_over to the overlap  *)
(* test adds no behaviour to pacman.sv.  So what module Pacman promises    *)
(* for every game_over holds of the game.                                  *)
(***************************************************************************)
THEOREM GameImplementsPacman == GameSpec => PacmanRefined
<1>1. GameInit => Init
  BY DEF GameInit
<1> QED BY <1>1, GameStepIsPacmanStep, PTL DEF GameSpec, PacmanRefined

\* A motion of zero leaves a coordinate alone.
LEMMA ZeroStep == \A c \in Word10 : W10(c + 0) = c
BY DEF W10, Word10

(***************************************************************************)
(* A contact that has outlived its first frame is final: away from the     *)
(* mouths of the tunnel only Reset ends it.                                *)
(***************************************************************************)
THEOREM OverStays == GameSpec => OverIsFinal
<1>1. ASSUME GameIInv, [GameNext]_gameVars, GameOver, AllStill, ~InMouth(pac)
      PROVE  \/ JustReset'
             \/ GameOver' /\ AllStill' /\ pac'.x = pac.x /\ pac'.y = pac.y
  <2>1. pac \in Walkers /\ \A n \in Names : ghosts[n] \in Walkers
    BY <1>1 DEF GameIInv, IInv, TypeOK
  <2>2. CASE GameFrame
    <3>1. /\ \E blocked : pac' = PacFrame(pac, blocked, keycode, TRUE)
          /\ ghosts' = [n \in Names |-> GhostStep(n, TRUE)]
      BY <1>1, <2>2 DEF GameFrame
    <3>2. pac'.x = pac.x /\ pac'.y = pac.y /\ Still(pac')
      <4>1. PICK blocked, play : pac' = Advance(pac, pac.x, blocked, TRUE, {}, play)
        <5>1. PICK blocked : pac' = PacFrame(pac, blocked, keycode, TRUE)
          BY <3>1
        <5>2. {d \in Directions \ blocked :
                 KeyTurns[d] = keycode /\ (pac.play \/ keycode = KeySpace) /\ ~TRUE} = {}
          OBVIOUS
        <5>3. Tunnel(pac.x, pac.y) = pac.x
          BY <1>1 DEF InMouth
        <5> QED BY <5>1, <5>2, <5>3 DEF PacFrame
      <4>2. pac.x \in Word10 /\ pac.y \in Word10 /\ pac.xm = 0 /\ pac.ym = 0
        BY <1>1, <2>1 DEF Walkers, AllStill, Still
      <4>3. /\ (pac').x = pac.x /\ (pac').y = pac.y
            /\ (pac').xm = 0 /\ (pac').ym = 0
        BY <4>1, <4>2, ZeroStep DEF Advance, Held
      <4> QED BY <4>3 DEF Still
    <3>3. ASSUME NEW n \in Names
          PROVE  /\ ghosts'[n].x = ghosts[n].x /\ ghosts'[n].y = ghosts[n].y
                 /\ Still(ghosts'[n])
      <4>1. PICK blocked, play :
              ghosts'[n] = Advance(ghosts[n], ghosts[n].x, blocked, TRUE, {}, play)
        BY <3>1 DEF GhostStep, GhostFrame
      <4>2. /\ ghosts[n].x \in Word10 /\ ghosts[n].y \in Word10
            /\ ghosts[n].xm = 0 /\ ghosts[n].ym = 0
        BY <1>1, <2>1 DEF Walkers, AllStill, Still
      <4>3. /\ (ghosts')[n].x = ghosts[n].x /\ (ghosts')[n].y = ghosts[n].y
            /\ (ghosts')[n].xm = 0 /\ (ghosts')[n].ym = 0
        BY <4>1, <4>2, ZeroStep DEF Advance, Held
      <4> QED BY <4>3 DEF Still
    <3>4. GameOver'
      BY <1>1, <3>2, <3>3 DEF GameOver, Touches
    <3> QED BY <3>2, <3>3, <3>4 DEF AllStill
  <2>3. CASE GameReset
    BY <2>3 DEF GameReset, Reset, JustReset
  <2>4. CASE GameKey \/ UNCHANGED gameVars
    BY <1>1, <2>4 DEF GameKey, SetKeycode, gameVars, GameOver, Touches, AllStill, Still
  <2> QED BY <1>1, <2>2, <2>3, <2>4 DEF GameNext
<1>2. GameIInv /\ [GameNext]_gameVars =>
        [ GameOver /\ AllStill /\ ~InMouth(pac) =>
            \/ JustReset'
            \/ GameOver' /\ AllStill' /\ pac'.x = pac.x /\ pac'.y = pac.y ]_gameVars
  BY <1>1
<1> QED BY <1>2, GameInitIInv, GameNextIInv, PTL DEF GameSpec, OverIsFinal

(***************************************************************************)
(* The five play flags agree at all times, although five case statements   *)
(* set them: each is set by the same key in the same frame.                *)
(***************************************************************************)
THEOREM FlagsAgree == GameSpec => []PlayTogether
<1>1. GameInit => PlayTogether
  <2> SUFFICES ASSUME GameInit, NEW n \in Names PROVE ghosts[n].play = pac.play
    BY DEF PlayTogether
  <2>1. pac.play = FALSE
    BY DEF GameInit, Init, ResetPac
  <2>2. ghosts[n].play = FALSE
    BY DEF GameInit, ResetGhost
  <2> QED BY <2>1, <2>2
<1>2. PlayTogether /\ [GameNext]_gameVars => PlayTogether'
  <2> SUFFICES ASSUME PlayTogether, [GameNext]_gameVars, NEW n \in Names
               PROVE  (ghosts'[n]).play = (pac').play
    BY DEF PlayTogether
  <2>1. CASE GameFrame
    <3>1. (pac').play = (pac.play \/ keycode = KeySpace)
      BY <2>1 DEF GameFrame, PacFrame, Advance
    <3>2. PICK over : ghosts' = [m \in Names |-> GhostStep(m, over)]
      BY <2>1 DEF GameFrame
    <3>3. (ghosts'[n]).play = (ghosts[n].play \/ keycode = KeySpace)
      BY <3>2, GhostFramePlay DEF GhostStep
    <3> QED BY <3>1, <3>3 DEF PlayTogether
  <2>2. CASE GameReset
    BY <2>2 DEF GameReset, Reset, ResetPac, ResetGhost
  <2>3. CASE GameKey \/ UNCHANGED gameVars
    BY <2>3 DEF GameKey, SetKeycode, gameVars, PlayTogether
  <2> QED BY <2>1, <2>2, <2>3 DEF GameNext
<1> QED BY <1>1, <1>2, PTL DEF GameSpec

\* The frame that sees game_over clears every motion.
LEMMA FrameStopsAll ==
  ASSUME GameFrame, GameOver
  PROVE  AllStill'
<1>1. /\ \E blocked : pac' = PacFrame(pac, blocked, keycode, TRUE)
      /\ ghosts' = [n \in Names |-> GhostStep(n, TRUE)]
  BY DEF GameFrame
<1>2. Still(pac')
  <2>1. PICK blocked, x, play : pac' = Advance(pac, x, blocked, TRUE, {}, play)
    <3>1. PICK blocked : pac' = PacFrame(pac, blocked, keycode, TRUE)
      BY <1>1
    <3>2. {d \in Directions \ blocked :
             KeyTurns[d] = keycode /\ (pac.play \/ keycode = KeySpace) /\ ~TRUE} = {}
      OBVIOUS
    <3> QED BY <3>1, <3>2 DEF PacFrame
  <2> QED BY <2>1 DEF Advance, Held, Still
<1>3. ASSUME NEW n \in Names
      PROVE  Still(ghosts'[n])
  <2>1. PICK blocked, play :
          ghosts'[n] = Advance(ghosts[n], ghosts[n].x, blocked, TRUE, {}, play)
    BY <1>1 DEF GhostStep, GhostFrame
  <2> QED BY <2>1 DEF Advance, Held, Still
<1> QED BY <1>2, <1>3 DEF AllStill

(***************************************************************************)
(* game_over leaves no sprite with a motion: whatever the key, the walls   *)
(* and the chase say, the frame that sees it clears all ten motions.       *)
(***************************************************************************)
THEOREM OverStopsAll == GameSpec => OverHalts
<1>1. ASSUME [GameNext]_gameVars, GameOver
      PROVE  AllStill' \/ JustReset' \/ (pac' = pac /\ ghosts' = ghosts)
  <2>1. CASE GameFrame
    BY <1>1, <2>1, FrameStopsAll
  <2>2. CASE GameReset
    BY <2>2 DEF GameReset, Reset, JustReset
  <2>3. CASE GameKey \/ UNCHANGED gameVars
    BY <2>3 DEF GameKey, SetKeycode, gameVars
  <2> QED BY <1>1, <2>1, <2>2, <2>3 DEF GameNext
<1>2. [GameNext]_gameVars =>
        [ GameOver => AllStill' \/ JustReset' \/ (pac' = pac /\ ghosts' = ghosts) ]_gameVars
  BY <1>1
<1> QED BY <1>2, PTL DEF GameSpec, OverHalts

\* Pac-Man is never both left and right of a ghost, nor above and below it.
LEMMA TowardIsBearing ==
  ASSUME NEW s \in Walkers, NEW px \in Word10, NEW py \in Word10
  PROVE  Toward(s, px, py) \in Bearings
<1>1. s.x \in Int /\ s.y \in Int /\ px \in Int /\ py \in Int
  BY DEF Walkers, Word10
<1> QED BY <1>1 DEF Toward, Bearings, When, Directions, Sideways, Vertical

(***************************************************************************)
(* The instance of module Ghost means by its operators what the game means *)
(* by them: both extend the same modules with the same constants.          *)
(***************************************************************************)
LEMMA InstanceFrame ==
  ASSUME NEW n, NEW b, NEW s, NEW blocked, NEW toward, NEW key, NEW over
  PROVE  /\ G(n)!GhostFrame(b, s, blocked, toward, key, over)
              = GhostFrame(b, s, blocked, toward, key, over)
         /\ G(n)!ResetGhost(b) = ResetGhost(b)
         /\ G(n)!Bearings = Bearings
<1>1. G(n)!ResetGhost(b) = ResetGhost(b)
  BY DEF ResetGhost, G!ResetGhost
<1>2. G(n)!Bearings = Bearings
  BY DEF Bearings, G!Bearings, Directions, G!Directions, Sideways, G!Sideways,
         Vertical, G!Vertical
<1>3. \A st, x, bl, h, tn, pl : G(n)!Advance(st, x, bl, h, tn, pl) = Advance(st, x, bl, h, tn, pl)
  BY DEF Advance, G!Advance, W10, G!W10, Held, G!Held, HeadX, G!HeadX, HeadY, G!HeadY,
         MinusOne, G!MinusOne, Sideways, G!Sideways, Vertical, G!Vertical
<1>4. G(n)!FirstOpen(b, toward \ blocked) = FirstOpen(b, toward \ blocked)
  BY DEF FirstOpen, G!FirstOpen
<1>5. G(n)!GhostFrame(b, s, blocked, toward, key, over)
        = GhostFrame(b, s, blocked, toward, key, over)
  BY <1>3, <1>4 DEF GhostFrame, G!GhostFrame, KeySpace, G!KeySpace
<1> QED BY <1>1, <1>2, <1>5

\* Likewise of the walls.
LEMMA InstanceBlocks ==
  ASSUME NEW n, NEW b, NEW s
  PROVE  G(n)!GhostBlocks(b, s) = GhostBlocks(b, s)
<1>1. \A test, dirs : G(n)!When(test, dirs) = When(test, dirs)
  BY DEF When, G!When
<1>2. G(n)!EdgeBlocks(s.x, s.y) = EdgeBlocks(s.x, s.y)
  BY <1>1 DEF EdgeBlocks, G!EdgeBlocks, W10, G!W10, Ball_Size, G!Ball_Size
<1>3. \A w, x, y : /\ G(n)!Abuts(w, x, y) <=> Abuts(w, x, y)
                   /\ G(n)!Inside(w, x, y) <=> Inside(w, x, y)
                   /\ G(n)!Faces(w, x, y) <=> Faces(w, x, y)
  BY DEF Abuts, G!Abuts, Inside, G!Inside, Faces, G!Faces, AtMost, G!AtMost,
         AtLeast, G!AtLeast, Ball_Size, G!Ball_Size
<1>4. G(n)!WallBlocks(b.walls, s.x, s.y) = WallBlocks(b.walls, s.x, s.y)
  BY <1>3 DEF WallBlocks, G!WallBlocks, SideBlocks, G!SideBlocks, VerticalBlocks,
         G!VerticalBlocks, Sideways, G!Sideways, Vertical, G!Vertical, When, G!When
<1> QED BY <1>2, <1>4 DEF GhostBlocks, G!GhostBlocks

(***************************************************************************)
(* The game implements module Ghost, for each of its ghosts: connecting    *)
(* Pac-Man's position and game_over adds no behaviour to a ghost, so what  *)
(* holds of every ghost alone holds of it in the game.                     *)
(***************************************************************************)
THEOREM GameImplementsGhosts == GameSpec => GhostsRefined
<1>1. ASSUME GameIInv, [GameNext]_gameVars, NEW n \in Names
      PROVE  [G(n)!Next]_(G(n)!vars)
  <2>1. pac \in Walkers /\ ghosts[n] \in Walkers /\ keycode \in Keycodes
    BY <1>1 DEF GameIInv, IInv, TypeOK
  <2>2. CASE GameFrame
    <3>1. PICK over \in BOOLEAN : ghosts' = [m \in Names |-> GhostStep(m, over)]
      BY <2>2 DEF GameFrame, GameOver
    <3>2. pac.x \in Word10 /\ pac.y \in Word10
      BY <2>1 DEF Walkers
    <3>3. Toward(ghosts[n], pac.x, pac.y) \in Bearings
      BY <2>1, <3>2, TowardIsBearing
    <3>4. ghosts'[n] = GhostFrame(Breed[n], ghosts[n], GhostBlocks(Breed[n], ghosts[n]),
                                  Toward(ghosts[n], pac.x, pac.y), keycode, over)
      BY <3>1 DEF GhostStep
    <3>5. G(n)!Frame
      BY <2>2, <3>3, <3>4, InstanceFrame, InstanceBlocks DEF G!Frame, GameFrame
    <3> QED BY <3>5 DEF G!Next
  <2>3. CASE GameReset
    BY <2>3, InstanceFrame DEF GameReset, Reset, G!Reset, G!Next
  <2>4. CASE GameKey
    BY <2>4 DEF GameKey, SetKeycode, G!SetKeycode, G!Next
  <2>5. CASE UNCHANGED gameVars
    BY <2>5 DEF gameVars, G!vars
  <2> QED BY <1>1, <2>2, <2>3, <2>4, <2>5 DEF GameNext
<1>2. GameIInv /\ [GameNext]_gameVars =>
        [ \A n \in Names : [G(n)!Next]_(G(n)!vars) ]_gameVars
  BY <1>1
<1> QED BY <1>2, GameInitIInv, GameNextIInv, PTL DEF GameSpec, GhostsRefined

\* One frame of Pac-Man: a landing of the tunnel, or a step of at most one pixel.
LEMMA PacFrameMoves ==
  ASSUME GameIInv, NEW blocked, NEW over, NEW t, t = PacFrame(pac, blocked, keycode, over)
  PROVE  \/ t.x \in 197..199 \/ t.x \in 441..443
         \/ /\ t.x - pac.x \in {-1, 0, 1} /\ t.y - pac.y \in {-1, 0, 1}
            /\ Still(pac) => t.x = pac.x /\ t.y = pac.y
<1>1. /\ pac.x \in Int /\ pac.y \in Int /\ pac.xm \in Motion /\ pac.ym \in Motion
  BY DEF GameIInv, IInv, TypeOK, Walkers, Word10
<1>2. 16 <= pac.x /\ pac.x <= 1007 /\ 16 <= pac.y /\ pac.y <= 1007
  BY <1>1, PlayfieldAssumption
  DEF GameIInv, IInv, BoundedX, BoundedY, Bounded, Ball_Size
<1>3. t.x = W10(Tunnel(pac.x, pac.y) + pac.xm) /\ t.y = W10(pac.y + pac.ym)
  BY DEF PacFrame, Advance
<1>4. /\ t.y - pac.y \in {-1, 0, 1}
      /\ pac.ym = 0 => t.y = pac.y
  BY <1>1, <1>2, <1>3, StepNear
<1>5. CASE Tunnel(pac.x, pac.y) = pac.x
  <2>1. /\ t.x - pac.x \in {-1, 0, 1}
        /\ pac.xm = 0 => t.x = pac.x
    BY <1>1, <1>2, <1>3, <1>5, StepNear
  <2> QED BY <1>4, <2>1 DEF Still
<1>6. CASE Tunnel(pac.x, pac.y) = 198 \/ Tunnel(pac.x, pac.y) = 442
  BY <1>1, <1>3, <1>6, TenBitStep DEF Motion, MinusOne
<1> QED BY <1>1, <1>5, <1>6, TunnelCases

\* One frame of a ghost is a step of at most one pixel.
LEMMA GhostStepMoves ==
  ASSUME GameIInv, NEW n \in Names, NEW over, NEW t, t = GhostStep(n, over)
  PROVE  /\ t.x - ghosts[n].x \in {-1, 0, 1} /\ t.y - ghosts[n].y \in {-1, 0, 1}
         /\ Still(ghosts[n]) => t.x = ghosts[n].x /\ t.y = ghosts[n].y
<1> DEFINE s == ghosts[n]
<1>1. s \in Walkers /\ GhostBounded(Breed[n], s)
  BY DEF GameIInv
<1>2. t.x = W10(s.x + s.xm) /\ t.y = W10(s.y + s.ym)
  BY DEF GhostStep, GhostFrame, Advance
<1> SUFFICES /\ t.x - s.x \in {-1, 0, 1} /\ t.y - s.y \in {-1, 0, 1}
             /\ Still(s) => t.x = s.x /\ t.y = s.y
  OBVIOUS
<1> HIDE DEF s
<1>3. s.x \in Int /\ s.y \in Int /\ s.xm \in Motion /\ s.ym \in Motion
  BY <1>1 DEF Walkers, Word10
<1>4. 16 <= s.x /\ s.x <= 1007
  BY <1>1, <1>3, BreedFacts DEF GhostBounded, Bounded
<1>5. 16 <= s.y /\ s.y <= 1007
  BY <1>1, <1>3, PlayfieldAssumption DEF GhostBounded, BoundedY, Bounded, Ball_Size
<1> QED BY <1>2, <1>3, <1>4, <1>5, StepNear DEF Still

\* Two sprites that each move at most one pixel along an axis close in by two.
LEMMA CloseIn ==
  ASSUME NEW s \in Walkers, NEW t \in Walkers, NEW s1 \in Walkers, NEW t1 \in Walkers,
         s1.x - s.x \in {-1, 0, 1}, s1.y - s.y \in {-1, 0, 1},
         t1.x - t.x \in {-1, 0, 1}, t1.y - t.y \in {-1, 0, 1}
  PROVE  /\ ~Touches(s, t) => ~Closer(s1, t1, 15)
         /\ ~Closer(s, t, 15) => ~Closer(s1, t1, 13)
<1>1. /\ s.x \in Int /\ s.y \in Int /\ t.x \in Int /\ t.y \in Int
      /\ s1.x \in Int /\ s1.y \in Int /\ t1.x \in Int /\ t1.y \in Int
  BY DEF Walkers, Word10
<1> QED BY <1>1 DEF Touches, Closer, SizeP

\* KeptApart holds after power-up and Reset.
LEMMA ResetKeptApart ==
  ASSUME NEW n \in Names
  PROVE  ~Closer(ResetPac, ResetGhost(Breed[n]), 15)
<1>1. /\ X_Center \in Int /\ Y_Center \in Int
      /\ Breed[n].home.x \in Int /\ Breed[n].home.y \in Int
  BY CenterAssumption, BreedFacts DEF HomeOK
<1> QED BY <1>1, HomesApartAssumption DEF Closer, ResetPac, ResetGhost

\* A frame keeps every ghost apart from Pac-Man.
LEMMA FrameKeptApart ==
  ASSUME OverlapIInv, GameIInv', GameFrame, GameOver => AllStill', NEW n \in Names
  PROVE  KeptApart(n)'
<1>1. PICK blocked : pac' = PacFrame(pac, blocked, keycode, GameOver)
  BY DEF GameFrame
<1>2. ghosts'[n] = GhostStep(n, GameOver)
  BY DEF GameFrame
<1>3. /\ GameIInv /\ KeptApart(n)
      /\ pac \in Walkers /\ pac' \in Walkers
      /\ ghosts[n] \in Walkers /\ ghosts'[n] \in Walkers
      /\ pac.x \in Int /\ (pac').x \in Int
  BY DEF OverlapIInv, GameIInv, IInv, TypeOK, Walkers, Word10
<1>4. CASE (pac').x \in 197..199 \/ (pac').x \in 441..443
  BY <1>4 DEF KeptApart
<1>5. CASE /\ (pac').x - pac.x \in {-1, 0, 1} /\ (pac').y - pac.y \in {-1, 0, 1}
           /\ Still(pac) => (pac').x = pac.x /\ (pac').y = pac.y
  <2>1. /\ (ghosts'[n]).x - ghosts[n].x \in {-1, 0, 1}
        /\ (ghosts'[n]).y - ghosts[n].y \in {-1, 0, 1}
        /\ Still(ghosts[n]) => /\ (ghosts'[n]).x = ghosts[n].x
                               /\ (ghosts'[n]).y = ghosts[n].y
    BY <1>2, <1>3, GhostStepMoves
  <2>2. /\ ~Touches(pac, ghosts[n]) => ~Closer(pac', ghosts'[n], 15)
        /\ ~Closer(pac, ghosts[n], 15) => ~Closer(pac', ghosts'[n], 13)
    BY <1>3, <1>5, <2>1, CloseIn
  <2>3. CASE ~Touches(pac, ghosts[n])
    BY <2>2, <2>3 DEF KeptApart
  <2>4. CASE Touches(pac, ghosts[n])
    <3>1. AllStill'
      BY <2>4 DEF GameOver
    <3>2. CASE ~Closer(pac, ghosts[n], 15)
      BY <2>2, <3>1, <3>2 DEF KeptApart
    <3>3. CASE pac.x \in 197..199 \/ pac.x \in 441..443
      BY <1>3, <1>5, <3>1, <3>3 DEF KeptApart
    <3>4. CASE AllStill
      <4>1. /\ (pac').x = pac.x /\ (pac').y = pac.y
            /\ (ghosts'[n]).x = ghosts[n].x /\ (ghosts'[n]).y = ghosts[n].y
        BY <1>5, <2>1, <3>4 DEF AllStill
      <4> QED BY <1>3, <3>1, <3>4, <4>1 DEF KeptApart, Closer
    <3> QED BY <1>3, <3>2, <3>3, <3>4 DEF KeptApart
  <2> QED BY <2>3, <2>4
<1> QED BY <1>1, <1>3, <1>4, <1>5, PacFrameMoves

(***************************************************************************)
(* Away from the mouths of the tunnel no ghost gets closer to Pac-Man than *)
(* 13 pixels along both axes: the frame of a contact and the one after it  *)
(* cost two pixels each, and then everything stands.                       *)
(***************************************************************************)
THEOREM OverlapsStayShallow == GameSpec => []NoDeepOverlap
<1>1. GameInit => OverlapIInv
  <2> SUFFICES ASSUME GameInit, NEW n \in Names PROVE KeptApart(n)
    BY GameInitIInv DEF OverlapIInv
  <2>1. pac = ResetPac /\ ghosts[n] = ResetGhost(Breed[n])
    BY DEF GameInit, Init
  <2> QED BY <2>1, ResetKeptApart DEF KeptApart
<1>2. OverlapIInv /\ [GameNext]_gameVars => OverlapIInv'
  <2> SUFFICES ASSUME OverlapIInv, [GameNext]_gameVars, NEW n \in Names
               PROVE  KeptApart(n)'
    BY GameNextIInv DEF OverlapIInv
  <2>1. GameIInv /\ GameIInv'
    BY GameNextIInv DEF OverlapIInv
  <2>2. CASE GameFrame
    BY <2>1, <2>2, FrameStopsAll, FrameKeptApart
  <2>3. CASE GameReset
    <3>1. pac' = ResetPac /\ ghosts'[n] = ResetGhost(Breed[n])
      BY <2>3 DEF GameReset, Reset
    <3> QED BY <3>1, ResetKeptApart DEF KeptApart
  <2>4. CASE GameKey \/ UNCHANGED gameVars
    BY <2>4 DEF GameKey, SetKeycode, gameVars, OverlapIInv, KeptApart, AllStill, Still, Closer
  <2> QED BY <2>2, <2>3, <2>4 DEF GameNext
<1>3. OverlapIInv => NoDeepOverlap
  <2> SUFFICES ASSUME OverlapIInv, NEW n \in Names, Closer(pac, ghosts[n], 13)
               PROVE  pac.x \in 196..200 \/ pac.x \in 440..444
    BY DEF NoDeepOverlap
  <2>1. /\ pac.x \in Int /\ pac.y \in Int
        /\ ghosts[n].x \in Int /\ ghosts[n].y \in Int
    BY DEF OverlapIInv, GameIInv, IInv, TypeOK, Walkers, Word10
  <2>2. Closer(pac, ghosts[n], 15)
    BY <2>1 DEF Closer
  <2> QED BY <2>1, <2>2 DEF OverlapIInv, KeptApart
<1> QED BY <1>1, <1>2, <1>3, PTL DEF GameSpec

-----------------------------------------------------------------------------
\* A frame of the game keeps each ghost afloat.
LEMMA GhostStepFloats ==
  ASSUME GameFloatIInv, NEW n \in Names, NEW over \in BOOLEAN, NEW t, t = GhostStep(n, over)
  PROVE  OneAxis(t) /\ KeepsAfloat(t)
<1>1. /\ ghosts[n] \in Walkers /\ GhostBounded(Breed[n], ghosts[n])
      /\ OneAxis(ghosts[n]) /\ KeepsAfloat(ghosts[n])
  BY DEF GameFloatIInv, GameIInv
<1> DEFINE s == ghosts[n]
           blocked == GhostBlocks(Breed[n], s)
           toward == Toward(s, pac.x, pac.y)
<1>2. /\ WallBlocks(Breed[n].walls, s.x, s.y) \subseteq blocked
      /\ toward \in SUBSET Directions
  BY DEF GhostBlocks, Toward, When, Directions
<1>3. t = GhostFrame(Breed[n], s, blocked, toward, keycode, over)
  BY DEF GhostStep
<1>4. KeepsAfloat(t)
  <2> HIDE DEF blocked, toward
  <2> QED BY <1>1, <1>2, <1>3, GhostFrameAfloat
<1>5. OneAxis(t)
  BY <1>1, <1>3, AdvanceOneAxis DEF GhostFrame
<1> QED BY <1>4, <1>5

(***************************************************************************)
(* In the whole game, where all five run on one clock and game_over is     *)
(* what the positions say, no sprite ever enters a bar.                    *)
(***************************************************************************)
THEOREM SpritesStayClear == GameSpec => []AllClear
<1>1. GameInit => GameFloatIInv
  <2> SUFFICES ASSUME GameInit PROVE GameFloatIInv
    OBVIOUS
  <2>1. \A n \in Names : OneAxis(ghosts[n]) /\ KeepsAfloat(ghosts[n])
    BY ResetGhostAfloat DEF GameInit, OneAxis, ResetGhost
  <2> QED BY <2>1, GameInitIInv, InitFloatIInv DEF GameFloatIInv, GameInit
<1>2. GameFloatIInv /\ [GameNext]_gameVars => GameFloatIInv'
  <2> SUFFICES ASSUME GameFloatIInv, [GameNext]_gameVars PROVE GameFloatIInv'
    OBVIOUS
  <2>1. GameIInv' /\ FloatIInv'
    BY GameNextIInv, NextFloatIInv, GameStepIsPacmanStep DEF GameFloatIInv
  <2>2. \A n \in Names : OneAxis(ghosts'[n]) /\ KeepsAfloat(ghosts'[n])
    <3>1. CASE GameFrame
      <4>1. PICK over \in BOOLEAN : ghosts' = [n \in Names |-> GhostStep(n, over)]
        BY <3>1 DEF GameFrame, GameOver
      <4> SUFFICES ASSUME NEW n \in Names
                   PROVE  OneAxis(ghosts'[n]) /\ KeepsAfloat(ghosts'[n])
        OBVIOUS
      <4>2. ghosts'[n] = GhostStep(n, over)
        BY <4>1
      <4> QED BY <4>2, GhostStepFloats
    <3>2. CASE GameReset
      BY <3>2, ResetGhostAfloat DEF GameReset, OneAxis, ResetGhost
    <3>3. CASE ghosts' = ghosts
      BY <3>3 DEF GameFloatIInv
    <3> QED BY <3>1, <3>2, <3>3 DEF GameNext, GameKey, gameVars
  <2> QED BY <2>1, <2>2 DEF GameFloatIInv, OneAxis, KeepsAfloat
<1>3. GameFloatIInv => AllClear
  <2> SUFFICES ASSUME GameFloatIInv PROVE AllClear
    OBVIOUS
  <2>1. ClearOfBars
    BY AfloatIsClear
    DEF GameFloatIInv, FloatIInv, IInv, TypeOK, Walkers, Word10, KeepsAfloat, ClearOfBars
  <2>2. ASSUME NEW n \in Names PROVE Clear(Breed[n].walls, ghosts[n])
    <3>1. ghosts[n].x \in Int /\ ghosts[n].y \in Int /\ Afloat(ghosts[n].x, ghosts[n].y)
      BY DEF GameFloatIInv, GameIInv, Walkers, Word10, KeepsAfloat
    <3> QED BY <3>1, OneMaze, AfloatIsClear
  <2> QED BY <2>1, <2>2 DEF AllClear
<1> QED BY <1>1, <1>2, <1>3, PTL DEF GameSpec
=============================================================================
