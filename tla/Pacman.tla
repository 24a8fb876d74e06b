------------------------------- MODULE Pacman -------------------------------
(***************************************************************************)
(* pacman.sv: the sprite the player steers.  keycode is the PIO register   *)
(* between the firmware and the game (lab62.sv); the firmware writes it at *)
(* its own pace.  game_over comes from color_mapper, combinationally, and  *)
(* is any Boolean here; module Game connects it.                           *)
(***************************************************************************)
EXTENDS Walker

CONSTANTS
  X_Center, Y_Center,  \* parameters Ball_X_Center, Ball_Y_Center
  Keycodes             \* the codes the keyboard may report

VARIABLES
  pac,       \* the registers of pacman.sv (a Walker)
  keycode    \* keycode_export, the last key the firmware wrote

vars == <<pac, keycode>>

(***************************************************************************)
(* The start is inside the playfield, and the playfield reaches beyond the *)
(* mouths of the tunnel.                                                   *)
(***************************************************************************)
ASSUME CenterAssumption ==
  /\ X_Center \in Int /\ Y_Center \in Int
  /\ InsideX(X_Center) /\ InsideY(Y_Center)
ASSUME TunnelAssumption == X_Min <= 181 /\ X_Max >= 459
ASSUME CenterAfloatAssumption == Afloat(X_Center, Y_Center)
ASSUME KeycodesAssumption == Keycodes \subseteq 0..255 /\ 0 \in Keycodes

\* USB usage codes of the keys that turn the sprite.
KeyTurns == [d \in Directions |->
               CASE d = "left" -> 4 [] d = "right" -> 7 [] d = "down" -> 22
                 [] d = "up" -> 26]

\* The sprite after Reset (and after power-up, which loads the same values).
ResetPac == [x |-> X_Center, y |-> Y_Center, xm |-> 0, ym |-> 0, play |-> FALSE]

(***************************************************************************)
(* The tunnel: two blocking assignments in a row, before the wall tests.   *)
(***************************************************************************)
InTunnelRow(y) == AtLeast(y, 8, 220) /\ y + 8 <= 240

\* Mutant of Tunnel: the second landing is inside the wall beside the mouth.
Tunnel_Deep(x, y) ==
  LET x1 == IF InTunnelRow(y) /\ x + Ball_Size = 459 THEN 198 ELSE x
  IN  IF InTunnelRow(y) /\ x1 - Ball_Size = 181 THEN 424 ELSE x1

Tunnel(x, y) ==
  LET x1 == IF InTunnelRow(y) /\ x + Ball_Size = 459 THEN 198 ELSE x
  IN  IF InTunnelRow(y) /\ x1 - Ball_Size = 181 THEN 442 ELSE x1

\* The directions the sprite cannot turn to: edges before the tunnel, walls after.
PacBlocks(s) ==
  EdgeBlocks(s.x, s.y) \cup WallBlocks(PacmanWalls, Tunnel(s.x, s.y), s.y)

\* One edge of frame_clk.  The space bar starts play before the turn is tested.
PacFrame(s, blocked, key, over) ==
  LET play == s.play \/ key = KeySpace
      turn == {d \in Directions \ blocked : KeyTurns[d] = key /\ play /\ ~over}
  IN  Advance(s, Tunnel(s.x, s.y), blocked, over, turn, play)

-----------------------------------------------------------------------------
Init ==
  /\ pac = ResetPac
  /\ keycode = 0

Frame ==
  /\ \E blocked \in {PacBlocks(pac)}, over \in BOOLEAN :
       pac' = PacFrame(pac, blocked, keycode, over)
  /\ UNCHANGED keycode

Reset ==
  /\ pac' = ResetPac
  /\ UNCHANGED keycode

SetKeycode ==
  /\ keycode' \in Keycodes
  /\ UNCHANGED pac

Next ==
  \/ Frame
  \/ Reset
  \/ SetKeycode

\* The pixel clock never stops, so neither do the frames.
Spec == Init /\ [][Next]_vars /\ WF_vars(Frame)

-----------------------------------------------------------------------------
\* The registers keep their widths, and motions are -1, 0 or 1.
TypeOK ==
  /\ pac \in Walkers
  /\ keycode \in Keycodes

(***************************************************************************)
(* The late edge tests let the sprite run at most one pixel past the point *)
(* where they stop it, through the tunnel too, whose landing column no     *)
(* edge test sees in that frame.                                           *)
(***************************************************************************)
InPlayfield == InsideX(pac.x) /\ InsideY(pac.y)

\* The inductive invariant behind it: at the last pixel no motion leads outwards.
IInv ==
  /\ TypeOK
  /\ BoundedX(pac)
  /\ BoundedY(pac)

(***************************************************************************)
(* The wall tests of pacman.sv lines 83-949, one pixel late, together keep *)
(* the sprite out of every bar of the maze, whatever the keys and whenever *)
(* game_over or Reset comes.                                               *)
(***************************************************************************)
ClearOfBars == Clear(PacmanWalls, pac)

(***************************************************************************)
(* Between two edges the sprite moves by at most one pixel along one axis, *)
(* except through the tunnel, from one mouth to just inside the other.     *)
(***************************************************************************)
Near(a, b) == a - b \in {-1, 0, 1}

Crosses(s, t) ==
  /\ t.y = s.y
  /\ \/ s.x = 443 /\ t.x \in 197..199
     \/ s.x = 197 /\ t.x \in 441..443

StepOrTunnel ==
  [][ \/ pac' = ResetPac
      \/ /\ Near(pac'.x, pac.x) /\ Near(pac'.y, pac.y)
         /\ pac'.x = pac.x \/ pac'.y = pac.y
      \/ Crosses(pac, pac') ]_vars

(***************************************************************************)
(* The inductive invariant behind ClearOfBars and StepOrTunnel: between    *)
(* the boxes beside the tunnel, whose spans close up and down, nothing     *)
(* moves up or down, so what enters a mouth leaves it in the same row.     *)
(***************************************************************************)
LevelInTunnel(s) ==
  s.y \in 228..232 /\ (s.x <= 242 \/ s.x >= 398) => s.ym = 0

FloatIInv ==
  /\ IInv
  /\ OneAxis(pac)
  /\ KeepsAfloat(pac)
  /\ LevelInTunnel(pac)

(***************************************************************************)
(* A sprite whose four exits are all closed.                               *)
(***************************************************************************)
Trapped(s) == PacBlocks(s) = Directions /\ s.xm = 0 /\ s.ym = 0

(***************************************************************************)
(* What the comment of pacman.sv says of a sprite away from the edges:     *)
(* "Ball is somewhere in the middle, don't bounce, just keep moving".      *)
(* Some key must then still be able to move it.                            *)
(***************************************************************************)
KeepsMoving == EdgeBlocks(pac.x, pac.y) = {} => ~Trapped(pac)

(***************************************************************************)
(* While one key stays held (or none is) the sprite cannot run for ever:   *)
(* again and again it is at rest, or the key has changed.  No loop through *)
(* the tunnel or between two walls carries it on.                          *)
(***************************************************************************)
AtRest == pac.xm = 0 /\ pac.ym = 0

ComesToRest ==
  \A k \in Keycodes : []<>(keycode # k \/ AtRest)
=============================================================================
