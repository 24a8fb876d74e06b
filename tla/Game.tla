------------------------------- MODULE Game -------------------------------
(***************************************************************************)
(* lab62.sv: Pac-Man, the four ghosts and color_mapper wired together.     *)
(* All five sprites are clocked by the same frame_clk, so a frame is one   *)
(* step of all of them, each reading what the others held before the edge. *)
(* game_over is combinational: it is what the positions say now, and no    *)
(* register keeps it.  Reset is common to all.                             *)
(***************************************************************************)
EXTENDS Pacman, Chaser

VARIABLE
  ghosts     \* the registers of the ghosts, by name (each a Walker)

gameVars == <<pac, keycode, ghosts>>

(***************************************************************************)
(* Pac-Man starts further from every home than two sprites that touch.     *)
(***************************************************************************)
ASSUME HomesApartAssumption ==
  \A n \in Names :
    \/ X_Center - Breed[n].home.x >= 15 \/ Breed[n].home.x - X_Center >= 15
    \/ Y_Center - Breed[n].home.y >= 15 \/ Breed[n].home.y - Y_Center >= 15

\* One ghost as the machine of module Ghost, its inputs left arbitrary.
G(n) == INSTANCE Ghost WITH me <- n, ghost <- ghosts[n], GhostKeys <- Keycodes

(***************************************************************************)
(* The overlap test of color_mapper: two squares of half-width SizeP.      *)
(* SizeP is a 32-bit int, so no sum or difference here wraps.              *)
(***************************************************************************)
SizeP == 8

\* Mutant of Touches: a point of one sprite against the square of the other.
Touches_Point(s, t) ==
  /\ s.x >= t.x - SizeP /\ s.x <= t.x + SizeP
  /\ s.y >= t.y - SizeP /\ s.y <= t.y + SizeP

Touches(s, t) ==
  /\ s.x + SizeP >= t.x - SizeP /\ s.x - SizeP <= t.x + SizeP
  /\ s.y + SizeP >= t.y - SizeP /\ s.y - SizeP <= t.y + SizeP

GameOver == \E n \in Names : Touches(pac, ghosts[n])

\* The frame of ghost n, chasing the Pac-Man of before the edge.
GhostStep(n, over) ==
  GhostFrame(Breed[n], ghosts[n], GhostBlocks(Breed[n], ghosts[n]),
             Toward(ghosts[n], pac.x, pac.y), keycode, over)

-----------------------------------------------------------------------------
GameInit ==
  /\ Init
  /\ ghosts = [n \in Names |-> ResetGhost(Breed[n])]

GameFrame ==
  /\ \E blocked \in {PacBlocks(pac)}, over \in {GameOver} :
       /\ pac' = PacFrame(pac, blocked, keycode, over)
       /\ ghosts' = [n \in Names |-> GhostStep(n, over)]
  /\ UNCHANGED keycode

\* Mutants of GameReset: the play flag of one kind of sprite survives.
GameReset_PacPlays ==
  /\ pac' = [ResetPac EXCEPT !.play = pac.play]
  /\ ghosts' = [n \in Names |-> ResetGhost(Breed[n])]
  /\ UNCHANGED keycode

GameReset_GhostsPlay ==
  /\ Reset
  /\ ghosts' = [n \in Names |-> [ResetGhost(Breed[n]) EXCEPT !.play = ghosts[n].play]]

GameReset ==
  /\ Reset
  /\ ghosts' = [n \in Names |-> ResetGhost(Breed[n])]

GameKey ==
  /\ SetKeycode
  /\ UNCHANGED ghosts

GameNext ==
  \/ GameFrame
  \/ GameReset
  \/ GameKey

\* The pixel clock never stops, so neither do the frames.
GameSpec == GameInit /\ [][GameNext]_gameVars /\ WF_gameVars(GameFrame)

-----------------------------------------------------------------------------
\* The registers of all five sprites keep their widths, and motions are -1, 0 or 1.
GameTypeOK ==
  /\ TypeOK
  /\ ghosts \in [Names -> Walkers]

(***************************************************************************)
(* No sprite leaves the playfield (a ghost: the playfield or its home) in  *)
(* the whole game either.                                                  *)
(***************************************************************************)
AllInPlayfield ==
  /\ InPlayfield
  /\ \A n \in Names : /\ LowX(Breed[n]) <= ghosts[n].x /\ ghosts[n].x <= HighX(Breed[n])
                      /\ InsideY(ghosts[n].y)

\* The inductive invariant of the game: that of each sprite.
GameIInv ==
  /\ IInv
  /\ ghosts \in [Names -> Walkers]
  /\ \A n \in Names : GhostBounded(Breed[n], ghosts[n])

(***************************************************************************)
(* No sprite of the game enters a bar of its maze; and the inductive       *)
(* invariant behind that.                                                  *)
(***************************************************************************)
AllClear ==
  /\ ClearOfBars
  /\ \A n \in Names : Clear(Breed[n].walls, ghosts[n])

GameFloatIInv ==
  /\ GameIInv /\ FloatIInv
  /\ \A n \in Names : OneAxis(ghosts[n]) /\ KeepsAfloat(ghosts[n])

(***************************************************************************)
(* Each of the five modules has its own play flag, set by its own case     *)
(* statement; they never disagree about whether the game has started.      *)
(***************************************************************************)
PlayTogether == \A n \in Names : ghosts[n].play = pac.play

\* No sprite is about to move.
Still(s)     == s.xm = 0 /\ s.ym = 0
AllStill     == Still(pac) /\ \A n \in Names : Still(ghosts[n])
JustReset    == pac = ResetPac /\ \A n \in Names : ghosts[n] = ResetGhost(Breed[n])

(***************************************************************************)
(* The frame that sees game_over still moves every sprite by its old       *)
(* motion, but leaves none of them with a motion: no chain of if's that    *)
(* follows the halt sets one again.                                        *)
(***************************************************************************)
OverHalts ==
  [][ GameOver => \/ AllStill'
                  \/ JustReset'
                  \/ pac' = pac /\ ghosts' = ghosts ]_gameVars

(***************************************************************************)
(* game_over is not latched, so a contact may end by itself: the frame     *)
(* that sees it moves the sprites once more, perhaps apart.  Once it has   *)
(* outlived that frame, and everything stands still, only Reset ends it,   *)
(* unless Pac-Man stands in a mouth of the tunnel, where even a sprite     *)
(* without motion is carried to the other side.                            *)
(***************************************************************************)
InMouth(s) == Tunnel(s.x, s.y) # s.x

OverIsFinal ==
  [][ GameOver /\ AllStill /\ ~InMouth(pac) =>
        \/ JustReset'
        \/ GameOver' /\ AllStill' /\ pac'.x = pac.x /\ pac'.y = pac.y ]_gameVars

(***************************************************************************)
(* The sprites close in by at most two pixels a frame and halt one frame   *)
(* after they touch, so away from the mouths of the tunnel, where Pac-Man  *)
(* may land on a ghost, no ghost gets closer than 13 pixels along both     *)
(* axes.                                                                   *)
(***************************************************************************)
Closer(s, t, d) == /\ s.x - t.x < d /\ t.x - s.x < d
                   /\ s.y - t.y < d /\ t.y - s.y < d

NoDeepOverlap ==
  \A n \in Names :
    Closer(pac, ghosts[n], 13) => pac.x \in 196..200 \/ pac.x \in 440..444

(***************************************************************************)
(* The inductive invariant behind it.  Sprites that do not touch are 17    *)
(* pixels apart along an axis, so a contact begins at 15 or more; its      *)
(* first frame may bring them to 13, and leaves them still.  A landing of  *)
(* Pac-Man is as deep as may be, and drifts one pixel before all halt.     *)
(***************************************************************************)
KeptApart(n) ==
  \/ ~Closer(pac, ghosts[n], 15)
  \/ AllStill /\ ~Closer(pac, ghosts[n], 13)
  \/ pac.x \in 197..199 \/ pac.x \in 441..443
  \/ AllStill /\ (pac.x \in 196..200 \/ pac.x \in 440..444)

OverlapIInv == GameIInv /\ \A n \in Names : KeptApart(n)

(***************************************************************************)
(* Every sprite, run with the others, is the sprite that was checked       *)
(* alone: its frames are frames of module Pacman or of module Ghost for    *)
(* some input.                                                             *)
(***************************************************************************)
PacmanRefined == Init /\ [][Next]_vars
GhostsRefined == [][\A n \in Names : [G(n)!Next]_(G(n)!vars)]_gameVars
=============================================================================
