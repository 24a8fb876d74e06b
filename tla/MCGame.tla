------------------------------- MODULE MCGame -------------------------------
(***************************************************************************)
(* Game on the real maze with the four real ghosts.  Five sprites that     *)
(* answer to any key at any frame are far too many states, so there are    *)
(* two players.  The turning one presses any key, but only every KeyHold   *)
(* frames, and the clock stops, until Reset, after MaxFrames.  The idle    *)
(* one knows only the space bar, and plays without a bound.                *)
(***************************************************************************)
EXTENDS Game, Ghosts

CONSTANTS KeyHold, MaxFrames, Players

VARIABLES
  clock,    \* frames since the last Reset, of the turning player
  player    \* who plays

Idle == player = "idle"

MCInit == GameInit /\ clock = 0 /\ player \in Players

MCFrame ==
  /\ Idle \/ clock < MaxFrames
  /\ GameFrame
  /\ clock' = IF Idle THEN clock ELSE clock + 1
  /\ UNCHANGED player

MCKey ==
  /\ clock % KeyHold = 0
  /\ GameKey
  /\ Idle => keycode' \in {0, 44}
  /\ UNCHANGED <<clock, player>>

MCReset ==
  /\ GameReset
  /\ clock' = 0
  /\ UNCHANGED player

MCNext ==
  \/ MCFrame
  \/ MCKey
  \/ MCReset

\* The fairness of GameSpec, for the player whose clock does not stop.
MCSpec == MCInit /\ [][MCNext]_<<gameVars, clock, player>>
            /\ WF_<<gameVars, clock, player>>(Idle /\ MCFrame)

\* The four turns and the space bar.
Turns == {0, 4, 7, 22, 26, 44}

(***************************************************************************)
(* A Pac-Man that never turns is caught.  Either the game is reset (or not *)
(* started) again and again, or it ends and stays ended: bghost finds the  *)
(* way from its home to the start, though rghost, oghost and pghost get    *)
(* stuck on the walls.                                                     *)
(***************************************************************************)
IdleIsCaught == Idle => []<>(~pac.play) \/ <>[]GameOver
=============================================================================
