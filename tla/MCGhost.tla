------------------------------ MODULE MCGhost ------------------------------
(***************************************************************************)
(* The four ghosts of the game in the real maze.  A ghost knows one key,   *)
(* so the space bar and "no key" are all it can tell apart.                *)
(***************************************************************************)
EXTENDS Ghost, Ghosts

SpaceOrNone == {0, 44}
=============================================================================
