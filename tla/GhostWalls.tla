----------------------------- MODULE GhostWalls -----------------------------
(***************************************************************************)
(* The copies of the maze inside rghost.sv, bghost.sv, oghost.sv and       *)
(* pghost.sv.  Each file repeats the `if`s of pacman.sv; the copies hold   *)
(* the same numbers in the same order, so each list here is that of Maze.  *)
(* They stay separate: an edit of one file changes one ghost.              *)
(***************************************************************************)
EXTENDS Maze

\* rghost.sv
R_AlleyBarsUpper == AlleyBarsUpper
R_AlleyCells == AlleyCells
R_AlleyBarsLower == AlleyBarsLower
R_RightWalls == RightWalls
R_LeftWalls == LeftWalls
R_AlleysUpDown == AlleysUpDown
R_DownWallsUpper == DownWallsUpper
R_DownWallsLower == DownWallsLower
R_UpWallsUpper == UpWallsUpper
R_UpWallsLower == UpWallsLower
R_Walls ==
  [ bars   |-> R_AlleyBarsUpper \cup R_AlleyBarsLower,
    cells  |-> R_AlleyCells,
    right  |-> R_RightWalls,
    left   |-> R_LeftWalls,
    shafts |-> R_AlleysUpDown,
    down   |-> R_DownWallsUpper \cup R_DownWallsLower,
    up     |-> R_UpWallsUpper \cup R_UpWallsLower ]

\* bghost.sv
B_AlleyBarsUpper == AlleyBarsUpper
B_AlleyCells == AlleyCells
B_AlleyBarsLower == AlleyBarsLower
B_RightWalls == RightWalls
B_LeftWalls == LeftWalls
B_AlleysUpDown == AlleysUpDown
B_DownWallsUpper == DownWallsUpper
B_DownWallsLower == DownWallsLower
B_UpWallsUpper == UpWallsUpper
B_UpWallsLower == UpWallsLower
B_Walls ==
  [ bars   |-> B_AlleyBarsUpper \cup B_AlleyBarsLower,
    cells  |-> B_AlleyCells,
    right  |-> B_RightWalls,
    left   |-> B_LeftWalls,
    shafts |-> B_AlleysUpDown,
    down   |-> B_DownWallsUpper \cup B_DownWallsLower,
    up     |-> B_UpWallsUpper \cup B_UpWallsLower ]

\* oghost.sv
O_AlleyBarsUpper == AlleyBarsUpper
O_AlleyCells == AlleyCells
O_AlleyBarsLower == AlleyBarsLower
O_RightWalls == RightWalls
O_LeftWalls == LeftWalls
O_AlleysUpDown == AlleysUpDown
O_DownWallsUpper == DownWallsUpper
O_DownWallsLower == DownWallsLower
O_UpWallsUpper == UpWallsUpper
O_UpWallsLower == UpWallsLower
O_Walls ==
  [ bars   |-> O_AlleyBarsUpper \cup O_AlleyBarsLower,
    cells  |-> O_AlleyCells,
    right  |-> O_RightWalls,
    left   |-> O_LeftWalls,
    shafts |-> O_AlleysUpDown,
    down   |-> O_DownWallsUpper \cup O_DownWallsLower,
    up     |-> O_UpWallsUpper \cup O_UpWallsLower ]

\* pghost.sv
P_AlleyBarsUpper == AlleyBarsUpper
P_AlleyCells == AlleyCells
P_AlleyBarsLower == AlleyBarsLower
P_RightWalls == RightWalls
P_LeftWalls == LeftWalls
P_AlleysUpDown == AlleysUpDown
P_DownWallsUpper == DownWallsUpper
P_DownWallsLower == DownWallsLower
P_UpWallsUpper == UpWallsUpper
P_UpWallsLower == UpWallsLower
P_Walls ==
  [ bars   |-> P_AlleyBarsUpper \cup P_AlleyBarsLower,
    cells  |-> P_AlleyCells,
    right  |-> P_RightWalls,
    left   |-> P_LeftWalls,
    shafts |-> P_AlleysUpDown,
    down   |-> P_DownWallsUpper \cup P_DownWallsLower,
    up     |-> P_UpWallsUpper \cup P_UpWallsLower ]
=============================================================================
