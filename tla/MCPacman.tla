------------------------------ MODULE MCPacman ------------------------------
(***************************************************************************)
(* The real maze, the real parameters and the keys pacman.sv tells apart,  *)
(* with 0 for "no key".                                                    *)
(***************************************************************************)
EXTENDS Pacman

AllKeys == {0, 4, 7, 22, 26, 44}

\* Right, up, space and none: enough to reach the tunnel from the start.
RightUpKeys == {0, 7, 26, 44}
=============================================================================
