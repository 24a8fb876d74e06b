------------------------------- MODULE Ghosts -------------------------------
(***************************************************************************)
(* The four ghosts of the game as records for module Ghost: the parameters *)
(* Ball_X_Center and Ball_Y_Center, the values Reset loads, and the order  *)
(* of the if / else if chain of each file.                                 *)
(***************************************************************************)
EXTENDS GhostWalls

Order(a, b, c, d) ==
  [e \in Directions |-> CASE e = a -> 1 [] e = b -> 2 [] e = c -> 3 [] e = d -> 4]

Rghost ==
  [ home |-> [x |-> 185 + 8, y |-> 100], xm |-> 1,
    rank |-> Order("right", "down", "left", "up"),
    late |-> TRUE, halts |-> FALSE, walls |-> R_Walls ]

\* Mutant of Bghost: the chase tries the directions in the order of pghost.
Bghost_LikePghost ==
  [ home |-> [x |-> 455 - 8, y |-> 100], xm |-> 0,
    rank |-> Order("left", "right", "down", "up"),
    late |-> FALSE, halts |-> TRUE, walls |-> B_Walls ]

Bghost ==
  [ home |-> [x |-> 455 - 8, y |-> 100], xm |-> 0,
    rank |-> Order("up", "down", "right", "left"),
    late |-> FALSE, halts |-> TRUE, walls |-> B_Walls ]

Oghost ==
  [ home |-> [x |-> 455 - 8, y |-> 380], xm |-> 0,
    rank |-> Order("right", "down", "left", "up"),
    late |-> FALSE, halts |-> FALSE, walls |-> O_Walls ]

Pghost ==
  [ home |-> [x |-> 185 + 10, y |-> 380], xm |-> 0,
    rank |-> Order("left", "right", "down", "up"),
    late |-> FALSE, halts |-> FALSE, walls |-> P_Walls ]

GameGhosts ==
  [ n \in {"rghost", "bghost", "oghost", "pghost"} |->
      CASE n = "rghost" -> Rghost [] n = "bghost" -> Bghost
        [] n = "oghost" -> Oghost [] n = "pghost" -> Pghost ]
=============================================================================
