------------------------------- MODULE Stream -------------------------------
(***************************************************************************)
(* What a serial line promises: the characters put in at one end come out  *)
(* at the other, each once and in the order they were put in.  Characters  *)
(* are numbered modulo M; sent is the number of the next one to be put in, *)
(* got that of the next one to come out, and no more than Room characters  *)
(* are ever under way.                                                     *)
(***************************************************************************)
EXTENDS Integers

CONSTANTS
  M,      \* more than Room, or the numbers could not be told apart
  Room

VARIABLES sent, got

UnderWay == (sent - got) % M

Init == sent = 0 /\ got = 0

Put == \E k \in 1..Room :
         /\ UnderWay + k <= Room
         /\ sent' = (sent + k) % M
         /\ UNCHANGED got

Take == \E k \in 1..Room :
          /\ k <= UnderWay
          /\ got' = (got + k) % M
          /\ UNCHANGED sent

Spec == Init /\ [][Put \/ Take]_<<sent, got>>
=============================================================================
