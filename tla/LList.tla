------------------------------- MODULE LList -------------------------------
(***************************************************************************)
(* The doubly linked list of the hardware abstraction layer, which holds   *)
(* the alarms and the devices: alt_llist_insert and alt_llist_remove, and  *)
(* the loop of alt_tick, which walks the list while a callback may remove  *)
(* the entry it is at or insert another.                                   *)
(***************************************************************************)
EXTENDS Integers, FiniteSets, Sequences, SequencesExt

CONSTANTS
  Entry,    \* what can be in the list
  ListHead, \* the list itself
  Nil       \* the null pointer of an entry never inserted

ASSUME EntryAssumption == ListHead \notin Entry /\ Nil \notin Entry \cup {ListHead}

VARIABLES
  next, previous,   \* the two pointers of every node
  walk,             \* the entry a walk is at; ListHead when there is none
  todo              \* the entries the walk has still to come to

llistVars == <<next, previous, walk, todo>>

-----------------------------------------------------------------------------
Node   == Entry \cup {ListHead}
Linked == {e \in Entry : next[e] \notin {e, Nil}}

LListInit ==
  /\ next = [e \in Node |-> IF e = ListHead THEN ListHead ELSE Nil]
  /\ previous = next
  /\ walk = ListHead
  /\ todo = {}

\* Mutant of LListInsert: the old first entry keeps the list as its previous.
LListInsert_NoBack(e) ==
  /\ e \notin Linked
  /\ next' = [next EXCEPT ![e] = next[ListHead], ![ListHead] = e]
  /\ previous' = [previous EXCEPT ![e] = ListHead]

\* alt_llist_insert: e becomes the first entry.
LListInsert(e) ==
  /\ e \notin Linked
  /\ next' = [next EXCEPT ![e] = next[ListHead], ![ListHead] = e]
  /\ previous' = [previous EXCEPT ![e] = ListHead, ![next[ListHead]] = e]

\* alt_llist_remove: e ends pointing to itself, so that it can be removed again.
LListRemove(e) ==
  /\ next[e] # Nil
  /\ previous' = [previous EXCEPT ![next[e]] = previous[e], ![e] = e]
  /\ next' = [next EXCEPT ![previous[e]] = next[e], ![e] = e]

Change ==
  /\ walk = ListHead
  /\ \E e \in Entry : LListInsert(e) \/ LListRemove(e)
  /\ UNCHANGED <<walk, todo>>

\* The loop of alt_tick.  It reads the next entry before the callback is made.
WalkBegin ==
  /\ walk = ListHead
  /\ walk' = next[ListHead]
  /\ todo' = Linked
  /\ UNCHANGED <<next, previous>>

WalkVisit ==
  /\ walk # ListHead
  /\ walk' = next[walk]
  /\ todo' = todo \ {walk}
  /\ \/ UNCHANGED <<next, previous>>
     \/ LListRemove(walk)
     \/ \E e \in Entry : LListInsert(e)

LListNext == Change \/ WalkBegin \/ WalkVisit

LListSpec == LListInit /\ [][LListNext]_llistVars

-----------------------------------------------------------------------------
\* The nodes of the ring that leads from the list through s and back, by place.
At(s, i) == IF i \in DOMAIN s THEN s[i] ELSE ListHead

\* The two pointers of every node of that ring.
Chained(s) ==
  \A i \in 0 .. Len(s) : next[At(s, i)] = At(s, i + 1) /\ previous[At(s, i + 1)] = At(s, i)

(***************************************************************************)
(* The list stays one ring: forwards and backwards it has the same         *)
(* entries, those that are linked, each once; and a walk comes to every    *)
(* entry that was in the list when it began, though the one it is at may   *)
(* be removed under it.                                                    *)
(***************************************************************************)
ListIsRing ==
  /\ \E s \in SetToSeqs(Linked) : Chained(s)
  /\ walk = ListHead => todo = {}

=============================================================================
