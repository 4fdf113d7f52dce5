------------------------------ MODULE MCRooms ------------------------------
(* TLC instances of Rooms. *)
EXTENDS Rooms, TLC

Symmetry == Permutations(Openers) \union Permutations(Ranks)

\* What the handler of presences had in its hands is gone when it is idle, and
\* a room that nothing refers to any more cannot be told from a fresh one.
InUse == {manager, view} \union (IF handler = "idle" THEN {} ELSE {found})
View == <<manager, made, interface, leaver, network, occupants, inside, due, handler, renamed,
          IF inside = "absent" THEN 0 ELSE stay,
          IF handler = "idle" THEN <<>> ELSE <<presence, found>>,
          [r \in Rooms \intersect InUse |->
              <<roster[r], selfOccupant[r], r \in listed, joined[r], since[r], r \in mixed>>]>>
=============================================================================
