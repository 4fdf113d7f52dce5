------------------------------ MODULE MCRoster ------------------------------
(* Small instances of Roster for TLC. *)
EXTENDS Roster, FiniteSets, TLC

\* Objects, resources and connections are interchangeable.
Symmetric ==
    {f @@ g @@ h : f \in Permutations(Objs), g \in Permutations(Res),
                   h \in Permutations(Conns)}

\* An object that is not listed is never listed again as it is.  No step reads
\* refresh, no property of the run reads the last resource, and none reads avail
\* of a contact that is torn or crossed.
Used(o) == IF \E j \in Jids : list[j] = o THEN [peer[o] EXCEPT !.last = Nil] ELSE NewPeer

LiveState ==
    <<list, [o \in Objs |-> Used(o)], watch, user, fetch, fetching, sessionVars,
      serverVars, open, told, overlaps,
      [j \in Jids |-> IF j \in torn \cup crossed THEN {} ELSE avail[j]]>>

\* Bound: at most two goroutines have business with the list at a time: watchers
\* of connections that are not over, an answer being merged, the user's answer.
Actors ==
    {c \in Conns : stream[c] # "none"} \cup fetching \cup (IF user = Idle THEN {} ELSE {Nil})
TwoAtOnce == Cardinality(Actors) <= 2
=============================================================================
