----------------------------- MODULE MCSession -----------------------------
(* Small instances of Session for TLC. *)
EXTENDS Session, TLC

\* Connections, and goroutines running Connect, are interchangeable.
Symmetric == Permutations(Conns) \cup Permutations(Dialers)

\* What the run for liveness tells apart.  Without pingers nothing reads what the
\* menu shows, no property there reads what a Close has cleared, and nothing tells
\* a connection that was lost from one that was closed.  Asking for features ends
\* the process or changes nothing else.
Live ==
    <<status, conn, want, calm, [k \in Conns |-> link[k] \in {"lost", "closed"}],
      [k \in Conns |-> link[k] = "unused"], pc, held, panicked>>
=============================================================================
