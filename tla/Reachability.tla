---------------------------- MODULE Reachability ----------------------------
(* What a traversal along directed edges reaches: an edge <<next, from>>   *)
(* leads from the second to the first.                                     *)
EXTENDS Integers

Neighbours(edges, near) == {e[1] : e \in {x \in edges : x[2] \in near}}

Grown(edges, near) == near \cup Neighbours(edges, near)

(* What is reached from a set along at most n edges.                       *)
Reached(edges, n, start) ==
  LET grown[k \in 0..n] ==
        IF k = 0 THEN start ELSE Grown(edges, grown[k - 1])
  IN grown[n]

=============================================================================
