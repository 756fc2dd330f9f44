------------------------------ MODULE SortDeps ------------------------------
(***************************************************************************)
(* lib/libkuzpkg/deps.c: dep_graph_init and _klpm_sortbydeps.  The packages *)
(* of a transaction are put in an order in which dependencies come first   *)
(* (or, to remove them, last), by a depth-first search without recursion   *)
(* over a graph that installed packages join when something depends on     *)
(* them.  Dependencies may form cycles.                                    *)
(***************************************************************************)
EXTENDS Naturals, Sequences

CONSTANT Pkgs

VARIABLES
  depends,    \* depends[p]: the packages that satisfy some dependency of p
  targets,    \* the list to sort
  localpkgs,  \* the installed packages that are not targets and not ignored
  reverse,
  vertices,   \* the vertices, in the order of their creation
  iterator,   \* iterator[p]: the children of p not yet looked at
  i, j,       \* loop variables
  path,       \* the current vertex, last, after its chain of parents
  state,      \* of each vertex
  newtargs,   \* the result
  pc

input == <<depends, targets, localpkgs, reverse>>
graph == <<vertices, iterator, i, j, path, state>>
vars  == <<input, graph, newtargs, pc>>

Elems(s) == {s[n] : n \in 1..Len(s)}
Unique(s) == \A m, n \in 1..Len(s) : s[m] = s[n] => m = n
All == Elems(targets) \cup Elems(localpkgs)

Phases == {"vertices", "locals", "sort", "done"}
Marks  == {"UNPROCESSED", "PROCESSING", "PROCESSED"}

\* The types; and a package has at most one vertex, which is at most once on the
\* path: so the fields of a vertex can be functions of its package.
TypeOK ==
  /\ depends \in [Pkgs -> SUBSET Pkgs]
  /\ targets \in Seq(Pkgs) /\ localpkgs \in Seq(Pkgs) /\ reverse \in BOOLEAN
  /\ vertices \in Seq(Pkgs) /\ iterator \in [Pkgs -> Seq(Pkgs)]
  /\ i \in Nat \ {0} /\ j \in Nat \ {0}
  /\ path \in Seq(Pkgs) /\ state \in [Pkgs -> Marks]
  /\ newtargs \in Seq(Pkgs) /\ pc \in Phases
  /\ Unique(vertices) /\ Unique(path)

\* What _klpm_sortbydeps is called with: no package twice, not an empty list.
Input ==
  /\ targets # <<>> /\ Unique(targets) /\ Unique(localpkgs)
  /\ Elems(targets) \cap Elems(localpkgs) = {}

Init ==
  /\ depends \in [Pkgs -> SUBSET Pkgs]
  /\ targets \in Seq(Pkgs) /\ localpkgs \in Seq(Pkgs) /\ reverse \in BOOLEAN
  /\ Input
  /\ vertices = targets
  /\ iterator = [p \in Pkgs |-> <<>>] /\ i = 1 /\ j = 1
  /\ path = <<>> /\ state = [p \in Pkgs |-> "UNPROCESSED"]
  /\ newtargs = <<>> /\ pc = "vertices"

-----------------------------------------------------------------------------
(* dep_graph_init: the children of vertex i.                               *)

AddChild(p) == iterator' = [iterator EXCEPT ![vertices[i]] = Append(@, p)]

\* Mutant: an installed package does not join the graph.
JoinsNever(p) == FALSE
\* Does installed package p join the graph now?  One that has is no longer listed.
Joins(p) == p \notin Elems(vertices) /\ p \in depends[vertices[i]]

edge_to_vertex ==
  /\ pc = "vertices" /\ j <= Len(vertices)
  /\ IF vertices[j] \in depends[vertices[i]] THEN AddChild(vertices[j])
                                             ELSE UNCHANGED iterator
  /\ j' = j + 1
  /\ UNCHANGED <<input, vertices, i, path, state, newtargs, pc>>

to_locals ==
  /\ pc = "vertices" /\ j > Len(vertices)
  /\ pc' = "locals" /\ j' = 1
  /\ UNCHANGED <<input, vertices, iterator, i, path, state, newtargs>>

edge_to_local ==
  /\ pc = "locals" /\ j <= Len(localpkgs)
  /\ IF Joins(localpkgs[j])
       THEN vertices' = Append(vertices, localpkgs[j]) /\ AddChild(localpkgs[j])
       ELSE UNCHANGED <<vertices, iterator>>
  /\ j' = j + 1
  /\ UNCHANGED <<input, i, path, state, newtargs, pc>>

\* _klpm_sortbydeps enters vertex v at top level.
Enter(v, marks) == path' = <<v>> /\ state' = [marks EXCEPT ![v] = "PROCESSING"]

next_vertex ==
  /\ pc = "locals" /\ j > Len(localpkgs)
  /\ \/ /\ i < Len(vertices)
        /\ i' = i + 1 /\ pc' = "vertices" /\ UNCHANGED <<path, state>>
     \/ /\ i = Len(vertices)
        /\ i' = 1 /\ pc' = "sort" /\ Enter(vertices[1], state)
  /\ j' = 1
  /\ UNCHANGED <<input, vertices, iterator, newtargs>>

-----------------------------------------------------------------------------
(* _klpm_sortbydeps: the search.                                           *)

vertex == path[Len(path)]

\* Mutant: a child is entered whatever its state.
UnseenAlways(c) == state[c] # "PROCESSING"
Unseen(c) == state[c] = "UNPROCESSED"

\* One turn of the inner loop.  (A child that is being processed closes a cycle,
\* which is only logged.)
next_child ==
  /\ pc = "sort" /\ iterator[vertex] # <<>>
  /\ LET c == Head(iterator[vertex]) IN
       IF Unseen(c)
         THEN path' = Append(path, c) /\ state' = [state EXCEPT ![c] = "PROCESSING"]
         ELSE UNCHANGED <<path, state>>
  /\ iterator' = [iterator EXCEPT ![vertex] = Tail(@)]
  /\ UNCHANGED <<input, vertices, i, j, newtargs, pc>>

Left == [state EXCEPT ![vertex] = "PROCESSED"]

Collected == IF vertex \in Elems(targets) THEN Append(newtargs, vertex) ELSE newtargs

\* The vertices after i that have not been seen.
Unprocessed == {n \in (i + 1)..Len(vertices) : Left[vertices[n]] = "UNPROCESSED"}

\* klpm_list_reverse.
Reversed(s) == [n \in 1..Len(s) |-> s[Len(s) + 1 - n]]

leave_vertex ==
  /\ pc = "sort" /\ iterator[vertex] = <<>>
  /\ \/ /\ Len(path) > 1
        /\ path' = SubSeq(path, 1, Len(path) - 1)
        /\ state' = Left /\ newtargs' = Collected
        /\ UNCHANGED <<i, pc>>
     \/ /\ Len(path) = 1
        /\ \E n \in Unprocessed :
             /\ \A m \in Unprocessed : n <= m
             /\ i' = n /\ Enter(vertices[n], Left)
        /\ newtargs' = Collected /\ UNCHANGED pc
     \/ /\ Len(path) = 1 /\ Unprocessed = {}
        /\ i' = Len(vertices) + 1 /\ path' = <<>> /\ state' = Left
        /\ newtargs' = IF reverse THEN Reversed(Collected) ELSE Collected
        /\ pc' = "done"
  /\ UNCHANGED <<input, vertices, iterator, j>>

Next ==
  \/ edge_to_vertex \/ to_locals \/ edge_to_local \/ next_vertex
  \/ next_child \/ leave_vertex

Spec == Init /\ [][Next]_vars

-----------------------------------------------------------------------------
(* Properties.                                                             *)

\* A chain of dependencies leads from q to p: p is in every set of packages that
\* contains q and the dependencies of its members.
Closed(C) == \A x \in C \cap All : depends[x] \cap All \subseteq C
Reaches(q, p) == \A C \in SUBSET Pkgs : q \in C /\ Closed(C) => p \in C

Before(p, q) ==
  \E m, n \in 1..Len(newtargs) : m < n /\ newtargs[m] = p /\ newtargs[n] = q

\* What _klpm_sortbydeps returns is a rearrangement of its targets: none is lost and
\* none comes twice, whatever cycles there are.
SameTargets ==
  pc = "done" => Unique(newtargs) /\ Elems(newtargs) = Elems(targets)

\* "Re-order a list of target packages with respect to their dependencies"
\* (deps.c:197): a dependency comes before the package that has it (after it, in
\* reverse), unless the two are on a cycle.
DependencyOrder ==
  pc = "done" => \A p, q \in Elems(targets) :
    q \in depends[p] /\ ~Reaches(q, p)
      => IF reverse THEN Before(p, q) ELSE Before(q, p)

\* _klpm_sortbydeps sorts: the targets, all of them and each once, in an order that
\* respects their dependencies.
SortedByDeps == SameTargets /\ DependencyOrder

\* The same for the indirect dependencies of a package that is on no cycle, the
\* chains through installed packages that are not targets included.
IndirectOrder ==
  pc = "done" => \A p, q \in Elems(targets) :
    (/\ p # q /\ Reaches(p, q)
     /\ \A x \in depends[p] \cap All : x # p => ~Reaches(x, p))
       => IF reverse THEN Before(p, q) ELSE Before(q, p)
=============================================================================
