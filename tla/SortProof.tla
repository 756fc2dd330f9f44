----------------------------- MODULE SortProof ------------------------------
(***************************************************************************)
(* For every dependency graph and every list of targets, _klpm_sortbydeps  *)
(* returns the targets in an order in which a dependency comes first unless *)
(* it is on a cycle with the package that has it.                          *)
(***************************************************************************)
EXTENDS SortDeps, TLAPS

-----------------------------------------------------------------------------
(* Sequences and their elements.                                           *)

\* The elements of a sequence over S are in S.
LEMMA ElemsMember ==
  ASSUME NEW S, NEW s \in Seq(S) PROVE Elems(s) \subseteq S
BY DEF Elems

\* Appending x adds x to the elements, and keeps them unique if it is new.
LEMMA ElemsAppend ==
  ASSUME NEW S, NEW s \in Seq(S), NEW x \in S
  PROVE  /\ Append(s, x) \in Seq(S)
         /\ Elems(Append(s, x)) = Elems(s) \cup {x}
         /\ Unique(s) /\ x \notin Elems(s) => Unique(Append(s, x))
<1>1. Append(s, x) \in Seq(S) /\ Len(Append(s, x)) = Len(s) + 1 /\ Len(s) \in Nat
  OBVIOUS
<1>2. \A n \in 1..(Len(s) + 1) : Append(s, x)[n] = IF n <= Len(s) THEN s[n] ELSE x
  OBVIOUS
<1>3. Elems(Append(s, x)) = Elems(s) \cup {x}
  <2>1. ASSUME NEW y \in Elems(Append(s, x)) PROVE y \in Elems(s) \cup {x}
    BY <1>1, <1>2 DEF Elems
  <2>2. ASSUME NEW y \in Elems(s) PROVE y \in Elems(Append(s, x))
    <3>1. PICK n \in 1..Len(s) : y = s[n]  BY Zenon DEF Elems
    <3>2. n \in 1..(Len(s) + 1) /\ Append(s, x)[n] = y  BY <1>1, <1>2, <3>1
    <3> QED  BY <1>1, <3>2, Zenon DEF Elems
  <2>3. x \in Elems(Append(s, x))
    <3>1. Len(s) + 1 \in 1..(Len(s) + 1) /\ Append(s, x)[Len(s) + 1] = x
      BY <1>1, <1>2
    <3> QED  BY <1>1, <3>1, Zenon DEF Elems
  <2> QED  BY <2>1, <2>2, <2>3, Zenon
<1>4. ASSUME Unique(s), x \notin Elems(s) PROVE Unique(Append(s, x))
  <2>1. \A n \in 1..Len(s) : s[n] # x  BY <1>4, Zenon DEF Elems
  <2> QED  BY <1>1, <1>2, <1>4, <2>1 DEF Unique
<1> QED  BY <1>1, <1>3, <1>4, Zenon

\* The elements are the head and the elements of the tail.
LEMMA ElemsTail ==
  ASSUME NEW S, NEW s \in Seq(S), s # <<>>
  PROVE  /\ Head(s) \in S /\ Tail(s) \in Seq(S)
         /\ Elems(s) = Elems(Tail(s)) \cup {Head(s)}
<1>1. /\ Len(s) \in Nat /\ Len(s) >= 1 /\ Head(s) = s[1] /\ Tail(s) \in Seq(S)
      /\ Len(Tail(s)) = Len(s) - 1 /\ s[1] \in S
  OBVIOUS
<1>2. \A n \in 1..(Len(s) - 1) : Tail(s)[n] = s[n + 1]  BY <1>1
<1>3. ASSUME NEW y \in Elems(s) PROVE y \in Elems(Tail(s)) \cup {Head(s)}
  <2>1. PICK n \in 1..Len(s) : y = s[n]  BY Zenon DEF Elems
  <2>2. CASE n = 1  BY <2>1, <2>2, <1>1, Zenon
  <2>3. CASE n > 1
    <3>1. n - 1 \in 1..(Len(s) - 1) /\ Tail(s)[n - 1] = y  BY <1>1, <1>2, <2>1, <2>3
    <3> QED  BY <1>1, <3>1, Zenon DEF Elems
  <2> QED  BY <2>2, <2>3
<1>4. ASSUME NEW y \in Elems(Tail(s)) PROVE y \in Elems(s)
  <2>1. PICK n \in 1..(Len(s) - 1) : y = Tail(s)[n]  BY <1>1, Zenon DEF Elems
  <2>2. n + 1 \in 1..Len(s) /\ y = s[n + 1]  BY <1>1, <1>2, <2>1
  <2> QED  BY <2>2, Zenon DEF Elems
<1>5. Head(s) \in Elems(s)  BY <1>1 DEF Elems
<1> QED  BY <1>1, <1>3, <1>4, <1>5, Zenon

\* Dropping the last of unique elements drops exactly that element.
LEMMA ElemsFront ==
  ASSUME NEW S, NEW s \in Seq(S), Len(s) > 1, Unique(s)
  PROVE  LET f == SubSeq(s, 1, Len(s) - 1) IN
         /\ f \in Seq(S) /\ Len(f) = Len(s) - 1 /\ Unique(f)
         /\ \A n \in 1..Len(f) : f[n] = s[n]
         /\ Elems(f) = Elems(s) \ {s[Len(s)]}
<1> DEFINE f == SubSeq(s, 1, Len(s) - 1)
<1>1. /\ Len(s) \in Nat /\ f \in Seq(S) /\ Len(f) = Len(s) - 1
      /\ \A n \in 1..Len(f) : f[n] = s[n]
  OBVIOUS
<1> HIDE DEF f
<1>2. Unique(f)  BY <1>1 DEF Unique
<1>3. ASSUME NEW y \in Elems(f) PROVE y \in Elems(s) \ {s[Len(s)]}
  <2>1. PICK n \in 1..Len(f) : y = f[n]  BY Zenon DEF Elems
  <2>2. n \in 1..Len(s) /\ y = s[n] /\ n # Len(s)  BY <1>1, <2>1
  <2>3. y # s[Len(s)]  BY <2>2, <1>1 DEF Unique
  <2> QED  BY <2>2, <2>3, Zenon DEF Elems
<1>4. ASSUME NEW y \in Elems(s) \ {s[Len(s)]} PROVE y \in Elems(f)
  <2>1. PICK n \in 1..Len(s) : y = s[n]  BY Zenon DEF Elems
  <2>2. n \in 1..Len(f) /\ f[n] = y  BY <1>1, <2>1, <1>4
  <2> QED  BY <2>2, Zenon DEF Elems
<1> QED  BY <1>1, <1>2, <1>3, <1>4, Zenon DEF f

\* klpm_list_reverse keeps the elements and turns their order around.
LEMMA ElemsReversed ==
  ASSUME NEW S, NEW s \in Seq(S)
  PROVE  /\ Reversed(s) \in Seq(S) /\ Elems(Reversed(s)) = Elems(s)
         /\ Unique(s) => Unique(Reversed(s))
         /\ \A m, n \in 1..Len(s) : m < n =>
              \E a, b \in 1..Len(Reversed(s)) :
                a < b /\ Reversed(s)[a] = s[n] /\ Reversed(s)[b] = s[m]
<1> DEFINE r == Reversed(s)
           L == Len(s)
<1>1. L \in Nat /\ r \in Seq(S) /\ Len(r) = L  BY DEF Reversed
<1>2. \A n \in 1..L : r[n] = s[L + 1 - n]  BY <1>1, Zenon DEF Reversed
<1>3. \A n \in 1..L : L + 1 - n \in 1..L /\ r[L + 1 - n] = s[n]  BY <1>1, <1>2
<1> HIDE DEF r
<1>4. Elems(r) = Elems(s)
  <2>1. ASSUME NEW y \in Elems(s) PROVE y \in Elems(r)
    <3>1. PICK n \in 1..L : y = s[n]  BY Zenon DEF Elems
    <3> QED  BY <1>1, <1>3, <3>1, Zenon DEF Elems
  <2>2. ASSUME NEW y \in Elems(r) PROVE y \in Elems(s)
    <3>1. PICK n \in 1..L : y = r[n]  BY <1>1, Zenon DEF Elems
    <3>2. L + 1 - n \in 1..L /\ y = s[L + 1 - n]  BY <1>1, <1>2, <3>1
    <3> QED  BY <3>2, Zenon DEF Elems
  <2> QED  BY <2>1, <2>2, Zenon
<1>5. ASSUME Unique(s) PROVE Unique(r)
  <2> SUFFICES ASSUME NEW m \in 1..L, NEW n \in 1..L, r[m] = r[n] PROVE m = n
    BY <1>1, Zenon DEF Unique
  <2>1. L + 1 - m \in 1..L /\ L + 1 - n \in 1..L /\ s[L + 1 - m] = s[L + 1 - n]
    BY <1>1, <1>2
  <2>2. L + 1 - m = L + 1 - n
    <3> HIDE DEF L
    <3> QED  BY <2>1, <1>5, Zenon DEF Unique, L
  <2> QED  BY <2>2, <1>1
<1>6. ASSUME NEW m \in 1..L, NEW n \in 1..L, m < n
      PROVE  \E a, b \in 1..Len(r) : a < b /\ r[a] = s[n] /\ r[b] = s[m]
  <2>1. /\ L + 1 - n < L + 1 - m
        /\ L + 1 - n \in 1..Len(r) /\ r[L + 1 - n] = s[n]
        /\ L + 1 - m \in 1..Len(r) /\ r[L + 1 - m] = s[m]
    BY <1>1, <1>3, <1>6
  <2> QED  BY <2>1, Zenon
<1> QED  BY <1>1, <1>4, <1>5, <1>6, Zenon DEF r
-----------------------------------------------------------------------------
(* Chains of dependencies.                                                 *)

Kids(p) == depends[p] \cap All

\* Chains of dependencies: the empty one,
LEMMA ReachesSelf == ASSUME NEW p \in Pkgs PROVE Reaches(p, p)
BY Zenon DEF Reaches

\* one made longer,
LEMMA ReachesKid ==
  ASSUME NEW p \in Pkgs, NEW q \in All, NEW c \in Kids(q), Reaches(p, q)
  PROVE  Reaches(p, c)
BY Zenon DEF Reaches, Closed, Kids

\* and that no step of the sort changes them.
LEMMA ReachesSame ==
  ASSUME UNCHANGED input PROVE \A p, q : Reaches(p, q)' <=> Reaches(p, q)
BY Zenon DEF input, Reaches, Closed, All

-----------------------------------------------------------------------------
(* The inductive invariant.                                                *)

\* q comes before p in list s.
InOrder(s, q, p) == \E m, n \in 1..Len(s) : m < n /\ s[m] = q /\ s[n] = p

Base ==
  /\ TypeOK /\ Input
  /\ Elems(vertices) \subseteq All /\ Elems(targets) \subseteq Elems(vertices)
  /\ \A p \in Pkgs : Elems(iterator[p]) \subseteq Kids(p) \cap Elems(vertices)

\* While dep_graph_init runs: the vertices before i have all their children, and i
\* those it has been compared with; a local package that i needs has joined.
Building ==
  pc \in {"vertices", "locals"} =>
    /\ i <= Len(vertices) /\ path = <<>> /\ newtargs = <<>>
    /\ state = [p \in Pkgs |-> "UNPROCESSED"]
    /\ \A m \in 1..(i - 1) : Kids(vertices[m]) \subseteq Elems(iterator[vertices[m]])
    /\ pc = "vertices" =>
         \A n \in 1..Len(vertices) :
           n < j /\ vertices[n] \in depends[vertices[i]]
             => vertices[n] \in Elems(iterator[vertices[i]])
    /\ pc = "locals" =>
         /\ Elems(vertices) \cap depends[vertices[i]] \subseteq Elems(iterator[vertices[i]])
         /\ \A n \in 1..Len(localpkgs) :
              n < j /\ localpkgs[n] \in depends[vertices[i]]
                => localpkgs[n] \in Elems(vertices)

\* The path is a chain of dependencies, and holds exactly what is being processed.
Chain ==
  /\ path # <<>> /\ Elems(path) \subseteq Elems(vertices)
  /\ \A p \in Pkgs : state[p] = "PROCESSING" <=> p \in Elems(path)
  /\ \A m, n \in 1..Len(path) : m <= n => Reaches(path[m], path[n])

\* What is still to be looked at.
Ahead ==
  /\ \A p \in Elems(vertices), q \in Pkgs :
       state[p] # "PROCESSED" /\ q \in Kids(p) =>
         q \in Elems(iterator[p]) \/ (state[p] = "PROCESSING" /\ state[q] # "UNPROCESSED")
  /\ i \in 1..Len(vertices)
  /\ \A n \in 1..i : state[vertices[n]] # "UNPROCESSED"

\* What has been left: result s, with marks st.
Placed(s, st) ==
  /\ Unique(s) /\ s \in Seq(Pkgs)
  /\ \A p \in Pkgs : p \in Elems(s) <=> p \in Elems(targets) /\ st[p] = "PROCESSED"
  /\ \A p, q \in Elems(targets) :
       st[p] = "PROCESSED" /\ q \in depends[p] => InOrder(s, q, p) \/ Reaches(q, p)

Searching == pc = "sort" => Chain /\ Ahead /\ Placed(newtargs, state)

IInv == Base /\ Building /\ Searching /\ SameTargets /\ DependencyOrder

\* The invariant holds when _klpm_sortbydeps is entered.
LEMMA InitIInv == Init => IInv
<1> SUFFICES ASSUME Init PROVE IInv  BY Zenon
<1>1. TypeOK
  BY DEF Init, Input, TypeOK, Phases, Marks, Unique
<1>2. Base
  BY <1>1 DEF Base, Init, All, Elems
<1>3. Building
  BY <1>1 DEF Init, Input, Building, TypeOK
<1> QED  BY <1>2, <1>3, Zenon DEF Init, IInv, Searching, SameTargets, DependencyOrder
-----------------------------------------------------------------------------
(* Building the graph.                                                     *)

\* Vertex i gets child p.
LEMMA ChildAdded ==
  ASSUME NEW p \in Pkgs, TypeOK, i <= Len(vertices), AddChild(p)
  PROVE  /\ vertices[i] \in Pkgs /\ iterator' \in [Pkgs -> Seq(Pkgs)]
         /\ Elems(iterator'[vertices[i]]) = Elems(iterator[vertices[i]]) \cup {p}
         /\ \A q \in Pkgs : q # vertices[i] => iterator'[q] = iterator[q]
<1>1. vertices[i] \in Pkgs  BY DEF TypeOK
<1>2. iterator[vertices[i]] \in Seq(Pkgs)  BY <1>1, Zenon DEF TypeOK
<1> DEFINE t == Append(iterator[vertices[i]], p)
<1>3. t \in Seq(Pkgs) /\ Elems(t) = Elems(iterator[vertices[i]]) \cup {p}
  BY <1>2, ElemsAppend
<1> HIDE DEF t
<1>4. iterator' = [iterator EXCEPT ![vertices[i]] = t]  BY Zenon DEF AddChild, t
<1> QED  BY <1>1, <1>3, <1>4, Zenon DEF TypeOK

\* dep_graph_init compares vertex i with vertex j.
LEMMA Keeps_edge_to_vertex == IInv /\ edge_to_vertex => IInv'
<1> SUFFICES ASSUME IInv, edge_to_vertex PROVE IInv'  BY Zenon
<1> USE DEF input
<1>0. /\ Base /\ Building /\ TypeOK
      /\ pc = "vertices" /\ pc' = "vertices" /\ j' = j + 1 /\ j <= Len(vertices)
      /\ UNCHANGED <<input, vertices, i, path, state, newtargs>>
  BY Zenon DEF IInv, Base, edge_to_vertex
<1>1. j \in 1..Len(vertices) /\ i \in 1..Len(vertices)
  BY <1>0 DEF Building, TypeOK
<1>2. All' = All /\ Elems(vertices') = Elems(vertices) /\ \A p : Kids(p)' = Kids(p)
  BY <1>0, <1>1, Zenon DEF All, Kids
<1> DEFINE v == vertices[i]
           w == vertices[j]
<1>3. v \in Pkgs /\ w \in Pkgs /\ w \in Elems(vertices)
  BY <1>0, <1>1 DEF TypeOK, Elems
<1>4. /\ iterator' \in [Pkgs -> Seq(Pkgs)]
      /\ \A q \in Pkgs : Elems(iterator[q]) \subseteq Elems(iterator'[q])
      /\ \A q \in Pkgs : Elems(iterator'[q]) \subseteq Kids(q) \cap Elems(vertices)
      /\ w \in depends[v] => w \in Elems(iterator'[v])
  <2>1. CASE w \in depends[v]
    <3>1. AddChild(w)  BY <2>1, <1>0, <1>1, Zenon DEF edge_to_vertex
    <3>2. w \in Kids(v)  BY <2>1, <1>0, <1>1, <1>3, Zenon DEF Base, Kids
    <3>3. /\ iterator' \in [Pkgs -> Seq(Pkgs)]
          /\ Elems(iterator'[v]) = Elems(iterator[v]) \cup {w}
          /\ \A q \in Pkgs : q # v => iterator'[q] = iterator[q]
      BY <3>1, <1>0, <1>1, <1>3, ChildAdded
    <3>4. \A q \in Pkgs : Elems(iterator[q]) \subseteq Kids(q) \cap Elems(vertices)
      BY <1>0, Zenon DEF Base
    <3> QED  BY <3>2, <3>3, <3>4, <1>3, Zenon
  <2>2. CASE w \notin depends[v]
    <3>1. UNCHANGED iterator  BY <2>2, <1>0, <1>1, Zenon DEF edge_to_vertex
    <3> QED  BY <2>2, <3>1, <1>0, <1>1, Zenon DEF Base, TypeOK
  <2> QED  BY <2>1, <2>2, Zenon
<1>5. TypeOK'
  <2>1. j' \in Nat \ {0} /\ iterator' \in [Pkgs -> Seq(Pkgs)]  BY <1>0, <1>1, <1>4
  <2> QED  BY <1>0, <2>1, Zenon DEF TypeOK
<1>6. Base'  BY <1>0, <1>1, <1>2, <1>4, <1>5, Zenon DEF Base, Input
<1>7. Building'
  <2>1. \A m \in 1..(i - 1) : vertices[m] \in Pkgs  BY <1>0, <1>1 DEF TypeOK
  <2>2. ASSUME NEW n \in 1..Len(vertices), n < j + 1, vertices[n] \in depends[v]
        PROVE  vertices[n] \in Elems(iterator'[v])
    <3>1. CASE n = j  BY <3>1, <2>2, <1>4, Zenon
    <3>2. CASE n < j  BY <3>2, <2>2, <1>0, <1>1, <1>3, <1>4, Zenon DEF Building
    <3> QED  BY <3>1, <3>2, <2>2, <1>0, <1>1
  <2>3. \A m \in 1..(i - 1) : Kids(vertices[m]) \subseteq Elems(iterator'[vertices[m]])
    BY <1>0, <1>1, <1>4, <2>1, Zenon DEF Building
  <2> QED  BY <1>0, <1>1, <1>2, <2>2, <2>3, Zenon DEF Building
<1> QED  BY <1>0, <1>1, <1>6, <1>7, Zenon DEF IInv, Searching, SameTargets, DependencyOrder

\* dep_graph_init turns to the local packages.
LEMMA Keeps_to_locals == IInv /\ to_locals => IInv'
<1> SUFFICES ASSUME IInv, to_locals PROVE IInv'  OBVIOUS
<1> USE DEF input
<1>0. /\ Base /\ Building /\ TypeOK
      /\ pc = "vertices" /\ pc' = "locals" /\ j' = 1 /\ j > Len(vertices)
      /\ UNCHANGED <<input, vertices, iterator, i, path, state, newtargs>>
  BY Zenon DEF IInv, Base, to_locals
<1>1. i \in 1..Len(vertices)  BY <1>0 DEF Building, TypeOK
<1>2. Base'
  BY <1>0, <1>1 DEF Base, TypeOK, Phases, Input, All, Kids
<1>3. Building'
  <2>1. Elems(vertices) \cap depends[vertices[i]] \subseteq Elems(iterator[vertices[i]])
    <3> SUFFICES ASSUME NEW q \in Elems(vertices), q \in depends[vertices[i]]
                 PROVE  q \in Elems(iterator[vertices[i]])
      BY Zenon
    <3>1. PICK n \in 1..Len(vertices) : q = vertices[n]  BY Zenon DEF Elems
    <3>2. n < j  BY <1>0, <1>1, <3>1 DEF TypeOK
    <3> QED  BY <1>0, <1>1, <3>1, <3>2, Zenon DEF Building
  <2> QED  BY <1>0, <1>1, <2>1 DEF Building, Kids, All, TypeOK
<1> QED  BY <1>0, <1>1, <1>2, <1>3, Zenon DEF IInv, Searching, SameTargets, DependencyOrder

\* dep_graph_init looks at a local package, which may join the graph.
LEMMA Keeps_edge_to_local == IInv /\ edge_to_local => IInv'
<1> SUFFICES ASSUME IInv, edge_to_local PROVE IInv'  OBVIOUS
<1> USE DEF input
<1> DEFINE v == vertices[i]
           w == localpkgs[j]
<1>0. /\ Base /\ Building /\ TypeOK
      /\ pc = "locals" /\ pc' = "locals" /\ j' = j + 1 /\ j <= Len(localpkgs)
      /\ UNCHANGED <<input, i, path, state, newtargs>>
  BY Zenon DEF IInv, Base, edge_to_local
<1>1. j \in 1..Len(localpkgs) /\ i \in 1..Len(vertices)
  BY <1>0 DEF Building, TypeOK
<1>2. All' = All /\ \A p : Kids(p)' = Kids(p)  BY <1>0, <1>1, Zenon DEF All, Kids
<1>3. v \in Pkgs /\ w \in Pkgs /\ w \in All  BY <1>0, <1>1 DEF TypeOK, Elems, All
<1>4. CASE Joins(w)
  <2>1. vertices' = Append(vertices, w) /\ AddChild(w)  BY <1>0, <1>1, <1>4, Zenon DEF edge_to_local
  <2>2. w \notin Elems(vertices) /\ w \in depends[v] /\ w \in Kids(v)
    BY <1>3, <1>4, Zenon DEF Joins, Kids
  <2>3. /\ vertices' \in Seq(Pkgs) /\ Unique(vertices')
        /\ Elems(vertices') = Elems(vertices) \cup {w}
    BY <1>0, <1>1, <1>3, <2>1, <2>2, ElemsAppend DEF TypeOK
  <2>4. /\ Len(vertices') = Len(vertices) + 1
        /\ \A n \in 1..Len(vertices) : vertices'[n] = vertices[n]
    BY <1>0, <1>1, <1>3, <2>1 DEF TypeOK
  <2>5. /\ iterator' \in [Pkgs -> Seq(Pkgs)]
        /\ Elems(iterator'[v]) = Elems(iterator[v]) \cup {w}
        /\ \A q \in Pkgs : q # v => iterator'[q] = iterator[q]
    BY <1>0, <1>1, <1>3, <2>1, ChildAdded
  <2>6. TypeOK'  BY <1>0, <1>1, <2>3, <2>5 DEF TypeOK
  <2>7. Base'
    <3>1. \A p \in Pkgs : Elems(iterator'[p]) \subseteq Kids(p) \cap Elems(vertices')
      BY <1>0, <1>1, <2>2, <2>3, <2>5, Zenon DEF Base
    <3> QED  BY <1>0, <1>1, <1>2, <1>3, <2>3, <2>6, <3>1, Zenon DEF Base, Input
  <2>8. Building'
    <3>1. \A m \in 1..(i - 1) : /\ vertices[m] \in Pkgs /\ vertices'[m] = vertices[m]
                                /\ Kids(vertices[m]) \subseteq Elems(iterator'[vertices[m]])
      <4> SUFFICES ASSUME NEW m \in 1..(i - 1)
                   PROVE  /\ vertices[m] \in Pkgs /\ vertices'[m] = vertices[m]
                          /\ Kids(vertices[m]) \subseteq Elems(iterator'[vertices[m]])
        BY Zenon
      <4>1. m \in 1..Len(vertices) /\ vertices[m] \in Pkgs  BY <1>0, <1>1 DEF TypeOK
      <4>2. Kids(vertices[m]) \subseteq Elems(iterator[vertices[m]])
        BY <1>0, Zenon DEF Building
      <4> QED  BY <2>4, <2>5, <4>1, <4>2, Zenon
    <3>2. vertices'[i] = v  BY <1>0, <1>1, <2>4, Zenon
    <3>3. Elems(vertices') \cap depends[v] \subseteq Elems(iterator'[v])
      BY <1>0, <1>1, <2>3, <2>5, Zenon DEF Building
    <3>4. ASSUME NEW n \in 1..Len(localpkgs), n < j + 1, localpkgs[n] \in depends[v]
          PROVE  localpkgs[n] \in Elems(vertices')
      <4>1. CASE n = j  BY <4>1, <2>3, Zenon
      <4>2. CASE n < j  BY <4>2, <3>4, <1>0, <1>1, <2>3, Zenon DEF Building
      <4> QED  BY <4>1, <4>2, <3>4, <1>0, <1>1
    <3>5. i <= Len(vertices')  BY <1>0, <1>1, <2>4
    <3> QED  BY <1>0, <1>1, <1>2, <3>1, <3>2, <3>3, <3>4, <3>5, Zenon DEF Building
  <2> QED  BY <1>0, <1>1, <2>7, <2>8, Zenon DEF IInv, Searching, SameTargets, DependencyOrder
<1>5. CASE ~Joins(w)
  <2>1. UNCHANGED <<vertices, iterator>>  BY <1>0, <1>1, <1>5, Zenon DEF edge_to_local
  <2>2. w \in depends[v] => w \in Elems(vertices)  BY <1>5, Zenon DEF Joins
  <2>3. Base'
    BY <1>0, <1>1, <2>1 DEF Base, TypeOK, Input, All, Kids
  <2>4. Building'
    <3>1. ASSUME NEW n \in 1..Len(localpkgs), n < j + 1, localpkgs[n] \in depends[v]
          PROVE  localpkgs[n] \in Elems(vertices)
      <4>1. CASE n = j  BY <4>1, <3>1, <2>2, Zenon
      <4>2. CASE n < j  BY <4>2, <3>1, <1>0, <1>1, Zenon DEF Building
      <4> QED  BY <4>1, <4>2, <3>1, <1>0, <1>1
    <3> QED  BY <1>0, <1>1, <1>2, <2>1, <3>1, Zenon DEF Building
  <2> QED  BY <1>0, <1>1, <2>3, <2>4 DEF IInv, Searching, SameTargets, DependencyOrder
<1> QED  BY <1>4, <1>5, Zenon

\* When the last local package has been looked at, vertex i has all its children.
LEMMA AllKids ==
  ASSUME IInv, pc = "locals", j > Len(localpkgs)
  PROVE  \A m \in 1..i : Kids(vertices[m]) \subseteq Elems(iterator[vertices[m]])
<1>0. Base /\ Building /\ TypeOK  BY Zenon DEF IInv, Base
<1>1. i \in 1..Len(vertices) /\ j \in Nat  BY <1>0 DEF Building, TypeOK
<1>2. ASSUME NEW q \in Kids(vertices[i]) PROVE q \in Elems(iterator[vertices[i]])
  <2>1. q \in depends[vertices[i]] /\ q \in All  BY Zenon DEF Kids
  <2>2. q \in Elems(vertices)
    <3>1. CASE q \in Elems(targets)  BY <3>1, <1>0, Zenon DEF Base
    <3>2. CASE q \in Elems(localpkgs)
      <4>1. PICK n \in 1..Len(localpkgs) : q = localpkgs[n]  BY <3>2, Zenon DEF Elems
      <4>2. n < j  BY <1>0, <1>1, <4>1 DEF TypeOK
      <4> QED  BY <1>0, <2>1, <4>1, <4>2, Zenon DEF Building
    <3> QED  BY <2>1, <3>1, <3>2, Zenon DEF All
  <2> QED  BY <1>0, <2>1, <2>2, Zenon DEF Building
<1>3. ASSUME NEW m \in 1..i, m # i
      PROVE  Kids(vertices[m]) \subseteq Elems(iterator[vertices[m]])
  <2>1. m \in 1..(i - 1)  BY <1>1, <1>3
  <2> QED  BY <1>0, <2>1, Zenon DEF Building
<1> QED  BY <1>2, <1>3, Zenon

\* dep_graph_init goes on to the next vertex, or the search begins.
LEMMA Keeps_next_vertex == IInv /\ next_vertex => IInv'
<1> SUFFICES ASSUME IInv, next_vertex PROVE IInv'  OBVIOUS
<1> USE DEF input
<1>0. /\ Base /\ Building /\ TypeOK
      /\ pc = "locals" /\ j' = 1 /\ j > Len(localpkgs)
      /\ UNCHANGED <<input, vertices, iterator, newtargs>>
  BY Zenon DEF IInv, Base, next_vertex
<1>1. i \in 1..Len(vertices) /\ newtargs = <<>> /\ path = <<>>
      /\ state = [p \in Pkgs |-> "UNPROCESSED"]
  BY <1>0 DEF Building, TypeOK
<1>2. All' = All /\ \A p : Kids(p)' = Kids(p)  BY <1>0, Zenon DEF All, Kids
<1>3. \A m \in 1..i : Kids(vertices[m]) \subseteq Elems(iterator[vertices[m]])
  BY <1>0, AllKids, Zenon
<1>4. CASE i < Len(vertices) /\ i' = i + 1 /\ pc' = "vertices" /\ UNCHANGED <<path, state>>
  <2>1. Base'
    <3>1. i' \in Nat \ {0}  BY <1>1, <1>4
    <3>2. TypeOK'  BY <1>0, <1>4, <3>1 DEF TypeOK, Phases
    <3> QED  BY <1>0, <1>2, <3>2, Zenon DEF Base, Input
  <2>2. Building'
    <3>1. i' <= Len(vertices) /\ i' - 1 = i  BY <1>1, <1>4
    <3>2. \A m \in 1..(i' - 1) : Kids(vertices[m]) \subseteq Elems(iterator[vertices[m]])
      BY <1>3, <3>1, Zenon
    <3> QED  BY <1>0, <1>1, <1>2, <1>4, <3>1, <3>2 DEF Building
  <2> QED  BY <1>4, <2>1, <2>2, Zenon DEF IInv, Searching, SameTargets, DependencyOrder
<1>5. CASE i = Len(vertices) /\ i' = 1 /\ pc' = "sort" /\ Enter(vertices[1], state)
  <2> DEFINE v == vertices[1]
  <2>1. /\ v \in Pkgs /\ v \in Elems(vertices) /\ path' = <<v>>
        /\ state' = [p \in Pkgs |-> IF p = v THEN "PROCESSING" ELSE "UNPROCESSED"]
    <3>1. v \in Pkgs /\ v \in Elems(vertices)  BY <1>0, <1>1, <1>5 DEF TypeOK, Elems
    <3>2. path' = <<v>> /\ state' = [state EXCEPT ![v] = "PROCESSING"]
      BY <1>5, Zenon DEF Enter
    <3> QED  BY <1>1, <3>1, <3>2, Zenon
  <2>2. /\ path' \in Seq(Pkgs) /\ Len(path') = 1 /\ path'[1] = v /\ path' # <<>>
        /\ Unique(path') /\ Elems(path') = {v}
    BY <2>1 DEF Unique, Elems
  <2>3. Base'
    <3>1. state' \in [Pkgs -> Marks]  BY <2>1, Zenon DEF Marks
    <3>2. TypeOK'  BY <1>0, <1>5, <2>2, <3>1 DEF TypeOK, Phases
    <3> QED  BY <1>0, <1>2, <3>2 DEF Base, Input
  <2>4. Chain'
    <3>1. Reaches(v, v)'  BY <2>1, <1>0, ReachesSelf, ReachesSame, Zenon
    <3>2. \A m, n \in 1..Len(path') : path'[m] = v /\ path'[n] = v  BY <2>2
    <3> QED  BY <1>0, <2>1, <2>2, <3>1, <3>2, Zenon DEF Chain
  <2>5. Ahead'
    <3>1. ASSUME NEW p \in Elems(vertices) PROVE Kids(p) \subseteq Elems(iterator[p])
      <4>1. PICK m \in 1..Len(vertices) : p = vertices[m]  BY Zenon DEF Elems
      <4> QED  BY <1>3, <1>5, <4>1, Zenon
    <3>2. 1 \in 1..Len(vertices)  BY <1>1, <1>5
    <3>3. \A n \in 1..1 : state'[vertices[n]] # "UNPROCESSED"  BY <2>1
    <3> QED  BY <1>0, <1>2, <1>5, <3>1, <3>2, <3>3, Zenon DEF Ahead
  <2>6. Placed(newtargs, state)'
    <3>1. \A p \in Pkgs : state'[p] # "PROCESSED"  BY <2>1, Zenon
    <3>2. Elems(newtargs) = {} /\ Unique(newtargs)  BY <1>1 DEF Elems, Unique
    <3>3. Elems(targets) \subseteq Pkgs  BY <1>0, ElemsMember, Zenon DEF TypeOK
    <3> QED  BY <1>0, <1>1, <3>1, <3>2, <3>3, Zenon DEF Placed, TypeOK
  <2> QED
    BY <1>5, <2>3, <2>4, <2>5, <2>6, Zenon
       DEF IInv, Building, Searching, SameTargets, DependencyOrder
<1> QED  BY <1>4, <1>5, Zenon DEF next_vertex

-----------------------------------------------------------------------------
(* The search.                                                             *)

\* The current vertex is being processed, and every vertex of the path reaches it.
LEMMA Current ==
  ASSUME Base, Chain
  PROVE  /\ Len(path) \in Nat \ {0} /\ vertex \in Pkgs /\ vertex \in Elems(path)
         /\ vertex \in Elems(vertices) /\ vertex \in All
         /\ state[vertex] = "PROCESSING"
         /\ \A p \in Elems(path) : Reaches(p, vertex)
<1>1. Len(path) \in Nat \ {0} /\ vertex \in Pkgs /\ vertex = path[Len(path)]
  BY DEF Base, TypeOK, Chain, vertex
<1>2. vertex \in Elems(path)  BY <1>1 DEF Elems
<1>3. ASSUME NEW p \in Elems(path) PROVE Reaches(p, vertex)
  <2>1. PICK m \in 1..Len(path) : p = path[m]  BY Zenon DEF Elems
  <2>2. Len(path) \in 1..Len(path) /\ m <= Len(path)  BY <1>1, <2>1
  <2> QED  BY <1>1, <2>1, <2>2, Zenon DEF Chain
<1> QED  BY <1>1, <1>2, <1>3, Zenon DEF Base, Chain

\* The search looks at one child of the current vertex.
LEMMA Keeps_next_child == IInv /\ next_child => IInv'
<1> SUFFICES ASSUME IInv, next_child PROVE IInv'  OBVIOUS
<1> USE DEF input
<1> DEFINE v == vertex
           c == Head(iterator[v])
<1>0. /\ Base /\ TypeOK /\ Chain /\ Ahead /\ Placed(newtargs, state)
      /\ pc = "sort" /\ pc' = "sort" /\ iterator[v] # <<>>
      /\ iterator' = [iterator EXCEPT ![v] = Tail(@)]
      /\ UNCHANGED <<input, vertices, i, j, newtargs>>
  BY Zenon DEF IInv, Base, Searching, next_child
<1>1. /\ Len(path) \in Nat \ {0} /\ v \in Pkgs /\ v \in Elems(path)
      /\ v \in Elems(vertices) /\ v \in All /\ state[v] = "PROCESSING"
      /\ \A p \in Elems(path) : Reaches(p, v)
  BY <1>0, Current, Zenon
<1>2. All' = All /\ \A p : Kids(p)' = Kids(p)  BY <1>0, Zenon DEF All, Kids
<1> HIDE DEF v
<1>3. /\ c \in Pkgs /\ iterator' \in [Pkgs -> Seq(Pkgs)]
      /\ Elems(iterator[v]) = Elems(iterator'[v]) \cup {c}
      /\ \A p \in Pkgs : p # v => iterator'[p] = iterator[p]
  <2>1. iterator[v] \in Seq(Pkgs)  BY <1>0, <1>1, Zenon DEF TypeOK
  <2>2. /\ c \in Pkgs /\ Tail(iterator[v]) \in Seq(Pkgs)
        /\ Elems(iterator[v]) = Elems(Tail(iterator[v])) \cup {c}
    BY <1>0, <2>1, ElemsTail, Zenon
  <2> QED  BY <1>0, <1>1, <2>2, Zenon DEF TypeOK
<1> HIDE DEF c
<1>4. c \in Kids(v) /\ c \in Elems(vertices)  BY <1>0, <1>1, <1>3, Zenon DEF Base
<1>5. \A p \in Pkgs : Elems(iterator'[p]) \subseteq Elems(iterator[p])  BY <1>3, Zenon
<1>6. IF Unseen(c) THEN path' = Append(path, c) /\ state' = [state EXCEPT ![c] = "PROCESSING"]
                   ELSE UNCHANGED <<path, state>>
  BY Zenon DEF next_child, v, c
<1>7. /\ state' \in [Pkgs -> Marks] /\ state'[c] # "UNPROCESSED"
      /\ \A p \in Pkgs : p # c => state'[p] = state[p]
      /\ \A p \in Pkgs : state'[p] = "PROCESSED" <=> state[p] = "PROCESSED"
  BY <1>0, <1>3, <1>6 DEF TypeOK, Marks, Unseen
<1>8. path' \in Seq(Pkgs) /\ Unique(path') /\ Chain'
  <2>1. CASE Unseen(c)
    <3>1. c \notin Elems(path) /\ path' = Append(path, c)
      BY <1>0, <1>3, <1>6, <2>1, Zenon DEF Chain, Unseen
    <3>2. path' \in Seq(Pkgs) /\ Unique(path') /\ Elems(path') = Elems(path) \cup {c}
      BY <1>0, <1>3, <3>1, ElemsAppend DEF TypeOK
    <3>3. /\ Len(path') = Len(path) + 1 /\ path'[Len(path) + 1] = c /\ path' # <<>>
          /\ \A n \in 1..Len(path) : path'[n] = path[n] /\ path[n] \in Elems(path)
      <4>1. path \in Seq(Pkgs)  BY <1>0, Zenon DEF TypeOK
      <4>2. \A n \in 1..Len(path) : path[n] \in Elems(path)  BY Zenon DEF Elems
      <4>3. /\ Len(path') = Len(path) + 1 /\ path'[Len(path) + 1] = c
            /\ \A n \in 1..Len(path) : path'[n] = path[n]
        BY <1>3, <3>1, <4>1
      <4>4. path' # <<>>  BY <1>1, <4>3
      <4> QED  BY <4>2, <4>3, <4>4, Zenon
    <3>4. state' = [state EXCEPT ![c] = "PROCESSING"]  BY <1>6, <2>1, Zenon
    <3>5. \A p \in Pkgs : state'[p] = "PROCESSING" <=> p \in Elems(path')
      BY <1>0, <1>3, <3>2, <3>4, Zenon DEF Chain, TypeOK
    <3>6. Reaches(c, c) /\ \A p \in Elems(path) : Reaches(p, c)
      <4>1. Elems(path) \subseteq Pkgs  BY <1>0, ElemsMember, Zenon DEF TypeOK
      <4> QED  BY <1>1, <1>3, <1>4, <4>1, ReachesSelf, ReachesKid, Zenon
    <3>7. ASSUME NEW m \in 1..Len(path'), NEW n \in 1..Len(path'), m <= n
          PROVE  Reaches(path'[m], path'[n])
      <4>1. CASE n <= Len(path)
        <5>1. m \in 1..Len(path) /\ n \in 1..Len(path)  BY <1>1, <3>3, <3>7, <4>1
        <5> QED  BY <1>0, <3>3, <3>7, <5>1, Zenon DEF Chain
      <4>2. CASE n = Len(path) + 1 /\ m <= Len(path)
        <5>1. m \in 1..Len(path)  BY <1>1, <4>2
        <5> QED  BY <3>3, <3>6, <4>2, <5>1, Zenon
      <4>3. CASE m = Len(path) + 1 /\ n = Len(path) + 1  BY <3>3, <3>6, <4>3, Zenon
      <4> QED  BY <1>1, <3>3, <3>7, <4>1, <4>2, <4>3
    <3>8. Elems(path') \subseteq Elems(vertices')  BY <1>0, <1>4, <3>2, Zenon DEF Chain
    <3> QED  BY <3>2, <3>3, <3>5, <3>7, <3>8, <1>0, ReachesSame, Zenon DEF Chain
  <2>2. CASE ~Unseen(c)
    <3>1. UNCHANGED <<path, state>>  BY <1>6, <2>2, Zenon
    <3> QED  BY <1>0, <3>1, ReachesSame, Zenon DEF Chain, TypeOK
  <2> QED  BY <2>1, <2>2, Zenon
<1>9. Base'
  <2>1. TypeOK'  BY <1>0, <1>3, <1>7, <1>8, Zenon DEF TypeOK
  <2> QED  BY <1>0, <1>2, <1>5, <2>1, Zenon DEF Base, Input
<1>10. Ahead'
  <2>1. ASSUME NEW p \in Elems(vertices), NEW q \in Pkgs,
               state'[p] # "PROCESSED", q \in Kids(p)
        PROVE  q \in Elems(iterator'[p])
                 \/ (state'[p] = "PROCESSING" /\ state'[q] # "UNPROCESSED")
    <3>0. p \in Pkgs  BY <1>0, ElemsMember, Zenon DEF TypeOK
    <3>1. q \in Elems(iterator[p]) \/ (state[p] = "PROCESSING" /\ state[q] # "UNPROCESSED")
      BY <1>0, <1>7, <2>1, <3>0, Zenon DEF Ahead
    <3>2. CASE state[p] = "PROCESSING" /\ state[q] # "UNPROCESSED"
      BY <1>6, <3>0, <3>2, <1>0, <1>3, Zenon DEF Unseen, TypeOK
    <3>3. CASE q \in Elems(iterator[p]) /\ p # v  BY <1>3, <3>0, <3>3, Zenon
    <3>4. CASE q \in Elems(iterator[p]) /\ p = v
      <4>1. state'[v] = "PROCESSING"  BY <1>0, <1>1, <1>3, <1>6, Zenon DEF Unseen, TypeOK
      <4> QED  BY <1>3, <1>7, <3>4, <4>1, Zenon
    <3> QED  BY <3>1, <3>2, <3>3, <3>4, Zenon
  <2>2. ASSUME NEW n \in 1..i PROVE state'[vertices[n]] # "UNPROCESSED"
    <3>1. vertices[n] \in Pkgs /\ state[vertices[n]] # "UNPROCESSED"
      BY <1>0 DEF Ahead, TypeOK
    <3> QED  BY <1>7, <3>1, Zenon
  <2> QED  BY <1>0, <1>2, <2>1, <2>2, Zenon DEF Ahead
<1>11. Placed(newtargs, state)'
  <2>1. Elems(targets) \subseteq Pkgs  BY <1>0, ElemsMember, Zenon DEF TypeOK
  <2> QED  BY <1>0, <1>7, <2>1, ReachesSame DEF Placed, InOrder
<1> QED
  BY <1>0, <1>8, <1>9, <1>10, <1>11, Zenon
     DEF IInv, Building, Searching, SameTargets, DependencyOrder

\* Leaving the current vertex: what it depends on has been left before it, or is on
\* the path, from where a chain of dependencies leads to it.
LEMMA Leaving ==
  ASSUME Base, Chain, Ahead, Placed(newtargs, state), iterator[vertex] = <<>>
  PROVE  Placed(Collected, Left)
<1> DEFINE v == vertex
<1>0. TypeOK  BY Zenon DEF Base
<1>1. /\ v \in Pkgs /\ v \in Elems(path) /\ v \in Elems(vertices)
      /\ state[v] = "PROCESSING" /\ \A p \in Elems(path) : Reaches(p, v)
  BY Current, Zenon
<1>2. Left = [state EXCEPT ![v] = "PROCESSED"] /\ Left[v] = "PROCESSED"
      /\ \A p \in Pkgs : p # v => Left[p] = state[p]
  BY <1>0, <1>1, Zenon DEF Left, TypeOK
<1>3. newtargs \in Seq(Pkgs) /\ Unique(newtargs) /\ v \notin Elems(newtargs)
  BY <1>1, Zenon DEF Placed
<1>4. Elems(iterator[v]) = {}  BY DEF Elems
<1> HIDE DEF v
<1>5. Collected = IF v \in Elems(targets) THEN Append(newtargs, v) ELSE newtargs
  BY Zenon DEF Collected, v
<1>6. /\ Collected \in Seq(Pkgs) /\ Unique(Collected)
      /\ Elems(Collected) = IF v \in Elems(targets) THEN Elems(newtargs) \cup {v}
                                                    ELSE Elems(newtargs)
  <2>1. CASE v \in Elems(targets)
    <3>1. Collected = Append(newtargs, v)  BY <1>5, <2>1, Zenon
    <3>2. /\ Collected \in Seq(Pkgs) /\ Elems(Collected) = Elems(newtargs) \cup {v}
          /\ Unique(Collected)
      BY <1>1, <1>3, <3>1, ElemsAppend
    <3> QED  BY <2>1, <3>2, Zenon
  <2>2. CASE v \notin Elems(targets)  BY <1>3, <1>5, <2>2, Zenon
  <2> QED  BY <2>1, <2>2, Zenon
<1>7. \A p \in Pkgs : p \in Elems(Collected) <=> p \in Elems(targets) /\ Left[p] = "PROCESSED"
  BY <1>1, <1>2, <1>6, Zenon DEF Placed
<1>8. ASSUME NEW p \in Elems(targets), NEW q \in Elems(targets),
             Left[p] = "PROCESSED", q \in depends[p]
      PROVE  InOrder(Collected, q, p) \/ Reaches(q, p)
  <2>0. p \in Pkgs /\ q \in Pkgs  BY <1>0, ElemsMember, Zenon DEF TypeOK
  <2>1. CASE p # v
    <3>1. InOrder(newtargs, q, p) \/ Reaches(q, p)
      BY <1>2, <1>8, <2>0, <2>1, Zenon DEF Placed
    <3>2. ASSUME InOrder(newtargs, q, p) PROVE InOrder(Collected, q, p)
      <4>1. PICK m, n \in 1..Len(newtargs) : m < n /\ newtargs[m] = q /\ newtargs[n] = p
        BY <3>2, Zenon DEF InOrder
      <4>2. /\ m \in 1..Len(Collected) /\ Collected[m] = q
            /\ n \in 1..Len(Collected) /\ Collected[n] = p
        BY <1>1, <1>3, <1>5, <4>1
      <4> QED  BY <4>1, <4>2, Zenon DEF InOrder
    <3> QED  BY <3>1, <3>2, Zenon
  <2>2. CASE p = v
    <3>1. q \in Kids(v)  BY <1>8, <2>2, Zenon DEF Kids, All
    <3>2. state[q] # "UNPROCESSED"  BY <1>1, <1>4, <2>0, <3>1, Zenon DEF Ahead
    <3>3. CASE state[q] = "PROCESSING"  BY <1>1, <2>0, <2>2, <3>3, Zenon DEF Chain
    <3>4. CASE state[q] = "PROCESSED"
      <4>1. q \in Elems(newtargs)  BY <1>8, <2>0, <3>4, Zenon DEF Placed
      <4>2. PICK m \in 1..Len(newtargs) : newtargs[m] = q  BY <4>1, Zenon DEF Elems
      <4>3. Collected = Append(newtargs, v)  BY <1>5, <1>8, <2>2, Zenon
      <4>4. /\ m \in 1..Len(Collected) /\ Collected[m] = q /\ m < Len(newtargs) + 1
            /\ Len(newtargs) + 1 \in 1..Len(Collected) /\ Collected[Len(newtargs) + 1] = p
        BY <1>1, <1>3, <2>2, <4>2, <4>3
      <4> QED  BY <4>4, Zenon DEF InOrder
    <3>5. state[q] \in Marks  BY <1>0, <2>0, Zenon DEF TypeOK
    <3> QED  BY <3>2, <3>3, <3>4, <3>5, Zenon DEF Marks
  <2> QED  BY <2>1, <2>2, Zenon
<1> QED  BY <1>6, <1>7, <1>8, Zenon DEF Placed

\* The vertices still ahead when the current one is left.
LEMMA StillAhead ==
  ASSUME Base, Chain, Ahead
  PROVE  /\ Left \in [Pkgs -> Marks]
         /\ \A p \in Pkgs : Left[p] = "PROCESSING" <=> p \in Elems(path) \ {vertex}
         /\ \A p \in Elems(vertices), q \in Pkgs :
              Left[p] # "PROCESSED" /\ q \in Kids(p) =>
                q \in Elems(iterator[p])
                  \/ (Left[p] = "PROCESSING" /\ Left[q] # "UNPROCESSED")
         /\ \A n \in 1..i : Left[vertices[n]] # "UNPROCESSED"
<1> DEFINE v == vertex
<1>0. TypeOK  BY Zenon DEF Base
<1>1. v \in Pkgs /\ v \in Elems(path) /\ state[v] = "PROCESSING"  BY Current, Zenon
<1>2. Left \in [Pkgs -> Marks] /\ Left[v] = "PROCESSED"
      /\ \A p \in Pkgs : p # v => Left[p] = state[p]
  BY <1>0, <1>1, Zenon DEF Left, TypeOK, Marks
<1> HIDE DEF v
<1>3. \A p \in Pkgs : Left[p] = "PROCESSING" <=> p \in Elems(path) \ {v}
  BY <1>1, <1>2, Zenon DEF Chain
<1>4. ASSUME NEW p \in Elems(vertices), NEW q \in Pkgs, Left[p] # "PROCESSED", q \in Kids(p)
      PROVE  q \in Elems(iterator[p]) \/ (Left[p] = "PROCESSING" /\ Left[q] # "UNPROCESSED")
  <2>1. p \in Pkgs  BY <1>0, ElemsMember, Zenon DEF TypeOK
  <2>2. p # v /\ Left[p] = state[p]  BY <1>2, <1>4, <2>1, Zenon
  <2>3. q \in Elems(iterator[p]) \/ (state[p] = "PROCESSING" /\ state[q] # "UNPROCESSED")
    BY <1>4, <2>2, Zenon DEF Ahead
  <2> QED  BY <1>2, <2>2, <2>3, Zenon
<1>5. ASSUME NEW n \in 1..i PROVE Left[vertices[n]] # "UNPROCESSED"
  <2>1. vertices[n] \in Pkgs /\ state[vertices[n]] # "UNPROCESSED"
    BY <1>0 DEF Ahead, TypeOK
  <2> QED  BY <1>2, <2>1, Zenon
<1> QED  BY <1>2, <1>3, <1>4, <1>5, Zenon DEF v

\* The search leaves the current vertex: to its parent, to the next vertex that has
\* not been seen, or for good.
LEMMA Keeps_leave_vertex == IInv /\ leave_vertex => IInv'
<1> SUFFICES ASSUME IInv, leave_vertex PROVE IInv'  OBVIOUS
<1> USE DEF input
<1>0. /\ Base /\ TypeOK /\ Chain /\ Ahead /\ Placed(newtargs, state)
      /\ pc = "sort" /\ iterator[vertex] = <<>>
      /\ UNCHANGED <<input, vertices, iterator, j>>
  BY Zenon DEF IInv, Base, Searching, leave_vertex
<1>1. All' = All /\ \A p : Kids(p)' = Kids(p)  BY <1>0, Zenon DEF All, Kids
<1>2. Placed(Collected, Left)  BY <1>0, Leaving, Zenon
<1>3. /\ Left \in [Pkgs -> Marks]
      /\ \A p \in Pkgs : Left[p] = "PROCESSING" <=> p \in Elems(path) \ {vertex}
      /\ \A p \in Elems(vertices), q \in Pkgs :
           Left[p] # "PROCESSED" /\ q \in Kids(p) =>
             q \in Elems(iterator[p])
               \/ (Left[p] = "PROCESSING" /\ Left[q] # "UNPROCESSED")
      /\ \A n \in 1..i : Left[vertices[n]] # "UNPROCESSED"
  BY <1>0, StillAhead, Zenon
<1>4. Len(path) \in Nat \ {0} /\ vertex \in Pkgs /\ vertex \in Elems(path)
  BY <1>0, Current, Zenon
<1>5. Elems(targets) \subseteq Pkgs /\ Elems(vertices) \subseteq Pkgs
      /\ Elems(targets) \subseteq Elems(vertices)
  BY <1>0, ElemsMember, Zenon DEF Base, TypeOK
<1> DEFINE C == Collected
           M == Left
<1> HIDE DEF C, M
<1>6. C \in Seq(Pkgs)  BY <1>2, Zenon DEF Placed, C
<1>7. CASE /\ Len(path) > 1
           /\ path' = SubSeq(path, 1, Len(path) - 1)
           /\ state' = Left /\ newtargs' = Collected
           /\ UNCHANGED <<i, pc>>
  <2>1. /\ path' \in Seq(Pkgs) /\ Len(path') = Len(path) - 1 /\ Unique(path')
        /\ \A n \in 1..Len(path') : path'[n] = path[n]
        /\ Elems(path') = Elems(path) \ {vertex}
    BY <1>0, <1>7, ElemsFront, Zenon DEF TypeOK, vertex
  <2>2. state' = M /\ newtargs' = C  BY <1>7, Zenon DEF M, C
  <2>3. Base'
    <3>1. TypeOK'  BY <1>0, <1>3, <1>6, <1>7, <2>1, <2>2, Zenon DEF TypeOK, M
    <3> QED  BY <1>0, <1>1, <3>1, Zenon DEF Base, Input
  <2>4. Chain'
    <3>a. Len(path) > 1 /\ Len(path') = Len(path) - 1  BY <1>7, <2>1, Zenon
    <3>b. Len(path') # 0  BY <1>4, <3>a
    <3>1. path' # <<>>  BY <3>b
    <3>2. \A m, n \in 1..Len(path') : m <= n => Reaches(path'[m], path'[n])
      <4>1. \A n \in 1..Len(path') : n \in 1..Len(path)  BY <1>4, <2>1
      <4> QED  BY <1>0, <2>1, <4>1, Zenon DEF Chain
    <3> QED  BY <1>0, <1>3, <2>1, <2>2, <3>1, <3>2, ReachesSame, Zenon DEF Chain, M
  <2>5. Ahead'  BY <1>0, <1>1, <1>3, <1>7, <2>2, Zenon DEF Ahead, M
  <2>6. Placed(newtargs, state)'
    BY <1>0, <1>2, <2>2, ReachesSame, Zenon DEF Placed, C, M
  <2> QED
    BY <1>0, <1>7, <2>3, <2>4, <2>5, <2>6, Zenon
       DEF IInv, Building, Searching, SameTargets, DependencyOrder
<1>8. CASE /\ Len(path) = 1
           /\ \E n \in Unprocessed :
                /\ \A m \in Unprocessed : n <= m
                /\ i' = n /\ Enter(vertices[n], Left)
           /\ newtargs' = Collected /\ UNCHANGED pc
  <2>1. PICK n \in Unprocessed : /\ \A m \in Unprocessed : n <= m
                                 /\ i' = n /\ Enter(vertices[n], Left)
    BY <1>8, Zenon
  <2> DEFINE w == vertices[n]
  <2>2. n \in (i + 1)..Len(vertices) /\ M[w] = "UNPROCESSED"  BY Zenon DEF Unprocessed, M
  <2>3. n \in 1..Len(vertices) /\ n > i /\ i \in Nat  BY <1>0, <2>2 DEF TypeOK
  <2>4. w \in Pkgs /\ w \in Elems(vertices)  BY <1>0, <2>3 DEF TypeOK, Elems
  <2> HIDE DEF w
  <2>5. path' = <<w>> /\ state' = [M EXCEPT ![w] = "PROCESSING"]  BY <2>1, Zenon DEF Enter, w, M
  <2>6. /\ state' \in [Pkgs -> Marks] /\ state'[w] = "PROCESSING"
        /\ \A p \in Pkgs : p # w => state'[p] = M[p]
    BY <1>3, <2>4, <2>5, Zenon DEF Marks, M
  <2>7. /\ path' \in Seq(Pkgs) /\ Len(path') = 1 /\ path'[1] = w /\ path' # <<>>
        /\ Unique(path') /\ Elems(path') = {w}
    BY <2>4, <2>5 DEF Unique, Elems
  <2>8. \A p \in Pkgs : M[p] # "PROCESSING"
    <3>1. Elems(path) = {vertex}  BY <1>8 DEF Elems, vertex
    <3> QED  BY <1>3, <3>1, Zenon DEF M
  <2>9. Base'
    <3>1. i' \in Nat \ {0}  BY <2>1, <2>3
    <3>2. TypeOK'  BY <1>0, <1>6, <1>8, <2>6, <2>7, <3>1, Zenon DEF TypeOK, C
    <3> QED  BY <1>0, <1>1, <3>2, Zenon DEF Base, Input
  <2>10. Chain'
    <3>1. \A x, y \in 1..Len(path') : path'[x] = w /\ path'[y] = w  BY <2>7
    <3>2. Reaches(w, w)  BY <2>4, ReachesSelf, Zenon
    <3> QED  BY <1>0, <2>4, <2>6, <2>7, <2>8, <3>1, <3>2, ReachesSame, Zenon DEF Chain
  <2>11. Ahead'
    <3>1. ASSUME NEW m \in 1..n PROVE state'[vertices[m]] # "UNPROCESSED"
      <4>1. vertices[m] \in Pkgs  BY <1>0, <2>3 DEF TypeOK
      <4>2. CASE m = n  BY <2>6, <4>2, Zenon DEF w
      <4>3. CASE m <= i
        <5>1. m \in 1..i  BY <2>3, <4>3
        <5> QED  BY <1>3, <2>6, <4>1, <5>1, Zenon DEF M
      <4>4. CASE m > i /\ m < n
        <5>1. m \in (i + 1)..Len(vertices) /\ ~(n <= m)  BY <2>3, <4>4
        <5>2. m \notin Unprocessed  BY <2>1, <5>1, Zenon
        <5>3. Left[vertices[m]] # "UNPROCESSED"  BY <5>1, <5>2, Zenon DEF Unprocessed
        <5> QED  BY <2>6, <4>1, <5>3, Zenon DEF M
      <4> QED  BY <2>3, <4>2, <4>3, <4>4
    <3>2. ASSUME NEW p \in Elems(vertices), NEW q \in Pkgs,
                 state'[p] # "PROCESSED", q \in Kids(p)
          PROVE  q \in Elems(iterator[p])
                   \/ (state'[p] = "PROCESSING" /\ state'[q] # "UNPROCESSED")
      <4>1. p \in Pkgs /\ M[p] # "PROCESSED"  BY <1>5, <2>2, <2>6, <3>2, Zenon DEF w
      <4>2. q \in Elems(iterator[p])  BY <1>3, <2>8, <3>2, <4>1, Zenon DEF M
      <4> QED  BY <4>2, Zenon
    <3> QED  BY <1>0, <1>1, <2>1, <2>3, <3>1, <3>2, Zenon DEF Ahead
  <2>12. Placed(newtargs, state)'
    <3>1. \A p \in Pkgs : state'[p] = "PROCESSED" <=> M[p] = "PROCESSED"
      BY <2>2, <2>4, <2>6, Zenon DEF w
    <3>2. newtargs' = C /\ Placed(C, M)  BY <1>2, <1>8, Zenon DEF C, M
    <3> QED  BY <1>0, <1>5, <3>1, <3>2, ReachesSame, Zenon DEF Placed
  <2> QED
    BY <1>0, <1>8, <2>9, <2>10, <2>11, <2>12, Zenon
       DEF IInv, Building, Searching, SameTargets, DependencyOrder
<1>9. CASE /\ Len(path) = 1 /\ Unprocessed = {}
           /\ i' = Len(vertices) + 1 /\ path' = <<>> /\ state' = Left
           /\ newtargs' = IF reverse THEN Reversed(Collected) ELSE Collected
           /\ pc' = "done"
  <2>1. \A p \in Pkgs : M[p] # "PROCESSING"
    <3>1. Elems(path) = {vertex}  BY <1>9 DEF Elems, vertex
    <3> QED  BY <1>3, <3>1, Zenon DEF M
  <2>2. ASSUME NEW p \in Elems(targets) PROVE M[p] = "PROCESSED"
    <3>1. p \in Pkgs /\ p \in Elems(vertices)  BY <1>5, Zenon
    <3>2. PICK n \in 1..Len(vertices) : p = vertices[n]  BY <3>1, Zenon DEF Elems
    <3>3. i \in Nat \ {0} /\ Len(vertices) \in Nat  BY <1>0 DEF TypeOK
    <3>4. M[p] # "UNPROCESSED"
      <4>1. CASE n <= i
        <5>1. n \in 1..i  BY <3>3, <4>1
        <5> QED  BY <1>3, <3>2, <5>1, Zenon DEF M
      <4>2. CASE n > i
        <5>1. n \in (i + 1)..Len(vertices)  BY <3>3, <4>2
        <5> QED  BY <1>9, <3>2, <5>1, Zenon DEF Unprocessed, M
      <4> QED  BY <3>3, <4>1, <4>2
    <3> QED  BY <1>3, <2>1, <3>1, <3>4, Zenon DEF Marks, M
  <2>3. /\ C \in Seq(Pkgs) /\ Unique(C) /\ Elems(C) = Elems(targets)
        /\ \A p, q \in Elems(targets) :
             q \in depends[p] => InOrder(C, q, p) \/ Reaches(q, p)
    <3>1. Elems(C) \subseteq Pkgs  BY <1>6, ElemsMember, Zenon
    <3> QED  BY <1>2, <1>5, <2>2, <3>1, Zenon DEF Placed, C, M
  <2>4. newtargs' = IF reverse THEN Reversed(C) ELSE C  BY <1>9, Zenon DEF C
  <2>5. /\ newtargs' \in Seq(Pkgs) /\ Unique(newtargs') /\ Elems(newtargs') = Elems(targets)
    BY <2>3, <2>4, ElemsReversed, Zenon
  <2>6. ASSUME NEW p \in Elems(targets), NEW q \in Elems(targets),
               q \in depends[p], ~Reaches(q, p)
        PROVE  IF reverse THEN InOrder(newtargs', p, q) ELSE InOrder(newtargs', q, p)
    <3>1. InOrder(C, q, p)  BY <2>3, <2>6, Zenon
    <3>2. CASE reverse
      <4>1. newtargs' = Reversed(C)  BY <2>4, <3>2, Zenon
      <4>2. PICK m, n \in 1..Len(C) : m < n /\ C[m] = q /\ C[n] = p  BY <3>1, Zenon DEF InOrder
      <4>3. \E a, b \in 1..Len(Reversed(C)) :
              a < b /\ Reversed(C)[a] = C[n] /\ Reversed(C)[b] = C[m]
        BY <1>6, <4>2, ElemsReversed, Zenon
      <4> QED  BY <3>2, <4>1, <4>2, <4>3, Zenon DEF InOrder
    <3>3. CASE ~reverse  BY <2>4, <3>1, <3>3, Zenon
    <3> QED  BY <3>2, <3>3, Zenon
  <2>7. Base'
    <3>1. i' \in Nat \ {0}  BY <1>0, <1>9 DEF TypeOK
    <3>2. path' \in Seq(Pkgs) /\ Unique(path')  BY <1>9 DEF Unique
    <3>3. TypeOK'  BY <1>0, <1>3, <1>9, <2>5, <3>1, <3>2, Zenon DEF TypeOK, Phases
    <3> QED  BY <1>0, <1>1, <3>3 DEF Base, Input
  <2>8. SameTargets'  BY <1>0, <2>5, Zenon DEF SameTargets
  <2>9. DependencyOrder'
    BY <1>0, <2>6, ReachesSame DEF DependencyOrder, Before, InOrder
  <2> QED  BY <1>9, <2>7, <2>8, <2>9, Zenon DEF IInv, Building, Searching
<1> QED  BY <1>7, <1>8, <1>9, Zenon DEF leave_vertex

-----------------------------------------------------------------------------
(* Indirect dependencies.                                                  *)

\* Package p is on no cycle.
Lone(p) == \A x \in Kids(p) : x # p => ~Reaches(x, p)

\* What has been left, seen from further away: result s, with marks st.
Settled(s, st) ==
  /\ \A p \in Pkgs : \A q \in Kids(p) : st[p] = "PROCESSED" => st[q] # "UNPROCESSED"
  /\ \A p, q \in Elems(targets) :
       st[p] = "PROCESSED" /\ Lone(p) /\ p # q /\ Reaches(p, q) => InOrder(s, q, p)

Indirect == (pc = "sort" => Settled(newtargs, state)) /\ IndirectOrder

\* Chains can be put together.
LEMMA ReachesTrans ==
  ASSUME NEW p, NEW q, NEW r, Reaches(p, q), Reaches(q, r) PROVE Reaches(p, r)
BY Zenon DEF Reaches

\* No step of the sort changes which packages are on a cycle.
LEMMA LoneSame == ASSUME UNCHANGED input PROVE \A p : Lone(p)' <=> Lone(p)
BY ReachesSame, Zenon DEF Lone, Kids, input, All

\* Marks that change from unprocessed to processing settle nothing and unsettle
\* nothing.
LEMMA StillSettled ==
  ASSUME NEW s, NEW st, NEW u, Settled(s, st), Elems(targets) \subseteq Pkgs, UNCHANGED input,
         \A p \in Pkgs : u[p] = "PROCESSED" <=> st[p] = "PROCESSED",
         \A p \in Pkgs : u[p] = "UNPROCESSED" => st[p] = "UNPROCESSED",
         \A p \in Pkgs : Kids(p) \subseteq Pkgs,
         newtargs' = s, state' = u
  PROVE  Settled(newtargs, state)'
<1>1. Elems(targets)' = Elems(targets) /\ \A p : Kids(p)' = Kids(p)
  BY Zenon DEF input, Kids, All
<1> QED  BY <1>1, ReachesSame, LoneSame, Zenon DEF Settled

\* When a package on no cycle is left, everything that it needs, however far away,
\* has been left before: what has been left and does not need it contains all that
\* its members need.
LEMMA SettledLeaving ==
  ASSUME Base, Chain, Ahead, Placed(newtargs, state), Placed(Collected, Left),
         Settled(newtargs, state), iterator[vertex] = <<>>
  PROVE  Settled(Collected, Left)
<1> DEFINE v == vertex
           C == {x \in All : state[x] = "PROCESSED" /\ ~Reaches(x, v)}
<1>0. TypeOK /\ All \subseteq Pkgs /\ \A p : Kids(p) \subseteq Pkgs /\ Kids(p) \subseteq All
  BY ElemsMember, Zenon DEF Base, TypeOK, All, Kids
<1>1. /\ v \in Pkgs /\ v \in Elems(vertices) /\ v \in All
      /\ state[v] = "PROCESSING" /\ \A p \in Elems(path) : Reaches(p, v)
  BY Current, Zenon
<1>2. /\ Left[v] = "PROCESSED" /\ \A p \in Pkgs : p # v => Left[p] = state[p]
      /\ \A p \in Pkgs : state[p] \in Marks
  BY <1>0, <1>1, Zenon DEF Left, TypeOK
<1>3. \A q \in Kids(v) : state[q] # "UNPROCESSED"
  <2>1. Elems(iterator[v]) = {}  BY DEF Elems
  <2> HIDE DEF v
  <2> QED  BY <1>0, <1>1, <2>1, Zenon DEF Ahead
<1>4. \A q \in Pkgs : state[q] = "PROCESSING" => Reaches(q, v)  BY <1>1, Zenon DEF Chain
<1>5. Collected = IF v \in Elems(targets) THEN Append(newtargs, v) ELSE newtargs
  BY Zenon DEF Collected
<1>5a. newtargs \in Seq(Pkgs)  BY <1>0, Zenon DEF TypeOK
<1> HIDE DEF v
<1>6. \A p \in Pkgs : \A q \in Kids(p) : Left[p] = "PROCESSED" => Left[q] # "UNPROCESSED"
  BY <1>0, <1>2, <1>3, Zenon DEF Settled
<1>7. \A x \in C : Kids(x) \subseteq C
  <2> SUFFICES ASSUME NEW x \in C, NEW y \in Kids(x) PROVE y \in C  BY Zenon
  <2>1. y \in All /\ y \in Pkgs /\ state[y] # "UNPROCESSED"  BY <1>0, Zenon DEF Settled
  <2>2. ~Reaches(y, v)
    <3>1. Reaches(x, y)  BY <1>0, ReachesSelf, ReachesKid, Zenon
    <3> QED  BY <3>1, ReachesTrans, Zenon
  <2> QED  BY <1>2, <1>4, <2>1, <2>2, Zenon DEF Marks
<1>8. ASSUME Lone(v), NEW q \in Pkgs, q # v, Reaches(v, q) PROVE state[q] = "PROCESSED"
  <2>1. \A x \in Kids(v) : x # v => x \in C
    BY <1>0, <1>2, <1>3, <1>4, <1>8, Zenon DEF Lone, Marks
  <2>2. Closed(C \cup {v})  BY <1>7, <2>1, Zenon DEF Closed, Kids
  <2>3. q \in C \cup {v}  BY <1>1, <1>8, <2>2, Zenon DEF Reaches
  <2> QED  BY <1>8, <2>3, Zenon
<1>9. ASSUME NEW p \in Elems(targets), NEW q \in Elems(targets),
             Left[p] = "PROCESSED", Lone(p), p # q, Reaches(p, q)
      PROVE  InOrder(Collected, q, p)
  <2>0. p \in Pkgs /\ q \in Pkgs  BY <1>0, Zenon DEF All
  <2>1. CASE p # v
    <3>1. InOrder(newtargs, q, p)  BY <1>2, <1>9, <2>0, <2>1, Zenon DEF Settled
    <3>2. PICK m, n \in 1..Len(newtargs) : m < n /\ newtargs[m] = q /\ newtargs[n] = p
      BY <3>1, Zenon DEF InOrder
    <3>3. /\ m \in 1..Len(Collected) /\ Collected[m] = q
          /\ n \in 1..Len(Collected) /\ Collected[n] = p
      BY <1>1, <1>5, <1>5a, <3>2
    <3> QED  BY <3>2, <3>3, Zenon DEF InOrder
  <2>2. CASE p = v
    <3>1. q \in Elems(newtargs)  BY <1>8, <1>9, <2>0, <2>2, Zenon DEF Placed
    <3>2. PICK m \in 1..Len(newtargs) : newtargs[m] = q  BY <3>1, Zenon DEF Elems
    <3>3. Collected = Append(newtargs, v)  BY <1>5, <1>9, <2>2, Zenon
    <3>4. /\ m \in 1..Len(Collected) /\ Collected[m] = q /\ m < Len(newtargs) + 1
          /\ Len(newtargs) + 1 \in 1..Len(Collected) /\ Collected[Len(newtargs) + 1] = p
      BY <1>1, <1>5a, <2>2, <3>2, <3>3
    <3> QED  BY <3>4, Zenon DEF InOrder
  <2> QED  BY <2>1, <2>2, Zenon
<1> QED  BY <1>6, <1>9, Zenon DEF Settled

\* Every step keeps what is said of indirect dependencies.
LEMMA KeepsIndirect == IInv /\ Indirect /\ Next => Indirect'
<1> SUFFICES ASSUME IInv, Indirect, Next PROVE Indirect'  BY Zenon
<1>0. /\ Base /\ TypeOK /\ UNCHANGED input
      /\ Elems(targets) \subseteq Pkgs /\ \A p \in Pkgs : Kids(p) \subseteq Pkgs
  BY ElemsMember, Zenon DEF IInv, Base, TypeOK, All, Kids, Next, edge_to_vertex, to_locals,
     edge_to_local, next_vertex, next_child, leave_vertex
<1>1. CASE edge_to_vertex \/ to_locals \/ edge_to_local
  BY <1>1, Zenon DEF edge_to_vertex, to_locals, edge_to_local, Indirect, IndirectOrder
<1>2. CASE next_vertex
  <2>1. pc' = "vertices" \/ (pc' = "sort" /\ Enter(vertices[1], state))
    BY <1>2, Zenon DEF next_vertex
  <2>2. CASE pc' = "vertices"  BY <2>2, Zenon DEF Indirect, IndirectOrder
  <2>3. CASE pc' = "sort" /\ Enter(vertices[1], state)
    <3>1. state = [p \in Pkgs |-> "UNPROCESSED"]
      BY <1>2, Zenon DEF next_vertex, IInv, Building
    <3>2. \A p \in Pkgs : state'[p] # "PROCESSED"  BY <2>3, <3>1, Zenon DEF Enter
    <3>3. Elems(targets)' = Elems(targets)  BY <1>0, Zenon DEF input
    <3>4. Settled(newtargs, state)'  BY <1>0, <3>2, <3>3, Zenon DEF Settled
    <3> QED  BY <2>3, <3>4, Zenon DEF Indirect, IndirectOrder
  <2> QED  BY <2>1, <2>2, <2>3, Zenon
<1>3. CASE next_child
  <2>1. /\ pc = "sort" /\ pc' = "sort" /\ newtargs' = newtargs
        /\ \/ state' = state
           \/ \E c : state[c] = "UNPROCESSED" /\ state' = [state EXCEPT ![c] = "PROCESSING"]
    BY <1>3, Zenon DEF next_child, Unseen
  <2>2. /\ \A p \in Pkgs : state'[p] = "PROCESSED" <=> state[p] = "PROCESSED"
        /\ \A p \in Pkgs : state'[p] = "UNPROCESSED" => state[p] = "UNPROCESSED"
    BY <1>0, <2>1, Zenon DEF TypeOK
  <2>3. Settled(newtargs, state)'
    BY <1>0, <2>1, <2>2, StillSettled, Zenon DEF Indirect
  <2> QED  BY <2>1, <2>3, Zenon DEF Indirect, IndirectOrder
<1>4. CASE leave_vertex
  <2>1. /\ Chain /\ Ahead /\ Placed(newtargs, state) /\ Settled(newtargs, state)
        /\ pc = "sort" /\ iterator[vertex] = <<>>
    BY <1>4, Zenon DEF IInv, Searching, leave_vertex, Indirect
  <2>2. Placed(Collected, Left)  BY <1>0, <2>1, Leaving, Zenon
  <2>3. Settled(Collected, Left)  BY <1>0, <2>1, <2>2, SettledLeaving, Zenon
  <2>4. CASE state' = Left /\ newtargs' = Collected /\ UNCHANGED pc
    <3>1. Settled(newtargs, state)'  BY <1>0, <2>3, <2>4, StillSettled, Zenon
    <3> QED  BY <2>1, <2>4, <3>1, Zenon DEF Indirect, IndirectOrder
  <2>5. ASSUME NEW n \in Unprocessed, Enter(vertices[n], Left), newtargs' = Collected,
               UNCHANGED pc
        PROVE  Indirect'
    <3>1. Left[vertices[n]] = "UNPROCESSED"  BY Zenon DEF Unprocessed
    <3>2. state' = [Left EXCEPT ![vertices[n]] = "PROCESSING"]  BY <2>5, Zenon DEF Enter
    <3>3. Left \in [Pkgs -> Marks]  BY <1>0, <2>1, StillAhead, Zenon
    <3>4. /\ \A p \in Pkgs : state'[p] = "PROCESSED" <=> Left[p] = "PROCESSED"
          /\ \A p \in Pkgs : state'[p] = "UNPROCESSED" => Left[p] = "UNPROCESSED"
      BY <3>1, <3>2, <3>3, Zenon
    <3>5. Settled(newtargs, state)'  BY <1>0, <2>3, <2>5, <3>4, StillSettled, Zenon
    <3> QED  BY <2>1, <2>5, <3>5, Zenon DEF Indirect, IndirectOrder
  <2>6. CASE newtargs' = (IF reverse THEN Reversed(Collected) ELSE Collected) /\ pc' = "done"
    <3> DEFINE D == Collected
    <3>1. D \in Seq(Pkgs)  BY <2>2, Zenon DEF Placed
    <3>2. Elems(D) = Elems(targets)
      <4>1. SameTargets'  BY <1>4, Keeps_leave_vertex, Zenon DEF IInv
      <4>2. Elems(newtargs') = Elems(targets)  BY <1>0, <2>6, <4>1, Zenon DEF SameTargets, input
      <4> HIDE DEF D
      <4>3. newtargs' = IF reverse THEN Reversed(D) ELSE D  BY <2>6, Zenon DEF D
      <4> QED  BY <3>1, <4>2, <4>3, ElemsReversed, Zenon
    <3>3. \A p \in Elems(targets) : Left[p] = "PROCESSED"  BY <1>0, <2>2, <3>2, Zenon DEF Placed
    <3> HIDE DEF D
    <3>4. newtargs' = IF reverse THEN Reversed(D) ELSE D  BY <2>6 DEF D
    <3>5. ASSUME NEW p \in Elems(targets), NEW q \in Elems(targets),
                 p # q, Reaches(p, q), Lone(p)
          PROVE  IF reverse THEN InOrder(newtargs', p, q) ELSE InOrder(newtargs', q, p)
      <4>1. InOrder(D, q, p)  BY <2>3, <3>3, <3>5, Zenon DEF Settled, D
      <4>2. CASE reverse
        <5>1. newtargs' = Reversed(D)  BY <3>4, <4>2, Zenon
        <5>2. PICK m, n \in 1..Len(D) : m < n /\ D[m] = q /\ D[n] = p  BY <4>1, Zenon DEF InOrder
        <5>3. \E a, b \in 1..Len(Reversed(D)) :
                a < b /\ Reversed(D)[a] = D[n] /\ Reversed(D)[b] = D[m]
          BY <3>1, <5>2, ElemsReversed, Zenon
        <5> QED  BY <4>2, <5>1, <5>2, <5>3, Zenon DEF InOrder
      <4>3. CASE ~reverse  BY <3>4, <4>1, <4>3, Zenon
      <4> QED  BY <4>2, <4>3, Zenon
    <3>6. UNCHANGED <<depends, reverse>> /\ All' = All /\ Elems(targets)' = Elems(targets)
      BY <1>0, Zenon DEF input, All
    <3>7. IndirectOrder'
      BY <3>5, <3>6, <1>0, ReachesSame DEF IndirectOrder, Before, InOrder, Lone, Kids
    <3> QED  BY <2>6, <3>7, Zenon DEF Indirect
  <2> QED  BY <1>4, <2>4, <2>5, <2>6, Zenon DEF leave_vertex
<1> QED  BY <1>1, <1>2, <1>3, <1>4, Zenon DEF Next

-----------------------------------------------------------------------------
(* The theorems.                                                           *)

\* A step that leaves the sort's variables alone keeps what is said of them.
LEMMA SortStutters ==
  ASSUME UNCHANGED vars PROVE (IInv => IInv') /\ (Indirect => Indirect')
<1>1. UNCHANGED <<depends, targets, localpkgs, reverse, vertices, iterator, i, j,
                  path, state, newtargs, pc>> /\ UNCHANGED input
  BY Zenon DEF vars, input, graph
<1>2. All' = All /\ \A p : Kids(p)' = Kids(p)  BY <1>1, Zenon DEF All, Kids
<1>3. ASSUME IInv PROVE IInv'
  <2>1. Base'  BY <1>1, <1>2, <1>3, Zenon DEF IInv, Base, TypeOK, Input
  <2>2. Building'  BY <1>1, <1>2, <1>3, Zenon DEF IInv, Building
  <2>3. Searching'
    <3>1. Chain => Chain'  BY <1>1, ReachesSame, Zenon DEF Chain
    <3>2. Ahead => Ahead'  BY <1>1, <1>2, Zenon DEF Ahead
    <3>3. Placed(newtargs, state) => Placed(newtargs, state)'
      BY <1>1, ReachesSame, Zenon DEF Placed
    <3> QED  BY <1>1, <1>3, <3>1, <3>2, <3>3, Zenon DEF IInv, Searching
  <2>4. SameTargets'  BY <1>1, <1>3, Zenon DEF IInv, SameTargets
  <2>5. DependencyOrder'  BY <1>1, <1>3, ReachesSame DEF IInv, DependencyOrder, Before
  <2> QED  BY <2>1, <2>2, <2>3, <2>4, <2>5, Zenon DEF IInv
<1>4. ASSUME Indirect PROVE Indirect'
  <2>1. Settled(newtargs, state) => Settled(newtargs, state)'
    BY <1>1, <1>2, ReachesSame, LoneSame, Zenon DEF Settled
  <2>2. IndirectOrder'
    <3>1. \A p, q : Before(p, q)' <=> Before(p, q)  BY <1>1, Zenon DEF Before
    <3>2. Elems(targets)' = Elems(targets)  BY <1>1, Zenon
    <3>3. (pc = "done")' <=> pc = "done"  BY <1>1, Zenon
    <3>4. IndirectOrder  BY <1>4, Zenon DEF Indirect
    <3> QED  BY <1>1, <1>2, <3>1, <3>2, <3>3, <3>4, ReachesSame, Zenon DEF IndirectOrder
  <2> QED  BY <1>1, <1>4, <2>1, <2>2, Zenon DEF Indirect
<1> QED  BY <1>3, <1>4, Zenon

\* What is said of the graph, the path and the result while they are built holds in
\* every state of a sort.
THEOREM Invariance == Spec => []IInv
<1>1. IInv /\ Next => IInv'
  BY Keeps_edge_to_vertex, Keeps_to_locals, Keeps_edge_to_local, Keeps_next_vertex,
     Keeps_next_child, Keeps_leave_vertex, Zenon DEF Next
<1>2. IInv /\ [Next]_vars => IInv'  BY <1>1, SortStutters, Zenon
<1> QED  BY InitIInv, <1>2, PTL DEF Spec

\* For every graph _klpm_sortbydeps loses no target and doubles none, and puts a
\* dependency before the package that has it (in reverse, after it) unless the two
\* are on a cycle.
THEOREM Sorted == Spec => []SortedByDeps
<1>1. IInv => SortedByDeps  BY Zenon DEF IInv, SortedByDeps
<1> QED  BY <1>1, Invariance, PTL

\* The same for whatever a package on no cycle needs indirectly, through installed
\* packages that are not targets as well.
THEOREM SortedIndirectly == Spec => []IndirectOrder
<1>1. Init => Indirect  BY Zenon DEF Init, Indirect, IndirectOrder
<1>2. IInv /\ Indirect /\ [Next]_vars => Indirect'  BY KeepsIndirect, SortStutters, Zenon
<1>3. Indirect => IndirectOrder  BY Zenon DEF Indirect
<1> QED  BY <1>1, <1>2, <1>3, Invariance, PTL DEF Spec
=============================================================================
