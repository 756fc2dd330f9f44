------------------------------ MODULE PrepProof ------------------------------
(***************************************************************************)
(* For every set of installed packages, every request and every set of     *)
(* flags: what the preparation of a removal selects, and that the sort     *)
(* that ends it does what SortProof says of it.                            *)
(***************************************************************************)
EXTENDS RemovePrep, SortProof, WellFoundedInduction

-----------------------------------------------------------------------------
(* The inductive invariant.                                                *)

R == Elems(targets)
K == Elems(keep)
M == Elems(rem)

Selecting == step \in {"select_targs", "select_rem", "select_keep", "copy"}
Removing  == asked # <<>>
Checked   == "NODEPS" \notin flags
OnlyRecurse == "RECURSE" \in flags /\ flags \subseteq {"RECURSE", "RECURSEALL", "NODEPS"}

\* Removing S breaks nothing.
Safe(S) == \A p \in Pkgs \ S : \A d \in deps[p] : ~Breaks(S, d)

\* Before the sort its variables are as dep_graph_init finds them; from then on they
\* are as SortProof says.
Sorting ==
  /\ depends = [p \in Pkgs |-> UNION deps[p]]
  /\ step = "sort" => IInv /\ Indirect
  /\ step # "sort" =>
       /\ Removing /\ reverse
       /\ iterator = [p \in Pkgs |-> <<>>] /\ i = 1 /\ j = 1 /\ path = <<>>
       /\ state = [p \in Pkgs |-> "UNPROCESSED"] /\ newtargs = <<>> /\ pc = "vertices"
  /\ step \notin {"unsorted", "failed"} => targets # <<>>
  /\ ~Removing => flags = {}

\* Which flags lead where, and that lp is what the last check has found.
Where ==
  /\ Selecting =>
       /\ "RECURSE" \in flags
       /\ "CASCADE" \notin flags => targets = asked
       /\ "CASCADE" \in flags /\ Checked => Safe(R)
  /\ step = "prepare" => targets = asked
  /\ step = "cascade" => "CASCADE" \in flags
  /\ step = "keep_needed" => "CASCADE" \notin flags /\ "UNNEEDED" \in flags
  /\ step \in {"cascade", "keep_needed"} => lp = checkdeps(R) /\ Checked

\* Each set of packages of S has a member on which one of B outside it depends.
Grounded(S, B) == \A Y \in SUBSET S : Y # {} => \E p \in B \ Y, x \in Y : DependsOn(p, x)

\* The lists of _klpm_recursedeps divide the packages.  What has been gone through
\* selects no more of those that are kept, and in the end nothing that is kept
\* depends on one that is selected.
Recursing ==
  Selecting =>
    /\ R \cup K \cup M = Pkgs /\ R \cap (K \cup M) = {}
    /\ Grounded(M, Pkgs) /\ \A x \in M : IncludeExplicit \/ x \notin explicit
    /\ step \in {"select_targs", "select_rem"} => Grounded(M, R \cup M)
    /\ step = "select_targs" =>
         \A n \in 1..Len(targets) : n < k => \A q \in K : ~Moves(targets[n], IncludeExplicit, q)
    /\ step = "select_rem" =>
         /\ \A p \in R, q \in K : ~Moves(p, IncludeExplicit, q)
         /\ \A n \in 1..Len(rem) : n < k => \A q \in K : ~Moves(rem[n], IncludeExplicit, q)
    /\ step \in {"select_keep", "copy"} /\ targets = asked =>
         \A X \in SUBSET (Pkgs \ Named) : Optional(X) => X \cap K = {}
    /\ step = "select_keep" =>
         \A n \in 1..Len(keep) : n < k => \A x \in M : ~DependsOn(keep[n], x)
    /\ step = "copy" => \A p \in K, x \in M : ~DependsOn(p, x)

\* What the flags promise of what is removed.
Least(S) ==
  flags = {"CASCADE"} => \A C \in SUBSET Pkgs : Named \subseteq C /\ Safe(C) => S \subseteq C
Largest(S) ==
  OnlyRecurse =>
    Optional(S \ Named) /\ \A X \in SUBSET (Pkgs \ Named) : Optional(X) => X \subseteq S
Unneeded(S) ==
  flags = {"UNNEEDED"} =>
    S \subseteq Named /\ \A p \in Named \ S : \E r \in Pkgs \ S : DependsOn(r, p)

Selected ==
  /\ Least(R) /\ Unneeded(R)
  /\ step \in {"check", "sort", "unsorted"} => Largest(R)
  /\ step \in {"sort", "unsorted"} /\ Checked => Safe(R)

PInv ==
  PrepTypeOK /\ Sorting /\ (Removing => Where /\ Recursing /\ Selected)

-----------------------------------------------------------------------------
(* Lists.                                                                  *)

\* A set of naturals that is not empty has a least element: induction, as the provers
\* can use it.
LEMMA LeastNat ==
  ASSUME NEW T, T \subseteq Nat, T # {}
  PROVE  \E x \in T : \A y \in T : x <= y
<1> DEFINE L == OpToRel(<, Nat)
<1>1. PICK x \in T : \A y \in T : ~(<<y, x>> \in L)
  <2>1. IsWellFoundedOn(L, Nat)  BY NatLessThanWellFounded, Zenon
  <2> HIDE DEF L
  <2> QED  BY <2>1, WFMin, Zenon
<1>2. \A y \in T : y < x => <<y, x>> \in L  BY Zenon DEF OpToRel
<1> HIDE DEF L
<1>3. \A y \in T : ~(y < x)  BY <1>1, <1>2, Zenon
<1> QED  BY <1>3

\* A list followed by another.
LEMMA ElemsCat ==
  ASSUME NEW S, NEW s \in Seq(S), NEW t \in Seq(S)
  PROVE  /\ s \o t \in Seq(S) /\ Elems(s \o t) = Elems(s) \cup Elems(t)
         /\ Unique(s) /\ Unique(t) /\ Elems(s) \cap Elems(t) = {} => Unique(s \o t)
         /\ Len(s \o t) = Len(s) + Len(t) /\ \A n \in 1..Len(s) : (s \o t)[n] = s[n]
         /\ s # <<>> => s \o t # <<>>
<1> DEFINE u == s \o t
<1>1. /\ u \in Seq(S) /\ Len(u) = Len(s) + Len(t) /\ Len(s) \in Nat /\ Len(t) \in Nat
      /\ \A n \in 1..Len(s) : u[n] = s[n]
      /\ \A n \in 1..Len(t) : u[Len(s) + n] = t[n]
  OBVIOUS
<1>2. \A n \in 1..Len(u) : n \notin 1..Len(s) => n - Len(s) \in 1..Len(t) /\ u[n] = t[n - Len(s)]
  <2> SUFFICES ASSUME NEW n \in 1..Len(u), n \notin 1..Len(s)
               PROVE  n - Len(s) \in 1..Len(t) /\ u[n] = t[n - Len(s)]
    BY Zenon
  <2> HIDE DEF u
  <2>1. n - Len(s) \in 1..Len(t) /\ Len(s) + (n - Len(s)) = n  BY <1>1
  <2> QED  BY <1>1, <2>1, Zenon
<1> HIDE DEF u
<1>3. Elems(u) = Elems(s) \cup Elems(t)
  <2>1. Elems(u) \subseteq Elems(s) \cup Elems(t)  BY <1>1, <1>2 DEF Elems
  <2>2. Elems(s) \subseteq Elems(u)
    <3>1. \A n \in 1..Len(s) : n \in 1..Len(u)  BY <1>1
    <3> QED  BY <1>1, <3>1, Zenon DEF Elems
  <2>3. Elems(t) \subseteq Elems(u)
    <3>1. \A n \in 1..Len(t) : Len(s) + n \in 1..Len(u)  BY <1>1
    <3> QED  BY <1>1, <3>1 DEF Elems
  <2> QED  BY <2>1, <2>2, <2>3, Zenon
<1>4. ASSUME Unique(s), Unique(t), Elems(s) \cap Elems(t) = {} PROVE Unique(u)
  <2> SUFFICES ASSUME NEW m \in 1..Len(u), NEW n \in 1..Len(u), u[m] = u[n] PROVE m = n
    BY Zenon DEF Unique
  <2>1. CASE m \in 1..Len(s) /\ n \in 1..Len(s)  BY <1>1, <1>4, <2>1, Zenon DEF Unique
  <2>2. CASE m \notin 1..Len(s) /\ n \notin 1..Len(s)
    <3>1. m - Len(s) = n - Len(s)  BY <1>2, <1>4, <2>2, Zenon DEF Unique
    <3> QED  BY <1>1, <3>1
  <2>3. CASE m \in 1..Len(s) /\ n \notin 1..Len(s)
    <3>1. u[m] \in Elems(s) /\ u[n] \in Elems(t)  BY <1>1, <1>2, <2>3, Zenon DEF Elems
    <3> QED  BY <1>4, <3>1, Zenon
  <2>4. CASE m \notin 1..Len(s) /\ n \in 1..Len(s)
    <3>1. u[n] \in Elems(s) /\ u[m] \in Elems(t)  BY <1>1, <1>2, <2>4, Zenon DEF Elems
    <3> QED  BY <1>4, <3>1, Zenon
  <2> QED  BY <2>1, <2>2, <2>3, <2>4, Zenon
<1>5. s # <<>> => u # <<>>  BY <1>1
<1> QED  BY <1>1, <1>3, <1>4, <1>5, Zenon DEF u

\* The first members of a list.
LEMMA ElemsFirst ==
  ASSUME NEW S, NEW s \in Seq(S), NEW n \in 0..(Len(s) - 1)
  PROVE  LET f == SubSeq(s, 1, n) IN
         f \in Seq(S) /\ Elems(f) \subseteq Elems(s) /\ (Unique(s) => Unique(f))
<1> DEFINE f == SubSeq(s, 1, n)
<1>1. f \in Seq(S) /\ Len(f) = n /\ \A m \in 1..n : f[m] = s[m] /\ m \in 1..Len(s)
  OBVIOUS
<1> HIDE DEF f
<1>2. Elems(f) \subseteq Elems(s) /\ (Unique(s) => Unique(f))
  BY <1>1, Zenon DEF Elems, Unique
<1> QED  BY <1>1, <1>2, Zenon DEF f

\* The function that Filter computes exists: it can be made longer as long as there
\* are members left.
LEMMA FilterStep ==
  ASSUME NEW S, NEW s \in Seq(S), NEW T
  PROVE  \E f : /\ f[0] = <<>> /\ Filter(s, T) = f[Len(s)]
                /\ \A n \in 1..Len(s) :
                     f[n] = IF s[n] \in T THEN Append(f[n - 1], s[n]) ELSE f[n - 1]
<1> DEFINE Next0(g, n) == IF n = 0 THEN <<>>
                          ELSE IF s[n] \in T THEN Append(g[n - 1], s[n])
                          ELSE g[n - 1]
           Fun(g, N) == g = [n \in 0..N |-> Next0(g, n)]
           Bad == {N \in Nat : ~\E g : Fun(g, N)}
<1>1. Bad = {}
  <2> SUFFICES ASSUME Bad # {} PROVE FALSE  BY Zenon
  <2>1. PICK N \in Bad : \A y \in Bad : N <= y
    <3>1. Bad \subseteq Nat  BY Zenon
    <3> HIDE DEF Bad
    <3> QED  BY <3>1, LeastNat, Zenon
  <2>2. N \in Nat /\ ~\E g : Fun(g, N)  BY Zenon
  <2>3. N # 0
    <3> SUFFICES ASSUME N = 0 PROVE FALSE  BY Zenon
    <3> DEFINE g == [n \in 0..0 |-> <<>>]
    <3>1. Fun(g, 0)
      <4>1. \A n \in 0..0 : Next0(g, n) = <<>>  OBVIOUS
      <4> QED  BY <4>1, Zenon
    <3> QED  BY <2>2, <3>1, Zenon
  <2>4. N - 1 \in Nat /\ N - 1 \notin Bad
    <3>1. N - 1 \in Nat /\ ~(N <= N - 1)  BY <2>2, <2>3
    <3> HIDE DEF Bad
    <3> QED  BY <2>1, <3>1, Zenon
  <2>5. PICK g : Fun(g, N - 1)  BY <2>4, Zenon
  <2> DEFINE h == [n \in 0..N |-> Next0(g, n)]
  <2>6. \A n \in 0..(N - 1) : h[n] = g[n] /\ n \in 0..N
    <3>1. \A n \in 0..(N - 1) : n \in 0..N  BY <2>2, <2>4
    <3>2. \A n \in 0..(N - 1) : g[n] = Next0(g, n)  BY <2>5, Zenon
    <3> QED  BY <3>1, <3>2, Zenon
  <2>7. \A n \in 0..N : n # 0 => n - 1 \in 0..(N - 1)  BY <2>2
  <2>8. \A n \in 0..N : Next0(h, n) = Next0(g, n)
    <3> HIDE DEF h
    <3> QED  BY <2>6, <2>7, Zenon
  <2>9. Fun(h, N)
    <3>1. h = [n \in 0..N |-> Next0(h, n)]
      <4>1. h = [n \in 0..N |-> Next0(g, n)]  BY Zenon
      <4> HIDE DEF h, Next0
      <4> QED  BY <2>8, <4>1, Zenon
    <3> QED  BY <3>1, Zenon
  <2> QED  BY <2>2, <2>9, Zenon
<1>2. Len(s) \in Nat /\ \E g : Fun(g, Len(s))  BY <1>1
<1> DEFINE f == CHOOSE g : Fun(g, Len(s))
<1>3. Fun(f, Len(s))
  <2> HIDE DEF Fun
  <2> QED  BY <1>2, Zenon
<1>4. Filter(s, T) = f[Len(s)]  BY Zenon DEF Filter
<1> HIDE DEF f
<1>5. f[0] = <<>>
  <2>1. 0 \in 0..Len(s)  BY <1>2
  <2> QED  BY <1>3, <2>1, Zenon
<1>6. ASSUME NEW n \in 1..Len(s)
      PROVE  f[n] = IF s[n] \in T THEN Append(f[n - 1], s[n]) ELSE f[n - 1]
  <2>1. n \in 0..Len(s) /\ n # 0  BY <1>2
  <2> QED  BY <1>3, <2>1, Zenon
<1> QED  BY <1>4, <1>5, <1>6, Zenon

\* Filter returns the members that are in T, each as often as it was there.
LEMMA FilterElems ==
  ASSUME NEW S, NEW s \in Seq(S), NEW T
  PROVE  /\ Filter(s, T) \in Seq(S) /\ Elems(Filter(s, T)) = Elems(s) \cap T
         /\ Unique(s) => Unique(Filter(s, T))
<1>1. PICK f : /\ f[0] = <<>> /\ Filter(s, T) = f[Len(s)]
               /\ \A n \in 1..Len(s) :
                    f[n] = IF s[n] \in T THEN Append(f[n - 1], s[n]) ELSE f[n - 1]
  BY FilterStep
<1> DEFINE Upto(n) == {s[m] : m \in 1..n}
           Good(n) == /\ f[n] \in Seq(S) /\ Elems(f[n]) = Upto(n) \cap T
                      /\ Unique(s) => Unique(f[n])
           Bad == {n \in 0..Len(s) : ~Good(n)}
<1>2. Len(s) \in Nat  OBVIOUS
<1>3. Bad = {}
  <2> SUFFICES ASSUME Bad # {} PROVE FALSE  BY Zenon
  <2>1. PICK n \in Bad : \A y \in Bad : n <= y
    <3>1. Bad \subseteq Nat  BY <1>2
    <3> HIDE DEF Bad
    <3> QED  BY <3>1, LeastNat
  <2>2. n \in 0..Len(s) /\ ~Good(n)  BY Zenon
  <2>3. n # 0
    <3> SUFFICES ASSUME n = 0 PROVE FALSE  BY Zenon
    <3>1. f[0] \in Seq(S) /\ Len(f[0]) = 0 /\ 1..0 = {}  BY <1>1
    <3>2. Elems(f[0]) = {} /\ Unique(f[0]) /\ Upto(0) = {}  BY <3>1, Zenon DEF Elems, Unique
    <3> QED  BY <2>2, <3>1, <3>2, Zenon
  <2>4. n - 1 \in 0..Len(s) /\ n - 1 \notin Bad /\ n \in 1..Len(s)
    <3>1. n - 1 \in 0..Len(s) /\ ~(n <= n - 1) /\ n \in 1..Len(s)  BY <1>2, <2>2, <2>3
    <3> HIDE DEF Bad
    <3> QED  BY <2>1, <3>1, Zenon
  <2>5. Good(n - 1)  BY <2>4, Zenon
  <2>6. Upto(n) = Upto(n - 1) \cup {s[n]}
    <3>1. 1..n = 1..(n - 1) \cup {n}  BY <2>4
    <3> QED  BY <3>1, Zenon
  <2>7. s[n] \in S  BY <2>4
  <2>8. Unique(s) => s[n] \notin Upto(n - 1)
    <3>1. \A m \in 1..(n - 1) : m \in 1..Len(s) /\ m # n  BY <2>4
    <3> QED  BY <2>4, <3>1, Zenon DEF Unique
  <2>9. CASE s[n] \in T
    <3>1. f[n] = Append(f[n - 1], s[n])  BY <1>1, <2>4, <2>9, Zenon
    <3> DEFINE g == f[n - 1]
    <3>2. g \in Seq(S) /\ Elems(g) = Upto(n - 1) \cap T /\ (Unique(s) => Unique(g))  BY <2>5, Zenon
    <3> HIDE DEF g
    <3>3. /\ Append(g, s[n]) \in Seq(S) /\ Elems(Append(g, s[n])) = Elems(g) \cup {s[n]}
          /\ Unique(g) /\ s[n] \notin Elems(g) => Unique(Append(g, s[n]))
      BY <2>7, <3>2, ElemsAppend
    <3>4. f[n] = Append(g, s[n])  BY <3>1, Zenon DEF g
    <3> HIDE DEF Upto
    <3>5. Good(n)  BY <2>6, <2>8, <2>9, <3>2, <3>3, <3>4, Zenon
    <3> QED  BY <2>2, <3>5, Zenon
  <2>10. CASE s[n] \notin T
    <3>1. f[n] = f[n - 1]  BY <1>1, <2>4, <2>10, Zenon
    <3> HIDE DEF Upto
    <3>2. Good(n)  BY <2>5, <2>6, <2>10, <3>1, Zenon
    <3> QED  BY <2>2, <3>2
  <2> QED  BY <2>9, <2>10, Zenon
<1>4. Good(Len(s))
  <2>1. Len(s) \in 0..Len(s)  BY <1>2
  <2> HIDE DEF Good
  <2> QED  BY <1>3, <2>1, Zenon
<1>5. Upto(Len(s)) = Elems(s)  BY Zenon DEF Elems
<1> HIDE DEF Upto
<1> QED  BY <1>1, <1>4, <1>5, Zenon

-----------------------------------------------------------------------------
(* The package cache, the check, and what no step changes.                 *)

\* The cache lists every package once.
LEMMA CacheLists == Cache \in Seq(Pkgs) /\ Unique(Cache) /\ Elems(Cache) = Pkgs
<1> DEFINE N == Cardinality(Pkgs)
<1>1. N \in Nat /\ Pkgs = 1..N /\ Cache = [n \in 1..N |-> n]  BY PrepAssumption, Zenon DEF Cache
<1> HIDE DEF N
<1>2. Cache \in Seq(Pkgs) /\ Len(Cache) = N /\ \A n \in 1..N : Cache[n] = n  BY <1>1
<1> QED  BY <1>1, <1>2, Zenon DEF Unique, Elems

\* The rest is what T does not list.
LEMMA RestLists ==
  ASSUME NEW T \in Seq(Pkgs)
  PROVE  Rest(T) \in Seq(Pkgs) /\ Unique(Rest(T)) /\ Elems(Rest(T)) = Pkgs \ Elems(T)
BY CacheLists, FilterElems DEF Rest

\* What klpm_checkdeps reports: a package that stays, and a removed one on which it
\* depends.
LEMMA CheckFinds ==
  ASSUME deps \in [Pkgs -> SUBSET SUBSET Pkgs], NEW S, S \subseteq Pkgs
  PROVE  /\ checkdeps(S) \subseteq [target : Pkgs, causingpkg : Pkgs]
         /\ \A m \in checkdeps(S) :
              /\ m.target \in Pkgs \ S /\ m.causingpkg \in S
              /\ \E d \in deps[m.target] : Breaks(S, d) /\ m.causingpkg \in d
<1> SUFFICES ASSUME NEW m \in checkdeps(S)
             PROVE  /\ m \in [target : Pkgs, causingpkg : Pkgs]
                    /\ m.target \in Pkgs \ S /\ m.causingpkg \in S
                    /\ \E d \in deps[m.target] : Breaks(S, d) /\ m.causingpkg \in d
  BY Zenon
<1>0. PICK p \in Pkgs \ S : \E d \in deps[p] :
        Missing(S, d) /\ m = [target |-> p, causingpkg |-> Satisfier(S, d)]
  BY Zenon DEF checkdeps
<1>1. PICK d \in deps[p] :
        Missing(S, d) /\ m = [target |-> p, causingpkg |-> Satisfier(S, d)]
  BY <1>0, Zenon
<1>2. d \subseteq S /\ d # {} /\ d \cap S = d  BY <1>1, Zenon DEF Missing
<1>3. Min(d) \in d
  <2>1. d \subseteq Nat  BY <1>2, PrepAssumption
  <2>2. PICK x \in d : \A y \in d : x <= y  BY <1>2, <2>1, LeastNat, Zenon
  <2> QED  BY <2>2, Zenon DEF Min
<1>4. m.target = p /\ m.causingpkg = Min(d)  BY <1>1, <1>2, Zenon DEF Satisfier
<1>5. Breaks(S, d)  BY <1>2, Zenon DEF Breaks
<1> QED  BY <1>1, <1>2, <1>3, <1>4, <1>5

\* It reports nothing exactly when the removal breaks nothing.
LEMMA CheckSafe ==
  ASSUME deps \in [Pkgs -> SUBSET SUBSET Pkgs], NEW S, S \subseteq Pkgs
  PROVE  checkdeps(S) = {} <=> Safe(S)
<1>1. ASSUME checkdeps(S) = {}, NEW p \in Pkgs \ S, NEW d \in deps[p], Breaks(S, d)
      PROVE  FALSE
  <2>1. Missing(S, d)  BY <1>1, Zenon DEF Breaks, Missing
  <2>2. [target |-> p, causingpkg |-> Satisfier(S, d)] \in checkdeps(S)
    BY <2>1 DEF checkdeps
  <2> QED  BY <1>1, <2>2, Zenon
<1>2. ASSUME Safe(S), NEW m \in checkdeps(S) PROVE FALSE
  BY <1>2, CheckFinds DEF Safe
<1> QED  BY <1>1, <1>2, Zenon DEF Safe

\* What depends on the request alone.
LEMMA Frame ==
  ASSUME UNCHANGED given
  PROVE  /\ \A S : Safe(S)' <=> Safe(S)
         /\ \A S, B : Grounded(S, B)' <=> Grounded(S, B)
         /\ \A p, q : DependsOn(p, q)' <=> DependsOn(p, q)
         /\ \A p, a, q : Moves(p, a, q)' <=> Moves(p, a, q)
         /\ \A S : checkdeps(S)' = checkdeps(S)
         /\ \A X : Optional(X)' <=> Optional(X)
         /\ \A S : /\ Least(S)' <=> Least(S)
                   /\ Largest(S)' <=> Largest(S)
                   /\ Unneeded(S)' <=> Unneeded(S)
         /\ Named' = Named /\ (IncludeExplicit' <=> IncludeExplicit)
         /\ (Checked' <=> Checked) /\ (Removing' <=> Removing)
         /\ (OnlyRecurse' <=> OnlyRecurse)
<1>1. UNCHANGED <<deps, explicit, flags, asked>>  BY Zenon DEF given
<1>2. \A p, q : DependsOn(p, q)' <=> DependsOn(p, q)  BY <1>1, Zenon DEF DependsOn
<1>3. /\ Named' = Named /\ (IncludeExplicit' <=> IncludeExplicit)
      /\ (Checked' <=> Checked) /\ (Removing' <=> Removing) /\ (OnlyRecurse' <=> OnlyRecurse)
  BY <1>1, Zenon DEF Named, IncludeExplicit, Checked, Removing, OnlyRecurse
<1>4. /\ \A S : Safe(S)' <=> Safe(S)
      /\ \A S, B : Grounded(S, B)' <=> Grounded(S, B)
  BY <1>1, <1>2, Zenon DEF Safe, Breaks, Grounded
<1>5. \A p, a, q : Moves(p, a, q)' <=> Moves(p, a, q)  BY <1>1, <1>2, Zenon DEF Moves
<1>6. \A S : checkdeps(S)' = checkdeps(S)  BY <1>1 DEF checkdeps, Missing, Satisfier
<1>7. \A X : Optional(X)' <=> Optional(X)  BY <1>1, <1>2, <1>3, Zenon DEF Optional
<1>8. \A S : /\ Least(S)' <=> Least(S)
             /\ Largest(S)' <=> Largest(S)
             /\ Unneeded(S)' <=> Unneeded(S)
  <2>1. \A S : Least(S)' <=> Least(S)  BY <1>1, <1>3, <1>4, Zenon DEF Least
  <2>2. \A S : Largest(S)' <=> Largest(S)  BY <1>3, <1>7, Zenon DEF Largest
  <2>3. \A S : Unneeded(S)' <=> Unneeded(S)  BY <1>1, <1>2, <1>3, Zenon DEF Unneeded
  <2> QED  BY <2>1, <2>2, <2>3, Zenon
<1> QED  BY <1>2, <1>3, <1>4, <1>5, <1>6, <1>7, <1>8, Zenon

-----------------------------------------------------------------------------
(* The sort begins, or the preparation goes on.                            *)

\* What SortDeps begins with satisfies its invariant.
LEMMA SortInv == Init => IInv /\ Indirect
BY InitIInv, Zenon DEF Init, Indirect, IndirectOrder

\* So does what the sort finds when a preparation calls it.
LEMMA SortBegins == Init' => (IInv /\ Indirect)'
BY SortInv, PTL

\* The call of _klpm_sortbydeps, or the end without it.
LEMMA Sorts ==
  ASSUME PInv, step # "sort", NEW T \in Seq(Pkgs), Unique(T), ToSort(T),
         UNCHANGED <<search, given, recurse>>,
         lp' \subseteq [target : Pkgs, causingpkg : Pkgs]
  PROVE  PrepTypeOK' /\ Sorting' /\ targets' = T /\ step' \in {"sort", "unsorted"}
<1>1. /\ UNCHANGED <<depends, reverse, iterator, i, j, path, state, newtargs, pc>>
      /\ UNCHANGED <<deps, explicit, flags, asked, keep, rem, k>>
  BY Zenon DEF search, given, recurse
<1>2. PrepTypeOK /\ Sorting /\ TypeOK  BY Zenon DEF PInv, PrepTypeOK
<1>3. targets' = T  BY Zenon DEF ToSort
<1>4. CASE step' = "sort" /\ T # <<>> /\ vertices' = T /\ localpkgs' = Rest(T)
  <2>1. Rest(T) \in Seq(Pkgs) /\ Unique(Rest(T)) /\ Elems(Rest(T)) = Pkgs \ Elems(T)
    BY RestLists, Zenon
  <2>2. Elems(T) \cap Elems(Rest(T)) = {}  BY <2>1, Zenon
  <2>3. Init'
    <3>1. Input'  BY <1>3, <1>4, <2>1, <2>2, Zenon DEF Input
    <3> QED  BY <1>1, <1>2, <1>3, <1>4, <2>1, <3>1, Zenon DEF Init, Sorting, TypeOK
  <2>4. (IInv /\ Indirect)'  BY <2>3, SortBegins, Zenon
  <2>5. TypeOK'  BY <2>4, Zenon DEF IInv, Base
  <2>6. PrepTypeOK'  BY <1>1, <1>2, <1>3, <1>4, <2>5, Zenon DEF PrepTypeOK, Steps
  <2>7. Sorting'  BY <1>1, <1>2, <1>3, <1>4, <2>4, Zenon DEF Sorting, Removing
  <2> QED  BY <1>3, <1>4, <2>6, <2>7, Zenon
<1>5. CASE step' = "unsorted" /\ UNCHANGED <<vertices, localpkgs>>
  <2>1. TypeOK'  BY <1>1, <1>2, <1>3, <1>5, Zenon DEF TypeOK
  <2>2. PrepTypeOK'  BY <1>1, <1>2, <1>3, <1>5, <2>1, Zenon DEF PrepTypeOK, Steps
  <2>3. Sorting'  BY <1>1, <1>2, <1>5, Zenon DEF Sorting, Removing
  <2> QED  BY <1>3, <1>5, <2>2, <2>3, Zenon
<1> QED  BY <1>4, <1>5, Zenon DEF ToSort

\* Any other step of the preparation.
LEMMA Waits ==
  ASSUME PInv, step # "sort", step' \in Steps, step' # "sort",
         UNCHANGED <<search, given, vertices, localpkgs>>,
         targets' \in Seq(Pkgs), Unique(targets'),
         step' \notin {"unsorted", "failed"} => targets' # <<>>,
         lp' \subseteq [target : Pkgs, causingpkg : Pkgs],
         keep' \in Seq(Pkgs), rem' \in Seq(Pkgs), Unique(keep'), Unique(rem'),
         Elems(keep') \cap Elems(rem') = {}, k' \in Nat \ {0}
  PROVE  PrepTypeOK' /\ Sorting'
<1>1. /\ UNCHANGED <<depends, reverse, iterator, i, j, path, state, newtargs, pc>>
      /\ UNCHANGED <<deps, explicit, flags, asked, vertices, localpkgs>>
  BY Zenon DEF search, given
<1>2. PrepTypeOK /\ Sorting /\ TypeOK  BY Zenon DEF PInv, PrepTypeOK
<1>3. TypeOK'  BY <1>1, <1>2, Zenon DEF TypeOK
<1>4. PrepTypeOK'  BY <1>1, <1>2, <1>3, Zenon DEF PrepTypeOK
<1>5. Sorting'  BY <1>1, <1>2, Zenon DEF Sorting, Removing
<1> QED  BY <1>4, <1>5, Zenon

\* The facts of a state before the sort that the steps use.
LEMMA Known ==
  ASSUME PInv, step # "sort"
  PROVE  /\ PrepTypeOK /\ TypeOK /\ Removing /\ Where /\ Recursing /\ Selected
         /\ R \subseteq Pkgs /\ K \subseteq Pkgs /\ M \subseteq Pkgs
         /\ targets \in Seq(Pkgs) /\ Unique(targets) /\ deps \in [Pkgs -> SUBSET SUBSET Pkgs]
         /\ keep \in Seq(Pkgs) /\ rem \in Seq(Pkgs) /\ Unique(keep) /\ Unique(rem)
         /\ K \cap M = {} /\ k \in Nat \ {0} /\ lp \subseteq [target : Pkgs, causingpkg : Pkgs]
         /\ step \notin {"unsorted", "failed"} => targets # <<>>
<1>1. PrepTypeOK /\ TypeOK /\ Removing /\ Sorting  BY Zenon DEF PInv, Sorting, PrepTypeOK
<1>2. Where /\ Recursing /\ Selected  BY <1>1, Zenon DEF PInv
<1>3. targets \in Seq(Pkgs) /\ keep \in Seq(Pkgs) /\ rem \in Seq(Pkgs)
  BY <1>1, Zenon DEF PrepTypeOK, TypeOK
<1>4. R \subseteq Pkgs /\ K \subseteq Pkgs /\ M \subseteq Pkgs
  BY <1>3, ElemsMember, Zenon DEF R, K, M
<1>5. /\ Unique(targets) /\ deps \in [Pkgs -> SUBSET SUBSET Pkgs]
      /\ Unique(keep) /\ Unique(rem) /\ K \cap M = {} /\ k \in Nat \ {0}
      /\ lp \subseteq [target : Pkgs, causingpkg : Pkgs]
  BY <1>1, Zenon DEF PrepTypeOK, K, M
<1> QED  BY <1>1, <1>2, <1>3, <1>4, <1>5, Zenon DEF Sorting

\* A step that changes no target and neither ends the preparation nor asks for the
\* check promises what was promised.
LEMMA StillSelected ==
  ASSUME Selected, UNCHANGED given, targets' = targets,
         step' \notin {"check", "sort", "unsorted"}
  PROVE  Selected'
<1>1. R' = R  BY Zenon DEF R
<1> QED  BY <1>1, Frame, Zenon DEF Selected

\* The lists of _klpm_recursedeps when it is entered with list T.
LEMMA RecurseBegins ==
  ASSUME PInv, step # "sort", NEW T \in Seq(Pkgs), Unique(T), T # <<>>, StartRecurse(T),
         targets' = T, UNCHANGED <<search, given, vertices, localpkgs>>,
         lp' \subseteq [target : Pkgs, causingpkg : Pkgs],
         "RECURSE" \in flags, "CASCADE" \notin flags => T = asked,
         "CASCADE" \in flags /\ Checked => Safe(Elems(T))
  PROVE  PrepTypeOK' /\ Sorting' /\ Where' /\ Recursing'
<1>1. /\ step' = "select_targs" /\ k' = 1 /\ rem' = <<>> /\ keep' = Rest(T)
  BY Zenon DEF StartRecurse
<1>2. Rest(T) \in Seq(Pkgs) /\ Unique(Rest(T)) /\ Elems(Rest(T)) = Pkgs \ Elems(T)
  BY RestLists, Zenon
<1>3. rem' \in Seq(Pkgs) /\ Unique(rem') /\ Elems(rem') = {}  BY <1>1 DEF Unique, Elems
<1>4. PrepTypeOK' /\ Sorting'  BY <1>1, <1>2, <1>3, Waits DEF Steps
<1>5. R' = Elems(T) /\ K' = Pkgs \ Elems(T) /\ M' = {} /\ R' \subseteq Pkgs
  BY <1>1, <1>2, <1>3, ElemsMember, Zenon DEF R, K, M
<1>6. Where'
  <2>1. UNCHANGED <<flags, asked>>  BY Zenon DEF given
  <2> QED  BY <1>1, <1>5, <2>1, Frame, Zenon DEF Where
<1>7. Recursing'
  <2>1. \A n \in 1..Len(targets') : ~(n < k')  BY <1>1
  <2>2. \A B : Grounded({}, B)  BY Zenon DEF Grounded
  <2> QED  BY <1>1, <1>5, <2>1, <2>2, Frame, Zenon DEF Recursing
<1> QED  BY <1>4, <1>6, <1>7, Zenon

-----------------------------------------------------------------------------
(* Every step keeps the invariant.                                         *)

\* The first states.
LEMMA InitPInv == PrepInit => PInv
<1> SUFFICES ASSUME PrepInit PROVE PInv  BY Zenon
<1>1. /\ vertices = targets /\ iterator = [p \in Pkgs |-> <<>>] /\ i = 1 /\ j = 1
      /\ path = <<>> /\ state = [p \in Pkgs |-> "UNPROCESSED"]
      /\ newtargs = <<>> /\ pc = "vertices"
      /\ lp = {} /\ keep = <<>> /\ rem = <<>> /\ k = 1
      /\ depends = [p \in Pkgs |-> UNION deps[p]]
  BY Zenon DEF PrepInit
<1>2. /\ keep \in Seq(Pkgs) /\ rem \in Seq(Pkgs) /\ Unique(keep) /\ Unique(rem)
      /\ Elems(keep) \cap Elems(rem) = {} /\ k \in Nat \ {0}
      /\ path \in Seq(Pkgs) /\ Unique(path) /\ newtargs \in Seq(Pkgs)
      /\ iterator \in [Pkgs -> Seq(Pkgs)] /\ state \in [Pkgs -> Marks]
  BY <1>1 DEF Unique, Elems, Marks
<1>3. ASSUME NEW r \in Requests,
             deps = r.deps, explicit = r.explicit, flags = r.flags,
             targets = r.targets, asked = r.targets, reverse = TRUE,
             localpkgs = <<>>, step = "prepare"
      PROVE  PInv
  <2>1. /\ deps \in [Pkgs -> SUBSET SUBSET Pkgs] /\ explicit \subseteq Pkgs
        /\ flags \subseteq Flags /\ targets \in Seq(Pkgs) /\ Unique(targets) /\ targets # <<>>
    BY <1>3, PrepAssumption, Zenon DEF List
  <2>2. depends \in [Pkgs -> SUBSET Pkgs]  BY <1>1, <2>1, Zenon
  <2>3. TypeOK  BY <1>1, <1>2, <1>3, <2>1, <2>2, Zenon DEF TypeOK, Phases
  <2>4. PrepTypeOK  BY <1>1, <1>2, <1>3, <2>1, <2>3, Zenon DEF PrepTypeOK, Steps
  <2>5. Sorting  BY <1>1, <1>3, <2>1, Zenon DEF Sorting, Removing
  <2>6. Where /\ Recursing  BY <1>3, Zenon DEF Where, Recursing, Selecting
  <2>7. Selected  BY <1>3, Zenon DEF Selected, Least, Unneeded, R, Named
  <2> QED  BY <2>4, <2>5, <2>6, <2>7, Zenon DEF PInv
<1>4. ASSUME NEW r \in Additions,
             deps = r.deps, explicit = {}, flags = {},
             targets = r.targets, asked = <<>>, reverse = FALSE,
             localpkgs = Rest(targets), step = "sort"
      PROVE  PInv
  <2>1. /\ deps \in [Pkgs -> SUBSET SUBSET Pkgs]
        /\ targets \in Seq(Pkgs) /\ Unique(targets) /\ targets # <<>>
    BY <1>4, PrepAssumption, Zenon DEF List
  <2>2. depends \in [Pkgs -> SUBSET Pkgs]  BY <1>1, <2>1, Zenon
  <2>3. /\ localpkgs \in Seq(Pkgs) /\ Unique(localpkgs)
        /\ Elems(localpkgs) = Pkgs \ Elems(targets)
    BY <1>4, <2>1, RestLists, Zenon
  <2>4. Init
    <3>1. Input  BY <2>1, <2>3, Zenon DEF Input
    <3> QED  BY <1>1, <1>4, <2>1, <2>2, <2>3, <3>1, Zenon DEF Init
  <2>5. IInv /\ Indirect /\ TypeOK  BY <2>4, SortInv, Zenon DEF IInv, Base
  <2>6. PrepTypeOK  BY <1>1, <1>2, <1>4, <2>1, <2>5, Zenon DEF PrepTypeOK, Steps
  <2>7. Sorting  BY <1>1, <1>4, <2>1, <2>5, Zenon DEF Sorting
  <2> QED  BY <1>4, <2>6, <2>7, Zenon DEF PInv, Removing
<1> QED  BY <1>3, <1>4, Zenon DEF PrepInit

\* _klpm_remove_prepare is entered.
LEMMA PrepareStep == ASSUME PInv, prepare PROVE PInv'
<1>1. step = "prepare" /\ UNCHANGED <<vars, given, lp>>  BY Zenon DEF prepare
<1>2. /\ UNCHANGED <<search, vertices, localpkgs>> /\ targets' = targets
      /\ UNCHANGED <<flags, asked>>
  BY <1>1, Zenon DEF vars, search, input, graph, given
<1>3. /\ PrepTypeOK /\ TypeOK /\ Removing /\ Where /\ Recursing /\ Selected
      /\ targets \in Seq(Pkgs) /\ Unique(targets) /\ targets # <<>> /\ targets = asked
      /\ lp \subseteq [target : Pkgs, causingpkg : Pkgs]
  BY <1>1, Known, Zenon DEF Where
<1>4. CASE /\ "RECURSE" \in flags /\ "CASCADE" \notin flags /\ StartRecurse(targets)
  <2>1. PrepTypeOK' /\ Sorting' /\ Where' /\ Recursing'
    BY <1>1, <1>2, <1>3, <1>4, RecurseBegins, Zenon
  <2>2. Selected'  BY <1>1, <1>2, <1>3, <1>4, StillSelected, Zenon DEF StartRecurse
  <2> QED  BY <2>1, <2>2, Zenon DEF PInv
<1>5. CASE ~("RECURSE" \in flags /\ "CASCADE" \notin flags) /\ step' = "check" /\ UNCHANGED recurse
  <2>1. PrepTypeOK' /\ Sorting'
    <3>1. UNCHANGED <<keep, rem, k>>  BY <1>5, Zenon DEF recurse
    <3> QED  BY <1>1, <1>2, <1>3, <1>5, <3>1, Waits, Known, Zenon DEF Steps, K, M
  <2>2. Where' /\ Recursing'  BY <1>5, Zenon DEF Where, Recursing, Selecting
  <2>3. Selected'
    <3>1. Largest(R)  BY <1>5, Zenon DEF Largest, OnlyRecurse
    <3>2. R' = R  BY <1>2, Zenon DEF R
    <3> QED  BY <1>1, <1>3, <1>5, <3>1, <3>2, Frame, Zenon DEF Selected
  <2> QED  BY <2>1, <2>2, <2>3, Zenon DEF PInv
<1> QED  BY <1>4, <1>5, Zenon DEF prepare

\* What follows a check that has found nothing missing, with the targets T.
LEMMA AfterCheckStep ==
  ASSUME PInv, step \in {"check", "cascade", "keep_needed"},
         NEW T \in Seq(Pkgs), Unique(T), "CASCADE" \in flags => T # <<>>,
         AfterCheck(T), lp' = {}, UNCHANGED <<search, given>>,
         Checked => Safe(Elems(T)),
         Least(Elems(T)), Unneeded(Elems(T)), Largest(Elems(T))
  PROVE  PInv'
<1>1. CASE {"CASCADE", "RECURSE"} \subseteq flags
  <2>1. StartRecurse(T) /\ targets' = T /\ UNCHANGED <<vertices, localpkgs>>
    BY <1>1, Zenon DEF AfterCheck
  <2>2. PrepTypeOK' /\ Sorting' /\ Where' /\ Recursing'
    BY <1>1, <2>1, RecurseBegins, Zenon
  <2>3. Selected'
    <3>1. R' = Elems(T) /\ step' = "select_targs"  BY <2>1, Zenon DEF R, StartRecurse
    <3> QED  BY <3>1, Frame, Zenon DEF Selected
  <2> QED  BY <2>2, <2>3, Zenon DEF PInv
<1>2. CASE ~({"CASCADE", "RECURSE"} \subseteq flags)
  <2>1. ToSort(T) /\ UNCHANGED recurse  BY <1>2, Zenon DEF AfterCheck
  <2>2. PrepTypeOK' /\ Sorting' /\ targets' = T /\ step' \in {"sort", "unsorted"}
    BY <2>1, Sorts, Zenon
  <2>3. Where' /\ Recursing'  BY <2>2, Zenon DEF Where, Recursing, Selecting
  <2>4. Selected'
    <3>1. R' = Elems(T)  BY <2>2, Zenon DEF R
    <3> QED  BY <2>2, <3>1, Frame, Zenon DEF Selected
  <2> QED  BY <2>2, <2>3, <2>4, Zenon DEF PInv
<1> QED  BY <1>1, <1>2, Zenon

\* The first check.
LEMMA CheckStep == ASSUME PInv, check PROVE PInv'
<1>1. /\ step = "check" /\ UNCHANGED <<search, given>>
      /\ lp' = IF Checked THEN checkdeps(R) ELSE {}
  BY Zenon DEF check, Checked, R
<1>2. /\ PrepTypeOK /\ TypeOK /\ Removing /\ Selected /\ R \subseteq Pkgs
      /\ targets \in Seq(Pkgs) /\ Unique(targets) /\ targets # <<>>
      /\ deps \in [Pkgs -> SUBSET SUBSET Pkgs]
  BY <1>1, Known, Zenon
<1>3. CASE lp' = {}
  <2>1. Checked => Safe(R)  BY <1>1, <1>2, <1>3, CheckSafe, Zenon
  <2>2. AfterCheck(targets)  BY <1>3, Zenon DEF check
  <2>3. Least(R) /\ Unneeded(R) /\ Largest(R)  BY <1>1, <1>2, Zenon DEF Selected
  <2> QED  BY <1>1, <1>2, <1>3, <2>1, <2>2, <2>3, AfterCheckStep, Zenon DEF R
<1>4. CASE lp' # {}
  <2>1. /\ step' = CASE "CASCADE" \in flags -> "cascade"
                     [] "CASCADE" \notin flags /\ "UNNEEDED" \in flags -> "keep_needed"
                     [] OTHER -> "failed"
        /\ UNCHANGED <<targets, vertices, localpkgs, recurse>>
    BY <1>4, Zenon DEF check
  <2>2. /\ step' \in {"cascade", "keep_needed", "failed"}
        /\ step' = "cascade" => "CASCADE" \in flags
        /\ step' = "keep_needed" => "CASCADE" \notin flags /\ "UNNEEDED" \in flags
    BY <2>1, Zenon
  <2>3. Checked /\ lp' = checkdeps(R)  BY <1>1, <1>4, Zenon
  <2>4. lp' \subseteq [target : Pkgs, causingpkg : Pkgs]  BY <1>2, <2>3, CheckFinds, Zenon
  <2>5. UNCHANGED <<keep, rem, k>>  BY <2>1, Zenon DEF recurse
  <2>6. PrepTypeOK' /\ Sorting'
    BY <1>1, <1>2, <2>1, <2>2, <2>4, <2>5, Waits, Known, Zenon DEF Steps, K, M
  <2>7. Where'
    <3>1. R' = R /\ UNCHANGED flags  BY <1>1, <2>1, Zenon DEF R, given
    <3> QED  BY <1>1, <2>2, <2>3, <3>1, Frame, Zenon DEF Where, Selecting
  <2>8. Recursing'  BY <2>2, Zenon DEF Recursing, Selecting
  <2>9. Selected'  BY <1>1, <1>2, <2>1, <2>2, StillSelected, Zenon
  <2> QED  BY <2>6, <2>7, <2>8, <2>9, Zenon DEF PInv
<1> QED  BY <1>3, <1>4, Zenon

\* A loop of remove_prepare_cascade or remove_prepare_keep_needed checks again, with
\* the targets T.
LEMMA AgainStep ==
  ASSUME PInv, step \in {"cascade", "keep_needed"},
         NEW T \in Seq(Pkgs), Unique(T), step = "cascade" => T # <<>>,
         Again(T), UNCHANGED <<search, given>>,
         Least(Elems(T)), Unneeded(Elems(T))
  PROVE  PInv'
<1>1. /\ Removing /\ Where /\ Selected /\ Checked /\ deps \in [Pkgs -> SUBSET SUBSET Pkgs]
      /\ step = "cascade" => "CASCADE" \in flags
      /\ step = "keep_needed" => "CASCADE" \notin flags /\ "UNNEEDED" \in flags
  BY Known, Zenon DEF Where
<1>2. Elems(T) \subseteq Pkgs  BY ElemsMember, Zenon
<1>3. lp' = checkdeps(Elems(T))  BY Zenon DEF Again
<1>4. CASE lp' = {}
  <2>1. Safe(Elems(T))  BY <1>1, <1>2, <1>3, <1>4, CheckSafe, Zenon
  <2>2. AfterCheck(T)  BY <1>4, Zenon DEF Again
  <2>3. Largest(Elems(T))  BY <1>1, Zenon DEF Largest, OnlyRecurse
  <2> QED  BY <1>1, <1>4, <2>1, <2>2, <2>3, AfterCheckStep, Zenon
<1>5. CASE lp' # {}
  <2>1. targets' = T /\ UNCHANGED <<step, vertices, localpkgs, recurse>>  BY <1>5, Zenon DEF Again
  <2>2. UNCHANGED <<keep, rem, k>>  BY <2>1, Zenon DEF recurse
  <2>3. lp' \subseteq [target : Pkgs, causingpkg : Pkgs]  BY <1>1, <1>2, <1>3, CheckFinds, Zenon
  <2>4. T # <<>>
    <3>1. PICK m \in lp' : TRUE  BY <1>5, Zenon
    <3>2. m.causingpkg \in Elems(T)  BY <1>1, <1>2, <1>3, <3>1, CheckFinds, Zenon
    <3> QED  BY <3>2 DEF Elems
  <2>5. PrepTypeOK' /\ Sorting'
    BY <1>1, <2>1, <2>2, <2>3, <2>4, Waits, Known, Zenon DEF Steps, K, M
  <2>6. R' = Elems(T) /\ UNCHANGED flags  BY <2>1, Zenon DEF R, given
  <2>7. Where'  BY <1>1, <1>3, <2>1, <2>6, Frame, Zenon DEF Where, Selecting
  <2>8. Recursing'  BY <2>1, Zenon DEF Recursing, Selecting
  <2>9. Selected'  BY <2>1, <2>6, Frame, Zenon DEF Selected
  <2> QED  BY <2>5, <2>7, <2>8, <2>9, Zenon DEF PInv
<1> QED  BY <1>4, <1>5, Zenon

\* remove_prepare_cascade: what it adds is in every set that breaks nothing.
LEMMA CascadeStep == ASSUME PInv, cascade PROVE PInv'
<1> DEFINE new == Filter(Cache, {m.target : m \in lp} \ Elems(targets))
<1>1. /\ step = "cascade" /\ UNCHANGED <<search, given>>
      /\ \/ Again(targets \o new)
         \/ /\ DupFails /\ step' = "failed" /\ UNCHANGED <<lp, recurse, vertices, localpkgs>>
            /\ \E n \in 0..(Len(new) - 1) : targets' = targets \o SubSeq(new, 1, n)
  BY Zenon DEF cascade
<1>2. /\ PrepTypeOK /\ TypeOK /\ Removing /\ Where /\ Selected /\ R \subseteq Pkgs
      /\ targets \in Seq(Pkgs) /\ Unique(targets) /\ targets # <<>>
      /\ deps \in [Pkgs -> SUBSET SUBSET Pkgs]
      /\ lp \subseteq [target : Pkgs, causingpkg : Pkgs]
      /\ lp = checkdeps(R) /\ "CASCADE" \in flags
  BY <1>1, Known, Zenon DEF Where
<1>3. /\ new \in Seq(Pkgs) /\ Unique(new) /\ Elems(new) \subseteq {m.target : m \in lp}
      /\ Elems(new) \cap Elems(targets) = {}
  BY CacheLists, FilterElems
<1> HIDE DEF new
<1>4. ASSUME NEW s \in Seq(Pkgs), Elems(s) \subseteq Elems(new), Unique(s)
      PROVE  /\ targets \o s \in Seq(Pkgs) /\ Unique(targets \o s) /\ targets \o s # <<>>
             /\ Least(Elems(targets \o s)) /\ Unneeded(Elems(targets \o s))
  <2>1. /\ targets \o s \in Seq(Pkgs) /\ Elems(targets \o s) = R \cup Elems(s)
        /\ Unique(targets \o s) /\ targets \o s # <<>>
    BY <1>2, <1>3, <1>4, ElemsCat DEF R
  <2>2. Least(R \cup Elems(s))
    <3> SUFFICES ASSUME flags = {"CASCADE"}, NEW C \in SUBSET Pkgs, Named \subseteq C, Safe(C),
                        NEW x \in Elems(s)
                 PROVE  x \in C
      BY <1>2, Zenon DEF Least, Selected
    <3>1. R \subseteq C  BY <1>2, Zenon DEF Selected, Least
    <3>2. PICK m \in lp : x = m.target  BY <1>3, <1>4, Zenon
    <3>3. PICK d \in deps[x] : Breaks(R, d) /\ x \in Pkgs  BY <1>2, <3>2, CheckFinds, Zenon
    <3>4. Breaks(C, d)  BY <3>1, <3>3, Zenon DEF Breaks
    <3> QED  BY <3>3, <3>4, Zenon DEF Safe
  <2>3. Unneeded(R \cup Elems(s))  BY <1>2 DEF Unneeded
  <2> QED  BY <2>1, <2>2, <2>3, Zenon
<1>5. CASE Again(targets \o new)
  BY <1>1, <1>3, <1>4, <1>5, AgainStep, Zenon
<1>6. ASSUME step' = "failed", UNCHANGED <<lp, recurse, vertices, localpkgs>>,
             NEW n \in 0..(Len(new) - 1), targets' = targets \o SubSeq(new, 1, n)
      PROVE  PInv'
  <2> DEFINE s == SubSeq(new, 1, n)
  <2>1. s \in Seq(Pkgs) /\ Elems(s) \subseteq Elems(new) /\ Unique(s)
    BY <1>3, ElemsFirst, Zenon
  <2> HIDE DEF s
  <2>2. targets' = targets \o s  BY <1>6, Zenon DEF s
  <2>3. UNCHANGED <<keep, rem, k>>  BY <1>6, Zenon DEF recurse
  <2>4. PrepTypeOK' /\ Sorting'
    BY <1>1, <1>2, <1>4, <1>6, <2>1, <2>2, <2>3, Waits, Known, Zenon DEF Steps, K, M
  <2>5. Where' /\ Recursing'  BY <1>6, Zenon DEF Where, Recursing, Selecting
  <2>6. Selected'
    <3>1. R' = Elems(targets \o s)  BY <2>2, Zenon DEF R
    <3> QED  BY <1>1, <1>4, <1>6, <2>1, <3>1, Frame, Zenon DEF Selected
  <2> QED  BY <2>4, <2>5, <2>6, Zenon DEF PInv
<1> QED  BY <1>1, <1>5, <1>6, Zenon

\* remove_prepare_keep_needed: what it gives up is needed by a package that stays.
LEMMA KeepNeededStep == ASSUME PInv, keep_needed PROVE PInv'
<1> DEFINE T == Filter(targets, {p \in Pkgs : ~GivenUp(p)})
<1>1. step = "keep_needed" /\ UNCHANGED <<search, given>> /\ Again(T)  BY Zenon DEF keep_needed
<1>2. /\ PrepTypeOK /\ TypeOK /\ Removing /\ Where /\ Selected /\ R \subseteq Pkgs
      /\ targets \in Seq(Pkgs) /\ Unique(targets)
      /\ deps \in [Pkgs -> SUBSET SUBSET Pkgs]
      /\ lp = checkdeps(R) /\ "CASCADE" \notin flags
  BY <1>1, Known, Zenon DEF Where
<1>3. T \in Seq(Pkgs) /\ Unique(T) /\ Elems(T) = R \cap {p \in Pkgs : ~GivenUp(p)}
  BY <1>2, FilterElems, Zenon DEF R
<1> HIDE DEF T
<1>4. Least(Elems(T))  BY <1>2, Zenon DEF Least
<1>5. Unneeded(Elems(T))
  <2> SUFFICES ASSUME flags = {"UNNEEDED"}, NEW p \in Named \ Elems(T)
               PROVE  \E r \in Pkgs \ Elems(T) : DependsOn(r, p)
    BY <1>2, <1>3, Zenon DEF Unneeded, Selected
  <2>1. CASE p \notin R
    <3>1. PICK r \in Pkgs \ R : DependsOn(r, p)  BY <1>2, <2>1, Zenon DEF Unneeded, Selected
    <3> QED  BY <1>3, <3>1, Zenon
  <2>2. CASE p \in R
    <3>1. PICK m \in lp : p = m.causingpkg  BY <1>2, <1>3, <2>2, Zenon DEF GivenUp
    <3>2. m.target \in Pkgs \ R /\ DependsOn(m.target, p)
      BY <1>2, <3>1, CheckFinds, Zenon DEF DependsOn
    <3> QED  BY <1>3, <3>2, Zenon
  <2> QED  BY <2>1, <2>2, Zenon
<1> QED  BY <1>1, <1>3, <1>4, <1>5, AgainStep, Zenon

-----------------------------------------------------------------------------
(* _klpm_recursedeps.                                                      *)

\* _klpm_select_depends divides a list.
LEMMA Divides ==
  ASSUME NEW s \in Seq(Pkgs), Unique(s), NEW p, NEW a
  PROVE  /\ Moved(s, p, a) \in Seq(Pkgs) /\ Unique(Moved(s, p, a))
         /\ Stays(s, p, a) \in Seq(Pkgs) /\ Unique(Stays(s, p, a))
         /\ Elems(Moved(s, p, a)) = {q \in Elems(s) : Moves(p, a, q)}
         /\ Elems(Stays(s, p, a)) = {q \in Elems(s) : ~Moves(p, a, q)}
<1>1. Elems(s) \subseteq Pkgs  BY ElemsMember, Zenon
<1>2. /\ Moved(s, p, a) \in Seq(Pkgs) /\ Unique(Moved(s, p, a))
      /\ Elems(Moved(s, p, a)) = Elems(s) \cap {q \in Pkgs : Moves(p, a, q)}
  BY FilterElems, Zenon DEF Moved
<1>3. /\ Stays(s, p, a) \in Seq(Pkgs) /\ Unique(Stays(s, p, a))
      /\ Elems(Stays(s, p, a)) = Elems(s) \cap {q \in Pkgs : ~Moves(p, a, q)}
  BY FilterElems, Zenon DEF Stays
<1> QED  BY <1>1, <1>2, <1>3, Zenon

\* A package p of T or of those selected selects D.
LEMMA Selects ==
  ASSUME NEW T, NEW S, NEW D, NEW p \in T \cup S, p \notin D, T \cap D = {}, S \cap D = {},
         Grounded(S, T \cup S), \A x \in D : DependsOn(p, x)
  PROVE  Grounded(S \cup D, T \cup (S \cup D))
<1> SUFFICES ASSUME NEW Y, Y \subseteq S \cup D, Y # {}
             PROVE  \E q \in (T \cup (S \cup D)) \ Y, x \in Y : DependsOn(q, x)
  BY Zenon DEF Grounded
<1>1. CASE Y \cap S # {}
  <2>1. PICK q \in (T \cup S) \ (Y \cap S), x \in Y \cap S : DependsOn(q, x)
    BY <1>1, Zenon DEF Grounded
  <2>2. q \notin Y  BY <2>1, Zenon
  <2> QED  BY <2>1, <2>2, Zenon
<1>2. CASE Y \cap S = {}
  <2>1. PICK x \in Y : x \in D  BY <1>2, Zenon
  <2>2. p \notin Y  BY <1>2, Zenon
  <2> QED  BY <2>1, <2>2, Zenon
<1> QED  BY <1>1, <1>2, Zenon

\* What a turn of one of the first two loops does, for the member p that it looks at.
LEMMA SelectTurn ==
  ASSUME PInv, step \in {"select_targs", "select_rem"}, UNCHANGED <<vars, given, lp, step>>,
         NEW p \in R \cup M, k' = k + 1,
         rem' = rem \o Moved(keep, p, IncludeExplicit),
         keep' = Stays(keep, p, IncludeExplicit)
  PROVE  /\ PrepTypeOK' /\ Sorting' /\ Where' /\ Selected'
         /\ R' = R /\ K' = {q \in K : ~Moves(p, IncludeExplicit, q)}
         /\ R \cup K' \cup M' = Pkgs /\ R \cap (K' \cup M') = {}
         /\ Grounded(M', R \cup M') /\ Grounded(M', Pkgs)
         /\ \A x \in M' : IncludeExplicit \/ x \notin explicit
         /\ Len(rem') >= Len(rem) /\ \A n \in 1..Len(rem) : rem'[n] = rem[n]
<1>1. /\ UNCHANGED <<search, given, vertices, localpkgs>> /\ targets' = targets
      /\ UNCHANGED <<flags, asked, lp, step>>
  BY Zenon DEF vars, search, input, graph, given
<1>2. /\ PrepTypeOK /\ TypeOK /\ Removing /\ Where /\ Recursing /\ Selected /\ Selecting
      /\ R \subseteq Pkgs /\ K \subseteq Pkgs /\ M \subseteq Pkgs /\ K \cap M = {}
      /\ keep \in Seq(Pkgs) /\ rem \in Seq(Pkgs) /\ Unique(keep) /\ Unique(rem)
      /\ k \in Nat \ {0} /\ targets \in Seq(Pkgs) /\ Unique(targets) /\ targets # <<>>
      /\ lp \subseteq [target : Pkgs, causingpkg : Pkgs]
  BY Known, Zenon DEF Selecting
<1> DEFINE D == {q \in K : Moves(p, IncludeExplicit, q)}
           m == Moved(keep, p, IncludeExplicit)
<1>3. /\ m \in Seq(Pkgs) /\ Unique(m) /\ Elems(m) = D
      /\ keep' \in Seq(Pkgs) /\ Unique(keep')
      /\ K' = {q \in K : ~Moves(p, IncludeExplicit, q)}
  BY <1>2, Divides DEF K
<1> HIDE DEF m
<1>4. rem' = rem \o m  BY Zenon DEF m
<1>5. /\ rem' \in Seq(Pkgs) /\ M' = M \cup D /\ Unique(rem')
      /\ Len(rem') >= Len(rem) /\ \A n \in 1..Len(rem) : rem'[n] = rem[n]
  <2>1. Elems(rem) \cap Elems(m) = {}  BY <1>2, <1>3, Zenon DEF M
  <2>2. /\ rem \o m \in Seq(Pkgs) /\ Elems(rem \o m) = Elems(rem) \cup Elems(m)
        /\ Unique(rem \o m) /\ Len(rem \o m) = Len(rem) + Len(m)
        /\ \A n \in 1..Len(rem) : (rem \o m)[n] = rem[n]
    BY <1>2, <1>3, <2>1, ElemsCat
  <2>3. Len(rem) \in Nat /\ Len(m) \in Nat  BY <1>2, <1>3
  <2>4. Len(rem) + Len(m) >= Len(rem)  BY <2>3
  <2> QED  BY <1>3, <1>4, <2>2, <2>4, Zenon DEF M
<1>6. K' \cap M' = {} /\ Elems(keep') \cap Elems(rem') = {}  BY <1>2, <1>3, <1>5, Zenon DEF K, M
<1>7. k' \in Nat \ {0}  BY <1>2
<1>8. PrepTypeOK' /\ Sorting'
  BY <1>1, <1>2, <1>3, <1>5, <1>6, <1>7, Waits, Zenon DEF Steps
<1>9. R' = R  BY <1>1, Zenon DEF R
<1>10. Where'  BY <1>1, <1>2, <1>9, Frame, Zenon DEF Where, Selecting
<1>11. Selected'  BY <1>1, <1>2, StillSelected, Zenon
<1>12. R \cup K \cup M = Pkgs /\ R \cap (K \cup M) = {} /\ Grounded(M, R \cup M)
  BY <1>2, Zenon DEF Recursing
<1>13. \A x \in D : DependsOn(p, x) /\ (IncludeExplicit \/ x \notin explicit)  BY Zenon DEF Moves
<1>14. Grounded(M \cup D, R \cup (M \cup D))
  <2>1. p \notin D /\ R \cap D = {} /\ M \cap D = {}  BY <1>2, <1>12, Zenon
  <2> HIDE DEF D
  <2> QED  BY <1>12, <1>13, <2>1, Selects, Zenon
<1>15. Grounded(M', R \cup M')  BY <1>5, <1>14, Zenon
<1>16. R \cup K' \cup M' = Pkgs /\ R \cap (K' \cup M') = {}  BY <1>3, <1>5, <1>12, Zenon
<1>17. Grounded(M', Pkgs)
  <2>1. R \cup M' \subseteq Pkgs  BY <1>16, Zenon
  <2> QED  BY <1>15, <2>1, Zenon DEF Grounded
<1>18. \A x \in M' : IncludeExplicit \/ x \notin explicit  BY <1>2, <1>5, <1>13, Zenon DEF Recursing
<1> QED  BY <1>3, <1>5, <1>8, <1>9, <1>10, <1>11, <1>15, <1>16, <1>17, <1>18, Zenon

\* The loop over the targets.
LEMMA SelectTargsStep == ASSUME PInv, select_targs PROVE PInv'
<1>1. step = "select_targs" /\ UNCHANGED <<vars, given, lp>>  BY Zenon DEF select_targs
<1>2. /\ PrepTypeOK /\ TypeOK /\ Removing /\ Where /\ Recursing /\ Selected /\ Selecting
      /\ keep \in Seq(Pkgs) /\ rem \in Seq(Pkgs) /\ Unique(keep) /\ Unique(rem)
      /\ K \cap M = {}
      /\ k \in Nat \ {0} /\ targets \in Seq(Pkgs) /\ Unique(targets) /\ targets # <<>>
      /\ lp \subseteq [target : Pkgs, causingpkg : Pkgs]
  BY <1>1, Known, Zenon DEF Selecting
<1>3. /\ UNCHANGED <<search, given, vertices, localpkgs>> /\ targets' = targets
      /\ UNCHANGED <<flags, asked, lp, explicit>>
  BY <1>1, Zenon DEF vars, search, input, graph, given
<1>4. CASE /\ k <= Len(targets) /\ k' = k + 1
           /\ rem' = rem \o Moved(keep, targets[k], IncludeExplicit)
           /\ keep' = Stays(keep, targets[k], IncludeExplicit)
           /\ UNCHANGED step
  <2>1. k \in 1..Len(targets)  BY <1>2, <1>4
  <2>2. targets[k] \in R \cup M  BY <2>1, Zenon DEF R, Elems
  <2>3. /\ PrepTypeOK' /\ Sorting' /\ Where' /\ Selected'
        /\ R' = R /\ K' = {q \in K : ~Moves(targets[k], IncludeExplicit, q)}
        /\ R \cup K' \cup M' = Pkgs /\ R \cap (K' \cup M') = {}
        /\ Grounded(M', R \cup M') /\ Grounded(M', Pkgs)
        /\ \A x \in M' : IncludeExplicit \/ x \notin explicit
    BY <1>1, <1>4, <2>2, SelectTurn, Zenon
  <2>4. ASSUME NEW n \in 1..Len(targets), n < k', NEW q \in K'
        PROVE  ~Moves(targets[n], IncludeExplicit, q)
    <3>1. CASE n = k  BY <2>3, <3>1, Zenon
    <3>2. CASE n < k  BY <1>1, <1>2, <2>3, <3>2, Zenon DEF Recursing
    <3>3. n < k \/ n = k  BY <1>2, <1>4, <2>4
    <3> QED  BY <3>1, <3>2, <3>3, Zenon
  <2>5. Recursing'
    <3>1. step' = "select_targs"  BY <1>1, <1>4, Zenon
    <3>2. Grounded(M, R \cup M)' /\ Grounded(M, Pkgs)'  BY <1>3, <2>3, Frame, Zenon
    <3>3. (\A x \in M : IncludeExplicit \/ x \notin explicit)'  BY <1>3, <2>3, Frame, Zenon
    <3>4. (\A n \in 1..Len(targets) : n < k =>
             \A q \in K : ~Moves(targets[n], IncludeExplicit, q))'
      BY <1>3, <2>4, Zenon DEF Moves, DependsOn, given, IncludeExplicit
    <3> QED  BY <2>3, <3>1, <3>2, <3>3, <3>4, Zenon DEF Recursing
  <2> QED  BY <2>3, <2>5, Zenon DEF PInv
<1>5. CASE k > Len(targets) /\ k' = 1 /\ step' = "select_rem" /\ UNCHANGED <<keep, rem>>
  <2>1. R' = R /\ K' = K /\ M' = M  BY <1>3, <1>5, Zenon DEF R, K, M
  <2>2. PrepTypeOK' /\ Sorting'  BY <1>1, <1>2, <1>3, <1>5, Waits DEF Steps, K, M
  <2>3. Where'  BY <1>1, <1>2, <1>3, <1>5, <2>1, Frame, Zenon DEF Where, Selecting
  <2>4. Selected'  BY <1>2, <1>3, <1>5, StillSelected, Zenon
  <2>5. Recursing'
    <3>1. ASSUME NEW p \in R, NEW q \in K PROVE ~Moves(p, IncludeExplicit, q)
      <4>1. PICK n \in 1..Len(targets) : p = targets[n]  BY Zenon DEF R, Elems
      <4>2. n < k  BY <1>2, <1>5, <4>1
      <4> QED  BY <1>1, <1>2, <4>1, <4>2, Zenon DEF Recursing
    <3>2. \A n \in 1..Len(rem) : ~(n < 1)  OBVIOUS
    <3>3. Grounded(M, R \cup M)' /\ Grounded(M, Pkgs)'
      BY <1>1, <1>2, <1>3, <2>1, Frame, Zenon DEF Recursing
    <3>4. (\A x \in M : IncludeExplicit \/ x \notin explicit)'
      BY <1>2, <1>3, <2>1, Frame, Zenon DEF Recursing
    <3>5. (\A p \in R, q \in K : ~Moves(p, IncludeExplicit, q))'
      BY <1>3, <2>1, <3>1, Zenon DEF Moves, DependsOn, given, IncludeExplicit
    <3>6. R' \cup K' \cup M' = Pkgs /\ R' \cap (K' \cup M') = {}  BY <1>2, <2>1, Zenon DEF Recursing
    <3> QED  BY <1>5, <3>2, <3>3, <3>4, <3>5, <3>6, Zenon DEF Recursing
  <2> QED  BY <2>2, <2>3, <2>4, <2>5, Zenon DEF PInv
<1> QED  BY <1>4, <1>5, Zenon DEF select_targs

\* The loop over what is selected, which grows meanwhile.
LEMMA SelectRemStep == ASSUME PInv, select_rem PROVE PInv'
<1>1. step = "select_rem" /\ UNCHANGED <<vars, given, lp>>  BY Zenon DEF select_rem
<1>2. /\ PrepTypeOK /\ TypeOK /\ Removing /\ Where /\ Recursing /\ Selected /\ Selecting
      /\ keep \in Seq(Pkgs) /\ rem \in Seq(Pkgs) /\ Unique(keep) /\ Unique(rem)
      /\ K \cap M = {}
      /\ k \in Nat \ {0} /\ targets \in Seq(Pkgs) /\ Unique(targets) /\ targets # <<>>
      /\ lp \subseteq [target : Pkgs, causingpkg : Pkgs]
  BY <1>1, Known, Zenon DEF Selecting
<1>3. /\ UNCHANGED <<search, given, vertices, localpkgs>> /\ targets' = targets
      /\ UNCHANGED <<flags, asked, lp, explicit>>
  BY <1>1, Zenon DEF vars, search, input, graph, given
<1>4. CASE /\ k <= Len(rem) /\ k' = k + 1
           /\ rem' = rem \o Moved(keep, rem[k], IncludeExplicit)
           /\ keep' = Stays(keep, rem[k], IncludeExplicit)
           /\ UNCHANGED step
  <2>1. k \in 1..Len(rem)  BY <1>2, <1>4
  <2>2. rem[k] \in R \cup M  BY <2>1, Zenon DEF M, Elems
  <2>3. /\ PrepTypeOK' /\ Sorting' /\ Where' /\ Selected'
        /\ R' = R /\ K' = {q \in K : ~Moves(rem[k], IncludeExplicit, q)}
        /\ R \cup K' \cup M' = Pkgs /\ R \cap (K' \cup M') = {}
        /\ Grounded(M', R \cup M') /\ Grounded(M', Pkgs)
        /\ \A x \in M' : IncludeExplicit \/ x \notin explicit
        /\ Len(rem') >= Len(rem) /\ \A n \in 1..Len(rem) : rem'[n] = rem[n]
    BY <1>1, <1>4, <2>2, SelectTurn, Zenon
  <2>4. ASSUME NEW n \in 1..Len(rem'), n < k', NEW q \in K'
        PROVE  ~Moves(rem'[n], IncludeExplicit, q)
    <3>1. n \in 1..Len(rem) /\ (n < k \/ n = k)  BY <1>2, <1>4, <2>4
    <3>2. rem'[n] = rem[n]  BY <2>3, <3>1, Zenon
    <3>3. CASE n = k  BY <2>3, <3>2, <3>3, Zenon
    <3>4. CASE n < k  BY <1>1, <1>2, <2>3, <3>1, <3>2, <3>4, Zenon DEF Recursing
    <3> QED  BY <3>1, <3>3, <3>4, Zenon
  <2>5. Recursing'
    <3>1. step' = "select_rem"  BY <1>1, <1>4, Zenon
    <3>2. Grounded(M, R \cup M)' /\ Grounded(M, Pkgs)'  BY <1>3, <2>3, Frame, Zenon
    <3>3. (\A x \in M : IncludeExplicit \/ x \notin explicit)'  BY <1>3, <2>3, Frame, Zenon
    <3>4. (\A n \in 1..Len(rem) : n < k =>
             \A q \in K : ~Moves(rem[n], IncludeExplicit, q))'
      BY <1>3, <2>4, Zenon DEF Moves, DependsOn, given, IncludeExplicit
    <3>5. \A p \in R, q \in K' : ~Moves(p, IncludeExplicit, q)
      BY <1>1, <1>2, <2>3, Zenon DEF Recursing
    <3>6. (\A p \in R, q \in K : ~Moves(p, IncludeExplicit, q))'
      BY <1>3, <2>3, <3>5, Zenon DEF Moves, DependsOn, given, IncludeExplicit
    <3> QED  BY <2>3, <3>1, <3>2, <3>3, <3>4, <3>6, Zenon DEF Recursing
  <2> QED  BY <2>3, <2>5, Zenon DEF PInv
<1>5. CASE k > Len(rem) /\ k' = 1 /\ step' = "select_keep" /\ UNCHANGED <<keep, rem>>
  <2>1. R' = R /\ K' = K /\ M' = M  BY <1>3, <1>5, Zenon DEF R, K, M
  <2>2. PrepTypeOK' /\ Sorting'  BY <1>1, <1>2, <1>3, <1>5, Waits DEF Steps, K, M
  <2>3. Where'  BY <1>1, <1>2, <1>3, <1>5, <2>1, Frame, Zenon DEF Where, Selecting
  <2>4. Selected'  BY <1>2, <1>3, <1>5, StillSelected, Zenon
  <2>5. R \cup K \cup M = Pkgs /\ R \cap (K \cup M) = {}  BY <1>2, Zenon DEF Recursing
  <2>6. ASSUME NEW p \in R \cup M, NEW q \in K PROVE ~Moves(p, IncludeExplicit, q)
    <3>1. CASE p \in R  BY <1>1, <1>2, <3>1, Zenon DEF Recursing
    <3>2. CASE p \in M
      <4>1. PICK n \in 1..Len(rem) : p = rem[n]  BY <3>2, Zenon DEF M, Elems
      <4>2. n < k  BY <1>2, <1>5, <4>1
      <4> QED  BY <1>1, <1>2, <4>1, <4>2, Zenon DEF Recursing
    <3> QED  BY <3>1, <3>2, Zenon
  <2>7. ASSUME targets = asked, NEW X \in SUBSET (Pkgs \ Named), Optional(X)
        PROVE  X \cap K = {}
    <3> SUFFICES ASSUME X \cap K # {} PROVE FALSE  BY Zenon
    <3>1. PICK p \in (Named \cup X) \ (X \cap K), x \in X \cap K : DependsOn(p, x)
      BY <2>7, Zenon DEF Optional
    <3>2. Named = R  BY <2>7, Zenon DEF Named, R
    <3>3. p \in R \cup M  BY <2>5, <3>1, <3>2, Zenon
    <3>4. ~Moves(p, IncludeExplicit, x)  BY <2>6, <3>1, <3>3, Zenon
    <3>5. IncludeExplicit \/ x \notin explicit  BY <2>7, <3>1, Zenon DEF Optional, IncludeExplicit
    <3> QED  BY <3>1, <3>4, <3>5, Zenon DEF Moves
  <2>8. Recursing'
    <3>1. Grounded(M, Pkgs)'  BY <1>2, <1>3, <2>1, Frame, Zenon DEF Recursing
    <3>2. (\A x \in M : IncludeExplicit \/ x \notin explicit)'
      BY <1>2, <1>3, <2>1, Frame DEF Recursing
    <3>3. (targets = asked =>
             \A X \in SUBSET (Pkgs \ Named) : Optional(X) => X \cap K = {})'
      BY <1>3, <2>1, <2>7, Frame, Zenon
    <3>4. \A n \in 1..Len(keep') : ~(n < k')  BY <1>5
    <3> QED  BY <1>5, <2>1, <2>5, <3>1, <3>2, <3>3, <3>4, Zenon DEF Recursing
  <2> QED  BY <2>2, <2>3, <2>4, <2>8 DEF PInv
<1> QED  BY <1>4, <1>5, Zenon DEF select_rem

\* The loop over what is kept, which takes back what it depends on.
LEMMA SelectKeepStep == ASSUME PInv, select_keep PROVE PInv'
<1>1. step = "select_keep" /\ UNCHANGED <<vars, given, lp>>  BY Zenon DEF select_keep
<1>2. /\ PrepTypeOK /\ TypeOK /\ Removing /\ Where /\ Recursing /\ Selected /\ Selecting
      /\ K \subseteq Pkgs /\ keep \in Seq(Pkgs) /\ rem \in Seq(Pkgs) /\ Unique(keep) /\ Unique(rem)
      /\ K \cap M = {}
      /\ k \in Nat \ {0} /\ targets \in Seq(Pkgs) /\ Unique(targets) /\ targets # <<>>
      /\ lp \subseteq [target : Pkgs, causingpkg : Pkgs]
  BY <1>1, Known, Zenon DEF Selecting
<1>3. /\ UNCHANGED <<search, given, vertices, localpkgs>> /\ targets' = targets
      /\ UNCHANGED <<flags, asked, lp, explicit>>
  BY <1>1, Zenon DEF vars, search, input, graph, given
<1>4. R \cup K \cup M = Pkgs /\ R \cap (K \cup M) = {} /\ Grounded(M, Pkgs)
  BY <1>2, Zenon DEF Recursing
<1>5. CASE /\ k <= Len(keep) /\ k' = k + 1
           /\ keep' = keep \o Moved(rem, keep[k], TRUE)
           /\ rem' = Stays(rem, keep[k], TRUE)
           /\ UNCHANGED step
  <2> DEFINE p == keep[k]
             D == {q \in M : DependsOn(p, q)}
             m == Moved(rem, p, TRUE)
  <2>1. k \in 1..Len(keep) /\ p \in K  BY <1>2, <1>5 DEF K, Elems
  <2>2. /\ m \in Seq(Pkgs) /\ Unique(m) /\ Elems(m) = D
        /\ rem' \in Seq(Pkgs) /\ Unique(rem') /\ M' = M \ D
    <3> DEFINE B == {q \in Pkgs : DependsOn(p, q)}
               C == {q \in Pkgs : ~DependsOn(p, q)}
    <3>1. m = Filter(rem, B) /\ rem' = Filter(rem, C)  BY <1>5, Zenon DEF Moved, Stays, Moves
    <3>2. M \subseteq Pkgs  BY <1>2, ElemsMember, Zenon DEF M
    <3>3. M \cap B = D /\ M \cap C = M \ D  BY <3>2, Zenon
    <3> HIDE DEF m, p, D, B, C
    <3>4. Filter(rem, B) \in Seq(Pkgs) /\ Unique(Filter(rem, B)) /\ Elems(Filter(rem, B)) = M \cap B
      BY <1>2, FilterElems DEF M
    <3>5. Filter(rem, C) \in Seq(Pkgs) /\ Unique(Filter(rem, C)) /\ Elems(Filter(rem, C)) = M \cap C
      BY <1>2, FilterElems DEF M
    <3>6. M' = Elems(rem')  BY Zenon DEF M
    <3> QED  BY <3>1, <3>3, <3>4, <3>5, <3>6, Zenon
  <2> HIDE DEF m
  <2>3. /\ keep' \in Seq(Pkgs) /\ K' = K \cup D /\ Unique(keep')
        /\ \A n \in 1..Len(keep) : keep'[n] = keep[n]
    <3>1. Elems(keep) \cap Elems(m) = {}  BY <1>2, <2>2, Zenon DEF K
    <3>2. keep' = keep \o m  BY <1>5, Zenon DEF m
    <3>3. /\ keep \o m \in Seq(Pkgs) /\ Elems(keep \o m) = Elems(keep) \cup Elems(m)
          /\ Unique(keep \o m)
          /\ \A n \in 1..Len(keep) : (keep \o m)[n] = keep[n]
      BY <1>2, <2>2, <3>1, ElemsCat
    <3> QED  BY <2>2, <3>2, <3>3, Zenon DEF K
  <2>4. K' \cap M' = {} /\ Elems(keep') \cap Elems(rem') = {}  BY <1>2, <2>2, <2>3, Zenon DEF K, M
  <2>5. k' \in Nat \ {0}  BY <1>2, <1>5
  <2>6. R' = R /\ step' = "select_keep"  BY <1>1, <1>3, <1>5, Zenon DEF R
  <2>7. PrepTypeOK' /\ Sorting'
    BY <1>1, <1>2, <1>3, <1>5, <2>2, <2>3, <2>4, <2>5, Waits, Zenon DEF Steps
  <2>8. Where'  BY <1>1, <1>2, <1>3, <1>5, <2>6, Frame, Zenon DEF Where, Selecting
  <2>9. Selected'  BY <1>1, <1>2, <1>3, <1>5, StillSelected, Zenon
  <2>10. Grounded(M', Pkgs)  BY <1>4, <2>2, Zenon DEF Grounded
  <2>11. \A x \in M' : IncludeExplicit \/ x \notin explicit  BY <1>2, <2>2, Zenon DEF Recursing
  <2>12. ASSUME targets = asked, NEW X \in SUBSET (Pkgs \ Named), Optional(X)
         PROVE  X \cap K' = {}
    <3>1. X \cap K = {}  BY <1>1, <1>2, <2>12, Zenon DEF Recursing
    <3>2. Named = R  BY <2>12, Zenon DEF Named, R
    <3>3. p \in Pkgs \ (Named \cup X)  BY <1>2, <1>4, <2>1, <3>1, <3>2, Zenon
    <3>4. \A x \in X : ~DependsOn(p, x)  BY <2>12, <3>3, Zenon DEF Optional
    <3> QED  BY <2>3, <3>1, <3>4, Zenon
  <2>13. ASSUME NEW n \in 1..Len(keep'), n < k', NEW x \in M' PROVE ~DependsOn(keep'[n], x)
    <3>1. n \in 1..Len(keep) /\ (n < k \/ n = k)  BY <1>2, <1>5, <2>13
    <3>2. keep'[n] = keep[n]  BY <2>3, <3>1, Zenon
    <3>3. CASE n = k  BY <2>2, <3>2, <3>3, Zenon
    <3>4. CASE n < k  BY <1>1, <1>2, <2>2, <3>1, <3>2, <3>4, Zenon DEF Recursing
    <3> QED  BY <3>1, <3>3, <3>4, Zenon
  <2>14. R' \cup K' \cup M' = Pkgs /\ R' \cap (K' \cup M') = {}  BY <1>4, <2>2, <2>3, <2>6, Zenon
  <2>15. Recursing'
    <3> HIDE DEF p, D
    <3>1. Grounded(M, Pkgs)'  BY <1>3, <2>10, Frame, Zenon
    <3>2. (\A x \in M : IncludeExplicit \/ x \notin explicit)'  BY <1>3, <2>11, Frame, Zenon
    <3>3. (targets = asked =>
             \A X \in SUBSET (Pkgs \ Named) : Optional(X) => X \cap K = {})'
      BY <1>3, <2>12, Frame, Zenon
    <3>4. (\A n \in 1..Len(keep) : n < k => \A x \in M : ~DependsOn(keep[n], x))'
      BY <1>3, <2>13, Zenon DEF DependsOn, given
    <3> QED  BY <2>6, <2>14, <3>1, <3>2, <3>3, <3>4, Zenon DEF Recursing
  <2> QED  BY <2>7, <2>8, <2>9, <2>15 DEF PInv
<1>6. CASE ~KeepLoops(k) /\ k' = 1 /\ step' = "copy" /\ UNCHANGED <<keep, rem>>
  <2>1. R' = R /\ K' = K /\ M' = M  BY <1>3, <1>6, Zenon DEF R, K, M
  <2>2. PrepTypeOK' /\ Sorting'  BY <1>1, <1>2, <1>3, <1>6, Waits DEF Steps, K, M
  <2>3. Where'  BY <1>1, <1>2, <1>3, <1>6, <2>1, Frame, Zenon DEF Where, Selecting
  <2>4. Selected'  BY <1>2, <1>3, <1>6, StillSelected, Zenon
  <2>5. ASSUME NEW p \in K, NEW x \in M PROVE ~DependsOn(p, x)
    <3>1. PICK n \in 1..Len(keep) : p = keep[n]  BY DEF K, Elems
    <3>2. rem # <<>>  BY DEF M, Elems
    <3>3. n < k  BY <1>2, <1>6, <3>1, <3>2 DEF KeepLoops
    <3> QED  BY <1>1, <1>2, <3>1, <3>3, Zenon DEF Recursing
  <2>6. Recursing'
    <3>1. Grounded(M, Pkgs)'  BY <1>3, <1>4, <2>1, Frame, Zenon
    <3>2. (\A x \in M : IncludeExplicit \/ x \notin explicit)'
      BY <1>2, <1>3, <2>1, Frame, Zenon DEF Recursing
    <3>3. (targets = asked =>
             \A X \in SUBSET (Pkgs \ Named) : Optional(X) => X \cap K = {})'
      <4>1. targets = asked =>
              \A X \in SUBSET (Pkgs \ Named) : Optional(X) => X \cap K = {}
        BY <1>1, <1>2, Zenon DEF Recursing
      <4> QED  BY <1>3, <2>1, <4>1, Frame, Zenon
    <3>4. (\A p \in K, x \in M : ~DependsOn(p, x))'
      <4>1. \A p \in K, x \in M : ~DependsOn(p, x)  BY <2>5, Zenon
      <4> QED  BY <1>3, <2>1, <4>1, Frame, Zenon
    <3> QED  BY <1>4, <1>6, <2>1, <3>1, <3>2, <3>3, <3>4, Zenon DEF Recursing
  <2> QED  BY <2>2, <2>3, <2>4, <2>6 DEF PInv
<1> QED  BY <1>5, <1>6, Zenon DEF select_keep, KeepLoops

\* The end of _klpm_recursedeps.
LEMMA CopyStep == ASSUME PInv, copy PROVE PInv'
<1>1. step = "copy" /\ UNCHANGED <<search, given, lp, recurse>>  BY Zenon DEF copy
<1>2. /\ PrepTypeOK /\ TypeOK /\ Removing /\ Where /\ Recursing /\ Selected /\ Selecting
      /\ keep \in Seq(Pkgs) /\ rem \in Seq(Pkgs) /\ Unique(keep) /\ Unique(rem)
      /\ K \cap M = {} /\ deps \in [Pkgs -> SUBSET SUBSET Pkgs]
      /\ k \in Nat \ {0} /\ targets \in Seq(Pkgs) /\ Unique(targets) /\ targets # <<>>
      /\ lp \subseteq [target : Pkgs, causingpkg : Pkgs]
  BY <1>1, Known, Zenon DEF Selecting
<1>3. UNCHANGED <<keep, rem, k>> /\ UNCHANGED flags  BY <1>1, Zenon DEF recurse, given
<1>4. /\ R \cup K \cup M = Pkgs /\ R \cap (K \cup M) = {} /\ Grounded(M, Pkgs)
      /\ \A x \in M : IncludeExplicit \/ x \notin explicit
      /\ \A p \in K, x \in M : ~DependsOn(p, x)
  BY <1>1, <1>2, Zenon DEF Recursing
<1>5. "RECURSE" \in flags  BY <1>2, Zenon DEF Where
<1>6. \A S : Least(S) /\ Unneeded(S)
  <2>1. flags # {"CASCADE"} /\ flags # {"UNNEEDED"}  BY <1>5
  <2> QED  BY <2>1, Zenon DEF Least, Unneeded
<1> DEFINE T == targets \o rem
<1>7. T \in Seq(Pkgs) /\ Unique(T) /\ T # <<>> /\ Elems(T) = R \cup M
  <2>1. Elems(targets) \cap Elems(rem) = {}  BY <1>4, Zenon DEF R, M
  <2> QED  BY <1>2, <2>1, ElemsCat DEF R, M
<1> HIDE DEF T
<1>8. CASE "CASCADE" \in flags /\ ToSort(T)
  <2>1. PrepTypeOK' /\ Sorting' /\ targets' = T /\ step' \in {"sort", "unsorted"}
    BY <1>1, <1>2, <1>7, <1>8, Sorts, Zenon
  <2>2. Where' /\ Recursing'  BY <2>1, Zenon DEF Where, Recursing, Selecting
  <2>3. ASSUME Checked PROVE Safe(R \cup M)
    <3> SUFFICES ASSUME NEW p \in Pkgs \ (R \cup M), NEW d \in deps[p], Breaks(R \cup M, d)
                 PROVE  FALSE
      BY Zenon DEF Safe
    <3>1. p \in K /\ p \notin R  BY <1>4, Zenon
    <3>2. d \cap M = {}  BY <1>4, <3>1, Zenon DEF DependsOn
    <3>3. Breaks(R, d)  BY <3>2, Zenon DEF Breaks
    <3>4. Safe(R)  BY <1>2, <1>8, <2>3, Zenon DEF Where
    <3> QED  BY <3>1, <3>3, <3>4, Zenon DEF Safe
  <2>4. Largest(R \cup M)  BY <1>8, Zenon DEF Largest, OnlyRecurse
  <2>5. Selected'
    <3>1. R' = R \cup M  BY <1>7, <2>1, Zenon DEF R
    <3> QED  BY <1>1, <1>6, <2>1, <2>3, <2>4, <3>1, Frame, Zenon DEF Selected
  <2> QED  BY <2>1, <2>2, <2>5, Zenon DEF PInv
<1>9. CASE "CASCADE" \notin flags /\ step' = "check" /\ targets' = T /\ UNCHANGED <<vertices, localpkgs>>
  <2>1. PrepTypeOK' /\ Sorting'
    BY <1>1, <1>2, <1>3, <1>7, <1>9, Waits, Zenon DEF Steps, K, M
  <2>2. Where' /\ Recursing'  BY <1>9, Zenon DEF Where, Recursing, Selecting
  <2>3. targets = asked /\ Named = R  BY <1>2, <1>9, Zenon DEF Where, Named, R
  <2>4. Optional(M)
    <3>1. \A x \in M : "RECURSEALL" \in flags \/ x \notin explicit
      BY <1>4, Zenon DEF IncludeExplicit
    <3>2. \A p \in Pkgs \ (Named \cup M), x \in M : ~DependsOn(p, x)  BY <1>4, <2>3, Zenon
    <3>3. ASSUME NEW Y \in SUBSET M, Y # {}
          PROVE  \E p \in (Named \cup M) \ Y, x \in Y : DependsOn(p, x)
      <4>1. PICK p \in Pkgs \ Y, x \in Y : DependsOn(p, x)  BY <1>4, <3>3, Zenon DEF Grounded
      <4>2. p \notin K  BY <1>4, <4>1, Zenon
      <4> QED  BY <1>4, <2>3, <4>1, <4>2, Zenon
    <3> QED  BY <3>1, <3>2, <3>3, Zenon DEF Optional
  <2>5. ASSUME NEW X \in SUBSET (Pkgs \ Named), Optional(X) PROVE X \subseteq R \cup M
    <3>1. X \cap K = {}  BY <1>1, <1>2, <2>3, <2>5, Zenon DEF Recursing
    <3> QED  BY <1>4, <3>1, Zenon
  <2>6. Largest(R \cup M)
    <3>1. (R \cup M) \ Named = M  BY <1>4, <2>3, Zenon
    <3> QED  BY <2>4, <2>5, <3>1, Zenon DEF Largest
  <2>7. Selected'
    <3>1. R' = R \cup M  BY <1>7, <1>9, Zenon DEF R
    <3> QED  BY <1>1, <1>6, <1>9, <2>6, <3>1, Frame, Zenon DEF Selected
  <2> QED  BY <2>1, <2>2, <2>7 DEF PInv
<1>10. ASSUME step' = "failed", UNCHANGED <<vertices, localpkgs>>,
              NEW n \in 0..(Len(rem) - 1), targets' = targets \o SubSeq(rem, 1, n)
       PROVE  PInv'
  <2> DEFINE s == SubSeq(rem, 1, n)
  <2>1. s \in Seq(Pkgs) /\ Elems(s) \subseteq Elems(rem) /\ Unique(s)  BY <1>2, ElemsFirst, Zenon
  <2> HIDE DEF s
  <2>2. targets' = targets \o s  BY <1>10, Zenon DEF s
  <2>3. targets' \in Seq(Pkgs) /\ Unique(targets')
    <3>1. Elems(targets) \cap Elems(s) = {}  BY <1>4, <2>1, Zenon DEF R, M
    <3> QED  BY <1>2, <2>1, <2>2, <3>1, ElemsCat, Zenon
  <2>4. PrepTypeOK' /\ Sorting'
    BY <1>1, <1>2, <1>3, <1>10, <2>3, Waits, Zenon DEF Steps, K, M
  <2>5. Where' /\ Recursing'  BY <1>10, Zenon DEF Where, Recursing, Selecting
  <2>6. Selected'  BY <1>1, <1>6, <1>10, Frame, Zenon DEF Selected
  <2> QED  BY <2>4, <2>5, <2>6, Zenon DEF PInv
<1> QED  BY <1>8, <1>9, <1>10, Zenon DEF copy, T

\* A step of _klpm_sortbydeps.
LEMMA SortStep == ASSUME PInv, sortbydeps PROVE PInv'
<1>1. step = "sort" /\ Next /\ UNCHANGED prepvars  BY Zenon DEF sortbydeps
<1>2. UNCHANGED <<deps, explicit, flags, asked, lp, keep, rem, k, step>> /\ UNCHANGED given
  BY <1>1, Zenon DEF prepvars, given, recurse
<1>3. PrepTypeOK /\ Sorting /\ IInv /\ Indirect  BY <1>1, Zenon DEF PInv, Sorting
<1>4. IInv' /\ Indirect'
  BY <1>1, <1>3, Keeps_edge_to_vertex, Keeps_to_locals, Keeps_edge_to_local,
     Keeps_next_vertex, Keeps_next_child, Keeps_leave_vertex, KeepsIndirect, Zenon DEF Next
<1>5. UNCHANGED input
  BY <1>1, Zenon DEF Next, edge_to_vertex, to_locals, edge_to_local, next_vertex, next_child,
     leave_vertex
<1>6. UNCHANGED <<depends, targets>>  BY <1>5, Zenon DEF input
<1>7. PrepTypeOK'
  <2>1. TypeOK'  BY <1>4, Zenon DEF IInv, Base
  <2> QED  BY <1>2, <1>3, <1>6, <2>1, Zenon DEF PrepTypeOK
<1>8. Sorting'  BY <1>1, <1>2, <1>3, <1>4, <1>6, Zenon DEF Sorting, Removing
<1>9. ASSUME Removing PROVE Where' /\ Recursing' /\ Selected'
  <2>1. Where' /\ Recursing'  BY <1>1, <1>2, Zenon DEF Where, Recursing, Selecting
  <2>2. R' = R /\ Selected  BY <1>6, <1>9, Zenon DEF R, PInv
  <2> QED  BY <1>1, <1>2, <2>1, <2>2, Frame, Zenon DEF Selected
<1> QED  BY <1>2, <1>7, <1>8, <1>9, Frame, Zenon DEF PInv

-----------------------------------------------------------------------------
(* The theorems.                                                           *)

\* The invariant holds in every state of every preparation.
LEMMA AlwaysPInv == PrepSpec => []PInv
<1>1. ASSUME PInv, UNCHANGED allvars PROVE PInv'
  <2>1. UNCHANGED prepvars /\ UNCHANGED vars /\ UNCHANGED given  BY <1>1, Zenon DEF allvars, prepvars, given
  <2>2. UNCHANGED <<deps, explicit, flags, asked, lp, keep, rem, k, step>>
    BY <2>1, Zenon DEF prepvars, given, recurse
  <2>3. UNCHANGED <<depends, targets, localpkgs, reverse, vertices, iterator, i, j, path, state,
                    newtargs, pc>>
    BY <2>1, Zenon DEF vars, input, graph
  <2>4. PrepTypeOK'  BY <1>1, <2>2, <2>3, Zenon DEF PInv, PrepTypeOK, TypeOK
  <2>5. IInv /\ Indirect => IInv' /\ Indirect'  BY <2>1, SortStutters, Zenon
  <2>6. Sorting'  BY <1>1, <2>2, <2>3, <2>5, Zenon DEF PInv, Sorting, Removing
  <2>7. ASSUME Removing PROVE Where' /\ Recursing' /\ Selected'
    <3>1. Where /\ Recursing /\ Selected  BY <1>1, <2>7, Zenon DEF PInv
    <3>2. R' = R /\ K' = K /\ M' = M /\ (Selecting' <=> Selecting)
      BY <2>2, <2>3, Zenon DEF R, K, M, Selecting
    <3>3. Where'  BY <2>1, <2>2, <2>3, <3>1, <3>2, Frame, Zenon DEF Where
    <3>4. Recursing'
      <4> SUFFICES ASSUME Selecting PROVE Recursing'  BY <3>2, Zenon DEF Recursing
      <4>1. (/\ R \cup K \cup M = Pkgs /\ R \cap (K \cup M) = {} /\ Grounded(M, Pkgs)
             /\ \A x \in M : IncludeExplicit \/ x \notin explicit)'
        BY <2>1, <2>2, <3>1, <3>2, Frame, Zenon DEF Recursing
      <4>2. (step \in {"select_targs", "select_rem"} => Grounded(M, R \cup M))'
        BY <2>1, <2>2, <3>1, <3>2, Frame, Zenon DEF Recursing
      <4>3. (step = "select_targs" => \A n \in 1..Len(targets) :
               n < k => \A q \in K : ~Moves(targets[n], IncludeExplicit, q))'
        BY <2>2, <2>3, <3>1, <3>2 DEF Recursing, Moves, IncludeExplicit, DependsOn
      <4>4. (step = "select_rem" => \A p \in R, q \in K : ~Moves(p, IncludeExplicit, q))'
        BY <2>2, <3>1, <3>2, Zenon DEF Recursing, Moves, IncludeExplicit, DependsOn
      <4>5. (step = "select_rem" => \A n \in 1..Len(rem) :
               n < k => \A q \in K : ~Moves(rem[n], IncludeExplicit, q))'
        BY <2>2, <3>1, <3>2 DEF Recursing, Moves, IncludeExplicit, DependsOn
      <4>6. (step \in {"select_keep", "copy"} /\ targets = asked =>
               \A X \in SUBSET (Pkgs \ Named) : Optional(X) => X \cap K = {})'
        BY <2>1, <2>2, <2>3, <3>1, <3>2, Frame, Zenon DEF Recursing
      <4>7. (step = "select_keep" => \A n \in 1..Len(keep) :
               n < k => \A x \in M : ~DependsOn(keep[n], x))'
        BY <2>1, <2>2, <3>1, <3>2, Frame, Zenon DEF Recursing
      <4>8. (step = "copy" => \A p \in K, x \in M : ~DependsOn(p, x))'
        BY <2>1, <2>2, <3>1, <3>2, Frame, Zenon DEF Recursing
      <4> QED  BY <4>1, <4>2, <4>3, <4>4, <4>5, <4>6, <4>7, <4>8, Zenon DEF Recursing
    <3>5. Selected'  BY <2>1, <2>2, <3>1, <3>2, Frame, Zenon DEF Selected
    <3> QED  BY <3>3, <3>4, <3>5, Zenon
  <2> QED  BY <2>2, <2>4, <2>6, <2>7, Zenon DEF PInv, Removing
<1>2. PInv /\ [PrepNext \/ Finished]_allvars => PInv'
  BY <1>1, PrepareStep, SelectTargsStep, SelectRemStep, SelectKeepStep, CopyStep, CheckStep,
     CascadeStep, KeepNeededStep, SortStep, Zenon DEF PrepNext, Finished
<1> QED  BY <1>2, InitPInv, PTL DEF PrepSpec

\* No list of a preparation holds a package twice, and none is at once kept and
\* selected: the lists of _klpm_remove_prepare and of the functions it calls.
THEOREM PrepTypeCorrect == PrepSpec => []PrepTypeOK
<1>1. PInv => PrepTypeOK  BY Zenon DEF PInv
<1> QED  BY <1>1, AlwaysPInv, PTL

\* Whatever is installed and whatever the flags, a removal that _klpm_remove_prepare
\* prepares with its dependencies checked takes no package's dependency away.
THEOREM BreaksNothing == PrepSpec => []NothingBroken
<1>1. PInv => NothingBroken
  <2> SUFFICES ASSUME PInv, asked # <<>>, Prepared, "NODEPS" \notin flags
               PROVE  \A p \in Pkgs \ Removed : \A d \in deps[p] : ~Breaks(Removed, d)
    BY Zenon DEF NothingBroken
  <2>1. Selected /\ Sorting  BY Zenon DEF PInv, Removing
  <2>2. step \in {"sort", "unsorted"}  BY <2>1, Zenon DEF Prepared, Sorting
  <2>3. Safe(R)  BY <2>1, <2>2, Zenon DEF Selected, Checked
  <2> QED  BY <2>3, Zenon DEF Safe, R, Removed
<1> QED  BY <1>1, AlwaysPInv, PTL

\* What --cascade, --recursive and --unneeded select is what the manual says: the
\* least set, the largest set, and no target given up without a reason.
THEOREM SelectsAsDocumented == PrepSpec => []SelectedAsDocumented
<1>1. PInv => SelectedAsDocumented
  <2> SUFFICES ASSUME PInv, Prepared, flags # {} PROVE SelectedAsDocumented
    BY Zenon DEF SelectedAsDocumented, CascadeIsLeast, RecurseIsLargest, UnneededKeeps
  <2>1. Sorting /\ Removing /\ Selected  BY Zenon DEF PInv, Sorting
  <2>2. step \in {"sort", "unsorted"}  BY <2>1, Zenon DEF Prepared, Sorting
  <2>3. Least(R) /\ Unneeded(R) /\ Largest(R) /\ R = Removed
    BY <2>1, <2>2, Zenon DEF Selected, R, Removed
  <2>4. CascadeIsLeast  BY <2>3, Zenon DEF CascadeIsLeast, Least, Safe
  <2>5. RecurseIsLargest  BY <2>3, Zenon DEF RecurseIsLargest, Largest, OnlyRecurse
  <2>6. UnneededKeeps  BY <2>3, Zenon DEF UnneededKeeps, Unneeded
  <2> QED  BY <2>4, <2>5, <2>6, Zenon DEF SelectedAsDocumented
<1> QED  BY <1>1, AlwaysPInv, PTL

\* The list that a preparation ends with is in the order of dependencies: what the
\* sort promises holds of what _klpm_remove_prepare and _klpm_sync_prepare give it.
THEOREM PreparedInOrder == PrepSpec => [](SortedByDeps /\ IndirectOrder)
<1>1. PInv => SortedByDeps /\ IndirectOrder
  <2> SUFFICES ASSUME PInv PROVE SortedByDeps /\ IndirectOrder  BY Zenon
  <2>1. Sorting  BY Zenon DEF PInv
  <2>2. CASE step = "sort"
    <3>1. IInv /\ Indirect  BY <2>1, <2>2, Zenon DEF Sorting
    <3>2. SortedByDeps  BY <3>1, Zenon DEF IInv, SortedByDeps
    <3>3. IndirectOrder  BY <3>1, Zenon DEF Indirect
    <3> QED  BY <3>2, <3>3, Zenon
  <2>3. CASE step # "sort"
    <3>1. pc # "done"  BY <2>1, <2>3, Zenon DEF Sorting
    <3> QED  BY <3>1, Zenon DEF SortedByDeps, SameTargets, DependencyOrder, IndirectOrder
  <2> QED  BY <2>2, <2>3, Zenon
<1> QED  BY <1>1, AlwaysPInv, PTL
=============================================================================
