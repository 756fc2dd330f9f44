----------------------------- MODULE HooksProof ------------------------------
(***************************************************************************)
(* Proofs about Hooks: nothing that passes between the library and a       *)
(* command is lost whatever the sizes of the buffers and of the sockets, a *)
(* PreTransaction hook that aborts is the last thing that happens, and the *)
(* hooks that are run are those the documentation calls for.               *)
(***************************************************************************)
EXTENDS Hooks, RunProof, FiniteSetTheorems

(* The inductive invariants.                                                *)

\* What a hook with NeedsTargets is fed while it runs.
HookRuns == stage = "running" /\ when \in {"PRE", "POST"}
Incoming ==
  HookRuns /\ First.hook.needs =>
    /\ fed = TargetLines(Sorted(Due(First.hook))) /\ fed = Passing
    /\ Drained
    /\ ReadsAll(First.hook.cmd[1].prog) => AllRead(fed)

\* Where _klpm_hook_run() is: which hooks it has, which of them are still to be run, and
\* which were.
Called(phase) == {h \in Loaded : h.hook.when = phase /\ matches(h.hook) # {}}
Loops == when \in {"PRE", "POST"} /\ stage \in {"next", "running"}
Phase ==
  /\ w \in Worlds
  /\ when \in {"CHECK", "PRE", "COMMIT", "POST", "END"} /\ stage \in {"load", "match", "next", "running"}
  /\ ran \in Seq(Range(ran)) /\ ret \in {-1, 0} /\ committed \in BOOLEAN
  /\ committed <=> when = "POST" \/ (when = "END" /\ committed)
  /\ stage = "match" => when \in {"PRE", "POST"}
  /\ when \in {"PRE", "POST"} /\ stage # "load" =>
       /\ hooks = IF LoadFails /\ when = "PRE" THEN {} ELSE Loaded
       /\ LoadFails /\ when = "PRE" => ret # 0
  /\ stage = "match" => (ret # 0 <=> LoadFails)
  /\ \A k \in DOMAIN ran :
       \/ ran[k].when = "PRE" /\ (when \in {"COMMIT", "POST", "END"} \/ (when = "PRE" /\ Loops))
       \/ ran[k].when = "POST" /\ (when = "END" \/ (when = "POST" /\ Loops))
Remaining ==
  Loops =>
    /\ queue \in Seq(Seq(Chars)) /\ (stage = "running" => queue # <<>>)
    /\ \A k \in DOMAIN queue : \E h \in Called(when) : h.name = queue[k] /\ h \in hooks
    /\ \A j, k \in DOMAIN queue : j < k => strcmp(queue[j], queue[k]) < 0
    /\ \A j \in DOMAIN ran : ran[j].when = when =>
         /\ \A k \in DOMAIN queue : strcmp(ran[j].name, queue[k]) < 0
         /\ \E h \in Called(when) : ran[j].name = h.name /\ ran[j].dir = h.dir
    /\ (when = "PRE" => ret = 0) =>
         \A h \in Called(when) : h.name \in Range(queue) \/ <<h.name, h.dir>> \in Ran(when)

\* How a run of a hook that aborts ends.
Aborts(r) == r.when = "PRE" /\ r.abort /\ r.end # "ok" /\ w.root
Aborting ==
  /\ HookRuns => parent # "idle" \/ retval = Status
  /\ \A k \in DOMAIN ran :
       /\ Aborts(ran[k]) =>
            /\ k = Len(ran) /\ ~committed
            /\ when = "END" \/ (when = "PRE" /\ stage = "next" /\ queue = <<>> /\ ret # 0)
       /\ ran[k].when = "POST" => committed

\* What the library's steps keep, and everything.
Course == Phase /\ Remaining /\ Aborting /\ HooksAsDocumented
HInv == Typed /\ Outgoing /\ Incoming /\ Course

-----------------------------------------------------------------------------
(* Names.                                                                   *)

\* The last of a finite set of strings.
Last(S, x) == x \in S /\ \A y \in S : y = x \/ strcmp(y, x) < 0

\* A finite set of names that is not empty has a last one, by strcmp().
LEMMA LastExists ==
  ASSUME NEW S, IsFiniteSet(S), S \subseteq Seq(Chars), S # {}
  PROVE  \E x \in S : Last(S, x)
<1> DEFINE Lacks(T) == IsFiniteSet(T) /\ T \subseteq Seq(Chars) /\ T # {} /\ ~\E x \in T : Last(T, x)
           Bad == {n \in Nat : \E T : Lacks(T) /\ Cardinality(T) = n}
<1>1. Bad = {}
  <2> SUFFICES ASSUME Bad # {} PROVE FALSE  BY Zenon
  <2>1. PICK n \in Bad : \A y \in Bad : n <= y
    <3>1. Bad \subseteq Nat  BY Zenon
    <3> HIDE DEF Bad
    <3> QED  BY <3>1, LeastOf, Zenon
  <2>2. PICK T : Lacks(T) /\ Cardinality(T) = n  BY Zenon
  <2>3. PICK a \in T : TRUE  BY <2>2, Zenon
  <2> DEFINE U == T \ {a}
  <2>4. IsFiniteSet(U) /\ Cardinality(U) = n - 1 /\ n \in Nat /\ U \subseteq Seq(Chars) /\ T = U \cup {a} /\ a \in Seq(Chars)
    <3>1. IsFiniteSet(T)  BY <2>2, Zenon
    <3>2. IsFiniteSet(T \ {a}) /\ Cardinality(T \ {a}) = IF a \in T THEN Cardinality(T) - 1 ELSE Cardinality(T)
      BY <3>1, FS_RemoveElement, Zenon
    <3> QED  BY <2>2, <2>3, <3>2, Zenon
  <2> HIDE DEF U
  <2>5. CASE U = {}
    <3>1. T = {a}  BY <2>4, <2>5, Zenon
    <3>2. Last(T, a)  BY <3>1, Zenon DEF Last
    <3> QED  BY <2>2, <2>3, <3>2, Zenon
  <2>6. CASE U # {}
    <3>1. ~Lacks(U)
      <4> SUFFICES ASSUME Lacks(U) PROVE FALSE  BY Zenon
      <4>1. n - 1 \in Nat
        <5>1. Cardinality(U) \in Nat  BY <2>4, FS_CardinalityType, Zenon
        <5> QED  BY <2>4, <5>1, Zenon
      <4>2. n - 1 \in Bad
        <5> HIDE DEF Lacks
        <5> QED  BY <2>4, <4>1, Zenon
      <4>3. ~(n <= n - 1)  BY <2>4
      <4> HIDE DEF Bad
      <4> QED  BY <2>1, <4>2, <4>3, Zenon
    <3>2. PICK x \in U : Last(U, x)  BY <2>4, <2>6, <3>1, Zenon
    <3>3. x \in Seq(Chars) /\ a \in Seq(Chars) /\ x # a /\ \A y \in U : y = x \/ strcmp(y, x) < 0
      BY <2>4, <3>2, Zenon DEF Last, U
    <3>4. CASE strcmp(a, x) < 0
      <4>1. Last(T, x)  BY <2>4, <3>2, <3>3, <3>4, Zenon DEF Last
      <4> QED  BY <2>2, <2>4, <3>2, <4>1, Zenon
    <3>5. CASE strcmp(x, a) < 0
      <4>1. \A y \in U : strcmp(y, a) < 0
        <5> SUFFICES ASSUME NEW y \in U PROVE strcmp(y, a) < 0  BY Zenon
        <5>1. y \in Seq(Chars)  BY <2>4, Zenon
        <5> QED  BY <3>3, <3>5, <5>1, StrcmpOrders, Zenon
      <4>2. Last(T, a)  BY <2>3, <2>4, <4>1, Zenon DEF Last
      <4> QED  BY <2>2, <2>3, <4>2, Zenon
    <3> QED  BY <3>3, <3>4, <3>5, StrcmpOrders, Zenon
  <2> QED  BY <2>5, <2>6, Zenon
<1>2. Cardinality(S) \in Nat  BY FS_CardinalityType, Zenon
<1>3. ~Lacks(S)
  <2> HIDE DEF Lacks
  <2> QED  BY <1>1, <1>2, Zenon
<1> QED  BY <1>3, Zenon

\* A finite set of strings has a sorted list, that has all of them.
IsSorted(s, n) == \A j, k \in 1..n : j < k => strcmp(s[j], s[k]) < 0

\* The names of a finite set can be put in order, each once.
LEMMA SortedExists ==
  ASSUME NEW S, IsFiniteSet(S), S \subseteq Seq(Chars)
  PROVE  \E s \in [1..Cardinality(S) -> S] : IsSorted(s, Cardinality(S))
<1> DEFINE Lacks(T) == /\ IsFiniteSet(T) /\ T \subseteq Seq(Chars)
                       /\ ~\E s \in [1..Cardinality(T) -> T] : IsSorted(s, Cardinality(T))
           Bad == {n \in Nat : \E T : Lacks(T) /\ Cardinality(T) = n}
<1>1. Bad = {}
  <2> SUFFICES ASSUME Bad # {} PROVE FALSE  BY Zenon
  <2>1. PICK n \in Bad : \A y \in Bad : n <= y
    <3>1. Bad \subseteq Nat  BY Zenon
    <3> HIDE DEF Bad
    <3> QED  BY <3>1, LeastOf, Zenon
  <2>2. PICK T : Lacks(T) /\ Cardinality(T) = n  BY Zenon
  <2>n. n \in Nat  BY Zenon
  <2>3. T # {}
    <3> SUFFICES ASSUME T = {} PROVE FALSE  BY Zenon
    <3> DEFINE s == [k \in 1..0 |-> <<>>]
    <3>1. Cardinality(T) = 0  BY FS_EmptySet, Zenon
    <3>2. 1..0 = {}  OBVIOUS
    <3>3. s \in [1..0 -> T] /\ IsSorted(s, 0)  BY <3>2, Zenon DEF IsSorted
    <3> HIDE DEF s
    <3> QED  BY <2>2, <3>1, <3>3, Zenon
  <2>4. PICK a \in T : Last(T, a)  BY <2>2, <2>3, LastExists, Zenon
  <2> DEFINE U == T \ {a}
  <2>5. IsFiniteSet(U) /\ Cardinality(U) = n - 1 /\ U \subseteq Seq(Chars) /\ U \subseteq T
    <3>1. IsFiniteSet(T)  BY <2>2, Zenon
    <3>2. IsFiniteSet(T \ {a}) /\ Cardinality(T \ {a}) = IF a \in T THEN Cardinality(T) - 1 ELSE Cardinality(T)
      BY <3>1, FS_RemoveElement, Zenon
    <3> QED  BY <2>2, <2>4, <3>2, Zenon
  <2>6. \A y \in U : strcmp(y, a) < 0  BY <2>4, Zenon DEF Last
  <2> HIDE DEF U
  <2>7. n - 1 \in Nat
    <3>1. Cardinality(U) \in Nat  BY <2>5, FS_CardinalityType, Zenon
    <3> QED  BY <2>5, <3>1, Zenon
  <2>8. ~Lacks(U)
    <3> SUFFICES ASSUME Lacks(U) PROVE FALSE  BY Zenon
    <3>1. n - 1 \in Bad
      <4> HIDE DEF Lacks
      <4> QED  BY <2>5, <2>7, Zenon
    <3>2. ~(n <= n - 1)  BY <2>n
    <3> HIDE DEF Bad
    <3> QED  BY <2>1, <3>1, <3>2, Zenon
  <2>9. PICK r \in [1..(n - 1) -> U] : IsSorted(r, n - 1)  BY <2>5, <2>8, Zenon
  <2> DEFINE s == [k \in 1..n |-> IF k = n THEN a ELSE r[k]]
  <2>10. \A k \in 1..n : k = n \/ k \in 1..(n - 1)  BY <2>n
  <2>11. s \in [1..n -> T]  BY <2>4, <2>5, <2>9, <2>10, Zenon
  <2>12. IsSorted(s, n)
    <3> SUFFICES ASSUME NEW j \in 1..n, NEW k \in 1..n, j < k PROVE strcmp(s[j], s[k]) < 0
      BY Zenon DEF IsSorted
    <3>1. j \in 1..(n - 1) /\ j # n  BY <2>n
    <3>2. s[j] = r[j] /\ r[j] \in U  BY <2>9, <3>1, Zenon
    <3>3. CASE k = n
      <4>1. s[k] = a  BY <3>3, Zenon
      <4> QED  BY <2>6, <3>2, <4>1, Zenon
    <3>4. CASE k # n
      <4>1. k \in 1..(n - 1) /\ s[k] = r[k]  BY <2>10, <3>4, Zenon
      <4> QED  BY <2>9, <3>1, <3>2, <4>1, Zenon DEF IsSorted
    <3> QED  BY <3>3, <3>4, Zenon
  <2> HIDE DEF s
  <2> QED  BY <2>2, <2>11, <2>12, Zenon
<1>2. Cardinality(S) \in Nat  BY FS_CardinalityType, Zenon
<1>3. ~Lacks(S)
  <2> HIDE DEF Lacks
  <2> QED  BY <1>1, <1>2, Zenon
<1> QED  BY <1>3, Zenon

\* Sorted() lists a finite set of strings in order, all of them.
LEMMA SortedIs ==
  ASSUME NEW S, IsFiniteSet(S), S \subseteq Seq(Chars)
  PROVE  /\ Sorted(S) \in Seq(S) /\ Sorted(S) \in Seq(Seq(Chars)) /\ Range(Sorted(S)) = S
         /\ \A j, k \in DOMAIN Sorted(S) : j < k => strcmp(Sorted(S)[j], Sorted(S)[k]) < 0
<1> DEFINE n == Cardinality(S)
           s == Sorted(S)
<1>1. n \in Nat  BY FS_CardinalityType, Zenon
<1>2. \E t \in [1..n -> S] : \A j, k \in 1..n : j < k => strcmp(t[j], t[k]) < 0  BY SortedExists, Zenon DEF IsSorted
<1>3. s \in [1..n -> S] /\ \A j, k \in 1..n : j < k => strcmp(s[j], s[k]) < 0  BY <1>2, Zenon DEF Sorted
<1> HIDE DEF s, n
<1>4. s \in Injection(1..n, S)
  <2>1. \A j, k \in 1..n : s[j] = s[k] => j = k
    <3> SUFFICES ASSUME NEW j \in 1..n, NEW k \in 1..n, s[j] = s[k], j # k PROVE FALSE  BY Zenon
    <3>1. s[j] \in Seq(Chars) /\ s[k] \in Seq(Chars)  BY <1>3, Zenon
    <3>2. j < k \/ k < j  BY <1>1
    <3>3. strcmp(s[j], s[k]) < 0 \/ strcmp(s[k], s[j]) < 0  BY <1>3, <3>2, Zenon
    <3> QED  BY <3>1, <3>3, StrcmpOrders, Zenon
  <2> QED  BY <1>3, <2>1, Zenon DEF Injection, IsInjective
<1>5. Cardinality(1..n) = n  BY <1>1, FS_Interval
<1>6. s \in Surjection(1..n, S)
  <2>1. Cardinality(1..n) = Cardinality(S)  BY <1>5, Zenon DEF n
  <2> QED  BY <1>4, <2>1, FS_Injection, Zenon
<1>7. Range(s) = S
  <2>1. DOMAIN s = 1..n  BY <1>3, Zenon
  <2>2. Range(s) \subseteq S  BY <1>3, <2>1, Zenon DEF Range
  <2>3. S \subseteq Range(s)  BY <1>6, <2>1, Zenon DEF Range, Surjection
  <2> QED  BY <2>2, <2>3, Zenon
<1>8. s \in Seq(S) /\ DOMAIN s = 1..n  BY <1>1, <1>3
<1>9. s \in Seq(Seq(Chars))  BY <1>8
<1> QED  BY <1>3, <1>7, <1>8, <1>9, Zenon DEF s

-----------------------------------------------------------------------------
(* Hooks.                                                                   *)

\* What _klpm_hook_trigger_match_file() and _klpm_hook_trigger_match_pkg() find is what the
\* documentation says of a trigger.
LEMMA FilesDue ==
  ASSUME NEW t, t.type # "Package"
  PROVE  match_file(t) = DueTo(t)
<1> DEFINE I == (UNION {p.files : p \in Range(w.add)}) \ w.noextract
           R == (UNION {p.oldfiles : p \in Range(w.add)}) \cup (UNION {p.files : p \in w.remove})
<1>1. After(t.type) = I
  <2>1. After(t.type) = UNION {p.files \ w.noextract : p \in Range(w.add)}  BY Zenon DEF After
  <2> DEFINE J == UNION {p.files \ w.noextract : p \in Range(w.add)}
  <2>2. \A n : n \in J <=> \E p \in Range(w.add) : n \in p.files /\ n \notin w.noextract  OBVIOUS
  <2>3. \A n : n \in I <=> n \notin w.noextract /\ \E p \in Range(w.add) : n \in p.files  BY Zenon
  <2>4. J = I
    <3> HIDE DEF I, J
    <3> QED  BY <2>2, <2>3, Zenon
  <2> HIDE DEF I
  <2> QED  BY <2>1, <2>4, Zenon
<1>2. Before(t.type) = R
  <2>1. Before(t.type) = (UNION {p.files : p \in w.remove}) \cup (UNION {p.oldfiles : p \in Range(w.add)})  BY Zenon DEF Before
  <2> QED  BY <2>1, Zenon
<1>3. match_file(t) = (IF "Install" \in t.ops THEN (I \cap t.targets) \ (R \cap t.targets) ELSE {})
                        \cup (IF "Upgrade" \in t.ops THEN (I \cap t.targets) \cap (R \cap t.targets) ELSE {})
                        \cup (IF "Remove" \in t.ops THEN (R \cap t.targets) \ (I \cap t.targets) ELSE {})
  BY Zenon DEF match_file
<1> HIDE DEF I, R
<1>4. \A n : n \in match_file(t) <=> n \in DueTo(t)  BY <1>1, <1>2, <1>3, Zenon DEF DueTo
<1> QED  BY <1>4, Zenon

\* The packages a trigger matches are those the documentation says it matches
\* (_klpm_hook_trigger_match_pkg()).
LEMMA PackagesDue ==
  ASSUME NEW t, t.type = "Package", w \in Worlds
  PROVE  match_pkg(t) = DueTo(t)
<1> DEFINE A == {p.name : p \in Range(w.add)}
           B == {p.name : p \in w.remove \cup {q \in Range(w.add) : q.isold}}
           Add == {p.name : p \in {q \in Range(w.add) : q.isold = FALSE /\ "Install" \in t.ops}}
           Upgrade == {p.name : p \in {q \in Range(w.add) : q.isold /\ "Upgrade" \in t.ops}}
           Remove == IF "Remove" \in t.ops THEN {p.name : p \in w.remove} \ A ELSE {}
<1>1. After(t.type) = A /\ Before(t.type) = B  BY Zenon DEF After, Before
<1>2. match_pkg(t) = (Add \cup Upgrade \cup Remove) \cap t.targets  BY Zenon DEF match_pkg
<1>3. \A p \in Range(w.add) : /\ p.isold \in BOOLEAN
                              /\ \A q \in Range(w.add) : q.name = p.name => q = p
                              /\ \A q \in w.remove : q.name = p.name => p.isold
  BY WorldsAssumption, Zenon
<1>4. Add = IF "Install" \in t.ops THEN A \ B ELSE {}
  <2>1. \A n : n \in Add => "Install" \in t.ops /\ n \in A /\ n \notin B  BY <1>3, Zenon
  <2>2. \A n : "Install" \in t.ops /\ n \in A /\ n \notin B => n \in Add  BY <1>3, Zenon
  <2> HIDE DEF Add, A, B
  <2> QED  BY <2>1, <2>2, Zenon
<1>5. Upgrade = IF "Upgrade" \in t.ops THEN A \cap B ELSE {}
  <2>1. \A n : n \in Upgrade => "Upgrade" \in t.ops /\ n \in A /\ n \in B  BY <1>3, Zenon
  <2>2. \A n : "Upgrade" \in t.ops /\ n \in A /\ n \in B => n \in Upgrade  BY <1>3, Zenon
  <2> HIDE DEF Upgrade, A, B
  <2> QED  BY <2>1, <2>2, Zenon
<1>6. Remove = IF "Remove" \in t.ops THEN B \ A ELSE {}
  <2>1. \A n : n \in {p.name : p \in w.remove} \ A => n \in B \ A  BY Zenon
  <2>2. \A n : n \in B \ A => n \in {p.name : p \in w.remove} \ A  BY Zenon
  <2>3. {p.name : p \in w.remove} \ A = B \ A
    <3> HIDE DEF A, B
    <3> QED  BY <2>1, <2>2, Zenon
  <2> QED  BY <2>3, Zenon
<1> HIDE DEF A, B, Add, Upgrade, Remove
<1>7. \A n : n \in match_pkg(t) <=> n \in DueTo(t)  BY <1>1, <1>2, <1>4, <1>5, <1>6, Zenon DEF DueTo
<1> QED  BY <1>7, Zenon

\* What a hook matches is what is due to it (_klpm_hook_triggered()).
LEMMA DueMatches ==
  ASSUME NEW h, w \in Worlds
  PROVE  matches(h) = Due(h)
<1>1. \A t : trigger_match(t) = DueTo(t)
  <2> TAKE t
  <2>1. CASE t.type = "Package"  BY <2>1, PackagesDue, Zenon DEF trigger_match
  <2>2. CASE t.type # "Package"  BY <2>2, FilesDue, Zenon DEF trigger_match
  <2> QED  BY <2>1, <2>2, Zenon
<1> QED  BY <1>1, Zenon DEF matches, Due

\* What triggers match are names and paths of the packages: a finite set of strings.
LEMMA MatchesGiven ==
  ASSUME NEW h, w \in Worlds
  PROVE  IsFiniteSet(matches(h)) /\ matches(h) \subseteq Seq(Chars)
<1>1. \A t : match_file(t) \subseteq Given(w)
  <2> SUFFICES ASSUME NEW t, NEW n \in match_file(t) PROVE n \in Given(w)  BY Zenon
  <2> DEFINE I == UNION {p.files : p \in Range(w.add)}
             O == UNION {p.oldfiles : p \in Range(w.add)}
             R == UNION {p.files : p \in w.remove}
  <2>1. n \in I \/ n \in O \/ n \in R
    <3>1. match_file(t) = (IF "Install" \in t.ops THEN ((I \ w.noextract) \cap t.targets) \ ((O \cup R) \cap t.targets) ELSE {})
            \cup (IF "Upgrade" \in t.ops THEN ((I \ w.noextract) \cap t.targets) \cap ((O \cup R) \cap t.targets) ELSE {})
            \cup (IF "Remove" \in t.ops THEN ((O \cup R) \cap t.targets) \ ((I \ w.noextract) \cap t.targets) ELSE {})
      BY Zenon DEF match_file
    <3> HIDE DEF I, O, R
    <3> QED  BY <3>1, Zenon
  <2> QED  BY <2>1 DEF Given
<1>2. \A t : match_pkg(t) \subseteq Given(w)
  <2> SUFFICES ASSUME NEW t, NEW n \in match_pkg(t) PROVE n \in Given(w)  OBVIOUS
  <2>1. \E p \in Range(w.add) \cup w.remove : n = p.name  BY Zenon DEF match_pkg
  <2> QED  BY <2>1 DEF Given
<1>3. \A t : trigger_match(t) \subseteq Given(w)  BY <1>1, <1>2, Zenon DEF trigger_match
<1>4. matches(h) \subseteq Given(w)  BY <1>3, Zenon DEF matches
<1>5. Given(w) \subseteq Seq(Chars) /\ IsFiniteSet(Given(w))  BY WorldsAssumption, Zenon
<1> QED  BY <1>4, <1>5, FS_Subset, Zenon

\* The highest of some directories.
LEMMA HighestIs ==
  ASSUME NEW N \in Nat, NEW D, D \subseteq 1..N, D # {}
  PROVE  Highest(D) \in D /\ \A e \in D : e <= Highest(D)
<1> DEFINE T == {k \in Nat : \E d \in D : k = N - d}
<1>1. T \subseteq Nat /\ T # {}
  <2>1. PICK d \in D : d \in 1..N  BY Zenon
  <2>2. N - d \in T  BY <2>1
  <2> QED  BY <2>2, Zenon
<1>2. PICK k \in T : \A y \in T : k <= y
  <2> HIDE DEF T
  <2> QED  BY <1>1, LeastOf, Zenon
<1>3. PICK d \in D : k = N - d  BY Zenon
<1>4. \A e \in D : e <= d
  <2> TAKE e \in D
  <2>1. e \in 1..N /\ d \in 1..N  BY Zenon
  <2>2. N - e \in T  BY <2>1
  <2>3. k <= N - e  BY <1>2, <2>2, Zenon
  <2> QED  BY <1>3, <2>1, <2>3
<1> QED  BY <1>4, Zenon DEF Highest

\* What the loop over the directories makes of an entry.
LEMMA EntryIs ==
  ASSUME NEW f
  PROVE  /\ Entry(f) \in {"error", "skipped", "hook"}
         /\ Entry(f) = "skipped" <=> f.stat = "dir"
         /\ Entry(f) = "hook" => hook_validate(Parsed(f))
BY Zenon DEF Entry

\* A directory of DirOf.
LEMMA DirOfIs ==
  ASSUME w \in Worlds, NEW n, NEW K
  PROVE  /\ DirOf(n, K) \subseteq 1..Len(w.dirs) /\ Len(w.dirs) \in Nat /\ DOMAIN w.dirs = 1..Len(w.dirs)
         /\ \A d \in DirOf(n, K) : /\ n \in Readdir(d) /\ n \in DOMAIN w.dirs[d].files
                                   /\ n \in HookFiles(w) /\ Entry(w.dirs[d].files[n]) \in K
<1>1. w.dirs \in Seq(Range(w.dirs))  BY WorldsAssumption, Zenon
<1>2. Len(w.dirs) \in Nat /\ DOMAIN w.dirs = 1..Len(w.dirs)  BY <1>1
<1>3. \A d \in DirOf(n, K) : d \in DOMAIN w.dirs /\ n \in Readdir(d) /\ Entry(w.dirs[d].files[n]) \in K  BY Zenon DEF DirOf
<1>4. \A d \in DirOf(n, K) : n \in DOMAIN w.dirs[d].files  BY <1>3, Zenon DEF Readdir
<1>5. \A d \in DirOf(n, K) : n \in HookFiles(w)  BY <1>3, <1>4, Zenon DEF HookFiles
<1> QED  BY <1>2, <1>3, <1>4, <1>5, Zenon

\* The hooks that are kept: one of a name, from the highest directory where it loads.
LEMMA LoadedIs ==
  ASSUME w \in Worlds, NEW h \in Loaded
  PROVE  /\ h = Found(h.name, h.dir) /\ h.name \in Names /\ h.name \in Seq(Chars) /\ h.name \in HookFiles(w)
         /\ h.dir \in DirOf(h.name, {"hook"}) /\ \A e \in DirOf(h.name, {"hook"}) : e <= h.dir
         /\ h.dir = Prefer(DirOf(h.name, {"hook"}))
<1>1. PICK n \in Names : DirOf(n, {"hook"}) # {} /\ h = Found(n, Prefer(DirOf(n, {"hook"})))  BY Zenon DEF Loaded
<1>2. h.name = n /\ h.dir = Prefer(DirOf(n, {"hook"}))  BY <1>1, Zenon DEF Found
<1> DEFINE D == DirOf(n, {"hook"})
<1>3. D \subseteq 1..Len(w.dirs) /\ Len(w.dirs) \in Nat /\ \A d \in D : n \in HookFiles(w)  BY DirOfIs, Zenon
<1>4. D # {} /\ Highest(D) = h.dir  BY <1>1, <1>2, Zenon DEF Prefer
<1> HIDE DEF D
<1>5. h.dir \in D /\ \A e \in D : e <= h.dir  BY <1>3, <1>4, HighestIs, Zenon
<1>6. n \in HookFiles(w) /\ HookFiles(w) \subseteq Seq(Chars)  BY <1>3, <1>5, WorldsAssumption, Zenon
<1> QED  BY <1>1, <1>2, <1>5, <1>6, Zenon DEF D

\* Of the hooks loaded only one has a given name: a file of a later directory replaces
\* the one loaded before (load_hooks of _klpm_hook_run()).
LEMMA OneOfAName ==
  ASSUME w \in Worlds, NEW g \in Loaded, NEW h \in Loaded, g.name = h.name
  PROVE  g = h
<1>1. g = Found(g.name, g.dir) /\ g.dir = Prefer(DirOf(g.name, {"hook"}))  BY LoadedIs, Zenon
<1>2. h = Found(h.name, h.dir) /\ h.dir = Prefer(DirOf(h.name, {"hook"}))  BY LoadedIs, Zenon
<1> QED  BY <1>1, <1>2, Zenon

\* The names of hooks can be sorted.
LEMMA NamesSorted ==
  ASSUME w \in Worlds, NEW H, H \subseteq Loaded
  PROVE  IsFiniteSet({h.name : h \in H}) /\ {h.name : h \in H} \subseteq Seq(Chars)
<1> DEFINE S == {h.name : h \in H}
<1>1. \A s \in S : s \in HookFiles(w)  BY LoadedIs, Zenon
<1>2. IsFiniteSet(HookFiles(w)) /\ HookFiles(w) \subseteq Seq(Chars)  BY WorldsAssumption, Zenon
<1> HIDE DEF S
<1>3. IsFiniteSet(S) /\ S \subseteq Seq(Chars)  BY <1>1, <1>2, FS_Subset, Zenon
<1> QED  BY <1>3, Zenon DEF S

\* A hook that is triggered has a command.
LEMMA CalledRuns ==
  ASSUME w \in Worlds, NEW phase, NEW h \in Called(phase)
  PROVE  h.hook.cmd[1].prog \in Seq(STRING)
<1>1. h \in Loaded /\ matches(h.hook) # {}  BY Zenon DEF Called
<1>2. h = Found(h.name, h.dir) /\ h.dir \in DirOf(h.name, {"hook"})  BY <1>1, LoadedIs, Zenon
<1> DEFINE f == w.dirs[h.dir].files[h.name]
<1>3. h.hook = Parsed(f)  BY <1>2 DEF Found
<1>4. Entry(f) = "hook" /\ h.dir \in DOMAIN w.dirs /\ h.name \in DOMAIN w.dirs[h.dir].files
  BY <1>2, DirOfIs
<1>5. hook_validate(Parsed(f))  BY <1>4, EntryIs, Zenon
<1>6. Parsed(f).triggers # <<>>
  <2> SUFFICES ASSUME Parsed(f).triggers = <<>> PROVE FALSE  BY Zenon
  <2>1. DOMAIN h.hook.triggers = {}  BY <1>3
  <2> QED  BY <1>1, <2>1, Zenon DEF matches
<1>7. Parsed(f).cmd # <<>>  BY <1>5, <1>6, Zenon DEF hook_validate
<1>8. Parsed(f).cmd[1].prog \in Seq(STRING)  BY <1>4, <1>7, WorldsAssumption, Zenon
<1> QED  BY <1>3, <1>8, Zenon

\* If all the files could be loaded, the hooks kept that are triggered are those the
\* documentation calls for.
LEMMA CalledAsDocumented ==
  ASSUME w \in Worlds, ~LoadFails, NEW phase
  PROVE  {<<h.name, h.dir>> : h \in Called(phase)} = CalledFor(phase)
<1> DEFINE E(n) == {d \in DOMAIN w.dirs : n \in Readdir(d) /\ w.dirs[d].files[n].stat # "dir"}
           X == {<<h.name, h.dir>> : h \in Called(phase)}
<1>d. DOMAIN w.dirs = 1..Len(w.dirs) /\ Len(w.dirs) \in Nat  BY DirOfIs, Zenon
<1>1. \A n, d : d \in E(n) <=> d \in DirOf(n, {"hook"}) \/ d \in DirOf(n, {"error"})
  BY EntryIs, Zenon DEF DirOf
<1>2. \A n, d : ~(d \in DirOf(n, {"hook"}) /\ d \in DirOf(n, {"error"}))
  BY Zenon DEF DirOf
<1>3. \A n \in Names : \A d \in DirOf(n, {"error"}) : \E e \in DirOf(n, {"hook"}) : d < e
  <2> SUFFICES ASSUME NEW n \in Names, NEW d \in DirOf(n, {"error"})
               PROVE  \E e \in DirOf(n, {"hook"}) : d < e
    BY Zenon
  <2>1. PICK e \in DirOf(n, {"hook"}) : ~(e < d)  BY Zenon DEF LoadFails
  <2>2. e # d  BY <1>2, Zenon
  <2>3. e \in 1..Len(w.dirs) /\ d \in 1..Len(w.dirs) /\ Len(w.dirs) \in Nat  BY DirOfIs, Zenon
  <2> QED  BY <2>1, <2>2, <2>3
<1>4. \A n : E(n) \subseteq 1..Len(w.dirs)  BY <1>d, Zenon
<1>5. \A n : Effective(n) = Highest(E(n))  BY Zenon DEF Effective
<1>6. \A n \in Names : E(n) # {} => Effective(n) \in E(n) /\ \A e \in E(n) : e <= Effective(n)
  <2> HIDE DEF E
  <2> QED  BY <1>d, <1>4, <1>5, HighestIs, Zenon
<1> HIDE DEF E
<1>7. \A n \in Names : E(n) # {} =>
        /\ Effective(n) \in DirOf(n, {"hook"}) /\ \A e \in DirOf(n, {"hook"}) : e <= Effective(n)
  <2> SUFFICES ASSUME NEW n \in Names, E(n) # {}
               PROVE  Effective(n) \in DirOf(n, {"hook"}) /\ \A e \in DirOf(n, {"hook"}) : e <= Effective(n)
    BY Zenon
  <2>1. Effective(n) \in E(n) /\ \A e \in E(n) : e <= Effective(n)  BY <1>6, Zenon
  <2>2. \A e \in DirOf(n, {"hook"}) : e <= Effective(n)  BY <1>1, <2>1, Zenon
  <2>3. Effective(n) \notin DirOf(n, {"error"})
    <3> SUFFICES ASSUME Effective(n) \in DirOf(n, {"error"}) PROVE FALSE  BY Zenon
    <3>1. PICK e \in DirOf(n, {"hook"}) : Effective(n) < e  BY <1>3, Zenon
    <3>2. e <= Effective(n) /\ e \in Nat /\ Effective(n) \in Nat  BY <1>4, <2>1, <2>2, <1>1
    <3> QED  BY <3>1, <3>2
  <2> QED  BY <1>1, <2>1, <2>2, <2>3, Zenon
<1>8. ASSUME NEW h \in Loaded PROVE h.dir = Effective(h.name) /\ h.dir \in E(h.name)
  <2>1. h.name \in Names /\ h.dir \in DirOf(h.name, {"hook"}) /\ \A e \in DirOf(h.name, {"hook"}) : e <= h.dir
    BY LoadedIs, Zenon
  <2>2. h.dir \in E(h.name)  BY <1>1, <2>1, Zenon
  <2>3. Effective(h.name) \in DirOf(h.name, {"hook"}) /\ h.dir <= Effective(h.name)  BY <1>7, <2>1, <2>2, Zenon
  <2>4. Effective(h.name) <= h.dir  BY <2>1, <2>3, Zenon
  <2>5. Effective(h.name) \in Nat /\ h.dir \in Nat  BY <2>1, <2>3, DirOfIs
  <2> QED  BY <2>2, <2>3, <2>4, <2>5
<1>9. X \subseteq CalledFor(phase)
  <2> SUFFICES ASSUME NEW h \in Called(phase) PROVE <<h.name, h.dir>> \in CalledFor(phase)  BY Zenon
  <2>1. h \in Loaded /\ h.hook.when = phase /\ Due(h.hook) # {}  BY DueMatches, Zenon DEF Called
  <2>2. h.dir = Effective(h.name) /\ h.dir \in E(h.name) /\ h = Found(h.name, h.dir) /\ h.name \in Names
    BY <1>8, <2>1, LoadedIs, Zenon
  <2>3. h.hook = Parsed(w.dirs[h.dir].files[h.name])  BY <2>2 DEF Found
  <2>4. h.dir \in DOMAIN w.dirs /\ h.name \in Readdir(h.dir) /\ w.dirs[h.dir].files[h.name].stat # "dir"
    BY <2>2, Zenon DEF E
  <2> QED  BY <2>1, <2>2, <2>3, <2>4, Zenon DEF CalledFor
<1>10. CalledFor(phase) \subseteq X
  <2> SUFFICES ASSUME NEW x \in CalledFor(phase) PROVE x \in X  BY Zenon
  <2>1. PICK n \in Names : /\ x = <<n, Effective(n)>>
                           /\ \E d \in DOMAIN w.dirs :
                                /\ n \in Readdir(d) /\ w.dirs[d].files[n].stat # "dir" /\ d = Effective(n)
                                /\ Parsed(w.dirs[d].files[n]).when = phase /\ Due(Parsed(w.dirs[d].files[n])) # {}
    BY Zenon DEF CalledFor
  <2> DEFINE d == Effective(n)
             h == Found(n, d)
  <2>2. d \in E(n) /\ Parsed(w.dirs[d].files[n]).when = phase /\ Due(Parsed(w.dirs[d].files[n])) # {}
    BY <2>1, Zenon DEF E
  <2>3. d \in DirOf(n, {"hook"}) /\ \A e \in DirOf(n, {"hook"}) : e <= d  BY <1>7, <2>2, Zenon
  <2>4. Prefer(DirOf(n, {"hook"})) = d
    <3> DEFINE D == DirOf(n, {"hook"})
    <3>1. D \subseteq 1..Len(w.dirs) /\ D # {}  BY <2>3, DirOfIs, Zenon
    <3>2. d \in D /\ \A e \in D : e <= d  BY <2>3, Zenon
    <3> HIDE DEF D, d
    <3>3. Highest(D) \in D /\ \A e \in D : e <= Highest(D)  BY <1>d, <3>1, HighestIs, Zenon
    <3>4. Highest(D) = d
      <4>1. Highest(D) \in 1..Len(w.dirs) /\ d \in 1..Len(w.dirs)  BY <3>1, <3>2, <3>3, Zenon
      <4>2. Highest(D) <= d /\ d <= Highest(D)  BY <3>2, <3>3, Zenon
      <4> QED  BY <1>d, <4>1, <4>2
    <3> QED  BY <3>4, Zenon DEF Prefer, D
  <2> HIDE DEF d
  <2>5. h \in Loaded  BY <2>3, <2>4, Zenon DEF Loaded
  <2>6. h.name = n /\ h.dir = d /\ h.hook = Parsed(w.dirs[d].files[n])  BY Zenon DEF Found
  <2> HIDE DEF h
  <2>7. h \in Called(phase)
    <3>1. matches(h.hook) = Due(h.hook)  BY DueMatches, Zenon
    <3> QED  BY <2>2, <2>5, <2>6, <3>1, Zenon DEF Called
  <2> QED  BY <2>1, <2>6, <2>7, Zenon DEF d
<1> QED  BY <1>9, <1>10, Zenon

-----------------------------------------------------------------------------
(* The library.                                                             *)

\* The world stays what it is, and with it everything that is said of it.
LEMMA WorldStays ==
  ASSUME w' = w
  PROVE  /\ Loaded' = Loaded /\ (LoadFails' <=> LoadFails)
         /\ \A h : matches(h)' = matches(h) /\ Due(h)' = Due(h)
         /\ \A phase : Called(phase)' = Called(phase) /\ CalledFor(phase)' = CalledFor(phase)
<1>1. \A d : Readdir(d)' = Readdir(d)  BY Zenon DEF Readdir
<1>2. Names' = Names  BY <1>1, Zenon DEF Names
<1>3. \A n, K : DirOf(n, K)' = DirOf(n, K)  BY <1>1, Zenon DEF DirOf
<1>4. \A n, d : Found(n, d)' = Found(n, d)  BY Zenon DEF Found
<1>5. Loaded' = Loaded  BY <1>2, <1>3, <1>4, Zenon DEF Loaded, Prefer, Highest
<1>6. LoadFails' <=> LoadFails  BY <1>2, <1>3, Zenon DEF LoadFails
<1>7. \A t : trigger_match(t)' = trigger_match(t)  BY Zenon DEF trigger_match, match_pkg, match_file
<1>8. \A h : matches(h)' = matches(h)  BY <1>7, Zenon DEF matches
<1>9. \A t : DueTo(t)' = DueTo(t)  BY DEF DueTo, After, Before
<1>10. \A h : Due(h)' = Due(h)  BY <1>9 DEF Due
<1>11. \A phase : Called(phase)' = Called(phase)  BY <1>5, <1>8, Zenon DEF Called
<1>12. \A n : Effective(n)' = Effective(n)  BY <1>1, Zenon DEF Effective, Highest
<1>13. \A phase : CalledFor(phase)' = CalledFor(phase)  BY <1>1, <1>2, <1>10, <1>12, Zenon DEF CalledFor
<1> QED  BY <1>5, <1>6, <1>8, <1>10, <1>11, <1>13, Zenon

\* The first hook of the queue is one that is called for.
LEMMA FirstIs ==
  ASSUME Phase, Remaining, Loops, queue # <<>>
  PROVE  /\ First \in Called(when) /\ First \in hooks /\ First.name = Head(queue) /\ First.hook.when = when
         /\ queue \in Seq(Seq(Chars)) /\ Head(queue) = queue[1] /\ 1 \in DOMAIN queue
         /\ \A h \in Called(when) : h.name = Head(queue) => h = First
<1>1. queue \in Seq(Seq(Chars))  BY Zenon DEF Remaining
<1>2. 1 \in DOMAIN queue /\ Head(queue) = queue[1]  BY <1>1
<1>3. PICK h \in Called(when) : h.name = queue[1] /\ h \in hooks  BY <1>2, Zenon DEF Remaining
<1>4. First \in hooks /\ First.name = Head(queue)  BY <1>2, <1>3, Zenon DEF First
<1>5. w \in Worlds /\ hooks \subseteq Loaded  BY Zenon DEF Phase, Loops
<1>6. \A g \in Called(when) : g \in Loaded  BY Zenon DEF Called
<1>7. First \in Loaded  BY <1>4, <1>5, Zenon
<1>8. \A g \in Called(when) : g.name = Head(queue) => g = First  BY <1>4, <1>5, <1>6, <1>7, OneOfAName, Zenon
<1>9. First \in Called(when)  BY <1>2, <1>3, <1>8, Zenon
<1> QED  BY <1>1, <1>2, <1>4, <1>8, <1>9, Zenon DEF Called

\* The lines of the targets.
LEMMA TargetLinesAre ==
  ASSUME NEW names \in Seq(Seq(Chars))
  PROVE  TargetLines(names) \in Seq(Bytes)
<1>1. "nl" \in Bytes  BY Zenon DEF Bytes
<1>2. \A k \in DOMAIN names : names[k] \in Seq(Bytes)
  <2>1. Chars \subseteq Bytes  BY Zenon DEF Bytes
  <2> SUFFICES ASSUME NEW k \in DOMAIN names PROVE names[k] \in Seq(Bytes)  BY Zenon
  <2>2. names[k] \in Seq(Chars)  OBVIOUS
  <2> QED  BY <2>1, <2>2, SeqMonotonic, Zenon
<1>3. \A k \in DOMAIN names : Append(names[k], "nl") \in Seq(Bytes)  BY <1>1, <1>2, AppendProperties, Zenon
<1> DEFINE ss == [k \in DOMAIN names |-> Append(names[k], "nl")]
<1>4. ss \in Seq(Seq(Bytes))
  <2>1. PICK n \in Nat : DOMAIN names = 1..n  OBVIOUS
  <2>2. ss \in [1..n -> Seq(Bytes)]  BY <1>3, <2>1, Zenon
  <2> HIDE DEF ss
  <2>3. PICK S : S = Seq(Bytes)  BY Zenon
  <2>4. ss \in [1..n -> S]  BY <2>2, <2>3, Zenon
  <2>5. ss \in Seq(S)  BY <2>4
  <2> QED  BY <2>3, <2>5, Zenon
<1>5. TargetLines(names) = Joined(ss)  BY Zenon DEF TargetLines
<1> HIDE DEF ss
<1>6. <<>> \in Seq(Bytes)  BY EmptySeq, Zenon
<1> QED  BY <1>4, <1>5, <1>6, JoinedAppend, Zenon

\* What a step keeps that runs no hook and leaves the loop over the queue, or does not
\* enter it.
LEMMA QuietStep ==
  ASSUME Course, w' = w, ran' = ran, ~Loops', Phase',
         \A k \in DOMAIN ran : Aborts(ran[k]) => when' = "END" /\ committed' = committed,
         committed => committed',
         when' = "COMMIT" => Ran("PRE") = CalledFor("PRE"),
         when' = "END" /\ committed' /\ ~LoadFails => Ran("POST") = CalledFor("POST")
  PROVE  Course'
<1>1. Remaining'  BY Zenon DEF Remaining
<1>2. ~HookRuns'  BY Zenon DEF HookRuns, Loops
<1>3. Aborting'  BY <1>2, Zenon DEF Course, Aborting, Aborts
<1>4. HooksAsDocumented'
  <2>1. \A phase : Ran(phase)' = Ran(phase)  BY Zenon DEF Ran
  <2>2. (LoadFails' <=> LoadFails) /\ \A phase : CalledFor(phase)' = CalledFor(phase)  BY WorldStays, Zenon
  <2> QED  BY <2>1, <2>2, Zenon DEF Course, HooksAsDocumented
<1> QED  BY <1>1, <1>3, <1>4, Zenon DEF Course

\* download_files() comes before the hooks.
LEMMA DownloadKeeps ==
  ASSUME Course, download
  PROVE  Course'
<1>1. /\ when = "CHECK" /\ stage = "load" /\ UNCHANGED <<w, ran, committed, ret, hooks, queue>>
      /\ (when' = "END" /\ stage' = stage) \/ (when' = when /\ stage' = "next")
  BY Zenon DEF download
<1>2. ~committed /\ \A k \in DOMAIN ran : FALSE  BY <1>1, Zenon DEF Course, Phase
<1>3. ~Loops'  BY <1>1, Zenon DEF Loops
<1>4. Phase'  BY <1>1, <1>2, Zenon DEF Course, Phase
<1> QED  BY <1>1, <1>2, <1>3, <1>4, QuietStep, Zenon

\* _klpm_sync_check() is followed by the PreTransaction hooks or by the end.
LEMMA SyncCheckKeeps ==
  ASSUME Course, sync_check
  PROVE  Course'
<1>1. /\ when = "CHECK" /\ UNCHANGED <<w, ran, committed, ret, hooks, queue>>
      /\ when' \in {"END", "PRE"} /\ stage' = "load"
  BY Zenon DEF sync_check
<1>2. ~committed /\ \A k \in DOMAIN ran : FALSE  BY <1>1, Zenon DEF Course, Phase
<1>3. ~Loops'  BY <1>1, Zenon DEF Loops
<1>4. Phase'  BY <1>1, <1>2, Zenon DEF Course, Phase
<1> QED  BY <1>1, <1>2, <1>3, <1>4, QuietStep, Zenon

\* The hooks are loaded; with an error of a PreTransaction hook none is run.
LEMMA LoadKeeps ==
  ASSUME Course, hook_run_load
  PROVE  Course'
<1>1. /\ when \in {"PRE", "POST"} /\ stage = "load" /\ UNCHANGED <<w, when, ran, committed, queue>>
      /\ ret' = (IF LoadFails THEN -1 ELSE 0) /\ stage' = "match"
      /\ hooks' = IF ret' # 0 /\ when = "PRE" THEN {} ELSE Loaded
  BY Zenon DEF hook_run_load, Stops
<1>2. \A k \in DOMAIN ran : ~Aborts(ran[k])  BY <1>1, Zenon DEF Course, Aborting
<1>3. ~Loops' /\ ~Loops  BY <1>1, Zenon DEF Loops
<1>4. Loaded' = Loaded /\ (LoadFails' <=> LoadFails)  BY <1>1, WorldStays, Zenon
<1>5. ret' \in {-1, 0} /\ (ret' # 0 <=> LoadFails)  BY <1>1
<1>6. hooks' = IF LoadFails /\ when = "PRE" THEN {} ELSE Loaded  BY <1>1, <1>5, Zenon
<1>7. Phase'  BY <1>1, <1>3, <1>4, <1>5, <1>6, Zenon DEF Course, Phase
<1> QED  BY <1>1, <1>2, <1>3, <1>7, QuietStep, Zenon

\* When the run of the hooks returns, those called for were run.
LEMMA ReturnKeeps ==
  ASSUME Course, hook_run_return
  PROVE  Course'
<1>1. /\ when \in {"PRE", "POST"} /\ stage = "next" /\ queue = <<>> /\ UNCHANGED <<w, ran, committed, ret, hooks, queue>>
      /\ when' = (IF when = "POST" \/ ret # 0 THEN "END" ELSE "COMMIT") /\ stage' = "load"
  BY Zenon DEF hook_run_return, GivesUp
<1>2. Loops /\ ~Loops'  BY <1>1, Zenon DEF Loops
<1>3. ASSUME when = "PRE" => ret = 0, ~LoadFails
      PROVE  Ran(when) = CalledFor(when)
  <2>1. \A h \in Called(when) : <<h.name, h.dir>> \in Ran(when)
    <3>1. Range(queue) = {}  BY <1>1 DEF Range
    <3> QED  BY <1>2, <1>3, <3>1, Zenon DEF Course, Remaining
  <2>2. \A x \in Ran(when) : \E h \in Called(when) : x = <<h.name, h.dir>>
    <3> SUFFICES ASSUME NEW j \in DOMAIN ran, ran[j].when = when
                 PROVE  \E h \in Called(when) : <<ran[j].name, ran[j].dir>> = <<h.name, h.dir>>
      BY Zenon DEF Ran
    <3>1. \E h \in Called(when) : ran[j].name = h.name /\ ran[j].dir = h.dir  BY <1>2, Zenon DEF Course, Remaining
    <3> QED  BY <3>1, Zenon
  <2>3. Ran(when) = {<<h.name, h.dir>> : h \in Called(when)}  BY <2>1, <2>2, Zenon
  <2>4. w \in Worlds  BY Zenon DEF Course, Phase
  <2> QED  BY <1>3, <2>3, <2>4, CalledAsDocumented, Zenon
<1>4. LoadFails /\ when = "PRE" => ret # 0  BY <1>1, Zenon DEF Course, Phase
<1>5. when' = "COMMIT" => when = "PRE" /\ ret = 0 /\ ~LoadFails  BY <1>1, <1>4, Zenon
<1>6. committed <=> when = "POST"  BY <1>1, Zenon DEF Course, Phase
<1>7. \A k \in DOMAIN ran : Aborts(ran[k]) => when' = "END"  BY <1>1, Zenon DEF Course, Aborting
<1>8. Phase'
  <2>1. \A k \in DOMAIN ran : \/ ran[k].when = "PRE" /\ when' \in {"COMMIT", "POST", "END"}
                              \/ ran[k].when = "POST" /\ when' = "END"
    BY <1>1, Zenon DEF Course, Phase
  <2>2. when' \in {"END", "COMMIT"} /\ (when' = "COMMIT" => ~committed)  BY <1>1, <1>6, Zenon
  <2> QED  BY <1>1, <1>6, <2>1, <2>2, Zenon DEF Course, Phase
<1>9. when' = "COMMIT" => Ran("PRE") = CalledFor("PRE")  BY <1>3, <1>5, Zenon
<1>10. when' = "END" /\ committed' /\ ~LoadFails => Ran("POST") = CalledFor("POST")  BY <1>1, <1>3, <1>6, Zenon
<1> QED  BY <1>1, <1>2, <1>7, <1>8, <1>9, <1>10, QuietStep, Zenon

\* The steps of the commit.
LEMMA CommitKeeps ==
  ASSUME Course, when = "COMMIT", UNCHANGED <<w, ran, ret, hooks, queue>>, stage' \in {"load", "next", "running"},
         \/ when' = when /\ committed' = committed
         \/ when' = "POST" /\ stage' = "load" /\ committed' = TRUE
         \/ when' = "END" /\ stage' = "load" /\ committed' = committed
  PROVE  Course'
<1>1. committed = FALSE /\ \A k \in DOMAIN ran : ran[k].when = "PRE"  BY Zenon DEF Course, Phase
<1>2. ~Loops'  BY Zenon DEF Loops
<1>3. \A k \in DOMAIN ran : ~Aborts(ran[k])  BY Zenon DEF Course, Aborting
<1>4. Ran("PRE") = CalledFor("PRE")  BY Zenon DEF Course, HooksAsDocumented
<1>5. Phase'
  <2>1. /\ w' \in Worlds /\ ran' \in Seq(Range(ran')) /\ ret' \in {-1, 0}
        /\ stage' \in {"load", "next", "running"} /\ ran' = ran
    BY Zenon DEF Course, Phase, Range
  <2>2. CASE when' = when /\ committed' = committed  BY <1>1, <2>1, <2>2, Zenon DEF Phase
  <2>3. CASE when' = "POST" /\ stage' = "load" /\ committed' = TRUE  BY <1>1, <2>1, <2>3, Zenon DEF Phase
  <2>4. CASE when' = "END" /\ stage' = "load" /\ committed' = committed  BY <1>1, <2>1, <2>4, Zenon DEF Phase
  <2> QED  BY <2>2, <2>3, <2>4, Zenon
<1> QED  BY <1>1, <1>2, <1>3, <1>4, <1>5, QuietStep, Zenon

\* The hooks triggered are put in the queue by name.
LEMMA MatchKeeps ==
  ASSUME Course, hook_run_match
  PROVE  Course'
<1>1. /\ stage = "match" /\ stage' = "next" /\ queue' = InOrder(Triggered(when))
      /\ UNCHANGED <<w, when, hooks, ret, ran, committed>>
  BY Zenon DEF hook_run_match
<1>2. when \in {"PRE", "POST"} /\ w \in Worlds  BY <1>1, Zenon DEF Course, Phase
<1>3. /\ hooks = IF LoadFails /\ when = "PRE" THEN {} ELSE Loaded
      /\ LoadFails /\ when = "PRE" => ret # 0
  BY <1>1, <1>2, Zenon DEF Course, Phase
<1>4. Loaded' = Loaded /\ (LoadFails' <=> LoadFails) /\ Called(when)' = Called(when)
  <2>1. Loaded' = Loaded /\ (LoadFails' <=> LoadFails) /\ \A h : matches(h)' = matches(h)  BY <1>1, WorldStays, Zenon
  <2> QED  BY <1>1, <2>1, Zenon DEF Called
<1> DEFINE H == Triggered(when)
           S == {h.name : h \in H}
<1>5. \A h \in H : h \in hooks /\ h \in Called(when) /\ h \in Loaded  BY <1>3, Zenon DEF Triggered, Called
<1>6. IsFiniteSet(S) /\ S \subseteq Seq(Chars)
  <2>1. H \subseteq Loaded  BY <1>5, Zenon
  <2> HIDE DEF H
  <2> QED  BY <1>2, <2>1, NamesSorted, Zenon
<1>7. queue' = Sorted(S)  BY <1>1, Zenon DEF InOrder
<1>8. /\ queue' \in Seq(S) /\ queue' \in Seq(Seq(Chars)) /\ Range(queue') = S
      /\ \A j, k \in DOMAIN queue' : j < k => strcmp(queue'[j], queue'[k]) < 0
  <2> HIDE DEF S
  <2> QED  BY <1>6, <1>7, SortedIs, Zenon
<1>9. \A k \in DOMAIN queue' : \E h \in Called(when) : h.name = queue'[k] /\ h \in hooks
  <2> SUFFICES ASSUME NEW k \in DOMAIN queue'
               PROVE  \E h \in Called(when) : h.name = queue'[k] /\ h \in hooks
    BY Zenon
  <2>1. queue'[k] \in S
    <3> HIDE DEF S
    <3> QED  BY <1>8, Zenon DEF Range
  <2>2. PICK h \in H : h.name = queue'[k]  BY <2>1, Zenon
  <2> HIDE DEF H, S
  <2> QED  BY <1>5, <2>2, Zenon
<1>10. \A j \in DOMAIN ran : ran[j].when # when  BY <1>1, <1>2, Zenon DEF Course, Phase, Loops
<1>11. (when = "PRE" => ret = 0) => \A h \in Called(when) : h.name \in Range(queue')
  <2> SUFFICES ASSUME when = "PRE" => ret = 0, NEW h \in Called(when) PROVE h.name \in Range(queue')  BY Zenon
  <2>1. hooks = Loaded  BY <1>3, Zenon
  <2>2. h \in H  BY <2>1, Zenon DEF Called, Triggered
  <2>3. h.name \in S  BY <2>2, Zenon
  <2> HIDE DEF S
  <2> QED  BY <1>8, <2>3, Zenon
<1> HIDE DEF H, S
<1>12. Remaining'
  <2>1. Called(when)' = Called(when) /\ when' = when /\ hooks' = hooks /\ ran' = ran /\ ret' = ret /\ stage' = "next"  BY <1>1, <1>4, Zenon
  <2>2. Range(queue)' = Range(queue')  BY Zenon DEF Range
  <2> QED  BY <1>8, <1>9, <1>10, <1>11, <2>1, <2>2, Zenon DEF Remaining
<1>13. Phase'  BY <1>1, <1>2, <1>3, <1>4, Zenon DEF Course, Phase, Loops
<1>14. Aborting'
  <2>1. \A k \in DOMAIN ran : ~Aborts(ran[k])  BY <1>1, <1>2, Zenon DEF Course, Aborting
  <2> QED  BY <1>1, <2>1, Zenon DEF Course, Aborting, Aborts, HookRuns
<1>15. HooksAsDocumented'  BY <1>1, <1>2, Zenon DEF Course, HooksAsDocumented
<1> QED  BY <1>12, <1>13, <1>14, <1>15, Zenon DEF Course

\* The list of the hooks run with one more.
LEMMA RanAppend ==
  ASSUME ran \in Seq(Range(ran)), NEW r, ran' = Append(ran, r)
  PROVE  /\ ran' \in Seq(Range(ran')) /\ Len(ran) \in Nat /\ Len(ran') = Len(ran) + 1 /\ DOMAIN ran = 1..Len(ran)
         /\ DOMAIN ran' = 1..Len(ran) + 1 /\ ran'[Len(ran) + 1] = r /\ \A k \in DOMAIN ran : ran'[k] = ran[k]
<1>1. PICK S : S = Range(ran) \cup {r}  BY Zenon
<1>2. ran \in Seq(S) /\ r \in S  BY <1>1, SeqMonotonic, Zenon
<1>3. /\ ran' \in Seq(S) /\ Len(ran') = Len(ran) + 1 /\ \A k \in 1..Len(ran) : ran'[k] = ran[k]
      /\ ran'[Len(ran) + 1] = r
  BY <1>2, AppendProperties
<1>4. DOMAIN ran = 1..Len(ran) /\ DOMAIN ran' = 1..Len(ran') /\ Len(ran) \in Nat  BY <1>2, <1>3, LenProperties, Zenon
<1>5. ran' \in [1..Len(ran') -> Range(ran')]
  <2>1. \A k \in DOMAIN ran' : ran'[k] \in Range(ran')  BY Zenon DEF Range
  <2>2. ran' \in [1..Len(ran') -> S]  BY <1>3, LenProperties, Zenon
  <2> QED  BY <1>4, <2>1, <2>2, Zenon
<1>6. ran' \in Seq(Range(ran'))
  <2>1. PICK n \in Nat : n = Len(ran')  BY <1>3, LenProperties, Zenon
  <2>2. PICK R : R = Range(ran')  BY Zenon
  <2>3. PICK s : s = ran'  BY Zenon
  <2>4. s \in [1..n -> R]  BY <1>5, <2>1, <2>2, <2>3, Zenon
  <2>5. s \in Seq(R)  BY <2>4
  <2> QED  BY <2>2, <2>3, <2>5, Zenon
<1> QED  BY <1>3, <1>4, <1>6, Zenon

\* A hook's run is over: it is the next of the hooks called for, and it stops the others if
\* it aborts.
LEMMA OverKeeps ==
  ASSUME Course, Loops, queue # <<>>, NEW failed, NEW end, Over(First, failed, end),
         UNCHANGED <<w, hooks, when, committed>>, end # "ok" /\ w.root => failed
  PROVE  Course'
<1>1. /\ First \in Called(when) /\ First \in hooks /\ First.name = Head(queue)
      /\ queue \in Seq(Seq(Chars)) /\ Head(queue) = queue[1] /\ 1 \in DOMAIN queue
      /\ \A h \in Called(when) : h.name = Head(queue) => h = First
  BY FirstIs, Zenon DEF Course
<1>2. PICK h : h = First  BY Zenon
<1>3. PICK r : r = [name |-> h.name, dir |-> h.dir, when |-> when, abort |-> h.hook.abort, end |-> end]  BY Zenon
<1>4. /\ ret' = (IF failed /\ h.hook.abort THEN -1 ELSE ret) /\ ran' = Append(ran, r) /\ stage' = "next"
      /\ queue' = IF ret' # 0 /\ when = "PRE" THEN <<>> ELSE Tail(queue)
  BY <1>2, <1>3, Zenon DEF Over, Record, Stops
<1>5. /\ when \in {"PRE", "POST"} /\ w \in Worlds /\ ran \in Seq(Range(ran)) /\ ret \in {-1, 0} /\ committed \in BOOLEAN
      /\ committed <=> when = "POST"
  BY Zenon DEF Course, Phase, Loops
<1>6. /\ ran' \in Seq(Range(ran')) /\ Len(ran) \in Nat /\ Len(ran') = Len(ran) + 1 /\ DOMAIN ran = 1..Len(ran)
      /\ DOMAIN ran' = 1..Len(ran) + 1 /\ ran'[Len(ran) + 1] = r /\ \A k \in DOMAIN ran : ran'[k] = ran[k]
  BY <1>4, <1>5, RanAppend, Zenon
<1>7. \A k \in DOMAIN ran' : k \in DOMAIN ran \/ k = Len(ran) + 1  BY <1>6
<1>8. /\ Loaded' = Loaded /\ (LoadFails' <=> LoadFails) /\ Called(when)' = Called(when)
  <2>1. Loaded' = Loaded /\ (LoadFails' <=> LoadFails) /\ \A g : matches(g)' = matches(g)  BY WorldStays, Zenon
  <2> QED  BY <2>1, Zenon DEF Called
<1>9. r.name = h.name /\ r.dir = h.dir /\ r.when = when /\ r.abort = h.hook.abort /\ r.end = end  BY <1>3, Zenon
<1>10. Phase'
  <2>1. ret' \in {-1, 0} /\ (ret # 0 => ret' # 0)  BY <1>4, <1>5, Zenon
  <2>2. \A k \in DOMAIN ran' :
          \/ ran'[k].when = "PRE" /\ (when \in {"COMMIT", "POST", "END"} \/ when = "PRE")
          \/ ran'[k].when = "POST" /\ (when = "END" \/ when = "POST")
    <3>1. \A k \in DOMAIN ran :
          \/ ran[k].when = "PRE" /\ (when \in {"COMMIT", "POST", "END"} \/ when = "PRE")
          \/ ran[k].when = "POST" /\ (when = "END" \/ when = "POST")
      BY Zenon DEF Course, Phase
    <3> QED  BY <1>5, <1>6, <1>7, <1>9, <3>1, Zenon
  <2>3. Loops' /\ stage' = "next" /\ when' = when  BY <1>4, <1>5, Zenon DEF Loops
  <2>4. /\ hooks = IF LoadFails /\ when = "PRE" THEN {} ELSE Loaded
        /\ LoadFails /\ when = "PRE" => ret # 0
    BY Zenon DEF Course, Phase, Loops
  <2> QED  BY <1>5, <1>6, <1>8, <2>1, <2>2, <2>3, <2>4, Zenon DEF Phase
<1>11. /\ queue' \in Seq(Seq(Chars)) /\ \A k \in DOMAIN queue' : k \in Nat /\ k + 1 \in DOMAIN queue /\ queue'[k] = queue[k + 1]
  <2>1. CASE queue' = <<>>  BY <2>1
  <2>2. CASE queue' = Tail(queue)
    <3>1. Tail(queue) \in Seq(Seq(Chars)) /\ Len(Tail(queue)) = Len(queue) - 1
          /\ \A i \in 1..Len(Tail(queue)) : Tail(queue)[i] = queue[i + 1]
      BY <1>1, HeadTailProperties, Zenon
    <3>2. DOMAIN queue = 1..Len(queue) /\ Len(queue) \in Nat  BY <1>1, LenProperties, Zenon
    <3>3. PICK t : t = Tail(queue)  BY Zenon
    <3>4. t \in Seq(Seq(Chars)) /\ Len(t) = Len(queue) - 1 /\ \A i \in 1..Len(t) : t[i] = queue[i + 1]  BY <3>1, <3>3, Zenon
    <3>5. DOMAIN t = 1..Len(t)  BY <3>4, LenProperties, Zenon
    <3>6. \A k \in 1..Len(t) : k \in Nat /\ k + 1 \in 1..Len(queue)  BY <3>2, <3>4
    <3> QED  BY <2>2, <3>2, <3>3, <3>4, <3>5, <3>6, Zenon
  <2> QED  BY <1>4, <2>1, <2>2, Zenon
<1>12. \A k \in DOMAIN queue : k > 1 => strcmp(h.name, queue[k]) < 0
  <2> SUFFICES ASSUME NEW k \in DOMAIN queue, k > 1 PROVE strcmp(h.name, queue[k]) < 0  BY Zenon
  <2>1. strcmp(queue[1], queue[k]) < 0  BY <1>1, Zenon DEF Course, Remaining
  <2> QED  BY <1>1, <1>2, <2>1, Zenon
<1>13. Remaining'
  <2>1. \A k \in DOMAIN queue' : \E g \in Called(when) : g.name = queue'[k] /\ g \in hooks
    BY <1>11, Zenon DEF Course, Remaining
  <2>2. \A j, k \in DOMAIN queue' : j < k => strcmp(queue'[j], queue'[k]) < 0
    <3> SUFFICES ASSUME NEW j \in DOMAIN queue', NEW k \in DOMAIN queue', j < k
                 PROVE  strcmp(queue'[j], queue'[k]) < 0
      BY Zenon
    <3>1. j + 1 \in DOMAIN queue /\ k + 1 \in DOMAIN queue /\ j + 1 < k + 1  BY <1>11
    <3>2. strcmp(queue[j + 1], queue[k + 1]) < 0  BY <3>1, Zenon DEF Course, Remaining
    <3> QED  BY <1>11, <3>2, Zenon
  <2>3. ASSUME NEW j \in DOMAIN ran', ran'[j].when = when
        PROVE  /\ \A k \in DOMAIN queue' : strcmp(ran'[j].name, queue'[k]) < 0
               /\ \E g \in Called(when) : ran'[j].name = g.name /\ ran'[j].dir = g.dir
    <3>1. CASE j \in DOMAIN ran
      <4>1. /\ \A k \in DOMAIN queue : strcmp(ran[j].name, queue[k]) < 0
            /\ \E g \in Called(when) : ran[j].name = g.name /\ ran[j].dir = g.dir
        <5>1. ran[j].when = when  BY <1>6, <2>3, <3>1, Zenon
        <5> QED  BY <3>1, <5>1, Zenon DEF Course, Remaining
      <4>2. ran'[j] = ran[j]  BY <1>6, <3>1, Zenon
      <4> QED  BY <1>11, <4>1, <4>2, Zenon
    <3>2. CASE j = Len(ran) + 1
      <4>1. ran'[j] = r  BY <1>6, <3>2, Zenon
      <4>2. \A k \in DOMAIN queue' : strcmp(h.name, queue'[k]) < 0
        <5> SUFFICES ASSUME NEW k \in DOMAIN queue' PROVE strcmp(h.name, queue'[k]) < 0  BY Zenon
        <5>1. k + 1 \in DOMAIN queue /\ queue'[k] = queue[k + 1] /\ k \in DOMAIN queue' /\ k + 1 > 1
          <6>1. DOMAIN queue' = 1..Len(queue')  BY <1>11, LenProperties, Zenon
          <6> QED  BY <1>11, <6>1
        <5> QED  BY <1>12, <5>1, Zenon
      <4> QED  BY <1>1, <1>2, <1>9, <4>1, <4>2, Zenon
    <3> QED  BY <1>7, <3>1, <3>2, Zenon
  <2>4. ASSUME when = "PRE" => ret' = 0, NEW g \in Called(when)
        PROVE  g.name \in Range(queue') \/ \E m \in DOMAIN ran' : ran'[m].when = when /\ <<g.name, g.dir>> = <<ran'[m].name, ran'[m].dir>>
    <3>1. when = "PRE" => ret = 0  BY <1>4, <2>4
    <3>2. queue' = Tail(queue)  BY <1>4, <2>4, Zenon
    <3>3. g.name \in Range(queue) \/ <<g.name, g.dir>> \in Ran(when)  BY <3>1, Zenon DEF Course, Remaining
    <3>4. CASE <<g.name, g.dir>> \in Ran(when)
      <4>1. PICK m \in DOMAIN ran : ran[m].when = when /\ <<g.name, g.dir>> = <<ran[m].name, ran[m].dir>>  BY <3>4, Zenon DEF Ran
      <4>2. m \in DOMAIN ran' /\ ran'[m] = ran[m]  BY <1>6
      <4> QED  BY <4>1, <4>2, Zenon
    <3>5. CASE g.name \in Range(queue)
      <4>1. PICK k \in DOMAIN queue : g.name = queue[k]  BY <3>5, Zenon DEF Range
      <4>2. CASE k = 1
        <5>1. g = h  BY <1>1, <1>2, <4>1, <4>2, Zenon
        <5>2. Len(ran) + 1 \in DOMAIN ran'  BY <1>6
        <5> QED  BY <1>6, <1>9, <5>1, <5>2, Zenon
      <4>3. CASE k # 1
        <5>1. /\ Tail(queue) \in Seq(Seq(Chars)) /\ Len(Tail(queue)) = Len(queue) - 1
              /\ \A i \in 1..Len(Tail(queue)) : Tail(queue)[i] = queue[i + 1]
          BY <1>1, HeadTailProperties, Zenon
        <5>2. DOMAIN queue = 1..Len(queue) /\ Len(queue) \in Nat /\ DOMAIN Tail(queue) = 1..Len(Tail(queue))
          BY <1>1, <5>1, LenProperties, Zenon
        <5>3. k - 1 \in 1..Len(Tail(queue)) /\ (k - 1) + 1 = k  BY <4>3, <5>1, <5>2
        <5>4. Tail(queue)[k - 1] = queue[k]  BY <5>1, <5>3, Zenon
        <5> QED  BY <3>2, <4>1, <5>2, <5>3, <5>4, Zenon DEF Range
      <4> QED  BY <4>2, <4>3, Zenon
    <3> QED  BY <3>3, <3>4, <3>5, Zenon
  <2>5. /\ Called(when)' = Called(when) /\ when' = when /\ hooks' = hooks /\ stage' = "next"
        /\ Range(queue)' = Range(queue')
        /\ Ran(when)' = {<<ran'[m].name, ran'[m].dir>> : m \in {i \in DOMAIN ran' : ran'[i].when = when}}
    BY <1>4, <1>8, Zenon DEF Range, Ran
  <2>6. (when = "PRE" => ret' = 0) => \A g \in Called(when) : g.name \in Range(queue') \/ <<g.name, g.dir>> \in Ran(when)'
    BY <2>4, <2>5, Zenon
  <2> QED  BY <1>11, <2>1, <2>2, <2>3, <2>5, <2>6, Zenon DEF Remaining
<1>14. Aborting'
  <2>1. \A k \in DOMAIN ran : ~Aborts(ran[k])  BY <1>5, Zenon DEF Course, Aborting, Loops
  <2>2. \A k \in DOMAIN ran : ran[k].when = "POST" => committed  BY Zenon DEF Course, Aborting
  <2>3. ~HookRuns'  BY <1>4, Zenon DEF HookRuns
  <2>4. Aborts(r) => when = "PRE" /\ queue' = <<>> /\ ret' # 0 /\ ~committed
    <3> SUFFICES ASSUME Aborts(r) PROVE when = "PRE" /\ queue' = <<>> /\ ret' # 0 /\ ~committed  BY Zenon
    <3>1. when = "PRE" /\ failed /\ h.hook.abort  BY <1>9, Zenon DEF Aborts
    <3> QED  BY <1>4, <1>5, <3>1
  <2>5. r.when = "POST" => committed  BY <1>5, <1>9, Zenon
  <2>6. \A k \in DOMAIN ran' : (Aborts(ran'[k]) => k = Len(ran') /\ ~committed /\ when = "PRE" /\ queue' = <<>> /\ ret' # 0)
                               /\ (ran'[k].when = "POST" => committed)
    BY <1>6, <1>7, <2>1, <2>2, <2>4, <2>5, Zenon
  <2> QED  BY <1>4, <2>3, <2>6, Zenon DEF Aborting, Aborts
<1>15. HooksAsDocumented'
  <2>1. ASSUME NEW j \in DOMAIN ran', NEW k \in DOMAIN ran', j < k, ran'[j].when = ran'[k].when
        PROVE  strcmp(ran'[j].name, ran'[k].name) < 0
    <3>1. CASE k \in DOMAIN ran
      <4>1. j \in DOMAIN ran  BY <1>6, <2>1, <3>1
      <4>2. ran'[j] = ran[j] /\ ran'[k] = ran[k]  BY <1>6, <3>1, <4>1, Zenon
      <4> QED  BY <2>1, <3>1, <4>1, <4>2, Zenon DEF Course, HooksAsDocumented
    <3>2. CASE k = Len(ran) + 1
      <4>1. j \in DOMAIN ran  BY <1>6, <2>1, <3>2
      <4>2. ran'[j] = ran[j] /\ ran'[k] = r  BY <1>6, <3>2, <4>1, Zenon
      <4>3. ran[j].when = when  BY <1>9, <2>1, <4>2, Zenon
      <4>4. strcmp(ran[j].name, queue[1]) < 0  BY <1>1, <4>1, <4>3, Zenon DEF Course, Remaining
      <4> QED  BY <1>1, <1>2, <1>9, <4>2, <4>4, Zenon
    <3> QED  BY <1>7, <3>1, <3>2, Zenon
  <2> QED  BY <1>5, <2>1, Zenon DEF HooksAsDocumented
<1> QED  BY <1>10, <1>13, <1>14, <1>15, Zenon DEF Course

\* Nothing is said of the targets when no hook runs.
LEMMA NoneFed ==
  ASSUME ~HookRuns'
  PROVE  Incoming'
BY Zenon DEF Incoming

\* A hook whose dependencies are not installed is not run.
LEMMA UnmetKeeps ==
  ASSUME HInv, hook_run_unmet
  PROVE  HInv'
<1>1. /\ Course /\ Loops /\ queue # <<>> /\ Over(First, TRUE, "unmet") /\ UNCHANGED <<w, hooks, when, committed>>
      /\ stage' = "next" /\ UNCHANGED runvars
  BY Zenon DEF hook_run_unmet, HInv, Loops, Over
<1>2. Course'  BY <1>1, OverKeeps, Zenon
<1>3. Typed' /\ Outgoing'  BY <1>1, RunStays, Zenon DEF HInv
<1>4. Incoming'  BY <1>1, NoneFed, Zenon DEF HookRuns
<1> QED  BY <1>2, <1>3, <1>4, Zenon DEF HInv

\* A hook whose command could not be started.
LEMMA UnrunKeeps ==
  ASSUME HInv, hook_run_unrun
  PROVE  HInv'
<1>1. /\ Course /\ Loops /\ queue # <<>> /\ UNCHANGED <<w, hooks, when, committed>>
      /\ stage' = "next" /\ (run_nothing(0) \/ run_nothing(1))
      /\ (~w.root /\ Over(First, FALSE, "unrun")) \/ (w.root /\ Over(First, TRUE, "unrun"))
  BY Zenon DEF hook_run_unrun, HInv, Loops, Over
<1>2. Course'
  <2>1. CASE ~w.root /\ Over(First, FALSE, "unrun")  BY <1>1, <2>1, OverKeeps, Zenon
  <2>2. CASE w.root /\ Over(First, TRUE, "unrun")  BY <1>1, <2>2, OverKeeps, Zenon
  <2> QED  BY <1>1, <2>1, <2>2, Zenon
<1>3. Typed' /\ Outgoing'  BY <1>1, RunsNothing, Zenon DEF HInv
<1>4. Incoming'  BY <1>1, NoneFed, Zenon DEF HookRuns
<1> QED  BY <1>2, <1>3, <1>4 DEF HInv

\* A hook whose command has ended.
LEMMA DoneKeeps ==
  ASSUME HInv, hook_run_done
  PROVE  HInv'
<1>1. /\ Course /\ Loops /\ Over(First, retval # 0, IF code = 0 THEN "ok" ELSE "failed")
      /\ UNCHANGED <<w, hooks, when, committed>> /\ stage = "running" /\ stage' = "next" /\ UNCHANGED runvars
      /\ HookRuns /\ parent = "idle"
  BY Zenon DEF hook_run_done, HInv, Loops, Over, HookRuns
<1>2. queue # <<>> /\ retval = Status  BY <1>1, Zenon DEF Course, Remaining, Aborting
<1>3. PICK end : end = IF code = 0 THEN "ok" ELSE "failed"  BY Zenon
<1>4. PICK failed \in BOOLEAN : failed = (retval # 0)  BY Zenon
<1>5. end # "ok" => failed
  <2>1. end # "ok" => retval # 0  BY <1>2, <1>3 DEF Status
  <2> QED  BY <1>4, <2>1, Zenon
<1>6. Over(First, failed, end)  BY <1>1, <1>3, <1>4, Zenon
<1>7. Course'  BY <1>1, <1>2, <1>5, <1>6, OverKeeps, Zenon
<1>8. Typed' /\ Outgoing'  BY <1>1, RunStays, Zenon DEF HInv
<1>9. Incoming'  BY <1>1, NoneFed, Zenon DEF HookRuns
<1> QED  BY <1>7, <1>8, <1>9, Zenon DEF HInv

\* A hook's command is started: it is fed what its triggers match.
LEMMA StartKeeps ==
  ASSUME HInv, hook_run_start
  PROVE  HInv'
<1>1. PICK h : h = First.hook  BY Zenon
<1>2. /\ stage = "next" /\ queue # <<>> /\ when \in {"PRE", "POST"} /\ stage' = "running"
      /\ UNCHANGED <<w, hooks, when, queue, ret, ran, committed>>
      /\ fed' = IF h.needs THEN TargetLines(Targets(h)) ELSE <<>>
      /\ run_chroot(h.cmd[1].prog, h.cmd[1].status, h.needs, fed')
  BY <1>1, Zenon DEF hook_run_start
<1>3. Phase /\ Remaining /\ Aborting /\ HooksAsDocumented /\ w \in Worlds  BY Zenon DEF HInv, Course, Phase
<1>4. Loops /\ Loops' /\ ~HookRuns  BY <1>2, Zenon DEF Loops, HookRuns
<1>5. First \in Called(when)  BY <1>2, <1>3, <1>4, FirstIs, Zenon
<1>6. h.cmd[1].prog \in Seq(STRING)  BY <1>1, <1>3, <1>5, CalledRuns, Zenon
<1>7. IsFiniteSet(matches(h)) /\ matches(h) \subseteq Seq(Chars)  BY <1>3, MatchesGiven, Zenon
<1>8. Sorted(matches(h)) \in Seq(Seq(Chars))  BY <1>7, SortedIs, Zenon
<1>9. fed' \in Seq(Bytes)
  <2>1. TargetLines(Targets(h)) \in Seq(Bytes)  BY <1>8, TargetLinesAre, Zenon DEF Targets
  <2>2. <<>> \in Seq(Bytes)  BY EmptySeq, Zenon
  <2> QED  BY <1>2, <2>1, <2>2, Zenon
<1>10. /\ Typed' /\ Outgoing' /\ Passing' = fed'
       /\ parent' # "idle" /\ cIn' /\ program' = h.cmd[1].prog /\ pOut' = h.needs
  <2>1. PICK prog, status, needs, bytes : prog = h.cmd[1].prog /\ status = h.cmd[1].status /\ needs = h.needs /\ bytes = fed'
    BY Zenon
  <2>2. prog \in Seq(STRING) /\ bytes \in Seq(Bytes) /\ run_chroot(prog, status, needs, bytes)  BY <1>2, <1>6, <1>9, <2>1, Zenon
  <2>3. /\ Typed' /\ Outgoing' /\ Passing' = bytes
        /\ parent' # "idle" /\ cIn' /\ program' = prog /\ pOut' = needs
    BY <2>2, RunBegins, Zenon
  <2> QED  BY <2>1, <2>3, Zenon
<1>11. First' = First  BY <1>2, Zenon DEF First
<1>12. Incoming'
  <2>1. ASSUME First'.hook.needs
        PROVE  fed' = TargetLines(Sorted(Due(h)))
    <3>1. matches(h) = Due(h)  BY <1>3, DueMatches, Zenon
    <3>2. h.needs  BY <1>1, <1>11, <2>1, Zenon
    <3> QED  BY <1>2, <3>1, <3>2, Zenon DEF Targets
  <2>2. Due(h)' = Due(h) /\ Due(First.hook)' = Due(First.hook)
    <3>1. \A t : DueTo(t)' = DueTo(t)  BY <1>2 DEF DueTo, After, Before
    <3> QED  BY <1>11, <3>1, Zenon DEF Due
  <2>3. First'.hook.needs => Drained'  BY <1>1, <1>10, <1>11, Zenon DEF Drained
  <2>4. ReadsAll(First'.hook.cmd[1].prog) => AllRead(fed)'
    <3>1. ReadsAll(program)' = ReadsAll(program')  BY Zenon DEF ReadsAll
    <3> QED  BY <1>1, <1>10, <1>11, <3>1, Zenon DEF AllRead
  <2>5. TargetLines(Sorted(Due(First.hook)))' = TargetLines(Sorted(Due(h)))  BY <1>1, <2>2 DEF TargetLines, Sorted
  <2>6. ReadsAll(First.hook.cmd[1].prog)' = ReadsAll(First'.hook.cmd[1].prog)  BY Zenon DEF ReadsAll
  <2> QED  BY <1>10, <2>1, <2>3, <2>4, <2>5, <2>6, Zenon DEF Incoming
<1>13. Phase'
  <2>1. Loaded' = Loaded /\ (LoadFails' <=> LoadFails)  BY <1>2, WorldStays, Zenon
  <2> QED  BY <1>2, <1>3, <1>4, <2>1, Zenon DEF Phase
<1>14. Remaining'
  <2>1. Called(when)' = Called(when)
    <3>1. Loaded' = Loaded /\ \A g : matches(g)' = matches(g)  BY <1>2, WorldStays, Zenon
    <3> QED  BY <1>2, <3>1, Zenon DEF Called
  <2>2. Ran(when)' = Ran(when) /\ Range(queue)' = Range(queue)  BY <1>2, Zenon DEF Ran, Range
  <2> QED  BY <1>2, <1>3, <1>4, <2>1, <2>2, Zenon DEF Remaining
<1>15. Aborting'
  <2>1. \A k \in DOMAIN ran : ~Aborts(ran[k])  BY <1>2, <1>3, Zenon DEF Aborting
  <2> QED  BY <1>2, <1>3, <1>10, <2>1, Zenon DEF Aborting, Aborts
<1>16. HooksAsDocumented'  BY <1>2, <1>3, Zenon DEF HooksAsDocumented
<1> QED  BY <1>10, <1>12, <1>13, <1>14, <1>15, <1>16, Zenon DEF HInv, Course

\* The steps of the commit keep the rest.
LEMMA ScriptletKeeps ==
  ASSUME HInv, runscriptlet
  PROVE  HInv'
<1>1. /\ Course /\ when = "COMMIT" /\ UNCHANGED <<w, ran, ret, hooks, queue, when, committed>>
      /\ stage' \in {"next", "running"}
  BY Zenon DEF HInv, runscriptlet
<1>2. Course'  BY <1>1, CommitKeeps, Zenon
<1>3. Incoming'  BY <1>1, NoneFed, Zenon DEF HookRuns
<1>4. Typed' /\ Outgoing'
  <2>1. \/ UNCHANGED runvars
        \/ run_chroot(w.script.prog, w.script.status, FALSE, <<>>)
        \/ run_nothing(IF w.root THEN 1 ELSE 0)
    BY Zenon DEF runscriptlet
  <2>2. CASE UNCHANGED runvars  BY <2>2, RunStays, Zenon DEF HInv
  <2>3. CASE run_chroot(w.script.prog, w.script.status, FALSE, <<>>)
    <3>1. w.script.prog \in Seq(STRING)  BY WorldsAssumption, Zenon DEF HInv, Course, Phase
    <3>2. <<>> \in Seq(Bytes)  BY EmptySeq
    <3>3. PICK prog, status : prog = w.script.prog /\ status = w.script.status  BY Zenon
    <3>4. prog \in Seq(STRING) /\ run_chroot(prog, status, FALSE, <<>>)  BY <2>3, <3>1, <3>3, Zenon
    <3> QED  BY <3>2, <3>4, RunBegins, Zenon
  <2>4. CASE run_nothing(IF w.root THEN 1 ELSE 0)  BY <2>4, RunsNothing, Zenon DEF HInv
  <2> QED  BY <2>1, <2>2, <2>3, <2>4, Zenon
<1> QED  BY <1>2, <1>3, <1>4, Zenon DEF HInv

\* The steps that run no command.
LEMMA OthersKeep ==
  ASSUME HInv, \/ download \/ sync_check \/ hook_run_load \/ hook_run_match \/ hook_run_return
               \/ runscriptlet_cleanup \/ commit_package \/ trans_commit
  PROVE  HInv'
<1>1. Course /\ Typed /\ Outgoing  BY Zenon DEF HInv
<1>2. UNCHANGED runvars
  BY Zenon DEF download, sync_check, hook_run_load, hook_run_match, hook_run_return, runscriptlet_cleanup, commit_package,
         trans_commit
<1>3. Typed' /\ Outgoing'  BY <1>1, <1>2, RunStays, Zenon
<1>4. CASE \/ download \/ sync_check \/ hook_run_load \/ hook_run_match \/ hook_run_return
  <2>1. Course'  BY <1>1, <1>4, DownloadKeeps, SyncCheckKeeps, LoadKeeps, MatchKeeps, ReturnKeeps, Zenon
  <2>2. ~HookRuns'
    BY <1>4, Zenon DEF HookRuns, download, sync_check, hook_run_load, hook_run_match, hook_run_return
  <2> QED  BY <1>3, <2>1, <2>2, NoneFed, Zenon DEF HInv
<1>5. CASE runscriptlet_cleanup \/ commit_package \/ trans_commit
  <2>1. /\ when = "COMMIT" /\ UNCHANGED <<w, ran, ret, hooks, queue>> /\ stage' \in {"load", "next", "running"}
        /\ \/ when' = when /\ committed' = committed
           \/ when' = "POST" /\ stage' = "load" /\ committed' = TRUE
           \/ when' = "END" /\ stage' = "load" /\ committed' = committed
    BY <1>5, Zenon DEF runscriptlet_cleanup, commit_package, trans_commit
  <2>2. Course'  BY <1>1, <2>1, CommitKeeps, Zenon
  <2>3. ~HookRuns'  BY <2>1, Zenon DEF HookRuns
  <2> QED  BY <1>3, <2>2, <2>3, NoneFed DEF HInv
<1> QED  BY <1>4, <1>5, Zenon

\* A step of a run, and none.
LEMMA RunKeeps ==
  ASSUME HInv, Parent \/ Child \/ UNCHANGED runvars, UNCHANGED hookvars
  PROVE  HInv'
<1>1. UNCHANGED <<w, when, stage, hooks, queue, ret, ran, fed, committed>>  BY Zenon DEF hookvars
<1>2. /\ Typed' /\ Outgoing' /\ Passing' = Passing /\ (Drained => Drained')
      /\ fed = Passing /\ Drained /\ AllRead(fed) => AllRead(fed)'
  <2>1. CASE Parent \/ Child
    <3>1. PICK bytes : bytes = fed  BY Zenon
    <3>2. /\ Typed' /\ Outgoing' /\ Passing' = Passing /\ (Drained => Drained')
          /\ bytes = Passing /\ Drained /\ AllRead(bytes) => AllRead(bytes)'
      BY <2>1, RunSteps, Zenon DEF HInv
    <3>3. (AllRead(fed) <=> AllRead(bytes)) /\ (AllRead(fed)' <=> AllRead(bytes)')  BY <1>1, <3>1, Zenon DEF AllRead
    <3> QED  BY <3>1, <3>2, <3>3, Zenon
  <2>2. CASE UNCHANGED runvars
    <3>1. Typed' /\ Outgoing'  BY <2>2, RunStays, Zenon DEF HInv
    <3>2. UNCHANGED <<got, p2c, obuf, feed, pOut, cIn, program>>  BY <2>2, Zenon DEF runvars, pvars, cvars
    <3> QED  BY <1>1, <3>1, <3>2, Zenon DEF Passing, Drained, AllRead, ReadsAll
  <2> QED  BY <2>1, <2>2, Zenon
<1>3. First' = First /\ (HookRuns' <=> HookRuns)  BY <1>1, Zenon DEF First, HookRuns
<1>4. Incoming'
  <2>1. Due(First.hook)' = Due(First.hook)
    <3>1. \A t : DueTo(t)' = DueTo(t)  BY <1>1 DEF DueTo, After, Before
    <3> QED  BY <1>3, <3>1, Zenon DEF Due
  <2>2. TargetLines(Sorted(Due(First.hook)))' = TargetLines(Sorted(Due(First.hook)))  BY <2>1 DEF TargetLines, Sorted
  <2>3. ReadsAll(First.hook.cmd[1].prog)' = ReadsAll(First.hook.cmd[1].prog)  BY <1>3, Zenon DEF ReadsAll
  <2>4. First.hook.needs' = First.hook.needs  BY <1>3, Zenon
  <2> SUFFICES ASSUME HookRuns, First.hook.needs
               PROVE  /\ fed' = TargetLines(Sorted(Due(First.hook))) /\ fed' = Passing'
                      /\ Drained'
                      /\ ReadsAll(First.hook.cmd[1].prog) => AllRead(fed)'
    BY <1>3, <2>2, <2>3, <2>4, Zenon DEF Incoming
  <2>5. /\ fed = TargetLines(Sorted(Due(First.hook))) /\ fed = Passing /\ Drained
        /\ ReadsAll(First.hook.cmd[1].prog) => AllRead(fed)
    BY Zenon DEF HInv, Incoming
  <2> QED  BY <1>1, <1>2, <2>5, Zenon
<1>5. Phase'
  <2>1. Loaded' = Loaded /\ (LoadFails' <=> LoadFails)  BY <1>1, WorldStays, Zenon
  <2> QED  BY <1>1, <2>1, Zenon DEF HInv, Course, Phase, Loops
<1>6. Remaining'
  <2>1. Called(when)' = Called(when)
    <3>1. Loaded' = Loaded /\ \A g : matches(g)' = matches(g)  BY <1>1, WorldStays, Zenon
    <3> QED  BY <1>1, <3>1, Zenon DEF Called
  <2>2. Ran(when)' = Ran(when) /\ Range(queue)' = Range(queue) /\ (Loops' <=> Loops)  BY <1>1, Zenon DEF Ran, Range, Loops
  <2> QED  BY <1>1, <2>1, <2>2, Zenon DEF HInv, Course, Remaining
<1>7. Aborting'
  <2>1. HookRuns => parent # "idle" \/ retval = Status  BY Zenon DEF HInv, Course, Aborting
  <2>2. parent' # "idle" \/ retval' = Status' \/ (parent = "idle" /\ retval' = retval /\ Status' = Status)
    BY Zenon DEF Parent, Child, poll, poll_over, read_from_child, write_to_child, waitpid, child_read, child_write,
           child_close, child_exit, runvars, pvars, cvars, Status
  <2>3. HookRuns' => parent' # "idle" \/ retval' = Status'  BY <1>3, <2>1, <2>2, Zenon
  <2> QED  BY <1>1, <2>3, Zenon DEF HInv, Course, Aborting, Aborts
<1>8. HooksAsDocumented'
  <2>1. \A phase : Ran(phase)' = Ran(phase)  BY <1>1, Zenon DEF Ran
  <2>2. (LoadFails' <=> LoadFails) /\ \A phase : CalledFor(phase)' = CalledFor(phase)  BY <1>1, WorldStays, Zenon
  <2> QED  BY <1>1, <2>1, <2>2, Zenon DEF HInv, Course, HooksAsDocumented
<1> QED  BY <1>2, <1>4, <1>5, <1>6, <1>7, <1>8, Zenon DEF HInv, Course

-----------------------------------------------------------------------------
(* The theorems.                                                            *)

\* The account holds before the transaction is committed.
LEMMA HBegins == Init => HInv
<1> SUFFICES ASSUME Init PROVE HInv  BY Zenon
<1>1. /\ w \in Worlds /\ when = "CHECK" /\ stage = "load" /\ hooks = {} /\ queue = <<>> /\ ret = 0
      /\ ran = <<>> /\ fed = <<>> /\ committed = FALSE /\ RunInit
  BY Zenon DEF Init
<1>2. Typed
  <2>1. <<>> \in Seq(LineType) /\ <<>> \in Seq(Bytes) /\ <<>> \in Seq(STRING) /\ Len(<<>>) = 0  BY EmptySeq, Zenon
  <2> QED  BY <1>1, <2>1, SizesAssumption DEF RunInit, Typed
<1>3. Outgoing  BY <1>1, Zenon DEF RunInit, Outgoing
<1>4. Incoming  BY <1>1, Zenon DEF Incoming, HookRuns
<1>5. DOMAIN ran = {}  BY <1>1, EmptySeq
<1>6. ran \in Seq(Range(ran))  BY <1>1, EmptySeq, Zenon
<1>7. Phase  BY <1>1, <1>5, <1>6, Zenon DEF Phase
<1>8. Remaining  BY <1>1, Zenon DEF Remaining, Loops
<1>9. Aborting  BY <1>1, <1>5, Zenon DEF Aborting, HookRuns
<1>10. HooksAsDocumented  BY <1>1, <1>5, Zenon DEF HooksAsDocumented
<1> QED  BY <1>2, <1>3, <1>4, <1>7, <1>8, <1>9, <1>10, Zenon DEF HInv, Course

\* Every step keeps the account.
LEMMA HStep == HInv /\ [Next]_vars => HInv'
<1> SUFFICES ASSUME HInv, [Next]_vars PROVE HInv'  BY Zenon
<1>1. CASE \/ download \/ sync_check \/ hook_run_load \/ hook_run_match \/ hook_run_return
           \/ runscriptlet_cleanup \/ commit_package \/ trans_commit
  BY <1>1, OthersKeep, Zenon
<1>2. CASE hook_run_unmet  BY <1>2, UnmetKeeps, Zenon
<1>3. CASE hook_run_unrun  BY <1>3, UnrunKeeps
<1>4. CASE hook_run_start  BY <1>4, StartKeeps
<1>5. CASE hook_run_done  BY <1>5, DoneKeeps
<1>6. CASE runscriptlet  BY <1>6, ScriptletKeeps
<1>7. CASE (Parent \/ Child) /\ UNCHANGED hookvars  BY <1>7, RunKeeps, Zenon
<1>8. CASE Idle \/ UNCHANGED vars
  <2>1. UNCHANGED hookvars /\ UNCHANGED runvars  BY <1>8, Zenon DEF Idle, vars
  <2> QED  BY <2>1, RunKeeps, Zenon
<1> QED  BY <1>1, <1>2, <1>3, <1>4, <1>5, <1>6, <1>7, <1>8, Zenon DEF Next, Library

\* The steps of _klpm_trans_commit(), of _klpm_hook_run() and of _klpm_run_chroot() with
\* its child keep, in every interleaving: where the bytes are between the library and the
\* child, and which hooks were run and are still to be run.
THEOREM HooksInductive == Spec => []HInv
<1> QED  BY HBegins, HStep, PTL DEF Spec

\* What the account says of the targets of a hook.
LEMMA DeliveredFrom ==
  ASSUME HInv
  PROVE  TargetsDelivered
<1> SUFFICES ASSUME HookRuns, First.hook.needs
             PROVE  /\ StartsWith(TargetLines(Sorted(Due(First.hook))), got)
                    /\ child = "exited" /\ ReadsAll(First.hook.cmd[1].prog) => got = TargetLines(Sorted(Due(First.hook)))
  BY Zenon DEF TargetsDelivered, HookRuns
<1>1. /\ fed = TargetLines(Sorted(Due(First.hook))) /\ fed = Passing
      /\ ReadsAll(First.hook.cmd[1].prog) => AllRead(fed)
  BY Zenon DEF HInv, Incoming
<1>2. StartsWith(fed, got)
  <2>1. got \in Seq(Bytes) /\ AllIn(got, p2c, obuf, feed, Bytes)  BY Zenon DEF HInv, Typed, AllIn
  <2>2. PICK end : end = obuf \o feed  BY Zenon
  <2>3. PICK rest : rest = p2c \o end  BY Zenon
  <2>4. end \in Seq(Bytes)  BY <2>1, <2>2, ConcatProperties, Zenon DEF AllIn
  <2>5. rest \in Seq(Bytes)  BY <2>1, <2>3, <2>4, ConcatProperties, Zenon DEF AllIn
  <2>6. Passing = got \o rest
    <3>1. Regrouped(got, p2c, obuf, feed)  BY <2>1, Four, Zenon
    <3> QED  BY <2>2, <2>3, <3>1, Zenon DEF Regrouped, Passing
  <2> QED  BY <1>1, <2>1, <2>5, <2>6, Ends, Zenon
<1>3. child = "exited" /\ ReadsAll(First.hook.cmd[1].prog) => got = fed
  BY <1>1, OverReadsNothing, Zenon DEF HInv, Typed, AllRead
<1> QED  BY <1>1, <1>2, <1>3, Zenon

\* What a command of a hook reads from the library is a beginning of its targets, and all
\* of them when it reads to the end; what the library reports when it waits for the child
\* is what the child wrote.  For every capacity of the sockets, every size of the buffers
\* and every program of the child (_klpm_run_chroot(), _klpm_hook_feed_targets()).
THEOREM NothingIsLost == Spec => []NothingLost
<1>1. HInv => NothingLost
  <2> SUFFICES ASSUME HInv PROVE NothingLost  BY Zenon
  <2>1. TargetsDelivered  BY DeliveredFrom, Zenon
  <2>2. OutputComplete  BY Zenon DEF HInv, Outgoing, OutputComplete, Shown, LineText
  <2> QED  BY <2>1, <2>2, Zenon DEF NothingLost
<1> QED  BY HooksInductive, <1>1, PTL

\* A PreTransaction hook that aborts is the last thing that happens, and PostTransaction
\* hooks follow a commit only (_klpm_hook_run(), _klpm_trans_commit()).
THEOREM AbortingStops == Spec => []AbortStops
<1>1. HInv => AbortStops
  BY Zenon DEF HInv, Course, Aborting, Aborts, AbortStops
<1> QED  BY HooksInductive, <1>1, PTL

\* The hooks run are those the documentation says, each once, in the order of their names
\* (_klpm_hook_run(), _klpm_hook_triggered()).
THEOREM RunAsDocumented == Spec => []HooksAsDocumented
<1>1. HInv => HooksAsDocumented  BY Zenon DEF HInv, Course
<1> QED  BY HooksInductive, <1>1, PTL
=============================================================================
