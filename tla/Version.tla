------------------------------- MODULE Version -------------------------------
(***************************************************************************)
(* Version comparison (lib/libkuzpkg/version.c) and dependency strings     *)
(* (deps.c).                                                               *)
(***************************************************************************)
EXTENDS Strings, FiniteSets, SequencesExt

Digits == {"0", "1", "2", "3", "4", "5", "6", "7", "8", "9"}
Letters == {"a", "b", "c", "d", "e", "f", "g", "h", "i", "j", "k", "l", "m",
            "n", "o", "p", "q", "r", "s", "t", "u", "v", "w", "x", "y", "z"}

Separators == Chars \ (Digits \cup Letters)

\* The length of the longest prefix of s made of characters of C.
Span(s, C) ==
  CHOOSE n \in 0..Len(s) : (\A k \in 1..n : s[k] \in C) /\ (n < Len(s) => s[n + 1] \notin C)

\* parseEVR(): [epoch:]version[-release].  A release is <<r>>, and <<>> when there
\* is none.
parseEVR(evr) ==
  LET n == Span(evr, Digits)
      colon == n < Len(evr) /\ evr[n + 1] = ":"
      dash == n + 1 + Span(From(evr, n + 1), Chars \ {"-"})
  IN  [epoch |-> IF colon /\ n > 0 THEN SubSeq(evr, 1, n) ELSE <<"0">>,
       version |-> SubSeq(evr, IF colon THEN n + 2 ELSE 1, dash - 1),
       release |-> IF dash <= Len(evr) THEN <<From(evr, dash + 1)>> ELSE <<>>]

\* "the final showdown": what is left of the two when all segments were equal,
\* without its separators when both have something left.
showdown(one, two) ==
  CASE one = <<>> /\ two = <<>> -> 0
    [] one = <<>> /\ two # <<>> -> IF two[1] \in Letters THEN 1 ELSE -1
    [] OTHER -> IF one[1] \in Letters THEN -1 ELSE 1

strip(s) == From(s, Span(s, Separators) + 1)
restcmp(one, two) ==
  IF one = <<>> \/ two = <<>> THEN showdown(one, two) ELSE showdown(strip(one), strip(two))

\* The segments of a version, runs of digits or of letters, each with the number of
\* separators before it.
Kind(c) == CASE c \in Digits -> "number" [] c \in Letters -> "word" [] OTHER -> "separator"
LastOf(s, k) == k - 1 + Span(From(s, k), IF s[k] \in Digits THEN Digits ELSE Letters)
SegmentsAt(s, first) ==
  [n \in DOMAIN first |->
     [last |-> LastOf(s, first[n]), text |-> SubSeq(s, first[n], LastOf(s, first[n])),
      isnum |-> s[first[n]] \in Digits,
      sep |-> first[n] - 1 - (IF n = 1 THEN 0 ELSE LastOf(s, first[n - 1]))]]
Segments(s) ==
  SegmentsAt(s, SetToSortSeq({k \in DOMAIN s : /\ Kind(s[k]) # "separator"
                                               /\ k > 1 => Kind(s[k - 1]) # Kind(s[k])}, <))

\* Of numbers the one with more digits wins once leading zeros are gone.
numcmp(s, t) ==
  LET one == From(s, Span(s, {"0"}) + 1)
      two == From(t, Span(t, {"0"}) + 1)
  IN  IF Len(one) < Len(two) THEN -1 ELSE IF Len(one) > Len(two) THEN 1 ELSE strcmp(one, two)

\* Segments of different kinds: a number is newer.
\* Mutant: the first of the two is newer.
kindcmpFirst(isnum) == 1
kindcmp(isnum) == IF isnum THEN 1 ELSE -1

segcmp(x, y) ==
  CASE x.sep < y.sep -> -1
    [] x.sep > y.sep -> 1
    [] x.sep = y.sep /\ x.isnum # y.isnum -> kindcmp(x.isnum)
    [] OTHER -> IF x.isnum THEN numcmp(x.text, y.text) ELSE strcmp(x.text, y.text)

\* The first of several comparisons that does not come out equal.
FirstDifference(signs) ==
  LET different == SelectSeq(signs, LAMBDA c : c # 0)
  IN  IF different = <<>> THEN 0 ELSE Head(different)

\* rpmvercmp(): the first pair of segments that differs, else what follows the
\* last pair.
segmentscmp(a, b, x, y) ==
  LET pairs == DOMAIN x \cap DOMAIN y
      rest(s, segments) == From(s, IF pairs = {} THEN 1 ELSE segments[Cardinality(pairs)].last + 1)
  IN  FirstDifference([n \in pairs |-> segcmp(x[n], y[n])] \o <<restcmp(rest(a, x), rest(b, y))>>)

rpmvercmp(a, b) == segmentscmp(a, b, Segments(a), Segments(b))

\* klpm_pkg_vercmp(): releases count only if both versions have one.
evrcmp(x, y) ==
  FirstDifference(<<rpmvercmp(x.epoch, y.epoch), rpmvercmp(x.version, y.version),
                    IF <<>> \in {x.release, y.release} THEN 0
                    ELSE rpmvercmp(x.release[1], y.release[1])>>)

klpm_pkg_vercmp(a, b) == IF a = b THEN 0 ELSE evrcmp(parseEVR(a), parseEVR(b))

-----------------------------------------------------------------------------
(* Dependencies as strings: name, comparator, version, description.         *)

Index(s, c) == Span(s, Chars \ {c}) + 1

Mods == {"any", "=", ">=", "<=", "<", ">"}
Operator == [m \in Mods |-> CASE m = "any" -> <<>> [] m = ">=" -> <<">", "=">>
                              [] m = "<=" -> <<"<", "=">> [] OTHER -> <<m>>]

\* klpm_dep_from_string().  A description is <<d>>, and <<>> when there is none.
DescAt(s) ==
  LET ends == {k \in 1..Len(s) - 1 : s[k] = ":" /\ s[k + 1] = " "}
  IN  IF ends = {} THEN Len(s) + 1 ELSE CHOOSE k \in ends : \A m \in ends : k <= m

klpm_dep_from_string(s) ==
  LET desc == DescAt(s)
      dep == SubSeq(s, 1, desc - 1)
      op == CASE "<" \in Range(dep) -> "<" [] "<" \notin Range(dep) /\ ">" \in Range(dep) -> ">" [] OTHER -> "="
      ptr == Index(dep, op)
      orequal == op # "=" /\ ptr < Len(s) /\ s[ptr + 1] = "="
  IN  [name |-> SubSeq(dep, 1, ptr - 1),
       mod |-> CASE ptr > Len(dep) -> "any"
                 [] ptr <= Len(dep) /\ orequal -> IF op = "<" THEN "<=" ELSE ">="
                 [] OTHER -> op,
       version |-> From(dep, IF orequal THEN ptr + 2 ELSE ptr + 1),
       desc |-> IF desc > Len(s) THEN <<>> ELSE <<From(s, desc + 2)>>]

\* klpm_dep_compute_string().
klpm_dep_compute_string(dep) ==
  dep.name \o Operator[dep.mod] \o (IF dep.mod = "any" THEN <<>> ELSE dep.version)
  \o (IF dep.desc = <<>> THEN <<>> ELSE <<":", " ">> \o dep.desc[1])

-----------------------------------------------------------------------------
(* Properties, over bounded strings.                                        *)

\* Versions that begin and end with a letter or a digit; the shortest also with
\* an epoch and releases.
Plain == {s \in UNION {[1..n -> {"0", "1", "a", "."}] : n \in 1..3} : s[1] # "." /\ s[Len(s)] # "."}
Short == {s \in Plain : Len(s) = 1}
Released == {e \o s \o <<"-">> \o r : e \in {<<>>, <<"1", ":">>, <<":">>}, s \in Short, r \in Short}

\* Swapping the two versions turns the answer round, and of versions that all have a
\* release, or all have none, what is not newer than one is not newer than a newer one.
Ordered ==
  /\ \A a, b \in Plain \cup Released : klpm_pkg_vercmp(a, b) = -klpm_pkg_vercmp(b, a)
  /\ \A V \in {Plain, Released} :
       LET table == {<<a, b, klpm_pkg_vercmp(a, b)>> : a \in V, b \in V}
           atmost(b) == {t[1] : t \in {u \in table : u[2] = b /\ u[3] <= 0}}
       IN  \A b \in V : \A a \in atmost(b) : atmost(a) \subseteq atmost(b)

\* The examples of vercmp(8).
Documented ==
  LET v(s) == <<"1", ".">> \o s IN
  {<<v(<<"0", "a">>), v(<<"0", "b">>), v(<<"0", "b", "e", "t", "a">>), v(<<"0", "p">>),
     v(<<"0", "p", "r", "e">>), v(<<"0", "r", "c">>), v(<<"0">>), v(<<"0", ".", "a">>), v(<<"0", ".", "1">>)>>,
   <<<<"1">>, v(<<"0">>), v(<<"1">>), v(<<"1", ".", "1">>), v(<<"2">>), <<"2", ".", "0">>,
     <<"3", ".", "0", ".", "0">>, <<"1", ":", "0">>>>}

AsDocumented ==
  \A chain \in Documented : \A k, m \in DOMAIN chain :
    /\ k < m => klpm_pkg_vercmp(chain[k], chain[m]) = -1
    /\ klpm_pkg_vercmp(chain[k], chain[k] \o <<"-", "1">>) = 0

RoundTrips ==
  \A m \in Mods, v \in {<<"1">>, <<"1", ":", "1", "-", "1">>}, n \in {<<"a">>, <<"a", "-", "b">>},
     d \in {<<>>, <<<<"x">>>>, <<<<"b", ":", " ", "c", ">", "1">>>>} :
    LET dep == [name |-> n, mod |-> m, version |-> IF m = "any" THEN <<>> ELSE v, desc |-> d]
    IN  klpm_dep_from_string(klpm_dep_compute_string(dep)) = dep
=============================================================================
