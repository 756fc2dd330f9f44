------------------------------- MODULE MCPrep -------------------------------
(***************************************************************************)
(* Instances of RemovePrep: every graph on three packages in which a       *)
(* package has one dependency with any satisfiers, or needs both others;   *)
(* and every graph on four packages in which a dependency has one          *)
(* satisfier.                                                              *)
(***************************************************************************)
EXTENDS RemovePrep, SequencesExt

N == 4
Four == 1..N
Three == 1..3

\* The graph with package 4 alone.
Alternatives(p) ==
  {{}, {Three \ {p}}} \cup {{d} : d \in SUBSET (Three \ {p})}
    \cup {{{q} : q \in Three \ {p}}}
RichGraphs ==
  {[p \in Four |-> IF p = 4 THEN {} ELSE g[p]] :
     g \in {h \in [Three -> UNION {Alternatives(p) : p \in Three}] :
              \A p \in Three : h[p] \in Alternatives(p)}}

PlainGraphs ==
  {[p \in Four |-> {{q} : q \in g[p]}] :
     g \in {h \in [Four -> SUBSET Four] : \A p \in Four : p \notin h[p]}}

FlagSets ==
  {{}, {"CASCADE"}, {"RECURSE"}, {"RECURSE", "RECURSEALL"}, {"UNNEEDED"},
   {"CASCADE", "RECURSE"}, {"RECURSE", "UNNEEDED"}, {"NODEPS", "RECURSE"}}

AsList(S) == SetToSortSeq(S, <)

\* Whether a target is explicitly installed makes no difference.
SomeRequests ==
  UNION {[deps : RichGraphs, explicit : SUBSET (Three \ S), flags : FlagSets,
          targets : {AsList(S)}] : S \in {{1}, {2}, {1, 2}, {2, 3}}}
  \cup
  [deps : PlainGraphs, explicit : {{}}, targets : {<<1>>},
   flags : {{"CASCADE"}, {"RECURSE"}}]

\* All packages are targets, or two are and two are installed.
SomeAdditions == [deps : PlainGraphs, targets : {<<1, 2>>, <<1, 2, 3, 4>>}]
=============================================================================
