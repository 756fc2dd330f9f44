------------------------------ MODULE RunProof -------------------------------
(***************************************************************************)
(* Proofs about RunChild and Strings: where the bytes are between the      *)
(* library and a command, whatever the sizes of the buffers and of the     *)
(* sockets, and that strcmp() orders the strings.                          *)
(***************************************************************************)
EXTENDS RunChild, SequenceTheorems, WellFoundedInduction, TLAPS

(* The account of a run.                                                    *)

\* The text of a line, and of a list of lines.
LineType == [text : Seq(Bytes), nl : BOOLEAN]
LineText(l) == l.text \o (IF l.nl THEN <<"nl">> ELSE <<>>)
Shown(ls) == Joined([k \in DOMAIN ls |-> LineText(ls[k])])

\* The variables of a run keep their types, and the buffer of the output has room.
Typed ==
  /\ lines \in Seq(LineType)
  /\ ibuf \in Seq(Bytes) /\ c2p \in Seq(Bytes) /\ said \in Seq(Bytes)
  /\ obuf \in Seq(Bytes) /\ p2c \in Seq(Bytes) /\ got \in Seq(Bytes) /\ feed \in Seq(Bytes)
  /\ program \in Seq(STRING)
  /\ Len(ibuf) < ISize - 2 /\ Len(p2c) <= Capacity
  /\ child = "exited" => program = <<>>

\* Where the output is: what was reported, what is in the buffer, what is in the socket.
\* Once the end was read there is nothing more to come, and what is in the buffer was
\* reported.
Outgoing ==
  parent # "idle" =>
    /\ pIn => parent # "wait" /\ said = (Shown(lines) \o ibuf) \o c2p
    /\ ~pIn => /\ ~cOut /\ c2p = <<>> /\ parent # "read" /\ EndsWith(said, ibuf)
               /\ parent # "wait" => Shown(lines) = said
               /\ parent = "wait" => Shown(lines) = said \o ibuf
    /\ parent = "read" => c2p # <<>> \/ ~cOut

\* Where the input is: what the child has read, what
\* is in the socket, in the buffer and still to come.  The parent does not close the socket
\* before all was sent, and a child that is to read everything either still has that to do
\* or has done it.
Passing == ((got \o p2c) \o obuf) \o feed
Drained == ~pOut /\ cIn => obuf = <<>> /\ feed = <<>>
AllRead(bytes) == (cIn /\ ReadsAll(program)) \/ got = bytes

-----------------------------------------------------------------------------
(* Lists.                                                                   *)

\* A set of naturals that is not empty has a least element: induction, as the provers
\* can use it.
LEMMA LeastOf ==
  ASSUME NEW T, T \subseteq Nat, T # {}
  PROVE  \E x \in T : \A y \in T : x <= y
<1> DEFINE L == OpToRel(<, Nat)
<1>1. PICK x \in T : \A y \in T : ~(<<y, x>> \in L)
  <2>1. IsWellFoundedOn(L, Nat)  BY NatLessThanWellFounded, Zenon
  <2> HIDE DEF L
  <2> QED  BY <2>1, WFMin, Zenon
<1>2. \A y \in T : y < x => <<y, x>> \in L  BY Zenon DEF OpToRel
<1> HIDE DEF L
<1>3. \A y \in T : ~(y < x)  BY <1>1, <1>2, Zenon
<1> QED  BY <1>3

\* A member added to the second of two lists.
LEMMA CatAppend ==
  ASSUME NEW S, NEW a \in Seq(S), NEW b \in Seq(S), NEW x \in S
  PROVE  /\ Append(b, x) = b \o <<x>> /\ a \o Append(b, x) = (a \o b) \o <<x>>
         /\ a \o Append(b, x) = Append(a \o b, x)
         /\ a \o <<>> = a /\ <<>> \o a = a /\ a \o b \in Seq(S)
<1>1. <<x>> \in Seq(S) /\ a \o b \in Seq(S) /\ a \o <<>> = a /\ <<>> \o a = a  OBVIOUS
<1>2. Append(b, x) = b \o <<x>>  OBVIOUS
<1> DEFINE c == a \o b
<1>3. Append(c, x) = c \o <<x>>
  <2>1. c \in Seq(S)  BY <1>1, Zenon
  <2> HIDE DEF c
  <2> QED  BY <2>1
<1>4. (a \o b) \o <<x>> = a \o (b \o <<x>>)  BY <1>1, ConcatAssociative
<1> QED  BY <1>1, <1>2, <1>3, <1>4, Zenon

\* The function that Joined computes exists: it can be made longer as long as there are
\* members left.
LEMMA JoinedStep ==
  ASSUME NEW S, NEW ss \in Seq(Seq(S))
  PROVE  \E f : /\ f[0] = <<>> /\ Joined(ss) = f[Len(ss)]
                /\ \A n \in 1..Len(ss) : f[n] = f[n - 1] \o ss[n]
<1> DEFINE Next0(g, n) == IF n = 0 THEN <<>> ELSE g[n - 1] \o ss[n]
           Fun(g, N) == g = [n \in 0..N |-> Next0(g, n)]
           Bad == {N \in Nat : ~\E g : Fun(g, N)}
<1>1. Bad = {}
  <2> SUFFICES ASSUME Bad # {} PROVE FALSE  BY Zenon
  <2>1. PICK N \in Bad : \A y \in Bad : N <= y
    <3>1. Bad \subseteq Nat  BY Zenon
    <3> HIDE DEF Bad
    <3> QED  BY <3>1, LeastOf, Zenon
  <2>2. N \in Nat /\ ~\E g : Fun(g, N)  BY Zenon
  <2>3. N # 0
    <3> SUFFICES ASSUME N = 0 PROVE FALSE  BY Zenon
    <3> DEFINE g == [n \in 0..0 |-> <<>>]
    <3>1. Fun(g, 0)
      <4>1. \A n \in 0..0 : Next0(g, n) = <<>>  OBVIOUS
      <4> QED  BY <4>1, Zenon
    <3> QED  BY <2>2, <3>1, Zenon
  <2>4. N - 1 \in Nat /\ N - 1 \notin Bad
    <3>1. N - 1 \in Nat /\ ~(N <= N - 1)  BY <2>2, <2>3
    <3> HIDE DEF Bad
    <3> QED  BY <2>1, <3>1, Zenon
  <2>5. PICK g : Fun(g, N - 1)  BY <2>4, Zenon
  <2> DEFINE h == [n \in 0..N |-> Next0(g, n)]
  <2>6. \A n \in 0..(N - 1) : h[n] = g[n] /\ n \in 0..N
    <3>1. \A n \in 0..(N - 1) : n \in 0..N  BY <2>2, <2>4
    <3>2. \A n \in 0..(N - 1) : g[n] = Next0(g, n)  BY <2>5, Zenon
    <3> QED  BY <3>1, <3>2, Zenon
  <2>7. \A n \in 0..N : n # 0 => n - 1 \in 0..(N - 1)  BY <2>2
  <2>8. \A n \in 0..N : Next0(h, n) = Next0(g, n)
    <3> HIDE DEF h
    <3> QED  BY <2>6, <2>7, Zenon
  <2>9. Fun(h, N)
    <3>1. h = [n \in 0..N |-> Next0(h, n)]
      <4>1. h = [n \in 0..N |-> Next0(g, n)]  BY Zenon
      <4> HIDE DEF h, Next0
      <4> QED  BY <2>8, <4>1, Zenon
    <3> QED  BY <3>1, Zenon
  <2> QED  BY <2>2, <2>9, Zenon
<1>2. Len(ss) \in Nat /\ \E g : Fun(g, Len(ss))
  <2>1. Len(ss) \in Nat  OBVIOUS
  <2> HIDE DEF Fun
  <2> QED  BY <1>1, <2>1, Zenon
<1> DEFINE f == CHOOSE g : Fun(g, Len(ss))
<1>3. Fun(f, Len(ss))
  <2> HIDE DEF Fun
  <2> QED  BY <1>2, Zenon
<1>4. Joined(ss) = f[Len(ss)]  BY Zenon DEF Joined
<1> HIDE DEF f
<1>5. f[0] = <<>>
  <2>1. 0 \in 0..Len(ss)  BY <1>2
  <2> QED  BY <1>3, <2>1, Zenon
<1>6. ASSUME NEW n \in 1..Len(ss) PROVE f[n] = f[n - 1] \o ss[n]
  <2>1. n \in 0..Len(ss) /\ n # 0  BY <1>2
  <2> QED  BY <1>3, <2>1, Zenon
<1> QED  BY <1>4, <1>5, <1>6, Zenon

\* A list with one more member is put together by adding it at the end.
LEMMA JoinedAppend ==
  ASSUME NEW S, NEW ss \in Seq(Seq(S)), NEW x \in Seq(S)
  PROVE  /\ Joined(ss) \in Seq(S) /\ Joined(Append(ss, x)) = Joined(ss) \o x
         /\ ss = <<>> => Joined(ss) = <<>>
<1> DEFINE tt == Append(ss, x)
           N == Len(ss)
<1>1. /\ tt \in Seq(Seq(S)) /\ Len(tt) = N + 1 /\ N \in Nat /\ tt[N + 1] = x
      /\ \A n \in 1..N : tt[n] = ss[n] /\ ss[n] \in Seq(S)
  OBVIOUS
<1>2. PICK f : /\ f[0] = <<>> /\ Joined(ss) = f[N]
               /\ \A n \in 1..N : f[n] = f[n - 1] \o ss[n]
  BY JoinedStep, Zenon
<1>3. PICK g : /\ g[0] = <<>> /\ Joined(tt) = g[N + 1]
               /\ \A n \in 1..(N + 1) : g[n] = g[n - 1] \o tt[n]
  <2> HIDE DEF tt, N
  <2>1. \E g : /\ g[0] = <<>> /\ Joined(tt) = g[Len(tt)]
               /\ \A n \in 1..Len(tt) : g[n] = g[n - 1] \o tt[n]
    BY <1>1, JoinedStep, Zenon
  <2> QED  BY <1>1, <2>1, Zenon
<1> HIDE DEF tt, N
<1> DEFINE Good(n) == f[n] = g[n] /\ f[n] \in Seq(S)
           Bad == {n \in 0..N : ~Good(n)}
<1>4. Bad = {}
  <2> SUFFICES ASSUME Bad # {} PROVE FALSE  BY Zenon
  <2>1. PICK n \in Bad : \A y \in Bad : n <= y
    <3>1. Bad \subseteq Nat  BY <1>1
    <3> HIDE DEF Bad
    <3> QED  BY <3>1, LeastOf, Zenon
  <2>2. n \in 0..N /\ ~Good(n)  BY Zenon
  <2>3. n # 0
    <3>1. <<>> \in Seq(S)  OBVIOUS
    <3>2. Good(0)  BY <1>2, <1>3, <3>1, Zenon
    <3> QED  BY <2>2, <3>2, Zenon
  <2>4. n - 1 \in 0..N /\ n \in 1..N /\ n \in 1..(N + 1) /\ ~(n <= n - 1)  BY <1>1, <2>2, <2>3
  <2>5. Good(n - 1)
    <3>1. n - 1 \notin Bad
      <4> HIDE DEF Bad
      <4> QED  BY <2>1, <2>4, Zenon
    <3> QED  BY <2>4, <3>1, Zenon
  <2> DEFINE a == f[n - 1]
             b == ss[n]
  <2>6. a \in Seq(S) /\ b \in Seq(S) /\ f[n] = a \o b /\ g[n] = a \o b  BY <1>1, <1>2, <1>3, <2>4, <2>5, Zenon
  <2> HIDE DEF a, b
  <2>7. a \o b \in Seq(S)  BY <2>6
  <2>8. Good(n)  BY <2>6, <2>7, Zenon
  <2> QED  BY <2>2, <2>8, Zenon
<1>5. Good(N)
  <2>1. N \in 0..N  BY <1>1
  <2> HIDE DEF Good
  <2> QED  BY <1>4, <2>1, Zenon
<1>6. N + 1 \in 1..(N + 1) /\ (N + 1) - 1 = N  BY <1>1
<1>7. g[N + 1] = g[N] \o x  BY <1>1, <1>3, <1>6, Zenon
<1>8. ss = <<>> => N = 0  BY DEF N
<1> QED  BY <1>2, <1>3, <1>5, <1>7, <1>8, Zenon DEF tt, N

-----------------------------------------------------------------------------
(* Lines.                                                                   *)

\* One more line is shown after the others.
LEMMA ShownAppend ==
  ASSUME NEW ls \in Seq(LineType), NEW l \in LineType
  PROVE  /\ Shown(ls) \in Seq(Bytes) /\ LineText(l) \in Seq(Bytes)
         /\ Shown(Append(ls, l)) = Shown(ls) \o LineText(l)
         /\ ls = <<>> => Shown(ls) = <<>>
<1> DEFINE ts == [k \in DOMAIN ls |-> LineText(ls[k])]
           ms == Append(ls, l)
           us == [k \in DOMAIN ms |-> LineText(ms[k])]
<1>1. ASSUME NEW m \in LineType PROVE LineText(m) \in Seq(Bytes)
  <2> DEFINE t == m.text
             e == IF m.nl THEN <<"nl">> ELSE <<>>
  <2>1. t \in Seq(Bytes)  BY Zenon DEF LineType
  <2>2. e \in Seq(Bytes)
    <3>1. "nl" \in Bytes  BY Zenon DEF Bytes
    <3>2. <<"nl">> \in Seq(Bytes) /\ <<>> \in Seq(Bytes)  BY <3>1
    <3> QED  BY <3>2, Zenon
  <2>3. LineText(m) = t \o e  BY Zenon DEF LineText
  <2> HIDE DEF t, e
  <2> QED  BY <2>1, <2>2, <2>3
<1>2. /\ Len(ls) \in Nat /\ DOMAIN ls = 1..Len(ls) /\ \A k \in 1..Len(ls) : ls[k] \in LineType
      /\ DOMAIN ms = 1..(Len(ls) + 1) /\ ms[Len(ls) + 1] = l /\ \A k \in 1..Len(ls) : ms[k] = ls[k]
  OBVIOUS
<1>3. ts \in Seq(Seq(Bytes)) /\ Len(ts) = Len(ls) /\ \A k \in 1..Len(ls) : ts[k] = LineText(ls[k])
  BY <1>1, <1>2
<1>4. us = Append(ts, LineText(l))
  <2> DEFINE vs == Append(ts, LineText(l))
  <2>1. vs \in Seq(Seq(Bytes)) /\ Len(vs) = Len(ls) + 1 /\ vs[Len(ls) + 1] = LineText(l)
        /\ \A k \in 1..Len(ls) : vs[k] = ts[k]
    <3> HIDE DEF ts
    <3> QED  BY <1>1, <1>3
  <2>2. us \in Seq(Seq(Bytes)) /\ Len(us) = Len(ls) + 1 /\ \A k \in 1..(Len(ls) + 1) : us[k] = LineText(ms[k])
    <3>1. \A k \in 1..(Len(ls) + 1) : ms[k] \in LineType  OBVIOUS
    <3> HIDE DEF ms
    <3> QED  BY <1>1, <1>2, <3>1
  <2>3. \A k \in 1..(Len(ls) + 1) : us[k] = vs[k]
    <3> HIDE DEF us, vs, ts, ms
    <3>1. \A k \in 1..(Len(ls) + 1) : k \in 1..Len(ls) \/ k = Len(ls) + 1  BY <1>2
    <3> QED  BY <1>2, <1>3, <2>1, <2>2, <3>1
  <2> HIDE DEF us, vs
  <2>4. us = vs  BY <2>1, <2>2, <2>3, SeqEqual, Zenon
  <2> QED  BY <2>4, Zenon DEF vs
<1>5. ls = <<>> => ts = <<>>  BY <1>3
<1>6. Shown(ls) = Joined(ts) /\ Shown(Append(ls, l)) = Joined(us)  BY Zenon DEF Shown
<1> HIDE DEF ts, us
<1>7. LineText(l) \in Seq(Bytes)  BY <1>1, Zenon
<1>8. Joined(ts) \in Seq(Bytes) /\ Joined(us) = Joined(ts) \o LineText(l) /\ (ts = <<>> => Joined(ts) = <<>>)
  BY <1>3, <1>4, <1>7, JoinedAppend, Zenon
<1> QED  BY <1>5, <1>6, <1>7, <1>8, Zenon

\* Where the last newline of s is, or 0.
LastEnd(s) == IF LineEnds(s) = {} THEN 0 ELSE CHOOSE k \in LineEnds(s) : \A m \in LineEnds(s) : m <= k

\* The last newline exists, and no other place is like it.
LEMMA LastEndIs ==
  ASSUME NEW s \in Seq(Bytes)
  PROVE  /\ LastEnd(s) \in 0..Len(s) /\ \A m \in LineEnds(s) : m <= LastEnd(s)
         /\ LastEnd(s) # 0 => LastEnd(s) \in LineEnds(s)
         /\ LineEnds(s) = {} <=> LastEnd(s) = 0
         /\ Unfinished(s) = SubSeq(s, LastEnd(s) + 1, Len(s))
<1> DEFINE E == LineEnds(s)
<1>1. Len(s) \in Nat /\ E \subseteq 1..Len(s)  BY DEF LineEnds
<1> HIDE DEF E
<1>2. ASSUME E # {} PROVE \E k \in E : \A m \in E : m <= k
  <2> DEFINE T == {Len(s) - m : m \in E}
  <2>1. T \subseteq Nat /\ T # {}
    <3>1. \A m \in E : Len(s) - m \in Nat  BY <1>1
    <3> QED  BY <1>2, <3>1, Zenon
  <2>2. PICK x \in T : \A y \in T : x <= y
    <3> HIDE DEF T
    <3> QED  BY <2>1, LeastOf, Zenon
  <2>3. PICK k \in E : x = Len(s) - k  BY Zenon
  <2>4. \A m \in E : Len(s) - k <= Len(s) - m  BY <2>2, <2>3, Zenon
  <2> QED  BY <1>1, <2>4
<1>3. CASE E = {}
  <2>1. LastEnd(s) = 0  BY <1>3, Zenon DEF LastEnd, E
  <2>2. Unfinished(s) = SubSeq(s, 1, Len(s))  BY <1>3, Zenon DEF Unfinished, From, E
  <2> QED  BY <1>1, <1>3, <2>1, <2>2 DEF E
<1>4. CASE E # {}
  <2> DEFINE k == CHOOSE n \in E : \A m \in E : m <= n
  <2>1. LastEnd(s) = k  BY <1>4, Zenon DEF LastEnd, E
  <2>2. Unfinished(s) = SubSeq(s, k + 1, Len(s))  BY <1>4, Zenon DEF Unfinished, From, E
  <2>3. k \in E /\ \A m \in E : m <= k  BY <1>2, <1>4, Zenon
  <2> HIDE DEF k
  <2>4. k \in 1..Len(s)  BY <1>1, <2>3, Zenon
  <2>5. k \in 0..Len(s) /\ k # 0  BY <1>1, <2>4
  <2> QED  BY <1>4, <2>1, <2>2, <2>3, <2>5, Zenon DEF E
<1> QED  BY <1>3, <1>4, Zenon

\* What is unfinished after one more byte.
LEMMA UnfinishedStep ==
  ASSUME NEW s \in Seq(Bytes), NEW x \in Bytes
  PROVE  /\ Unfinished(s) \in Seq(Bytes) /\ Len(Unfinished(s)) <= Len(s)
         /\ LineEnds(s) # {} => Len(Unfinished(s)) < Len(s)
         /\ LineEnds(s) = {} => Unfinished(s) = s
         /\ x = "nl" => Unfinished(Append(s, x)) = <<>>
         /\ x # "nl" => Unfinished(Append(s, x)) = Append(Unfinished(s), x)
<1> DEFINE e == LastEnd(s)
           N == Len(s)
           t == Append(s, x)
           f == LastEnd(t)
           u == SubSeq(s, e + 1, N)
           v == SubSeq(t, f + 1, N + 1)
<1>1. /\ t \in Seq(Bytes) /\ Len(t) = N + 1 /\ N \in Nat /\ t[N + 1] = x
      /\ \A k \in 1..N : t[k] = s[k] /\ s[k] \in Bytes
  OBVIOUS
<1>2. /\ e \in 0..N /\ \A m \in LineEnds(s) : m <= e
      /\ e # 0 => e \in LineEnds(s)
      /\ (LineEnds(s) = {}) <=> (e = 0)
      /\ Unfinished(s) = u
  BY LastEndIs, Zenon
<1>3. /\ f \in 0..(N + 1) /\ \A m \in LineEnds(t) : m <= f
      /\ f # 0 => f \in LineEnds(t)
      /\ Unfinished(t) = v
  <2> HIDE DEF t
  <2> QED  BY <1>1, LastEndIs, Zenon
<1>4. LineEnds(t) = LineEnds(s) \cup (IF x = "nl" THEN {N + 1} ELSE {})
  <2>1. DOMAIN t = 1..(N + 1) /\ DOMAIN s = 1..N  BY <1>1
  <2>2. 1..(N + 1) = 1..N \cup {N + 1}  BY <1>1
  <2> HIDE DEF t, N
  <2> QED  BY <1>1, <2>1, <2>2, Zenon DEF LineEnds
<1>5. LineEnds(s) \subseteq 1..N  BY DEF LineEnds
<1> HIDE DEF e, f, t
<1>6. u \in Seq(Bytes) /\ Len(u) = N - e /\ \A i \in 1..(N - e) : u[i] = s[e + i]
  <2>1. \A i \in (e + 1)..N : s[i] \in Bytes  BY <1>1, <1>2
  <2>2. /\ u \in Seq(Bytes) /\ Len(u) = IF e + 1 <= N THEN N - (e + 1) + 1 ELSE 0
        /\ \A i \in 1..(N - (e + 1) + 1) : u[i] = s[(e + 1) + i - 1]
    <3>1. e + 1 \in Int /\ N \in Int  BY <1>1, <1>2
    <3> QED  BY <2>1, <3>1, SubSeqProperties
  <2> HIDE DEF u, N
  <2>3. Len(u) = N - e  BY <1>1, <1>2, <2>2
  <2>4. \A i \in 1..(N - e) : u[i] = s[e + i]
    <3>1. N - (e + 1) + 1 = N - e /\ \A i \in 1..(N - e) : (e + 1) + i - 1 = e + i  BY <1>1, <1>2
    <3> QED  BY <2>2, <3>1, Zenon
  <2> QED  BY <2>2, <2>3, <2>4, Zenon
<1>7. LineEnds(s) = {} => u = s
  <2> SUFFICES ASSUME LineEnds(s) = {} PROVE u = s  BY Zenon
  <2>1. e = 0  BY <1>2, Zenon
  <2>2. u = SubSeq(s, 1, Len(s))  BY <2>1
  <2> QED  BY <2>2, SubSeqFull, Zenon
<1>8. ASSUME x = "nl" PROVE v = <<>>
  <2>1. f = N + 1
    <3>1. N + 1 \in LineEnds(t)  BY <1>4, <1>8, Zenon
    <3>2. N + 1 <= f  BY <1>3, <3>1, Zenon
    <3> HIDE DEF N
    <3> QED  BY <1>1, <1>3, <3>2
  <2>2. f + 1 \in Int /\ N + 1 \in Int /\ N + 1 < f + 1  BY <1>1, <2>1
  <2> QED  BY <2>2, SubSeqEmpty, Zenon
<1>9. ASSUME x # "nl" PROVE v = Append(u, x)
  <2>1. f = e
    <3>1. LineEnds(t) = LineEnds(s)  BY <1>4, <1>9, Zenon
    <3>2. f \in Int /\ e \in Int  BY <1>1, <1>2, <1>3
    <3> HIDE DEF N
    <3>3. CASE LineEnds(s) = {}  BY <1>2, <1>3, <3>1, <3>3, Zenon
    <3>4. CASE LineEnds(s) # {}
      <4>1. e \in LineEnds(s) /\ e # 0 BY <1>2, <3>4, Zenon
      <4>2. e <= f /\ e \in 1..N BY <1>3, <1>5, <3>1, <4>1, Zenon
      <4>3. f # 0  BY <1>1, <3>2, <4>2
      <4>4. f \in LineEnds(s)  BY <1>3, <3>1, <4>3, Zenon
      <4> QED  BY <1>2, <3>2, <4>2, <4>4
    <3> QED  BY <3>3, <3>4, Zenon
  <2>2. \A i \in (e + 1)..(N + 1) : t[i] \in Bytes
    <3>1. \A i \in (e + 1)..(N + 1) : i \in 1..N \/ i = N + 1  BY <1>1, <1>2
    <3> QED  BY <1>1, <3>1, Zenon
  <2>3. /\ v \in Seq(Bytes) /\ Len(v) = IF e + 1 <= N + 1 THEN (N + 1) - (e + 1) + 1 ELSE 0
        /\ \A i \in 1..((N + 1) - (e + 1) + 1) : v[i] = t[(e + 1) + i - 1]
    <3>1. e + 1 \in Int /\ N + 1 \in Int  BY <1>1, <1>2
    <3> QED  BY <2>1, <2>2, <3>1, SubSeqProperties
  <2> DEFINE a == Append(u, x)
  <2>4. a \in Seq(Bytes) /\ Len(a) = (N - e) + 1 /\ a[(N - e) + 1] = x /\ \A i \in 1..(N - e) : a[i] = u[i]
    <3> HIDE DEF u
    <3> QED  BY <1>6
  <2> HIDE DEF a, u, v, N
  <2>5. Len(v) = (N - e) + 1  BY <1>1, <1>2, <2>3
  <2>6. \A i \in 1..((N - e) + 1) : v[i] = a[i]
    <3> SUFFICES ASSUME NEW i \in 1..((N - e) + 1) PROVE v[i] = a[i]  BY Zenon
    <3>1. (N + 1) - (e + 1) + 1 = (N - e) + 1 /\ (e + 1) + i - 1 = e + i  BY <1>1, <1>2
    <3>2. v[i] = t[e + i]  BY <2>3, <3>1, Zenon
    <3>3. CASE i = (N - e) + 1
      <4>1. e + i = N + 1  BY <1>1, <1>2, <3>3
      <4> QED  BY <1>1, <2>4, <3>2, <3>3, <4>1, Zenon
    <3>4. CASE i # (N - e) + 1
      <4>1. i \in 1..(N - e) /\ e + i \in 1..N  BY <1>1, <1>2, <3>4
      <4> QED  BY <1>1, <1>6, <2>4, <3>2, <4>1, Zenon
    <3> QED  BY <3>3, <3>4, Zenon
  <2>7. v = a  BY <2>3, <2>4, <2>5, <2>6, SeqEqual, Zenon
  <2> QED  BY <2>7, Zenon DEF a
<1>10. Len(u) <= N /\ (LineEnds(s) # {} => Len(u) < N)
  <2>1. LineEnds(s) # {} => e # 0  BY <1>2, Zenon
  <2> HIDE DEF u, N
  <2> QED  BY <1>1, <1>2, <1>6, <2>1
<1> HIDE DEF u, v
<1> QED  BY <1>2, <1>3, <1>6, <1>7, <1>8, <1>9, <1>10, Zenon DEF t

\* The function that Whole computes exists.
LEMMA WholeStep ==
  ASSUME NEW s \in Seq(Bytes)
  PROVE  \E f : /\ f[0] = <<>> /\ Whole(s) = f[Len(s)]
                /\ \A n \in 1..Len(s) :
                     f[n] = IF s[n] # "nl" THEN f[n - 1]
                            ELSE Append(f[n - 1], Line(Unfinished(SubSeq(s, 1, n - 1)), TRUE))
<1> DEFINE Next0(g, n) == IF n = 0 THEN <<>>
                          ELSE IF s[n] # "nl" THEN g[n - 1]
                          ELSE Append(g[n - 1], Line(Unfinished(SubSeq(s, 1, n - 1)), TRUE))
           Fun(g, N) == g = [n \in 0..N |-> Next0(g, n)]
           Bad == {N \in Nat : ~\E g : Fun(g, N)}
<1>1. Bad = {}
  <2> SUFFICES ASSUME Bad # {} PROVE FALSE  BY Zenon
  <2>1. PICK N \in Bad : \A y \in Bad : N <= y
    <3>1. Bad \subseteq Nat  BY Zenon
    <3> HIDE DEF Bad
    <3> QED  BY <3>1, LeastOf, Zenon
  <2>2. N \in Nat /\ ~\E g : Fun(g, N)  BY Zenon
  <2>3. N # 0
    <3> SUFFICES ASSUME N = 0 PROVE FALSE  BY Zenon
    <3> DEFINE g == [n \in 0..0 |-> <<>>]
    <3>1. Fun(g, 0)
      <4>1. \A n \in 0..0 : Next0(g, n) = <<>>  OBVIOUS
      <4> QED  BY <4>1, Zenon
    <3> QED  BY <2>2, <3>1, Zenon
  <2>4. N - 1 \in Nat /\ N - 1 \notin Bad
    <3>1. N - 1 \in Nat /\ ~(N <= N - 1)  BY <2>2, <2>3
    <3> HIDE DEF Bad
    <3> QED  BY <2>1, <3>1, Zenon
  <2>5. PICK g : Fun(g, N - 1)  BY <2>4, Zenon
  <2> DEFINE h == [n \in 0..N |-> Next0(g, n)]
  <2>6. \A n \in 0..(N - 1) : h[n] = g[n] /\ n \in 0..N
    <3>1. \A n \in 0..(N - 1) : n \in 0..N  BY <2>2, <2>4
    <3>2. \A n \in 0..(N - 1) : g[n] = Next0(g, n)
      <4> HIDE DEF Next0
      <4> QED  BY <2>5, Zenon
    <3> HIDE DEF Next0
    <3> QED  BY <3>1, <3>2, Zenon
  <2>7. \A n \in 0..N : n # 0 => n - 1 \in 0..(N - 1)  BY <2>2
  <2>8. \A n \in 0..N : Next0(h, n) = Next0(g, n)
    <3> HIDE DEF h
    <3> QED  BY <2>6, <2>7, Zenon
  <2>9. Fun(h, N)
    <3>1. h = [n \in 0..N |-> Next0(h, n)]
      <4>1. h = [n \in 0..N |-> Next0(g, n)]  BY Zenon
      <4> HIDE DEF h, Next0
      <4> QED  BY <2>8, <4>1, Zenon
    <3> QED  BY <3>1, Zenon
  <2> QED  BY <2>2, <2>9, Zenon
<1>2. Len(s) \in Nat /\ \E g : Fun(g, Len(s))
  <2>1. Len(s) \in Nat  OBVIOUS
  <2> HIDE DEF Fun
  <2> QED  BY <1>1, <2>1, Zenon
<1> DEFINE f == CHOOSE g : Fun(g, Len(s))
<1>3. Fun(f, Len(s))
  <2> HIDE DEF Fun
  <2> QED  BY <1>2, Zenon
<1>4. Whole(s) = f[Len(s)]  BY Zenon DEF Whole
<1> HIDE DEF f
<1>5. ASSUME NEW n \in 0..Len(s) PROVE f[n] = Next0(f, n)
  <2> HIDE DEF Next0
  <2> QED  BY <1>3, Zenon
<1>6. f[0] = <<>>
  <2>1. 0 \in 0..Len(s)  BY <1>2
  <2> QED  BY <1>5, <2>1, Zenon
<1>7. ASSUME NEW n \in 1..Len(s)
      PROVE  f[n] = IF s[n] # "nl" THEN f[n - 1]
                    ELSE Append(f[n - 1], Line(Unfinished(SubSeq(s, 1, n - 1)), TRUE))
  <2>1. n \in 0..Len(s) /\ n # 0  BY <1>2
  <2> QED  BY <1>5, <2>1, Zenon
<1> QED  BY <1>4, <1>6, <1>7, Zenon

\* The whole lines of s, reported after others, and what is unfinished are s, nothing lost.
LEMMA ShownWhole ==
  ASSUME NEW ls \in Seq(LineType), NEW s \in Seq(Bytes)
  PROVE  /\ ls \o Whole(s) \in Seq(LineType)
         /\ Shown(ls \o Whole(s)) \o Unfinished(s) = Shown(ls) \o s
<1>1. PICK f : /\ f[0] = <<>> /\ Whole(s) = f[Len(s)]
               /\ \A n \in 1..Len(s) :
                    f[n] = IF s[n] # "nl" THEN f[n - 1]
                           ELSE Append(f[n - 1], Line(Unfinished(SubSeq(s, 1, n - 1)), TRUE))
  BY WholeStep, Zenon
<1> DEFINE P(n) == SubSeq(s, 1, n)
           Good(n) == /\ f[n] \in Seq(LineType)
                      /\ Shown(ls \o f[n]) \o Unfinished(P(n)) = Shown(ls) \o P(n)
           Bad == {n \in 0..Len(s) : ~Good(n)}
<1>2. Len(s) \in Nat /\ \A n \in 1..Len(s) : s[n] \in Bytes  OBVIOUS
<1>3. \A n \in 0..Len(s) : P(n) \in Seq(Bytes)  BY <1>2
<1>4. \A n \in 1..Len(s) : P(n) = Append(P(n - 1), s[n])
  <2> SUFFICES ASSUME NEW n \in 1..Len(s) PROVE P(n) = Append(P(n - 1), s[n])  BY Zenon
  <2>1. 1 \in 1..Len(s) /\ n \in 1..Len(s)  BY <1>2
  <2>2. SubSeq(s, 1, n) = SubSeq(s, 1, n - 1) \o <<s[n]>>  BY <2>1, SubSeqRecursiveSecond, Zenon
  <2>3. n - 1 \in 0..Len(s)  BY <1>2
  <2> DEFINE p == SubSeq(s, 1, n - 1)
             x == s[n]
  <2>4. p \in Seq(Bytes) /\ x \in Bytes  BY <1>2, <1>3, <2>3, Zenon
  <2> HIDE DEF p, x
  <2>5. p \o <<x>> = Append(p, x)  BY <2>4
  <2> QED  BY <2>2, <2>5, Zenon DEF p, x
<1> HIDE DEF P
<1>5. ASSUME NEW m \in Seq(LineType) PROVE Shown(m) \in Seq(Bytes)
  <2>1. "nl" \in Bytes  BY Zenon DEF Bytes
  <2>2. [text |-> <<>>, nl |-> TRUE] \in LineType  BY DEF LineType
  <2> QED  BY <2>2, ShownAppend, Zenon
<1>6. Good(0)
  <2>1. P(0) = <<>>  BY DEF P
  <2>2. Unfinished(<<>>) = <<>>
    <3>1. <<>> \in Seq(Bytes) /\ LineEnds(<<>>) = {}  BY DEF LineEnds
    <3>2. "nl" \in Bytes  BY Zenon DEF Bytes
    <3> QED  BY <3>1, <3>2, UnfinishedStep, Zenon
  <2>3. f[0] \in Seq(LineType) /\ ls \o f[0] = ls  BY <1>1
  <2> QED  BY <2>1, <2>2, <2>3, Zenon
<1>7. Bad = {}
  <2> SUFFICES ASSUME Bad # {} PROVE FALSE  BY Zenon
  <2>1. PICK n \in Bad : \A y \in Bad : n <= y
    <3>1. Bad \subseteq Nat  BY <1>2
    <3> HIDE DEF Bad
    <3> QED  BY <3>1, LeastOf, Zenon
  <2>2. n \in 0..Len(s) /\ ~Good(n)  BY Zenon
  <2>3. n # 0  BY <1>6, <2>2, Zenon
  <2>4. n - 1 \in 0..Len(s) /\ n \in 1..Len(s) /\ ~(n <= n - 1)  BY <1>2, <2>2, <2>3
  <2>5. Good(n - 1)
    <3>1. n - 1 \notin Bad
      <4> HIDE DEF Bad
      <4> QED  BY <2>1, <2>4, Zenon
    <3> HIDE DEF Good
    <3> QED  BY <2>4, <3>1, Zenon
  <2> DEFINE g == f[n - 1]
             p == P(n - 1)
             x == s[n]
             u == Unfinished(p)
             m == ls \o g
  <2>6. p \in Seq(Bytes) /\ x \in Bytes /\ P(n) = Append(p, x)  BY <1>2, <1>3, <1>4, <2>4, Zenon
  <2>7. /\ u \in Seq(Bytes)
        /\ x = "nl" => Unfinished(P(n)) = <<>>
        /\ x # "nl" => Unfinished(P(n)) = Append(u, x)
    <3> HIDE DEF p, x
    <3> QED  BY <2>6, UnfinishedStep
  <2>8. g \in Seq(LineType) /\ Shown(m) \o u = Shown(ls) \o p  BY <2>5, Zenon
  <2>9. f[n] = IF x # "nl" THEN g ELSE Append(g, Line(u, TRUE))  BY <1>1, <2>4, Zenon DEF P
  <2> HIDE DEF g, p, x, u
  <2>10. m \in Seq(LineType)  BY <2>8
  <2>11. Shown(m) \in Seq(Bytes) /\ Shown(ls) \in Seq(Bytes)
    <3> HIDE DEF m
    <3> QED  BY <1>5, <2>10, Zenon
  <2>12. (Shown(m) \o u) \o <<x>> = Shown(ls) \o P(n)
    <3> DEFINE a == Shown(ls)
    <3>1. a \in Seq(Bytes)  BY <2>11, Zenon
    <3> HIDE DEF a
    <3>2. p \in Seq(Bytes) /\ x \in Bytes  BY <2>6, Zenon
    <3>3. a \o Append(p, x) = (a \o p) \o <<x>>
      <4> HIDE DEF Bad, Good, m
      <4> QED  BY <3>1, <3>2, CatAppend
    <3> QED  BY <2>6, <2>8, <3>3, Zenon DEF a
  <2>13. CASE x # "nl"
    <3> DEFINE b == Shown(m)
    <3>1. b \in Seq(Bytes)  BY <2>11, Zenon
    <3> HIDE DEF b
    <3>0. u \in Seq(Bytes) /\ x \in Bytes  BY <2>6, <2>7, Zenon
    <3>2. b \o Append(u, x) = (b \o u) \o <<x>>
      <4> HIDE DEF Bad, Good, m
      <4> QED  BY <3>0, <3>1, CatAppend
    <3>3. f[n] = g  BY <2>9, <2>13, Zenon
    <3>4. Shown(ls \o f[n]) \o Unfinished(P(n)) = Shown(ls) \o P(n)
      BY <2>7, <2>12, <2>13, <3>2, <3>3, Zenon DEF b
    <3> QED  BY <2>2, <2>8, <3>3, <3>4, Zenon
  <2>14. CASE x = "nl"
    <3> DEFINE l == Line(u, TRUE)
    <3>1. l \in LineType /\ LineText(l) = u \o <<x>>
      BY <2>7, <2>14, Zenon DEF Line, LineType, LineText
    <3>2. f[n] = Append(g, l)  BY <2>9, <2>14, Zenon
    <3> HIDE DEF l
    <3>3. f[n] \in Seq(LineType) /\ ls \o f[n] = Append(m, l)
      <4>1. Append(g, l) \in Seq(LineType)  BY <2>8, <3>1
      <4>2. g \in Seq(LineType) /\ l \in LineType  BY <2>8, <3>1, Zenon
      <4>3. ls \o Append(g, l) = Append(ls \o g, l)
        <5> HIDE DEF Bad, Good, m
        <5> QED  BY <4>2, CatAppend
      <4> QED  BY <3>2, <4>1, <4>3, Zenon
    <3>4. Shown(Append(m, l)) = Shown(m) \o (u \o <<x>>)
      <4> HIDE DEF m
      <4> QED  BY <2>10, <3>1, ShownAppend, Zenon
    <3> DEFINE b == Shown(m)
    <3>5. b \in Seq(Bytes)  BY <2>11
    <3> HIDE DEF b
    <3>6. (b \o (u \o <<x>>)) \o <<>> = (b \o u) \o <<x>>
      <4>0. u \in Seq(Bytes) /\ x \in Bytes  BY <2>6, <2>7
      <4>a. Append(u, x) = u \o <<x>> /\ b \o Append(u, x) = (b \o u) \o <<x>>
        <5> HIDE DEF Bad, Good, m
        <5> QED  BY <3>5, <4>0, CatAppend
      <4>1. u \o <<x>> \in Seq(Bytes)  BY <4>0
      <4> DEFINE c == u \o <<x>>
      <4>2. c \in Seq(Bytes)  BY <4>1, Zenon
      <4> HIDE DEF c
      <4>3. b \o c \in Seq(Bytes)  BY <3>5, <4>2
      <4>4. (b \o c) \o <<>> = b \o c  BY <4>3, ConcatEmptySeq, Zenon
      <4> QED  BY <4>a, <4>4, Zenon DEF c
    <3>7. Shown(ls \o f[n]) \o Unfinished(P(n)) = Shown(ls) \o P(n)
      BY <2>7, <2>12, <2>14, <3>3, <3>4, <3>6, Zenon DEF b
    <3> QED  BY <2>2, <3>3, <3>7, Zenon
  <2> QED  BY <2>13, <2>14, Zenon
<1>8. Good(Len(s))
  <2>1. Len(s) \in 0..Len(s)  BY <1>2
  <2> HIDE DEF Good
  <2> QED  BY <1>7, <2>1, Zenon
<1>9. P(Len(s)) = s  BY SubSeqFull, Zenon DEF P
<1>10. ls \o f[Len(s)] \in Seq(LineType)
  <2> DEFINE g == f[Len(s)]
  <2>1. g \in Seq(LineType)  BY <1>8, Zenon
  <2> HIDE DEF g
  <2>2. ls \o g \in Seq(LineType)  BY <2>1
  <2> QED  BY <2>2, Zenon DEF g
<1> QED  BY <1>1, <1>8, <1>9, <1>10, Zenon

-----------------------------------------------------------------------------
(* Strings in order.                                                        *)

\* Characters have codes, and different ones different codes.
LEMMA CodeIs ==
  /\ \A c \in Chars : Code[c] \in Nat /\ Code[c] > 0
  /\ \A c, d \in Chars : Code[c] = Code[d] => c = d
<1>1. ASSUME NEW c \in Chars PROVE Code[c] \in 1..Len(Codes) /\ Codes[Code[c]] = c
  <2>1. \E k \in 1..Len(Codes) : Codes[k] = c  BY Zenon DEF Chars
  <2>2. Code[c] = CHOOSE k \in 1..Len(Codes) : Codes[k] = c  BY Zenon DEF Code
  <2> QED  BY <2>1, <2>2, Zenon
<1>2. Len(Codes) \in Int  BY DEF Codes
<1>3. \A c \in Chars : Code[c] \in Nat /\ Code[c] > 0  BY <1>1, <1>2
<1> QED  BY <1>1, <1>3, Zenon

\* The bytes of a string: 0 after its end and only there.
LEMMA ByteIs ==
  ASSUME NEW s \in Seq(Chars), NEW k \in Nat, k > 0
  PROVE  Byte(s, k) \in Nat /\ (Byte(s, k) = 0 <=> k > Len(s))
<1>1. Len(s) \in Nat  OBVIOUS
<1>2. CASE k > Len(s)  BY <1>2, Zenon DEF Byte
<1>3. CASE ~(k > Len(s))
  <2>1. k \in 1..Len(s)  BY <1>1, <1>3
  <2>2. s[k] \in Chars  BY <2>1
  <2>3. Byte(s, k) = Code[s[k]]  BY <1>3, Zenon DEF Byte
  <2>4. Code[s[k]] \in Nat /\ Code[s[k]] > 0  BY <2>2, CodeIs, Zenon
  <2> QED  BY <1>3, <2>3, <2>4
<1> QED  BY <1>2, <1>3, Zenon

\* Two different strings differ somewhere first.
LEMMA DifferenceExists ==
  ASSUME NEW s \in Seq(Chars), NEW t \in Seq(Chars), s # t
  PROVE  \E n \in 1..(Len(s) + 1) : Difference(s, t, n)
<1> DEFINE D == {k \in Nat : k > 0 /\ Byte(s, k) # Byte(t, k)}
<1>1. Len(s) \in Nat /\ Len(t) \in Nat  OBVIOUS
<1>2. D # {}
  <2>1. CASE Len(s) = Len(t)
    <3>1. PICK k \in 1..Len(s) : s[k] # t[k]  BY <2>1, SeqEqual, Zenon
    <3>2. s[k] \in Chars /\ t[k] \in Chars /\ k \in Nat /\ k > 0 /\ ~(k > Len(s)) /\ ~(k > Len(t))
      BY <1>1, <2>1, <3>1
    <3>3. Byte(s, k) = Code[s[k]] /\ Byte(t, k) = Code[t[k]]  BY <3>2, Zenon DEF Byte
    <3>4. Byte(s, k) # Byte(t, k)  BY <3>1, <3>2, <3>3, CodeIs, Zenon
    <3> QED  BY <3>2, <3>4, Zenon
  <2>2. CASE Len(s) < Len(t)
    <3> DEFINE k == Len(s) + 1
    <3>1. k \in Nat /\ k > 0 /\ k > Len(s) /\ ~(k > Len(t))  BY <1>1, <2>2
    <3> HIDE DEF k
    <3>2. Byte(s, k) = 0 /\ Byte(t, k) # 0  BY <3>1, ByteIs, Zenon
    <3> QED  BY <3>1, <3>2, Zenon
  <2>3. CASE Len(t) < Len(s)
    <3> DEFINE k == Len(t) + 1
    <3>1. k \in Nat /\ k > 0 /\ k > Len(t) /\ ~(k > Len(s))  BY <1>1, <2>3
    <3> HIDE DEF k
    <3>2. Byte(t, k) = 0 /\ Byte(s, k) # 0  BY <3>1, ByteIs, Zenon
    <3> QED  BY <3>1, <3>2, Zenon
  <2> QED  BY <1>1, <2>1, <2>2, <2>3
<1>3. PICK n \in D : \A y \in D : n <= y
  <2>1. D \subseteq Nat  BY Zenon
  <2> HIDE DEF D
  <2> QED  BY <1>2, <2>1, LeastOf, Zenon
<1>4. n \in Nat /\ n > 0 /\ Byte(s, n) # Byte(t, n)  BY Zenon
<1>5. \A m \in 1..(n - 1) : Byte(s, m) = Byte(t, m)
  <2> SUFFICES ASSUME NEW m \in 1..(n - 1), Byte(s, m) # Byte(t, m) PROVE FALSE  BY Zenon
  <2>1. m \in Nat /\ m > 0 /\ ~(n <= m)  BY <1>4
  <2>2. m \in D  BY <2>1, Zenon
  <2> HIDE DEF D
  <2> QED  BY <1>3, <2>1, <2>2, Zenon
<1>6. n <= Len(s) + 1
  <2> SUFFICES ASSUME ~(n <= Len(s) + 1) PROVE FALSE  BY Zenon
  <2> DEFINE k == Len(s) + 1
  <2>1. k \in Nat /\ k > 0 /\ k \in 1..(n - 1) /\ k > Len(s) /\ n > Len(s) /\ n > k  BY <1>1, <1>4
  <2> HIDE DEF k
  <2>2. Byte(s, k) = 0 /\ Byte(s, n) = 0  BY <1>4, <2>1, ByteIs, Zenon
  <2>3. Byte(t, k) = 0  BY <1>5, <2>1, <2>2, Zenon
  <2>4. k > Len(t)  BY <2>1, <2>3, ByteIs, Zenon
  <2>5. n > Len(t)  BY <1>1, <1>4, <2>1, <2>4
  <2>6. Byte(t, n) = 0  BY <1>4, <2>5, ByteIs, Zenon
  <2> QED  BY <1>4, <2>2, <2>6, Zenon
<1>7. n \in 1..(Len(s) + 1)  BY <1>1, <1>4, <1>6
<1> QED  BY <1>4, <1>5, <1>7, Zenon DEF Difference

\* strcmp() is negative when the first byte that differs is less.
LEMMA StrcmpIs ==
  ASSUME NEW s \in Seq(Chars), NEW t \in Seq(Chars)
  PROVE  strcmp(s, t) < 0 <=> \E n \in Nat : n > 0 /\ Difference(s, t, n) /\ Byte(s, n) < Byte(t, n)
<1>1. CASE s = t
  <2>1. strcmp(s, t) = 0  BY <1>1, Zenon DEF strcmp
  <2>2. \A n : ~Difference(s, t, n)  BY <1>1, Zenon DEF Difference
  <2> QED  BY <2>1, <2>2
<1>2. CASE s # t
  <2> DEFINE k == CHOOSE n \in 1..(Len(s) + 1) : Difference(s, t, n)
  <2>1. k \in 1..(Len(s) + 1) /\ Difference(s, t, k)  BY <1>2, DifferenceExists, Zenon
  <2>2. strcmp(s, t) = IF Byte(s, k) < Byte(t, k) THEN -1 ELSE 1  BY <1>2, Zenon DEF strcmp
  <2> HIDE DEF k
  <2>3. Len(s) \in Nat  OBVIOUS
  <2>4. k \in Nat /\ k > 0  BY <2>1, <2>3
  <2>5. \A n \in Nat : n > 0 /\ Difference(s, t, n) => n = k
    <3> SUFFICES ASSUME NEW n \in Nat, n > 0, Difference(s, t, n), n # k PROVE FALSE  BY Zenon
    <3>1. CASE n < k
      <4>1. n \in 1..(k - 1)  BY <2>4, <3>1
      <4> QED  BY <2>1, <4>1, Zenon DEF Difference
    <3>2. CASE k < n
      <4>1. k \in 1..(n - 1)  BY <2>4, <3>2
      <4> QED  BY <2>1, <4>1, Zenon DEF Difference
    <3> QED  BY <2>4, <3>1, <3>2
  <2>6. CASE Byte(s, k) < Byte(t, k)  BY <2>1, <2>2, <2>4, <2>6
  <2>7. CASE ~(Byte(s, k) < Byte(t, k))
    <3>1. ~(strcmp(s, t) < 0)  BY <2>2, <2>7
    <3> QED  BY <2>5, <2>7, <3>1, Zenon
  <2> QED  BY <2>6, <2>7, Zenon
<1> QED  BY <1>1, <1>2, Zenon

\* It orders strings.
LEMMA StrcmpOrders ==
  ASSUME NEW s \in Seq(Chars), NEW t \in Seq(Chars)
  PROVE  /\ s = t \/ strcmp(s, t) < 0 \/ strcmp(t, s) < 0
         /\ strcmp(s, t) < 0 => s # t
         /\ \A u \in Seq(Chars) : strcmp(s, t) < 0 /\ strcmp(t, u) < 0 => strcmp(s, u) < 0
<1>1. s = t \/ strcmp(s, t) < 0 \/ strcmp(t, s) < 0
  <2> SUFFICES ASSUME s # t PROVE strcmp(s, t) < 0 \/ strcmp(t, s) < 0  BY Zenon
  <2>1. PICK n \in 1..(Len(s) + 1) : Difference(s, t, n)  BY DifferenceExists, Zenon
  <2>2. Len(s) \in Nat  OBVIOUS
  <2>3. n \in Nat /\ n > 0  BY <2>1, <2>2
  <2>4. Difference(t, s, n)  BY <2>1, Zenon DEF Difference
  <2>5. Byte(s, n) \in Nat /\ Byte(t, n) \in Nat  BY <2>3, ByteIs, Zenon
  <2>6. Byte(s, n) # Byte(t, n)  BY <2>1, Zenon DEF Difference
  <2>7. Byte(s, n) < Byte(t, n) \/ Byte(t, n) < Byte(s, n)  BY <2>5, <2>6
  <2> QED  BY <2>1, <2>3, <2>4, <2>7, StrcmpIs, Zenon
<1>2. strcmp(s, t) < 0 => s # t  BY DEF strcmp
<1>3. ASSUME NEW u \in Seq(Chars), strcmp(s, t) < 0, strcmp(t, u) < 0 PROVE strcmp(s, u) < 0
  <2>1. PICK m \in Nat : m > 0 /\ Difference(s, t, m) /\ Byte(s, m) < Byte(t, m)  BY <1>3, StrcmpIs, Zenon
  <2>2. PICK n \in Nat : n > 0 /\ Difference(t, u, n) /\ Byte(t, n) < Byte(u, n)  BY <1>3, StrcmpIs, Zenon
  <2>3. /\ \A k \in 1..(m - 1) : Byte(s, k) = Byte(t, k)
        /\ \A k \in 1..(n - 1) : Byte(t, k) = Byte(u, k)
    BY <2>1, <2>2, Zenon DEF Difference
  <2>4. \A k \in Nat : k > 0 => Byte(s, k) \in Nat /\ Byte(t, k) \in Nat /\ Byte(u, k) \in Nat  BY ByteIs, Zenon
  <2>5. ASSUME NEW k \in Nat, k > 0, k <= m, k <= n, Byte(s, k) < Byte(u, k) PROVE strcmp(s, u) < 0
    <3>1. Byte(s, k) # Byte(u, k)  BY <2>4, <2>5
    <3>2. \A j \in 1..(k - 1) : j \in 1..(m - 1) /\ j \in 1..(n - 1)  BY <2>1, <2>2, <2>5
    <3>3. Difference(s, u, k)  BY <2>3, <3>1, <3>2, Zenon DEF Difference
    <3> QED  BY <2>5, <3>3, StrcmpIs, Zenon
  <2>6. CASE m = n
    <3>1. Byte(s, m) < Byte(u, m)  BY <2>1, <2>2, <2>4, <2>6
    <3> QED  BY <2>1, <2>5, <2>6, <3>1
  <2>7. CASE m < n
    <3>1. m \in 1..(n - 1)  BY <2>1, <2>2, <2>7
    <3>2. Byte(s, m) < Byte(u, m)  BY <2>1, <2>3, <3>1, Zenon
    <3> QED  BY <2>1, <2>2, <2>5, <2>7, <3>2
  <2>8. CASE n < m
    <3>1. n \in 1..(m - 1)  BY <2>1, <2>2, <2>8
    <3>2. Byte(s, n) < Byte(u, n)  BY <2>2, <2>3, <3>1, Zenon
    <3> QED  BY <2>1, <2>2, <2>5, <2>8, <3>2
  <2> QED  BY <2>1, <2>2, <2>6, <2>7, <2>8
<1> QED  BY <1>1, <1>2, <1>3, Zenon

-----------------------------------------------------------------------------
(* The parent and the child.                                                *)

\* A list cut in two, and what two lists put together begin and end with.
LEMMA Cut ==
  ASSUME NEW S, NEW s \in Seq(S), NEW n \in 0..Len(s)
  PROVE  /\ SubSeq(s, 1, n) \o From(s, n + 1) = s
         /\ SubSeq(s, 1, n) \in Seq(S) /\ Len(SubSeq(s, 1, n)) = n
         /\ From(s, n + 1) \in Seq(S) /\ Len(From(s, n + 1)) = Len(s) - n
<1>1. Len(s) \in Nat /\ n \in Int  OBVIOUS
<1>2. 1 \in 1..Len(s) + 1 /\ n \in 1 - 1..Len(s) /\ Len(s) \in n..Len(s)  BY <1>1
<1>3. SubSeq(s, 1, n) \o SubSeq(s, n + 1, Len(s)) = SubSeq(s, 1, Len(s))  BY <1>2, ConcatAdjacentSubSeq, Zenon
<1>4. SubSeq(s, 1, Len(s)) = s  BY SubSeqFull, Zenon
<1>5. SubSeq(s, 1, n) \in Seq(S) /\ Len(SubSeq(s, 1, n)) = n
  <2>1. \A i \in 1..n : s[i] \in S  BY <1>1
  <2>2. SubSeq(s, 1, n) \in Seq(S) /\ Len(SubSeq(s, 1, n)) = IF 1 <= n THEN n - 1 + 1 ELSE 0  BY <1>1, <2>1, SubSeqProperties
  <2> QED  BY <2>2
<1>6. From(s, n + 1) \in Seq(S) /\ Len(From(s, n + 1)) = Len(s) - n
  <2>1. n + 1 \in Int /\ Len(s) \in Int /\ \A i \in n + 1..Len(s) : s[i] \in S  BY <1>1
  <2>2. /\ SubSeq(s, n + 1, Len(s)) \in Seq(S)
        /\ Len(SubSeq(s, n + 1, Len(s))) = IF n + 1 <= Len(s) THEN Len(s) - (n + 1) + 1 ELSE 0
    BY <2>1, SubSeqProperties
  <2> QED  BY <1>1, <2>2 DEF From
<1> QED  BY <1>3, <1>4, <1>5, <1>6, Zenon DEF From

\* A concatenation starts with its first part and ends with its second.
LEMMA Ends ==
  ASSUME NEW S, NEW a \in Seq(S), NEW b \in Seq(S)
  PROVE  StartsWith(a \o b, a) /\ EndsWith(a \o b, b)
<1> DEFINE c == a \o b
<1>1. /\ c \in Seq(S) /\ Len(c) = Len(a) + Len(b) /\ Len(a) \in Nat /\ Len(b) \in Nat
      /\ \A i \in 1..Len(a) + Len(b) : c[i] = IF i <= Len(a) THEN a[i] ELSE b[i - Len(a)]
  BY ConcatProperties
<1> HIDE DEF c
<1>2. SubSeq(c, 1, Len(a)) = a
  <2>1. \A i \in 1..Len(a) : c[i] \in S  BY <1>1
  <2>2. /\ SubSeq(c, 1, Len(a)) \in Seq(S) /\ Len(SubSeq(c, 1, Len(a))) = IF 1 <= Len(a) THEN Len(a) - 1 + 1 ELSE 0
        /\ \A i \in 1..Len(a) - 1 + 1 : SubSeq(c, 1, Len(a))[i] = c[1 + i - 1]
    BY <1>1, <2>1, SubSeqProperties
  <2>3. Len(SubSeq(c, 1, Len(a))) = Len(a) /\ \A i \in 1..Len(a) : SubSeq(c, 1, Len(a))[i] = a[i]  BY <1>1, <2>2
  <2> QED  BY <2>2, <2>3, SeqEqual, Zenon
<1>3. From(c, Len(c) - Len(b) + 1) = b
  <2> DEFINE d == SubSeq(c, Len(a) + 1, Len(c))
  <2>1. \A i \in Len(a) + 1..Len(c) : c[i] \in S  BY <1>1
  <2>2. /\ d \in Seq(S) /\ Len(d) = IF Len(a) + 1 <= Len(c) THEN Len(c) - (Len(a) + 1) + 1 ELSE 0
        /\ \A i \in 1..Len(c) - (Len(a) + 1) + 1 : d[i] = c[Len(a) + 1 + i - 1]
    BY <1>1, <2>1, SubSeqProperties
  <2> HIDE DEF d
  <2>3. Len(d) = Len(b) /\ \A i \in 1..Len(d) : d[i] = b[i]
    <3>1. Len(d) = Len(b)  BY <1>1, <2>2
    <3> SUFFICES ASSUME NEW i \in 1..Len(b) PROVE d[i] = b[i]  BY <3>1, Zenon
    <3>2. i \in 1..Len(c) - (Len(a) + 1) + 1 /\ Len(a) + 1 + i - 1 = Len(a) + i  BY <1>1
    <3>3. d[i] = c[Len(a) + i]  BY <2>2, <3>2, Zenon
    <3>4. Len(a) + i \in 1..Len(a) + Len(b) /\ ~(Len(a) + i <= Len(a)) /\ Len(a) + i - Len(a) = i  BY <1>1
    <3>5. c[Len(a) + i] = b[Len(a) + i - Len(a)]  BY <1>1, <3>4
    <3> QED  BY <3>3, <3>4, <3>5, Zenon
  <2>4. d = b  BY <2>2, <2>3, SeqEqual, Zenon
  <2>5. Len(c) - Len(b) + 1 = Len(a) + 1  BY <1>1
  <2> QED  BY <2>4, <2>5, Zenon DEF d, From
<1>4. Len(a) <= Len(c) /\ Len(b) <= Len(c)  BY <1>1
<1> QED  BY <1>2, <1>3, <1>4, Zenon DEF c, StartsWith, EndsWith

\* Lists of three and of four parts can be put together in any order.
LEMMA Three ==
  ASSUME NEW S, NEW a \in Seq(S), NEW b \in Seq(S), NEW c \in Seq(S)
  PROVE  (a \o b) \o c = a \o (b \o c)
BY ConcatAssociative

AllIn(a, b, c, d, S) == a \in Seq(S) /\ b \in Seq(S) /\ c \in Seq(S) /\ d \in Seq(S)
Regrouped(a, b, c, d) == /\ (a \o (b \o c)) \o d = ((a \o b) \o c) \o d
                         /\ (a \o b) \o (c \o d) = ((a \o b) \o c) \o d
                         /\ a \o (b \o (c \o d)) = ((a \o b) \o c) \o d

\* Four sequences put together, however they are grouped.
LEMMA Four ==
  ASSUME NEW S, NEW a, NEW b, NEW c, NEW d, AllIn(a, b, c, d, S)
  PROVE  Regrouped(a, b, c, d) /\ ((a \o b) \o c) \o d \in Seq(S)
<1>a. a \in Seq(S)  BY Zenon DEF AllIn
<1>b. b \in Seq(S)  BY Zenon DEF AllIn
<1>c. c \in Seq(S)  BY Zenon DEF AllIn
<1>d. d \in Seq(S)  BY Zenon DEF AllIn
<1>1. PICK e : e = a \o b  BY Zenon
<1>2. PICK g : g = c \o d  BY Zenon
<1>e. e \in Seq(S)  BY <1>1, <1>a, <1>b
<1>g. g \in Seq(S)  BY <1>2, <1>c, <1>d
<1>3. (a \o b) \o c = a \o (b \o c)  BY <1>a, <1>b, <1>c, Three
<1>4. (e \o c) \o d = e \o (c \o d)  BY <1>e, <1>c, <1>d, Three
<1>5. (a \o b) \o g = a \o (b \o g)  BY <1>a, <1>b, <1>g, Three
<1>6. e \o c \in Seq(S)  BY <1>e, <1>c
<1>7. (e \o c) \o d \in Seq(S)  BY <1>6, <1>d
<1> QED  BY <1>1, <1>2, <1>3, <1>4, <1>5, <1>7, Zenon DEF Regrouped

\* A line that is not ended shows its text.
LEMMA ShownPart ==
  ASSUME NEW ls \in Seq(LineType), NEW t \in Seq(Bytes)
  PROVE  /\ Line(t, FALSE) \in LineType /\ Append(ls, Line(t, FALSE)) \in Seq(LineType)
         /\ Shown(Append(ls, Line(t, FALSE))) = Shown(ls) \o t /\ Shown(ls) \in Seq(Bytes)
<1>1. Line(t, FALSE) \in LineType  BY Zenon DEF Line, LineType
<1>2. LineText(Line(t, FALSE)) = t
  <2>1. t \o <<>> = t  OBVIOUS
  <2> QED  BY <2>1, Zenon DEF Line, LineText
<1>3. Append(ls, Line(t, FALSE)) \in Seq(LineType)  BY <1>1, AppendProperties, Zenon
<1>4. /\ Shown(ls) \in Seq(Bytes)
      /\ Shown(Append(ls, Line(t, FALSE))) = Shown(ls) \o LineText(Line(t, FALSE))
  BY <1>1, ShownAppend, Zenon
<1> QED  BY <1>1, <1>2, <1>3, <1>4, Zenon

\* A part of what is in the socket is moved to the buffer.
Shifted(shown, buf, wire, n) ==
  (shown \o buf) \o wire = (shown \o (buf \o SubSeq(wire, 1, n))) \o From(wire, n + 1)

\* Bytes moved from the wire to the end of the buffer stay in place.
LEMMA Moved ==
  ASSUME NEW shown \in Seq(Bytes), NEW buf \in Seq(Bytes), NEW wire \in Seq(Bytes), NEW n \in 0..Len(wire)
  PROVE  /\ Shifted(shown, buf, wire, n)
         /\ buf \o SubSeq(wire, 1, n) \in Seq(Bytes) /\ Len(buf \o SubSeq(wire, 1, n)) = Len(buf) + n
         /\ From(wire, n + 1) \in Seq(Bytes)
<1>1. PICK x : x = SubSeq(wire, 1, n)  BY Zenon
<1>2. PICK y : y = From(wire, n + 1)  BY Zenon
<1>3. x \o y = wire /\ x \in Seq(Bytes) /\ y \in Seq(Bytes) /\ Len(x) = n  BY <1>1, <1>2, Cut, Zenon
<1>4. AllIn(shown, buf, x, y, Bytes)  BY <1>3, Zenon DEF AllIn
<1>5. /\ (shown \o (buf \o x)) \o y = ((shown \o buf) \o x) \o y
      /\ (shown \o buf) \o (x \o y) = ((shown \o buf) \o x) \o y
  <2>1. Regrouped(shown, buf, x, y)  BY <1>4, Four, Zenon
  <2> QED  BY <2>1, Zenon DEF Regrouped
<1>6. buf \o x \in Seq(Bytes) /\ Len(buf \o x) = Len(buf) + n  BY <1>3, ConcatProperties, Zenon
<1> QED  BY <1>1, <1>2, <1>3, <1>5, <1>6, Zenon DEF Shifted

\* What is not reported yet has room in the buffer, unless the buffer is full and without
\* a newline.
LEMMA UnfinishedFits ==
  ASSUME NEW buf \in Seq(Bytes), NEW room \in Nat, Len(buf) <= room, LineEnds(buf) # {} \/ Len(buf) < room
  PROVE  Unfinished(buf) \in Seq(Bytes) /\ Len(Unfinished(buf)) < room
<1>1. /\ LastEnd(buf) \in 0..Len(buf) /\ Unfinished(buf) = SubSeq(buf, LastEnd(buf) + 1, Len(buf))
      /\ LineEnds(buf) = {} <=> LastEnd(buf) = 0
  BY LastEndIs, Zenon
<1> DEFINE e == LastEnd(buf)
<1>2. From(buf, e + 1) \in Seq(Bytes) /\ Len(From(buf, e + 1)) = Len(buf) - e /\ Len(buf) \in Nat
  <2>1. e \in 0..Len(buf) /\ Len(buf) \in Nat  BY <1>1
  <2> HIDE DEF e
  <2> QED  BY <2>1, Cut, Zenon
<1>3. Unfinished(buf) = From(buf, e + 1)  BY <1>1, Zenon DEF From
<1>4. Len(buf) - e < room  BY <1>1, <1>2
<1> HIDE DEF e
<1> QED  BY <1>2, <1>3, <1>4, Zenon

\* _klpm_chroot_read_from_child() keeps the account of the output.
LEMMA ReadRun ==
  ASSUME Typed, Outgoing, read_from_child
  PROVE  Typed' /\ Outgoing'
<1> DEFINE nread == IF Len(c2p) < Space THEN Len(c2p) ELSE Space
           buf == ibuf \o SubSeq(c2p, 1, nread)
           rest == From(c2p, nread + 1)
<1>1. /\ lines \in Seq(LineType) /\ ibuf \in Seq(Bytes) /\ c2p \in Seq(Bytes) /\ said \in Seq(Bytes)
      /\ Len(ibuf) < ISize - 2 /\ Len(ibuf) \in Nat /\ Len(c2p) \in Nat /\ ISize \in Nat /\ ISize > 3
  BY SizesAssumption DEF Typed
<1>2. Space \in Nat /\ Space > 0 /\ Space = ISize - 2 - Len(ibuf)  BY <1>1 DEF Space
<1>3. parent = "read" /\ parent' = "write" /\ pIn  BY Zenon DEF read_from_child, Outgoing
<1>4. said = (Shown(lines) \o ibuf) \o c2p /\ (c2p # <<>> \/ ~cOut)  BY <1>3, Zenon DEF Outgoing
<1>5. Shown(lines) \in Seq(Bytes)  BY <1>1, ShownPart, Zenon
<1>6. /\ UNCHANGED <<said, cOut, obuf, p2c, got, feed, program, child>>
      /\ nread > 0 => /\ c2p' = rest /\ pIn' = pIn
                      /\ IF LineEnds(buf) = {} /\ Full(nread)
                         THEN lines' = Append(lines, Line(buf, FALSE)) /\ ibuf' = <<>>
                         ELSE lines' = lines \o Whole(buf) /\ ibuf' = Unfinished(buf)
      /\ ~(nread > 0) => lines' = lines \o ToReport /\ pIn' = FALSE /\ c2p' = c2p /\ ibuf' = ibuf
  BY Zenon DEF read_from_child, cvars
<1>7. nread \in 0..Len(c2p) /\ nread <= Space /\ (nread = 0 => Len(c2p) = 0)  BY <1>1, <1>2
<1>8. /\ /\ said' \in Seq(Bytes) /\ obuf' \in Seq(Bytes) /\ p2c' \in Seq(Bytes) /\ got' \in Seq(Bytes) /\ feed' \in Seq(Bytes)
         /\ program' \in Seq(STRING) /\ Len(p2c') <= Capacity /\ (child' = "exited" => program' = <<>>)
  BY <1>6, Zenon DEF Typed
<1>9. CASE nread > 0
  <2>1. PICK n \in 0..Len(c2p) : n = nread  BY <1>7, Zenon
  <2>2. PICK b : b = buf  BY Zenon
  <2>3. PICK r : r = rest  BY Zenon
  <2>4. b = ibuf \o SubSeq(c2p, 1, n) /\ r = From(c2p, n + 1)  BY <2>1, <2>2, <2>3, Zenon
  <2>5. /\ c2p' = r /\ pIn' = pIn
        /\ IF LineEnds(b) = {} /\ n = Space
           THEN lines' = Append(lines, Line(b, FALSE)) /\ ibuf' = <<>>
           ELSE lines' = lines \o Whole(b) /\ ibuf' = Unfinished(b)
    BY <1>6, <1>9, <2>1, <2>2, <2>3, Zenon DEF Full
  <2>6. n <= Space  BY <1>7, <2>1, Zenon
  <2> HIDE DEF nread, buf, rest
  <2>7. /\ said = (Shown(lines) \o b) \o r /\ b \in Seq(Bytes) /\ Len(b) = Len(ibuf) + n /\ r \in Seq(Bytes)
    <3>1. PICK sh \in Seq(Bytes) : sh = Shown(lines)  BY <1>5, Zenon
    <3>2. /\ Shifted(sh, ibuf, c2p, n)
          /\ ibuf \o SubSeq(c2p, 1, n) \in Seq(Bytes) /\ Len(ibuf \o SubSeq(c2p, 1, n)) = Len(ibuf) + n
          /\ From(c2p, n + 1) \in Seq(Bytes)
      BY <1>1, Moved, Zenon
    <3>3. (sh \o ibuf) \o c2p = (sh \o (ibuf \o SubSeq(c2p, 1, n))) \o From(c2p, n + 1)  BY <3>2, Zenon DEF Shifted
    <3>4. said = (Shown(lines) \o b) \o r  BY <1>4, <2>4, <3>1, <3>3, Zenon
    <3> QED  BY <2>4, <3>2, <3>4, Zenon
  <2>8. /\ lines' \in Seq(LineType) /\ ibuf' \in Seq(Bytes) /\ Len(ibuf') < ISize - 2
        /\ Shown(lines') \o ibuf' = Shown(lines) \o b
    <3>1. CASE LineEnds(b) = {} /\ n = Space
      <4>1. /\ Append(lines, Line(b, FALSE)) \in Seq(LineType)
            /\ Shown(Append(lines, Line(b, FALSE))) = Shown(lines) \o b
        BY <1>1, <2>7, ShownPart, Zenon
      <4>2. Shown(lines) \o b \in Seq(Bytes)  BY <1>5, <2>7, ConcatProperties, Zenon
      <4>3. (Shown(lines) \o b) \o <<>> = Shown(lines) \o b  BY <4>2, ConcatEmptySeq, Zenon
      <4>4. ibuf' = <<>> /\ lines' = Append(lines, Line(b, FALSE))  BY <2>5, <3>1, Zenon
      <4>5. ibuf' \in Seq(Bytes) /\ Len(ibuf') < ISize - 2  BY <1>1, <4>4
      <4>6. Shown(lines') = Shown(lines) \o b /\ lines' \in Seq(LineType)  BY <4>1, <4>4, Zenon
      <4> QED  BY <4>3, <4>4, <4>5, <4>6, Zenon
    <3>2. CASE ~(LineEnds(b) = {} /\ n = Space)
      <4>1. lines' = lines \o Whole(b) /\ ibuf' = Unfinished(b)  BY <2>5, <3>2, Zenon
      <4>2. lines \o Whole(b) \in Seq(LineType) /\ Shown(lines \o Whole(b)) \o Unfinished(b) = Shown(lines) \o b
        BY <1>1, <2>7, ShownWhole, Zenon
      <4>3. PICK room \in Nat : room = ISize - 2  BY <1>1
      <4>4. Len(b) <= room /\ (LineEnds(b) # {} \/ Len(b) < room)  BY <1>1, <1>2, <2>6, <2>7, <3>2, <4>3
      <4>5. Unfinished(b) \in Seq(Bytes) /\ Len(Unfinished(b)) < room  BY <2>7, <4>4, UnfinishedFits, Zenon
      <4> QED  BY <4>1, <4>2, <4>3, <4>5, Zenon
    <3> QED  BY <3>1, <3>2, Zenon
  <2>9. Typed'  BY <1>8, <2>5, <2>7, <2>8, Zenon DEF Typed
  <2>10. pIn' /\ parent' = "write" /\ said' = (Shown(lines') \o ibuf') \o c2p'  BY <1>3, <1>6, <2>5, <2>7, <2>8, Zenon
  <2>11. Outgoing'
    <3>1. Shown(lines)' = Shown(lines')  BY Zenon DEF Shown
    <3> QED  BY <2>10, Zenon DEF Outgoing
  <2> QED  BY <2>9, <2>11, Zenon
<1>10. CASE ~(nread > 0)
  <2>1. nread = 0  BY <1>7, <1>10
  <2>2. c2p = <<>> /\ ~cOut
    <3>1. Len(c2p) = 0  BY <1>7, <2>1, Zenon
    <3>2. c2p = <<>>  BY <1>1, <3>1
    <3> QED  BY <1>4, <3>2, Zenon
  <2>3. lines' = lines \o ToReport /\ pIn' = FALSE /\ c2p' = c2p /\ ibuf' = ibuf  BY <1>6, <1>10, Zenon
  <2> HIDE DEF nread, buf, rest
  <2>4. lines' \in Seq(LineType) /\ Shown(lines') = Shown(lines) \o ibuf
    <3>1. CASE ibuf = <<>>
      <4>1. lines' = lines  BY <1>1, <2>3, <3>1 DEF ToReport
      <4>2. Shown(lines) \o <<>> = Shown(lines)  BY <1>5, ConcatEmptySeq, Zenon
      <4> QED  BY <1>1, <3>1, <4>1, <4>2, Zenon
    <3>2. CASE ibuf # <<>>
      <4>1. Line(ibuf, FALSE) \in LineType  BY <1>1, ShownPart, Zenon
      <4>2. Append(lines, Line(ibuf, FALSE)) = lines \o <<Line(ibuf, FALSE)>>  BY <1>1, <4>1, AppendIsConcat, Zenon
      <4>3. lines' = Append(lines, Line(ibuf, FALSE))  BY <2>3, <3>2, <4>2, Zenon DEF ToReport
      <4> QED  BY <1>1, <4>3, ShownPart, Zenon
    <3> QED  BY <3>1, <3>2, Zenon
  <2>5. Shown(lines) \o ibuf \in Seq(Bytes) /\ EndsWith(Shown(lines) \o ibuf, ibuf)  BY <1>1, <1>5, Ends, ConcatProperties, Zenon
  <2>6. said = Shown(lines) \o ibuf
    <3>1. (Shown(lines) \o ibuf) \o <<>> = Shown(lines) \o ibuf  BY <2>5, ConcatEmptySeq, Zenon
    <3> QED  BY <1>4, <2>2, <3>1, Zenon
  <2>7. Typed'  BY <1>1, <1>8, <2>3, <2>4, Zenon DEF Typed
  <2>8. ~pIn' /\ ~cOut' /\ c2p' = <<>> /\ parent' = "write" /\ EndsWith(said', ibuf') /\ Shown(lines') = said'
    BY <1>3, <1>6, <2>2, <2>3, <2>4, <2>5, <2>6, Zenon
  <2>9. Outgoing'
    <3>1. Shown(lines)' = Shown(lines') /\ EndsWith(said, ibuf)' = EndsWith(said', ibuf')  BY Zenon DEF Shown, EndsWith
    <3> QED  BY <2>8, Zenon DEF Outgoing
  <2> QED  BY <2>7, <2>9, Zenon
<1> QED  BY <1>9, <1>10, Zenon

\* The steps that do not move a byte of the output.
LEMMA PollRun ==
  ASSUME Typed, Outgoing, poll
  PROVE  Typed' /\ Outgoing' /\ Passing' = Passing /\ (Drained => Drained')
<1>1. /\ parent = "poll" /\ parent' = IF pIn /\ (c2p # <<>> \/ ~cOut) THEN "read" ELSE "write"
      /\ UNCHANGED <<lines, ibuf, c2p, said, obuf, p2c, got, feed, program, child, pIn, pOut, cIn, cOut>>
  BY Zenon DEF poll, Readable, cvars
<1>2. Typed'  BY <1>1, Zenon DEF Typed
<1>3. Outgoing'  BY <1>1, Zenon DEF Outgoing, Shown
<1> QED  BY <1>1, <1>2, <1>3, Zenon DEF Passing, Drained

\* The end of the loop: what is left in the buffer is reported.
LEMMA PollOverRun ==
  ASSUME Typed, Outgoing, poll_over
  PROVE  Typed' /\ Outgoing' /\ Passing' = Passing /\ (Drained => Drained')
<1>1. /\ parent = "poll" /\ parent' = "wait" /\ ~pIn
      /\ lines' = IF ibuf = <<>> THEN lines ELSE Append(lines, Line(ibuf, FALSE))
      /\ UNCHANGED <<ibuf, c2p, said, obuf, p2c, got, feed, program, child, pIn, pOut, cIn, cOut>>
  BY Zenon DEF poll_over, cvars
<1>2. lines \in Seq(LineType) /\ ibuf \in Seq(Bytes) /\ said \in Seq(Bytes)  BY Zenon DEF Typed
<1>3. ~cOut /\ c2p = <<>> /\ EndsWith(said, ibuf) /\ Shown(lines) = said  BY <1>1, Zenon DEF Outgoing
<1>4. lines' \in Seq(LineType) /\ Shown(lines') = said \o ibuf
  <2>1. CASE ibuf = <<>>
    <3>1. said \o <<>> = said  BY <1>2, ConcatEmptySeq, Zenon
    <3> QED  BY <1>1, <1>2, <1>3, <2>1, <3>1, Zenon
  <2>2. CASE ibuf # <<>>  BY <1>1, <1>2, <1>3, <2>2, ShownPart, Zenon
  <2> QED  BY <2>1, <2>2, Zenon
<1>5. Typed'  BY <1>1, <1>4, Zenon DEF Typed
<1>6. Outgoing'
  <2>1. Shown(lines)' = Shown(lines')  BY Zenon DEF Shown
  <2> QED  BY <1>1, <1>3, <1>4, <2>1, Zenon DEF Outgoing
<1> QED  BY <1>1, <1>5, <1>6, Zenon DEF Passing, Drained

\* waitpid() keeps the account of both directions.
LEMMA WaitRun ==
  ASSUME Typed, Outgoing, waitpid
  PROVE  Typed' /\ Outgoing' /\ Passing' = Passing /\ (Drained => Drained')
<1>1. /\ parent' = "idle" /\ child' = "none"
      /\ UNCHANGED <<lines, ibuf, c2p, said, obuf, p2c, got, feed, program, pIn, pOut, cIn, cOut>>
  BY Zenon DEF waitpid
<1>2. Typed'  BY <1>1, Zenon DEF Typed
<1>3. Outgoing'  BY <1>1, Zenon DEF Outgoing
<1> QED  BY <1>1, <1>2, <1>3, Zenon DEF Passing, Drained

\* What the callback gives is put in the buffer when that is empty.
LEMMA Buffered ==
  ASSUME Typed, NEW buf, buf = IF obuf = <<>> THEN Filled ELSE obuf,
         NEW next, next = IF obuf = <<>> THEN From(feed, Len(buf) + 1) ELSE feed
  PROVE  /\ buf \in Seq(Bytes) /\ next \in Seq(Bytes) /\ buf \o next = obuf \o feed
         /\ buf = <<>> => obuf = <<>> /\ feed = <<>>
<1>1. obuf \in Seq(Bytes) /\ feed \in Seq(Bytes) /\ OSize \in Nat /\ OSize > 0  BY SizesAssumption, Zenon DEF Typed
<1>2. CASE obuf # <<>>  BY <1>1, <1>2, Zenon
<1>3. CASE obuf = <<>>
  <2>1. PICK m : m = IF Len(feed) < OSize THEN Len(feed) ELSE OSize  BY Zenon
  <2>2. m \in 0..Len(feed) /\ (m = 0 => Len(feed) = 0)  BY <1>1, <2>1
  <2>3. buf = SubSeq(feed, 1, m)  BY <1>3, <2>1, Zenon DEF Filled
  <2>4. /\ SubSeq(feed, 1, m) \o From(feed, m + 1) = feed /\ SubSeq(feed, 1, m) \in Seq(Bytes)
        /\ Len(SubSeq(feed, 1, m)) = m /\ From(feed, m + 1) \in Seq(Bytes)
    BY <1>1, <2>2, Cut, Zenon
  <2>5. next = From(feed, m + 1)  BY <1>3, <2>3, <2>4, Zenon
  <2>6. <<>> \o feed = feed  BY <1>1, ConcatEmptySeq, Zenon
  <2>7. buf = <<>> => feed = <<>>
    <3> SUFFICES ASSUME buf = <<>> PROVE feed = <<>>  BY Zenon
    <3>e. Len(<<>>) = 0  BY EmptySeq, Zenon
    <3>1. Len(SubSeq(feed, 1, m)) = 0  BY <2>3, <3>e, Zenon
    <3>2. Len(feed) = 0  BY <2>2, <2>4, <3>1, Zenon
    <3> QED  BY <1>1, <3>2
  <2> QED  BY <1>3, <2>3, <2>4, <2>5, <2>6, <2>7, Zenon
<1> QED  BY <1>2, <1>3, Zenon

\* Filling the buffer from the callback moves bytes and loses none.
LEMMA Rebuffered ==
  ASSUME Typed, NEW buf \in Seq(Bytes), NEW next \in Seq(Bytes), buf \o next = obuf \o feed
  PROVE  ((got \o p2c) \o buf) \o next = Passing
<1>1. got \in Seq(Bytes) /\ p2c \in Seq(Bytes) /\ obuf \in Seq(Bytes) /\ feed \in Seq(Bytes)  BY Zenon DEF Typed
<1>2. AllIn(got, p2c, buf, next, Bytes) /\ AllIn(got, p2c, obuf, feed, Bytes)  BY <1>1, Zenon DEF AllIn
<1>3. Regrouped(got, p2c, buf, next) /\ Regrouped(got, p2c, obuf, feed)  BY <1>2, Four, Zenon
<1>4. ((got \o p2c) \o buf) \o next = (got \o p2c) \o (buf \o next)  BY <1>3, Zenon DEF Regrouped
<1>5. ((got \o p2c) \o obuf) \o feed = (got \o p2c) \o (obuf \o feed)  BY <1>3, Zenon DEF Regrouped
<1> QED  BY <1>4, <1>5, Zenon DEF Passing

\* A part of the buffer is sent.
LEMMA Sending ==
  ASSUME Typed, NEW buf \in Seq(Bytes), NEW n \in 0..Len(buf)
  PROVE  (got \o (p2c \o SubSeq(buf, 1, n))) \o From(buf, n + 1) = (got \o p2c) \o buf
<1>1. got \in Seq(Bytes) /\ p2c \in Seq(Bytes)  BY Zenon DEF Typed
<1>2. Shifted(got, p2c, buf, n)  BY <1>1, Moved, Zenon
<1> QED  BY <1>2, Zenon DEF Shifted

\* _klpm_chroot_write_to_child() keeps the account of the input.
LEMMA WriteRun ==
  ASSUME Typed, Outgoing, write_to_child
  PROVE  Typed' /\ Outgoing' /\ Passing' = Passing /\ (Drained => Drained')
<1>1. PICK buf : buf = IF obuf = <<>> THEN Filled ELSE obuf  BY Zenon
<1>2. PICK n : n = IF Len(buf) < Capacity - Len(p2c) THEN Len(buf) ELSE Capacity - Len(p2c)  BY Zenon
<1>3. PICK next : next = IF obuf = <<>> THEN From(feed, Len(buf) + 1) ELSE feed  BY Zenon
<1>4. /\ parent = "write" /\ parent' = "poll" /\ UNCHANGED <<ibuf, lines, c2p, pIn, cIn, cOut, said, got, program, child>>
      /\ \/ UNCHANGED <<pOut, obuf, feed, p2c>>
         \/ buf = <<>> /\ pOut' = FALSE /\ UNCHANGED <<obuf, feed, p2c>>
         \/ /\ buf # <<>> /\ feed' = next
            /\ IF cIn
               THEN p2c' = p2c \o SubSeq(buf, 1, n) /\ obuf' = From(buf, n + 1) /\ pOut' = pOut
               ELSE pOut' = FALSE /\ obuf' = buf /\ p2c' = p2c
  BY <1>1, <1>2, <1>3, Zenon DEF write_to_child, cvars, Close, Unsent
<1>5. /\ obuf \in Seq(Bytes) /\ feed \in Seq(Bytes) /\ p2c \in Seq(Bytes) /\ got \in Seq(Bytes)
      /\ Len(p2c) <= Capacity /\ Capacity \in Nat
  BY SizesAssumption, Zenon DEF Typed
<1>6. /\ buf \in Seq(Bytes) /\ next \in Seq(Bytes) /\ buf \o next = obuf \o feed
      /\ buf = <<>> => obuf = <<>> /\ feed = <<>>
  BY <1>1, <1>3, Buffered, Zenon
<1>7. n \in 0..Len(buf) /\ n <= Capacity - Len(p2c)  BY <1>2, <1>5, <1>6
<1>8. Outgoing'
  <2>1. Shown(lines)' = Shown(lines) /\ EndsWith(said, ibuf)' = EndsWith(said, ibuf)  BY <1>4, Zenon DEF Shown
  <2> QED  BY <1>4, <2>1, Zenon DEF Outgoing
<1>9. SubSeq(buf, 1, n) \in Seq(Bytes) /\ Len(SubSeq(buf, 1, n)) = n /\ From(buf, n + 1) \in Seq(Bytes)
  BY <1>6, <1>7, Cut, Zenon
<1>10. p2c \o SubSeq(buf, 1, n) \in Seq(Bytes) /\ Len(p2c \o SubSeq(buf, 1, n)) <= Capacity
  <2>1. PICK x \in Seq(Bytes) : x = SubSeq(buf, 1, n) /\ Len(x) = n  BY <1>9, Zenon
  <2>2. p2c \o x \in Seq(Bytes) /\ Len(p2c \o x) = Len(p2c) + n  BY <1>5, <2>1, ConcatProperties
  <2> QED  BY <1>5, <1>7, <2>1, <2>2
<1>11. feed' \in Seq(Bytes) /\ obuf' \in Seq(Bytes) /\ p2c' \in Seq(Bytes) /\ Len(p2c') <= Capacity
  BY <1>4, <1>5, <1>6, <1>9, <1>10, Zenon
<1>12. Typed'  BY <1>4, <1>11, Zenon DEF Typed
<1>13. Passing' = Passing
  <2>1. CASE UNCHANGED <<obuf, feed, p2c>>  BY <1>4, <2>1, Zenon DEF Passing
  <2>2. CASE ~UNCHANGED <<obuf, feed, p2c>>
    <3>1. CASE cIn
      <4>1. p2c' = p2c \o SubSeq(buf, 1, n) /\ obuf' = From(buf, n + 1) /\ feed' = next /\ got' = got
        BY <1>4, <2>2, <3>1, Zenon
      <4>2. (got \o (p2c \o SubSeq(buf, 1, n))) \o From(buf, n + 1) = (got \o p2c) \o buf  BY <1>6, <1>7, Sending, Zenon
      <4>3. ((got \o p2c) \o buf) \o next = Passing  BY <1>6, Rebuffered, Zenon
      <4>4. Passing' = ((got' \o p2c') \o obuf') \o feed'  BY Zenon DEF Passing
      <4> QED  BY <4>1, <4>2, <4>3, <4>4, Zenon
    <3>2. CASE ~cIn
      <4>1. p2c' = p2c /\ obuf' = buf /\ feed' = next /\ got' = got  BY <1>4, <2>2, <3>2, Zenon
      <4>2. ((got \o p2c) \o buf) \o next = Passing  BY <1>6, Rebuffered
      <4>3. Passing' = ((got' \o p2c') \o obuf') \o feed'  BY DEF Passing
      <4> QED  BY <4>1, <4>2, <4>3, Zenon
    <3> QED  BY <3>1, <3>2, Zenon
  <2> QED  BY <2>1, <2>2, Zenon
<1>14. Drained => Drained'  BY <1>4, <1>6 DEF Drained
<1> QED  BY <1>8, <1>12, <1>13, <1>14, Zenon

\* Reading the output of the child leaves the account of the input as it was.
LEMMA ReadFeed ==
  ASSUME read_from_child
  PROVE  Passing' = Passing /\ (Drained => Drained')
BY Zenon DEF read_from_child, cvars, Passing, Drained

\* To read everything is no character.
LEMMA AllIsNoByte == "all" \notin Bytes
<1> DEFINE S == {Codes[1], Codes[2], Codes[3], Codes[4], Codes[5], Codes[6], Codes[7], Codes[8],
                Codes[9], Codes[10], Codes[11], Codes[12], Codes[13], Codes[14], Codes[15], Codes[16],
                Codes[17], Codes[18], Codes[19], Codes[20], Codes[21], Codes[22], Codes[23], Codes[24],
                Codes[25], Codes[26], Codes[27], Codes[28], Codes[29], Codes[30], Codes[31], Codes[32],
                Codes[33], Codes[34], Codes[35], Codes[36], Codes[37], Codes[38], Codes[39], Codes[40],
                Codes[41], Codes[42], Codes[43], Codes[44], Codes[45], Codes[46]}
<1>1. "all" \notin S  BY DEF Codes
<1>2. Len(Codes) = 46  BY Zenon DEF Codes
<1>3. \A k \in 1..46 : Codes[k] \in S  OBVIOUS
<1> HIDE DEF S
<1> QED  BY <1>1, <1>2, <1>3 DEF Bytes, Chars

\* A program that has still to read everything after its first command.
LEMMA ReadsLater ==
  ASSUME NEW prog \in Seq(STRING), prog # <<>>, ReadsAll(prog), Head(prog) # "all"
  PROVE  Head(prog) # "closein" /\ ReadsAll(Tail(prog))
<1>1. PICK k \in DOMAIN prog : prog[k] = "all" /\ \A j \in 1..k - 1 : prog[j] # "closein"  BY Zenon DEF ReadsAll
<1>2. /\ Len(prog) \in Nat /\ DOMAIN prog = 1..Len(prog) /\ Head(prog) = prog[1]
      /\ Tail(prog) \in Seq(STRING) /\ Len(Tail(prog)) = Len(prog) - 1
      /\ \A i \in 1..Len(Tail(prog)) : Tail(prog)[i] = prog[i + 1]
  BY HeadTailProperties
<1>3. k \in 2..Len(prog)  BY <1>1, <1>2
<1>4. prog[1] # "closein"  BY <1>1, <1>3
<1> DEFINE t == Tail(prog)
<1>5. DOMAIN t = 1..Len(t)  BY <1>2
<1>6. k - 1 \in 1..Len(t) /\ (k - 1) + 1 = k  BY <1>2, <1>3
<1>7. t[k - 1] = "all"
  <2>1. t[k - 1] = prog[(k - 1) + 1]  BY <1>2, <1>6, Zenon
  <2> QED  BY <1>1, <1>6, <2>1, Zenon
<1>8. \A j \in 1..(k - 1) - 1 : t[j] # "closein"
  <2> TAKE j \in 1..(k - 1) - 1
  <2>1. j \in 1..Len(t) /\ j + 1 \in 1..k - 1  BY <1>2, <1>3
  <2> QED  BY <1>1, <1>2, <2>1, Zenon
<1> HIDE DEF t
<1>9. ReadsAll(t)  BY <1>5, <1>6, <1>7, <1>8, Zenon DEF ReadsAll
<1> QED  BY <1>2, <1>4, <1>9, Zenon DEF t

\* A byte goes from the socket to the child.
LEMMA ByteRead ==
  ASSUME NEW a \in Seq(Bytes), NEW b \in Seq(Bytes), b # <<>>
  PROVE  /\ Append(a, Head(b)) \in Seq(Bytes) /\ Tail(b) \in Seq(Bytes)
         /\ Append(a, Head(b)) \o Tail(b) = a \o b /\ Len(Tail(b)) = Len(b) - 1
<1>1. Head(b) \in Bytes /\ Tail(b) \in Seq(Bytes) /\ Len(Tail(b)) = Len(b) - 1  BY HeadTailProperties, Zenon
<1>2. Append(a, Head(b)) \in Seq(Bytes) /\ Append(a, Head(b)) = a \o <<Head(b)>>  BY <1>1, AppendProperties, AppendIsConcat, Zenon
<1>3. <<Head(b)>> \in Seq(Bytes) /\ <<Head(b)>> \o Tail(b) = b  BY <1>1
<1>4. PICK x : x = <<Head(b)>>  BY Zenon
<1>5. PICK y : y = Tail(b)  BY Zenon
<1>6. x \in Seq(Bytes) /\ y \in Seq(Bytes)  BY <1>1, <1>3, <1>4, <1>5, Zenon
<1>7. (a \o x) \o y = a \o (x \o y)  BY <1>6, Three
<1>8. Append(a, Head(b)) \o Tail(b) = a \o b  BY <1>2, <1>3, <1>4, <1>5, <1>7, Zenon
<1> QED  BY <1>1, <1>2, <1>8, Zenon

\* The child reads: nothing is lost, and it has read all when it finds the end.
LEMMA ChildReadRun ==
  ASSUME Typed, Outgoing, child_read, NEW bytes
  PROVE  /\ Typed' /\ Outgoing' /\ Passing' = Passing /\ (Drained => Drained')
         /\ bytes = Passing /\ Drained /\ AllRead(bytes) => AllRead(bytes)'
<1>1. /\ child = "running" /\ program # <<>> /\ Head(program) \in {"read", "all"}
      /\ UNCHANGED <<parent, lines, ibuf, c2p, said, obuf, feed, child, pIn, pOut, cIn, cOut>>
      /\ \/ /\ cIn /\ p2c # <<>> /\ p2c' = Tail(p2c) /\ got' = Append(got, Head(p2c))
            /\ program' = IF Head(program) = "read" THEN Tail(program) ELSE program
         \/ /\ cIn => p2c = <<>> /\ ~pOut
            /\ program' = Tail(program) /\ p2c' = p2c /\ got' = got
  BY Zenon DEF child_read, Doing, pvars
<1>2. /\ got \in Seq(Bytes) /\ p2c \in Seq(Bytes) /\ obuf \in Seq(Bytes) /\ feed \in Seq(Bytes)
      /\ program \in Seq(STRING) /\ Len(p2c) <= Capacity
      /\ Capacity \in Nat
  BY SizesAssumption, Zenon DEF Typed
<1>3. Tail(program) \in Seq(STRING)  BY <1>1, <1>2
<1>4. Outgoing'  BY <1>1, Zenon DEF Outgoing, Shown
<1>5. CASE cIn /\ p2c # <<>> /\ p2c' = Tail(p2c) /\ got' = Append(got, Head(p2c))
           /\ program' = IF Head(program) = "read" THEN Tail(program) ELSE program
  <2>1. got' \in Seq(Bytes) /\ p2c' \in Seq(Bytes) /\ got' \o p2c' = got \o p2c /\ Len(p2c') = Len(p2c) - 1
    <3>1. got \in Seq(Bytes) /\ p2c \in Seq(Bytes) /\ p2c # <<>>  BY <1>2, <1>5, Zenon
    <3>2. /\ Append(got, Head(p2c)) \in Seq(Bytes) /\ Tail(p2c) \in Seq(Bytes)
          /\ Append(got, Head(p2c)) \o Tail(p2c) = got \o p2c /\ Len(Tail(p2c)) = Len(p2c) - 1
      BY <3>1, ByteRead, Zenon
    <3> QED  BY <1>5, <3>2, Zenon
  <2>2. Len(p2c) \in Nat  BY <1>2, LenProperties, Zenon
  <2>3. Len(p2c') <= Capacity  BY <1>2, <2>1, <2>2
  <2>4. program' \in Seq(STRING)  BY <1>2, <1>3, <1>5, Zenon
  <2>5. Typed'  BY <1>1, <2>1, <2>3, <2>4, Zenon DEF Typed
  <2>6. Passing' = Passing
    <3>1. Passing' = ((got' \o p2c') \o obuf') \o feed' /\ obuf' = obuf /\ feed' = feed  BY <1>1, Zenon DEF Passing
    <3> QED  BY <2>1, <3>1, Zenon DEF Passing
  <2>7. ASSUME bytes = Passing, AllRead(bytes) PROVE AllRead(bytes)'
    <3>1. got # bytes
      <4> SUFFICES ASSUME got = bytes PROVE FALSE  BY Zenon
      <4>1. AllIn(got, p2c, obuf, feed, Bytes)  BY <1>2, Zenon DEF AllIn
      <4>2. Regrouped(got, p2c, obuf, feed)  BY <4>1, Four, Zenon
      <4>3. got \o (p2c \o (obuf \o feed)) = got  BY <2>7, <4>2, Zenon DEF Regrouped, Passing
      <4>4. obuf \o feed \in Seq(Bytes)  BY <1>2, ConcatProperties, Zenon
      <4>5. PICK x : x = obuf \o feed  BY Zenon
      <4>6. x \in Seq(Bytes)  BY <4>4, <4>5, Zenon
      <4>7. p2c \o x \in Seq(Bytes)  BY <1>2, <4>6, ConcatProperties, Zenon
      <4>8. p2c \o x = <<>>
        <5>1. got \o (p2c \o x) = got  BY <4>3, <4>5, Zenon
        <5> QED  BY <1>2, <4>7, <5>1, ConcatEqualIffEmpty
      <4>9. p2c = <<>>  BY <1>2, <4>6, <4>8, ConcatEqualIffEmpty
      <4> QED  BY <1>5, <4>9, Zenon
    <3>2. cIn /\ ReadsAll(program)  BY <2>7, <3>1, Zenon DEF AllRead
    <3>3. ReadsAll(program')
      <4>1. CASE Head(program) = "read"
        <5>1. ReadsAll(Tail(program))  BY <1>1, <1>2, <3>2, <4>1, ReadsLater, Zenon
        <5> QED  BY <1>5, <4>1, <5>1, Zenon
      <4>2. CASE Head(program) # "read"  BY <1>5, <3>2, <4>2, Zenon
      <4> QED  BY <4>1, <4>2, Zenon
    <3>4. ReadsAll(program)' = ReadsAll(program')  BY Zenon DEF ReadsAll
    <3> QED  BY <1>1, <3>2, <3>3, <3>4, Zenon DEF AllRead
  <2>8. Drained => Drained'  BY <1>1, Zenon DEF Drained
  <2> QED  BY <1>4, <2>5, <2>6, <2>7, <2>8, Zenon
<1>6. CASE (cIn => p2c = <<>> /\ ~pOut) /\ program' = Tail(program) /\ p2c' = p2c /\ got' = got
  <2>1. Typed'  BY <1>1, <1>2, <1>3, <1>6, Zenon DEF Typed
  <2>2. Passing' = Passing /\ (Drained => Drained')  BY <1>1, <1>6, Zenon DEF Passing, Drained
  <2>3. ASSUME bytes = Passing, Drained, AllRead(bytes) PROVE AllRead(bytes)'
    <3>1. CASE got = bytes  BY <1>6, <2>3, <3>1, Zenon DEF AllRead
    <3>2. CASE got # bytes
      <4>1. cIn  BY <2>3, <3>2, Zenon DEF AllRead
      <4>2. p2c = <<>> /\ obuf = <<>> /\ feed = <<>>  BY <1>6, <2>3, <4>1, Zenon DEF Drained
      <4>3. got \o <<>> = got  BY <1>2, ConcatEmptySeq, Zenon
      <4>4. Passing = got  BY <4>2, <4>3, Zenon DEF Passing
      <4> QED  BY <2>3, <3>2, <4>4, Zenon
    <3> QED  BY <3>1, <3>2, Zenon
  <2> QED  BY <1>4, <2>1, <2>2, <2>3, Zenon
<1> QED  BY <1>1, <1>5, <1>6, Zenon

\* A byte written by the child is in the account of the output.
LEMMA ChildWriteRun ==
  ASSUME Typed, Outgoing, child_write, NEW bytes
  PROVE  /\ Typed' /\ Outgoing' /\ Passing' = Passing /\ (Drained => Drained')
         /\ AllRead(bytes) => AllRead(bytes)'
<1>1. /\ child = "running" /\ program # <<>> /\ Head(program) \in Bytes /\ program' = Tail(program)
      /\ UNCHANGED <<parent, lines, ibuf, obuf, feed, child, pIn, pOut, cIn, cOut, got, p2c>>
      /\ \/ cOut /\ c2p' = Append(c2p, Head(program)) /\ said' = Append(said, Head(program))
         \/ ~cOut /\ c2p' = c2p /\ said' = said
  BY Zenon DEF child_write, pvars
<1>2. /\ c2p \in Seq(Bytes) /\ said \in Seq(Bytes) /\ program \in Seq(STRING) /\ ibuf \in Seq(Bytes)
      /\ lines \in Seq(LineType)
  BY Zenon DEF Typed
<1>3. program' \in Seq(STRING)  BY <1>1, <1>2
<1>h. PICK x \in Bytes : x = Head(program)  BY <1>1, Zenon
<1>a. /\ Append(c2p, x) \in Seq(Bytes) /\ Append(c2p, x) # <<>> /\ Append(said, x) \in Seq(Bytes)
  BY <1>2, AppendProperties
<1>4. c2p' \in Seq(Bytes) /\ said' \in Seq(Bytes)  BY <1>1, <1>2, <1>h, <1>a, Zenon
<1>5. Typed'  BY <1>1, <1>3, <1>4, Zenon DEF Typed
<1>6. Outgoing'
  <2>0. Shown(lines)' = Shown(lines)  BY <1>1, Zenon DEF Shown
  <2>1. CASE ~cOut
    <3>1. c2p' = c2p /\ said' = said  BY <1>1, <2>1, Zenon
    <3> QED  BY <1>1, <2>0, <3>1, Zenon DEF Outgoing
  <2>2. CASE cOut
    <3>1. c2p' = Append(c2p, Head(program)) /\ said' = Append(said, Head(program))  BY <1>1, <2>2, Zenon
    <3>2. c2p' # <<>>  BY <1>h, <1>a, <3>1, Zenon
    <3>3. ASSUME parent # "idle" PROVE pIn /\ parent # "wait" /\ said' = (Shown(lines) \o ibuf) \o c2p'
      <4>1. pIn /\ parent # "wait" /\ said = (Shown(lines) \o ibuf) \o c2p  BY <2>2, <3>3, Zenon DEF Outgoing
      <4>2. Shown(lines) \in Seq(Bytes)  BY <1>2, ShownPart, Zenon
      <4>3. PICK y : y = Shown(lines) \o ibuf  BY Zenon
      <4>4. y \in Seq(Bytes)  BY <1>2, <4>2, <4>3, ConcatProperties, Zenon
      <4>5. y \o Append(c2p, x) = Append(y \o c2p, x)  BY <1>2, <4>4, CatAppend
      <4>6. said' = y \o c2p'  BY <1>h, <3>1, <4>1, <4>3, <4>5, Zenon
      <4> QED  BY <4>1, <4>3, <4>6, Zenon
    <3> QED  BY <1>1, <2>0, <2>2, <3>2, <3>3, Zenon DEF Outgoing
  <2> QED  BY <2>1, <2>2, Zenon
<1>7. Passing' = Passing /\ (Drained => Drained')  BY <1>1, Zenon DEF Passing, Drained
<1>8. ASSUME AllRead(bytes) PROVE AllRead(bytes)'
  <2>1. CASE got = bytes  BY <1>1, <1>8, <2>1, Zenon DEF AllRead
  <2>2. CASE got # bytes
    <3>1. cIn /\ ReadsAll(program)  BY <1>8, <2>2, Zenon DEF AllRead
    <3>2. Head(program) # "all"  BY <1>1, AllIsNoByte, Zenon
    <3>3. ReadsAll(Tail(program))  BY <1>1, <1>2, <3>1, <3>2, ReadsLater, Zenon
    <3>4. ReadsAll(program)' = ReadsAll(program')  BY Zenon DEF ReadsAll
    <3> QED  BY <1>1, <3>1, <3>3, <3>4, Zenon DEF AllRead
  <2> QED  BY <2>1, <2>2, Zenon
<1> QED  BY <1>5, <1>6, <1>7, <1>8, Zenon

\* A descriptor closed by the child.
LEMMA ChildCloseRun ==
  ASSUME Typed, Outgoing, child_close, NEW bytes
  PROVE  /\ Typed' /\ Outgoing' /\ Passing' = Passing /\ (Drained => Drained')
         /\ AllRead(bytes) => AllRead(bytes)'
<1>1. /\ child = "running" /\ program # <<>> /\ program' = Tail(program)
      /\ UNCHANGED <<parent, lines, ibuf, c2p, said, obuf, feed, child, pIn, pOut, got, p2c>>
      /\ \/ Head(program) = "closein" /\ cIn' = FALSE /\ cOut' = cOut
         \/ Head(program) = "closeout" /\ cOut' = FALSE /\ cIn' = cIn
  BY Zenon DEF child_close, Doing, pvars
<1>2. program \in Seq(STRING)  BY Zenon DEF Typed
<1>3. program' \in Seq(STRING)  BY <1>1, <1>2
<1>4. Typed'  BY <1>1, <1>3, Zenon DEF Typed
<1>5. Outgoing'
  <2>1. Shown(lines)' = Shown(lines) /\ (cOut' => cOut)  BY <1>1 DEF Shown
  <2> QED  BY <1>1, <2>1, Zenon DEF Outgoing
<1>6. Passing' = Passing /\ (Drained => Drained')  BY <1>1 DEF Passing, Drained
<1>7. ASSUME AllRead(bytes) PROVE AllRead(bytes)'
  <2>1. CASE got = bytes  BY <1>1, <1>7, <2>1, Zenon DEF AllRead
  <2>2. CASE got # bytes
    <3>1. cIn /\ ReadsAll(program)  BY <1>7, <2>2, Zenon DEF AllRead
    <3>2. Head(program) # "all"  BY <1>1, Zenon
    <3>3. Head(program) # "closein" /\ ReadsAll(Tail(program))  BY <1>1, <1>2, <3>1, <3>2, ReadsLater, Zenon
    <3>4. ReadsAll(program)' = ReadsAll(program')  BY DEF ReadsAll
    <3> QED  BY <1>1, <3>1, <3>3, <3>4, Zenon DEF AllRead
  <2> QED  BY <2>1, <2>2
<1> QED  BY <1>4, <1>5, <1>6, <1>7, Zenon

\* A program that is over has nothing left to read.
LEMMA OverReadsNothing == ~ReadsAll(<<>>)
BY DEF ReadsAll

\* The exit of the child: a child that has done its program and was to read all, did.
LEMMA ChildExitRun ==
  ASSUME Typed, Outgoing, child_exit, NEW bytes
  PROVE  /\ Typed' /\ Outgoing' /\ Passing' = Passing /\ (Drained => Drained')
         /\ AllRead(bytes) => AllRead(bytes)'
<1>1. /\ child = "running" /\ program = <<>> /\ child' = "exited" /\ cIn' = FALSE /\ cOut' = FALSE
      /\ UNCHANGED <<parent, lines, ibuf, c2p, said, obuf, feed, program, pIn, pOut, got, p2c>>
  BY Zenon DEF child_exit, pvars
<1>2. Typed'  BY <1>1, Zenon DEF Typed
<1>3. Outgoing'
  <2>1. Shown(lines)' = Shown(lines)  BY <1>1, Zenon DEF Shown
  <2> QED  BY <1>1, <2>1, Zenon DEF Outgoing
<1>4. Passing' = Passing /\ (Drained => Drained')  BY <1>1, Zenon DEF Passing, Drained
<1>5. AllRead(bytes) => AllRead(bytes)'  BY <1>1, OverReadsNothing, Zenon DEF AllRead
<1> QED  BY <1>2, <1>3, <1>4, <1>5, Zenon

\* A step of the parent or of the child keeps everything.
LEMMA RunSteps ==
  ASSUME Typed, Outgoing, Parent \/ Child, NEW bytes
  PROVE  /\ Typed' /\ Outgoing' /\ Passing' = Passing /\ (Drained => Drained')
         /\ bytes = Passing /\ Drained /\ AllRead(bytes) => AllRead(bytes)'
<1>1. CASE Parent
  <2>1. Typed' /\ Outgoing' /\ Passing' = Passing /\ (Drained => Drained')
    BY <1>1, PollRun, PollOverRun, ReadRun, ReadFeed, WriteRun, WaitRun, Zenon DEF Parent
  <2>2. UNCHANGED <<cIn, program, got>>
    BY <1>1, Zenon DEF Parent, poll, poll_over, read_from_child, write_to_child, waitpid, cvars
  <2>3. AllRead(bytes) => AllRead(bytes)'  BY <2>2, Zenon DEF AllRead, ReadsAll
  <2> QED  BY <2>1, <2>3, Zenon
<1>2. CASE Child
  BY <1>2, ChildReadRun, ChildWriteRun, ChildCloseRun, ChildExitRun, Zenon DEF Child
<1> QED  BY <1>1, <1>2, Zenon

\* A run that begins.
LEMMA RunBegins ==
  ASSUME NEW prog \in Seq(STRING), NEW status, NEW callback, NEW bytes \in Seq(Bytes),
         run_chroot(prog, status, callback, bytes)
  PROVE  /\ Typed' /\ Outgoing' /\ Passing' = bytes
         /\ parent' # "idle" /\ cIn' /\ program' = prog /\ pOut' = callback
<1>1. /\ parent' = "poll" /\ pIn' = TRUE /\ pOut' = callback /\ ibuf' = <<>> /\ obuf' = <<>> /\ feed' = bytes
      /\ child' = "running" /\ program' = prog /\ cIn' = TRUE /\ cOut' = TRUE
      /\ c2p' = <<>> /\ p2c' = <<>> /\ lines' = <<>> /\ said' = <<>> /\ got' = <<>>
  BY Zenon DEF run_chroot
<1>2. <<>> \in Seq(Bytes) /\ <<>> \in Seq(LineType) /\ Len(<<>>) = 0  BY EmptySeq, Zenon
<1>3. Typed'  BY <1>1, <1>2, SizesAssumption DEF Typed
<1>4. Shown(<<>>) = <<>>
  <2>1. Line(<<>>, FALSE) \in LineType  BY <1>2, Zenon DEF Line, LineType
  <2> QED  BY <1>2, <2>1, ShownAppend, Zenon
<1>5. <<>> \o <<>> = <<>> /\ <<>> \o bytes = bytes  BY <1>2, ConcatEmptySeq, Zenon
<1>6. Outgoing'
  <2>1. Shown(lines)' = <<>>  BY <1>1, <1>4, Zenon DEF Shown
  <2>2. said' = (Shown(lines)' \o ibuf') \o c2p'  BY <1>1, <1>5, <2>1, Zenon
  <2> QED  BY <1>1, <2>2, Zenon DEF Outgoing
<1>7. Passing' = bytes
  <2>1. Passing' = ((got' \o p2c') \o obuf') \o feed'  BY Zenon DEF Passing
  <2> QED  BY <1>1, <1>5, <2>1, Zenon
<1> QED  BY <1>1, <1>3, <1>6, <1>7, Zenon

\* A run that does not take place.
LEMMA RunsNothing ==
  ASSUME Typed, NEW r, run_nothing(r)
  PROVE  Typed' /\ Outgoing'
<1>1. <<>> \in Seq(Bytes) /\ <<>> \in Seq(LineType)  BY EmptySeq, Zenon
<1> QED  BY <1>1, Zenon DEF run_nothing, Typed, Outgoing

\* A step that leaves the run alone.
LEMMA RunStays ==
  ASSUME Typed, Outgoing, UNCHANGED runvars
  PROVE  Typed' /\ Outgoing'
<1>1. UNCHANGED <<lines, ibuf, c2p, said, obuf, p2c, got, feed, program, child, parent, pIn, cOut>>
  BY Zenon DEF runvars, pvars, cvars
<1>2. Typed'  BY <1>1, Zenon DEF Typed
<1>3. Outgoing'  BY <1>1, Zenon DEF Outgoing, Shown
<1> QED  BY <1>2, <1>3, Zenon
=============================================================================
