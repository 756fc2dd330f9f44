------------------------------- MODULE Strings -------------------------------
(***************************************************************************)
(* Strings as sequences of one-character strings, and what the C library   *)
(* does with them.                                                         *)
(***************************************************************************)
EXTENDS Integers, Sequences

\* The characters used here in the order of their codes.
Codes == <<" ", "+", "-", ".", "/", "0", "1", "2", "3", "4", "5", "6", "7", "8", "9", ":", "<", "=", ">", "_",
           "a", "b", "c", "d", "e", "f", "g", "h", "i", "j", "k", "l", "m",
           "n", "o", "p", "q", "r", "s", "t", "u", "v", "w", "x", "y", "z">>
Chars == {Codes[k] : k \in 1..Len(Codes)}
Code == [c \in Chars |-> CHOOSE k \in 1..Len(Codes) : Codes[k] = c]

From(s, k) == SubSeq(s, k, Len(s))
StartsWith(s, t) == Len(t) <= Len(s) /\ SubSeq(s, 1, Len(t)) = t
EndsWith(s, t) == Len(t) <= Len(s) /\ From(s, Len(s) - Len(t) + 1) = t

\* A list of strings put together.
Joined(ss) ==
  LET joined[k \in 0..Len(ss)] == IF k = 0 THEN <<>> ELSE joined[k - 1] \o ss[k]
  IN  joined[Len(ss)]

\* strcmp(), reduced to its sign: the first byte that differs decides, and a string ends
\* with a 0.
Byte(s, k) == IF k > Len(s) THEN 0 ELSE Code[s[k]]
Difference(s, t, k) == Byte(s, k) # Byte(t, k) /\ \A m \in 1..k - 1 : Byte(s, m) = Byte(t, m)
strcmp(s, t) ==
  IF s = t THEN 0
  ELSE LET k == CHOOSE n \in 1..Len(s) + 1 : Difference(s, t, n)
       IN  IF Byte(s, k) < Byte(t, k) THEN -1 ELSE 1
=============================================================================
