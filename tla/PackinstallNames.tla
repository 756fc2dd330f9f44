-------------------------- MODULE PackinstallNames --------------------------
(***************************************************************************)
(* The pure parts of packinstall (src/src/util/packinstall.c): the shell   *)
(* patterns of --target, the sanitizers of pkgname and pkgver, and how     *)
(* name and version are read off a source directory or a Git worktree.     *)
(*                                                                         *)
(* A string is a sequence of characters; a word that the code compares as  *)
(* a whole ("expect", "tcl", "unzip", "docbook-xml") is one element.       *)
(***************************************************************************)
EXTENDS Naturals, Sequences, SequencesExt

Digits == {"0", "1", "2", "4", "5", "6"}
Letters == {"a", "b", "g", "r", "v", "expect", "tcl", "unzip", "docbook-xml", "package"}
Separators == {"-", "_"}

\* The elements of s at the positions that satisfy Keep.
Filtered(s, Keep(_)) ==
    LET at == SelectSeq([i \in DOMAIN s |-> i], Keep)
    IN  [k \in DOMAIN at |-> s[at[k]]]

From(s, i) == SubSeq(s, i, Len(s))

\* The first position from i on that satisfies Test, or Len(s) + 1.
FirstAt(s, i, Test(_)) ==
    LET hits == {j \in i..Len(s) : Test(j)}
    IN  IF hits = {} THEN Len(s) + 1 ELSE CHOOSE j \in hits : \A k \in hits : j <= k

LastAt(s, c) ==
    LET hits == {j \in DOMAIN s : s[j] = c}
    IN  IF hits = {} THEN 0 ELSE CHOOSE j \in hits : \A k \in hits : k <= j

-----------------------------------------------------------------------------
(* wildcard_match(): one pass with the last star remembered.  The loop's    *)
(* state is the place in the pattern and in the string, and those of the    *)
(* last star.                                                               *)

RECURSIVE Scan(_, _, _, _, _, _)

\* A star that is remembered where it ends, not where it starts.
ScanSkips(pat, str, p, s, star, mark) ==
    LET at(q, i) == IF i <= Len(q) THEN q[i] ELSE "end"
    IN  IF s > Len(str)
        THEN \A i \in p..Len(pat) : pat[i] = "*"
        ELSE IF at(pat, p) = "*" THEN Scan(pat, str, p + 1, s + 1, p, s)
        ELSE IF at(pat, p) \in {"?", str[s]} THEN Scan(pat, str, p + 1, s + 1, star, mark)
        ELSE IF star > 0 THEN Scan(pat, str, star + 1, mark + 1, star, mark + 1)
        ELSE FALSE

Scan(pat, str, p, s, star, mark) ==
    LET at(q, i) == IF i <= Len(q) THEN q[i] ELSE "end"
    IN  IF s > Len(str)
        THEN \A i \in p..Len(pat) : pat[i] = "*"
        ELSE IF at(pat, p) = "*" THEN Scan(pat, str, p + 1, s, p, s)
        ELSE IF at(pat, p) \in {"?", str[s]} THEN Scan(pat, str, p + 1, s + 1, star, mark)
        ELSE IF star > 0 THEN Scan(pat, str, star + 1, mark + 1, star, mark + 1)
        ELSE FALSE

wildcard_match(pat, str) == Scan(pat, str, 1, 1, 0, 0)

\* The meaning of a pattern: a star stands for any string, "?" for any
\* character.
RECURSIVE Matches(_, _)
Matches(pat, str) ==
    IF pat = <<>> THEN str = <<>>
    ELSE IF Head(pat) = "*"
         THEN \E n \in 0..Len(str) : Matches(Tail(pat), From(str, n + 1))
         ELSE /\ str # <<>>
              /\ Head(pat) \in {"?", Head(str)}
              /\ Matches(Tail(pat), Tail(str))

-----------------------------------------------------------------------------
(* The sanitizers; the empty sequence stands for NULL.                      *)

NameChars == Letters \cup Digits \cup {".", "_", "+", "@", "-"}
VersionChars == Letters \cup Digits \cup {".", "_"}

DropLeadingDots(s) == From(s, FirstAt(s, 1, LAMBDA i : s[i] # "."))

DropTrailingDots(s) ==
    SubSeq(s, 1, Len(s) + 1 - FirstAt(Reverse(s), 1, LAMBDA i : Reverse(s)[i] # "."))

\* The leading dots are kept.
NameKeepsDots(s) == [i \in DOMAIN s |-> IF s[i] \in NameChars THEN s[i] ELSE "_"]

sanitize_package_name(s) ==
    DropLeadingDots([i \in DOMAIN s |-> IF s[i] \in NameChars THEN s[i] ELSE "_"])

CollapseDots(s) == Filtered(s, LAMBDA i : ~(s[i] = "." /\ i > 1 /\ s[i - 1] = "."))

sanitize_package_version(s) ==
    LET mapped == [i \in DOMAIN s |-> IF s[i] \in VersionChars THEN s[i] ELSE "."]
    IN  DropTrailingDots(DropLeadingDots(CollapseDots(mapped)))

-----------------------------------------------------------------------------
(* Git: what the commands print, the empty sequence for nothing.            *)

FirstNonEmpty(seq) ==
    LET hits == SelectSeq(seq, LAMBDA s : s # <<>>)
    IN  IF hits = <<>> THEN <<>> ELSE Head(hits)

git_package_name(git) ==
    FirstNonEmpty(<<IF git.work THEN sanitize_package_name(git.root) ELSE <<>>,
                    sanitize_package_name(git.remote)>>)

git_package_version(git) ==
    IF ~git.work THEN <<>>
    ELSE FirstNonEmpty(<<
            sanitize_package_version(git.describe),
            IF git.count # <<>> /\ git.commit # <<>>
            THEN sanitize_package_version(<<"0", ".", "r">> \o git.count \o <<".", "g">> \o git.commit)
            ELSE <<>>,
            IF git.commit # <<>>
            THEN sanitize_package_version(<<"0", ".", "g">> \o git.commit) ELSE <<>> >>)

-----------------------------------------------------------------------------
(* The source directory's base name; realpath() leaves it empty only for /. *)

\* LFS-style prefixes: two to four digits and a "-".
DropPrefix(b) ==
    LET n == FirstAt(b, 1, LAMBDA i : b[i] \notin Digits) - 1
    IN  IF n \in 2..4 /\ n < Len(b) /\ b[n + 1] = "-" THEN From(b, n + 2) ELSE b

StartsVersion(s, i) == i <= Len(s) /\ s[i] \in Digits \cup {"v"}

\* The name ends before the first separator that a digit or a "v" follows.
DropVersion(s) ==
    LET end == FirstAt(s, 2, LAMBDA i : s[i] \in Separators /\ StartsVersion(s, i + 1))
    IN  SubSeq(s, 1, end - 1)

package_name(b, git) ==
    FirstNonEmpty(<<sanitize_package_name(DropVersion(DropPrefix(b))),
                    git_package_name(git), <<"package">> >>)

FromFirstDigit(b) ==
    LET i == FirstAt(b, 1, LAMBDA j : b[j] \in Digits)
    IN  IF i > Len(b) THEN <<"0">> ELSE From(b, i)

OrZero(v) == IF v = <<>> THEN <<"0">> ELSE v

\* What follows the last separator, if a digit or a "v" does; else everything
\* from the first digit on.
StandardVersion(b) ==
    LET sep == IF LastAt(b, "_") > LastAt(b, "-") THEN LastAt(b, "_") ELSE LastAt(b, "-")
        v == IF sep > 0 /\ StartsVersion(b, sep + 1) THEN From(b, sep + 1)
             ELSE FromFirstDigit(b)
    IN  [i \in DOMAIN v |-> IF v[i] = "_" THEN "." ELSE v[i]]

package_version(b, git) ==
    LET fromGit == git_package_version(git)
    IN  CASE fromGit # <<>> -> fromGit
          [] fromGit = <<>> /\ b = <<>> -> <<"0">>
          [] fromGit = <<>> /\ b # <<>> ->
              CASE b[1] \in {"expect", "tcl"} -> OrZero(sanitize_package_version(FromFirstDigit(b)))
                [] b[1] = "unzip" /\ Len(b) > 2 /\ b[2] \in Digits /\ b[3] \in Digits ->
                      OrZero(sanitize_package_version(<<b[2], ".">> \o From(b, 3)))
                [] b = <<"docbook-xml">> -> <<"4", ".", "5">>
                [] OTHER -> OrZero(sanitize_package_version(StandardVersion(b)))

\* What makepkg's lint accepts.
check_pkgver(v) == v # <<>> /\ \A i \in DOMAIN v : v[i] \in VersionChars
lint_one_pkgname(n) ==
    n # <<>> /\ n[1] \notin {"-", "."} /\ \A i \in DOMAIN n : n[i] \in NameChars
=============================================================================
