------------------------- MODULE PackinstallTargets -------------------------
(***************************************************************************)
(* The targets packinstall knows (src/src/util/packinstall.c): the table   *)
(* of architectures, the multilib variants, and how --arch, --target and   *)
(* uname() are looked up in them.                                          *)
(*                                                                         *)
(* A triplet is the sequence of its parts, without the hyphens; a pattern  *)
(* is matched against the hyphenated form.  The release number of          *)
(* "solaris2" is left out: every pattern that names it ends in a star.     *)
(***************************************************************************)
EXTENDS PackinstallNames

CONSTANT Null

Row(name, uname, parts) ==
    [name |-> <<name>>, uname |-> uname, triplet |-> parts, os |-> parts[3], old |-> FALSE]
Gnu(name) == Row(name, name, <<name, "unknown", "linux", "gnu">>)
As(name, uname, cpu) == Row(name, uname, <<cpu, "unknown", "linux", "gnu">>)
Bsd(os, cpu) == [Row(os, cpu, <<cpu, "unknown", os>>) EXCEPT !.name = <<os, "-", cpu>>]
BsdAs(os, name, uname, cpu) ==
    [Row(os, uname, <<cpu, "unknown", os>>) EXCEPT !.name = <<os, "-", name>>]
Old(row) == [row EXCEPT !.old = TRUE]

LinuxRows == <<
    Gnu("x86_64"), Gnu("i686"), Gnu("i586"), Gnu("i486"), Gnu("i386"),
    Row("x32", "x86_64", <<"x86_64", "unknown", "linux", "gnux32">>), Gnu("aarch64"),
    Gnu("aarch64_be"), Row("arm", "arm", <<"arm", "unknown", "linux", "gnueabi">>),
    Row("armel", "arm", <<"arm", "unknown", "linux", "gnueabi">>),
    Row("armhf", "arm", <<"arm", "unknown", "linux", "gnueabihf">>),
    Row("armv6", "arm", <<"arm", "unknown", "linux", "gnueabi">>),
    Row("armv7", "arm", <<"arm", "unknown", "linux", "gnueabihf">>),
    Row("armeb", "armeb", <<"armeb", "unknown", "linux", "gnueabi">>), Gnu("mips"),
    Gnu("mipsel"),
    Row("mips64", "mips64", <<"mips64", "unknown", "linux", "gnuabi64">>),
    Row("mips64el", "mips64el", <<"mips64el", "unknown", "linux", "gnuabi64">>),
    Row("mips64n32", "mips64", <<"mips64", "unknown", "linux", "gnuabin32">>),
    Row("mips64n32el", "mips64el", <<"mips64el", "unknown", "linux", "gnuabin32">>),
    As("powerpc", "ppc", "powerpc"), As("powerpcle", "ppcle", "powerpcle"),
    As("powerpc64", "ppc64", "powerpc64"), As("powerpc64le", "ppc64le", "powerpc64le"),
    Gnu("riscv32"), Gnu("riscv32be"), Gnu("riscv64"), Gnu("riscv64be"),
    Row("s390", "s390", <<"s390", "ibm", "linux", "gnu">>),
    Row("s390x", "s390x", <<"s390x", "ibm", "linux", "gnu">>), Gnu("sparc"),
    Gnu("sparc64"), Gnu("alpha"), Gnu("arc"), Gnu("arceb"),
    Row("csky", "csky", <<"csky", "unknown", "linux", "gnuabiv2">>),
    Row("hexagon", "hexagon", <<"hexagon", "unknown", "linux", "musl">>),
    Gnu("loongarch64"), Gnu("m68k"), Gnu("microblaze"), Gnu("microblazeel"),
    Gnu("nios2"), As("openrisc", "or1k", "or1k"), Gnu("or1k"),
    As("parisc", "hppa", "hppa"), As("parisc64", "hppa64", "hppa64"), Gnu("sh"),
    Gnu("sh4"), Gnu("sh4eb"), Gnu("xtensa"), As("xtensaeb", "xtensa", "xtensaeb") >>

HistoricalRows == <<
    Old(Gnu("ia64")), Old(Gnu("cris")), Old(Gnu("frv")), Old(Gnu("h8300")),
    Old(Gnu("m32r")), Old(Gnu("mn10300")), Old(Gnu("metag")),
    Old(As("blackfin", "bfin", "bfin")), Old(Gnu("tile")), Old(Gnu("avr32")),
    Old(As("c6x", "tic6x", "tic6x")) >>

NetBSDRows == <<
    BsdAs("netbsd", "amd64", "x86_64", "x86_64"),
    Old(Bsd("netbsd", "i386")), Old(Bsd("netbsd", "alpha")), Bsd("netbsd", "arm"),
    BsdAs("netbsd", "earm", "arm", "earm"), Bsd("netbsd", "hppa"),
    Bsd("netbsd", "m68k"), Bsd("netbsd", "mipseb"), Bsd("netbsd", "mipsel"),
    Bsd("netbsd", "powerpc"), Bsd("netbsd", "sh3eb"), Bsd("netbsd", "sh3el"),
    Bsd("netbsd", "sparc"), Bsd("netbsd", "sparc64"), Bsd("netbsd", "vax"),
    BsdAs("netbsd", "evbarm", "arm", "arm"),
    BsdAs("netbsd", "evbmips", "mips", "mips"),
    BsdAs("netbsd", "evbppc", "powerpc", "powerpc") >>

OtherRows == <<
    BsdAs("freebsd", "amd64", "amd64", "x86_64"),
    Bsd("freebsd", "aarch64"), Bsd("freebsd", "armv7"), Old(Bsd("freebsd", "armv6")),
    Old(Bsd("freebsd", "i386")), Bsd("freebsd", "powerpc"), Bsd("freebsd", "powerpc64"),
    Bsd("freebsd", "powerpc64le"), Old(Bsd("freebsd", "powerpcspe")),
    Bsd("freebsd", "riscv64"), Old(Bsd("freebsd", "mips")),
    Old(Bsd("freebsd", "mipsel")), Old(Bsd("freebsd", "mips64")),
    Old(Bsd("freebsd", "mips64el")), Old(Bsd("freebsd", "mipsn32")),
    Old(Bsd("freebsd", "sparc64")), Old(Bsd("freebsd", "alpha")),
    Old(Bsd("freebsd", "ia64")),
    BsdAs("openbsd", "amd64", "amd64", "x86_64"),
    Bsd("openbsd", "i386"),
    BsdAs("openbsd", "aarch64", "arm64", "aarch64"),
    Bsd("openbsd", "armv7"), Old(Bsd("openbsd", "mips64")),
    Old(Bsd("openbsd", "powerpc64")),
    BsdAs("dragonfly", "amd64", "x86_64", "x86_64"),
    [BsdAs("solaris", "amd64", "i86pc", "x86_64") EXCEPT !.triplet[2] = "pc"],
    [BsdAs("solaris", "sparc64", "sparc64", "sparc64") EXCEPT !.triplet[2] = "sun"],
    [BsdAs("darwin", "arm64", "arm64", "aarch64") EXCEPT !.triplet[2] = "apple"],
    [BsdAs("darwin", "x86_64", "x86_64", "x86_64") EXCEPT !.triplet[2] = "apple"] >>

architectures == LinuxRows \o HistoricalRows \o NetBSDRows \o OtherRows

multilib_variants == {"lib32", "lib64", "libx32", "mips-o32", "mips-n32", "mips-n64",
    "mips-softfloat", "mips-hardfloat", "ppc32", "ppc64", "ppc32-abi", "ppc64-abi",
    "arm32", "arm64"}

-----------------------------------------------------------------------------
NoRow == Row("none", "none", <<"none", "none", "none">>)

\* The first row that satisfies Test, or NoRow.
FirstRow(Test(_)) ==
    LET hits == SelectSeq(architectures, Test)
    IN  IF hits = <<>> THEN NoRow ELSE Head(hits)

find_architecture(name) == FirstRow(LAMBDA r : r.name = name)
find_architecture_triplet(parts) == FirstRow(LAMBDA r : r.triplet = parts)

detect_host_architecture(machine) == FirstRow(LAMBDA r : r.uname = machine /\ ~r.old)

Unknown == <<"unknown", "unknown", "linux", "gnu">>

\* The hyphenated form, over which the patterns are matched.
Hyphenated(parts) ==
    [i \in 1..2 * Len(parts) - 1 |-> IF i % 2 = 1 THEN parts[(i + 1) \div 2] ELSE "-"]

Like(parts, tail) == wildcard_match(<<"*", "-", "*", "-">> \o tail, Hyphenated(parts))

\* detect_target_os(), in the code's order.
detect_target_os(parts) ==
    LET named == SelectSeq(<<"linux", "netbsd", "freebsd", "openbsd", "dragonfly", "solaris",
                             "darwin">>,
            LAMBDA os : \/ Like(parts, <<os, "*">>) /\ os # "linux"
                        \/ \E t \in {<<"linux">>, <<"linux", "-", "*">>} : Like(parts, t) /\ os = "linux")
    IN  IF named # <<>> THEN Head(named)
        ELSE IF \E e \in {"none", "elf", "eabi"} : Like(parts, <<e, "*">>) THEN "none" ELSE "other"

\* resolve_target_pattern(): a pattern without "*" and "?" is taken as it is;
\* else the first row whose triplet matches it, else the first whose name does.
\* A pattern is a sequence of words, hyphens and wildcards.
HasWildcard(pattern) == \E i \in DOMAIN pattern : pattern[i] \in {"*", "?"}

resolve_target_pattern(pattern) ==
    LET byTriplet == FirstRow(LAMBDA r : wildcard_match(pattern, Hyphenated(r.triplet)))
        byName == FirstRow(LAMBDA r : wildcard_match(pattern, r.name))
    IN  IF ~HasWildcard(pattern) THEN SelectSeq(pattern, LAMBDA w : w # "-")
        ELSE IF byTriplet # NoRow THEN byTriplet.triplet ELSE byName.triplet

\* parse_target(), split_target(): a triplet has at least two hyphens.
parse_target(parts) == Len(parts) >= 3
=============================================================================
