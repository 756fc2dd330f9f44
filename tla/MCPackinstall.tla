---------------------------- MODULE MCPackinstall ----------------------------
(***************************************************************************)
(* Sessions that build: the documented options on an x86_64 machine, on    *)
(* one the table does not know, and by root.  Sessions that only look up   *)
(* (their staging directory is refused): every machine and every row of    *)
(* the table, the patterns, and every directory name of up to four         *)
(* characters, in and outside a Git worktree.                              *)
(***************************************************************************)
EXTENDS Packinstall

NoGit == [work |-> FALSE, root |-> <<>>, remote |-> <<>>, describe |-> <<>>,
          count |-> <<>>, commit |-> <<>>]
Foo == [base |-> <<"a", "-", "1">>, git |-> NoGit]
Home == [machine |-> "x86_64", carch |-> <<"x86_64">>, root |-> FALSE]

Plain == [bad |-> FALSE, list |-> FALSE, src |-> "dir", stage |-> "out", arch |-> Null,
          target |-> Null, build |-> Null, host |-> Null, multilib |-> Null, install |-> FALSE]
Lookup == [Plain EXCEPT !.stage = "/"]

Session(i, h, p) == [inv |-> i, host |-> h, project |-> p]

Stops == {[Plain EXCEPT !.bad = TRUE], [Plain EXCEPT !.src = Null],
          [Plain EXCEPT !.src = Null, !.list = TRUE], [Plain EXCEPT !.src = "missing"],
          [Plain EXCEPT !.arch = <<"vax">>], [Plain EXCEPT !.multilib = "lib128"],
          [Plain EXCEPT !.target = <<"x86_64", "-", "linux">>]}

netbsd == <<"x86_64", "unknown", "netbsd">>
Builds == {Plain, [Plain EXCEPT !.install = TRUE], [Plain EXCEPT !.stage = "sub"],
           [Plain EXCEPT !.stage = "source"], [Plain EXCEPT !.multilib = "lib32"],
           [Plain EXCEPT !.arch = <<"x86_64">>], [Plain EXCEPT !.arch = <<"riscv64">>],
           [Plain EXCEPT !.target = <<"*", "-", "*", "-", "netbsd", "*">>],
           [Plain EXCEPT !.host = netbsd, !.build = netbsd]}

BuildHosts == {Home, [Home EXCEPT !.root = TRUE],
               [Home EXCEPT !.machine = "armv7l", !.carch = <<"armv7l">>]}

Words == {"x86_64", "*", "-", "linux", "netbsd"}
Patterns == UNION {[1..n -> Words] : n \in 1..4}
            \cup {<<"*", "-", "*", "-", os, "*">> : os \in {"freebsd", "elf", "linux"}}

Chars == {"a", "v", "1", "-", "_", ".", " "}
Bases == UNION {[1..n -> Chars] : n \in 0..4}
         \cup {<<"1", "2", "-", "a", "-", "1">>, <<"expect", "1", ".", "2">>, <<"tcl", "a">>,
               <<"unzip", "6", "0">>, <<"unzip", "6">>, <<"docbook-xml">>}

Short == {<<>>, <<".">>, <<"a", "-", "1">>}
Gits == {[work |-> w, root |-> r, remote |-> o, describe |-> d, count |-> c, commit |-> m] :
            w \in BOOLEAN, r \in Short, o \in Short, d \in Short, c \in {<<>>, <<"2">>},
            m \in {<<>>, <<"b">>}}

Machines == {architectures[i].uname : i \in DOMAIN architectures}

Building == {Session(i, h, Foo) : i \in Builds, h \in BuildHosts}
            \cup {Session(Plain, Home, [Foo EXCEPT !.base = <<"-", "a">>])}

LookingUp ==
    {Session(Lookup, [Home EXCEPT !.machine = m], Foo) : m \in Machines}
    \cup {Session([Lookup EXCEPT !.arch = architectures[k].name], Home, Foo) :
            k \in DOMAIN architectures}
    \cup {Session([Lookup EXCEPT !.arch = architectures[k].triplet], Home, Foo) :
            k \in DOMAIN architectures}
    \cup {Session([Lookup EXCEPT !.target = p], Home, Foo) : p \in Patterns}
    \cup {Session(Lookup, Home, [base |-> b, git |-> NoGit]) : b \in Bases}
    \cup {Session(Lookup, Home, [base |-> b, git |-> g]) : b \in Short, g \in Gits}

MCSessions == <<Building \cup LookingUp \cup {Session(i, Home, Foo) : i \in Stops}, Building>>

MCTrees == {{}, {"configure"}, {"configure", "Makefile"}, {"meson.build", "CMakeLists.txt"},
            {"gemspec", "Gemfile"}, {"Makefile.PL", "python"}, {"Cargo.toml", "go.mod"},
            {"build.ninja", "Rakefile", "Build.PL"}}

\* Sessions that only look up are looked at on one tree, and end there.
MCNext ==
    /\ PkNext
    /\ (runs = 0 /\ inv'.stage = "/") => (files = {} /\ gems = {})
    /\ (step = "idle" /\ runs > 0) => inv.stage # "/"
MCSpec == PkInit /\ [][MCNext]_vars
=============================================================================
