------------------------------- MODULE MCHooks -------------------------------
(***************************************************************************)
(* Worlds for Hooks: transactions with hooks of every kind in two          *)
(* directories, and commands that read, write and close in every order.    *)
(***************************************************************************)
EXTENDS Hooks

F == <<"f">>
G == <<"g", "o">>
A == <<"a">>
B == <<"b">>

Pkg(n, files, isold, oldfiles) == [name |-> n, files |-> files, isold |-> isold, oldfiles |-> oldfiles]
NoCmd == [ok |-> FALSE, prog |-> <<>>, status |-> 0]
Word(key, word) == [key |-> key, word |-> word, names |-> {}, cmd |-> NoCmd]
Naming(key, names) == [Word(key, "") EXCEPT !.names = names]
Exec(prog, status) == [Word("Exec", "") EXCEPT !.cmd = [ok |-> TRUE, prog |-> prog, status |-> status]]
Section(name, ls) == <<[name |-> name, lines |-> ls]>>
Trigger(type, ops, targets) ==
  Section("Trigger", [k \in DOMAIN ops |-> Word("Operation", ops[k])] \o <<Word("Type", type), Naming("Target", targets)>>)
If(c, l) == IF c THEN <<l>> ELSE <<>>
Text(triggers, ph, abort, needs, depends, exec) ==
  triggers \o Section("Action", <<Word("When", ph), exec>> \o If(abort, Word("AbortOnFail", ""))
                \o If(needs, Word("NeedsTargets", "")) \o If(depends # {}, Naming("Depends", depends)))
Hook(text) == [stat |-> "file", text |-> text]

OnPkg == Trigger("Package", <<"Install", "Upgrade">>, {A, B})
OnFile == Trigger("Path", <<"Install", "Upgrade", "Remove">>, {F, G})
Some(ph, abort, status) == Hook(Text(OnPkg, ph, abort, FALSE, {}, Exec(<<>>, status)))

NoScript == [exists |-> FALSE, archive |-> FALSE, function |-> FALSE, copy |-> "ok", prog |-> <<>>, status |-> 0]
Dir(files) == [open |-> "ok", files |-> files]
Transaction == [add |-> <<Pkg(A, {F, G}, TRUE, {F})>>, remove |-> {Pkg(B, {G}, FALSE, {})}, noextract |-> {}, local |-> {A, B}]
Root == [dir |-> <<"/">>, bsize |-> 2, blocks |-> 40, avail |-> 9, ro |-> FALSE, loads |-> TRUE]
Spacious(dirs, t, root, forks, script, mounts, where, size, stat, cache, fetch, check) ==
  [dirs |-> dirs, root |-> root, forks |-> forks, script |-> script, add |-> t.add, remove |-> t.remove,
   noextract |-> t.noextract, local |-> t.local, mounts |-> mounts, where |-> where, size |-> size, stat |-> stat,
   dbpath |-> <<"/", "d", "/">>, cache |-> cache, wherecache |-> <<"/">>, fetch |-> fetch, checkspace |-> check]
World(dirs, t, root, forks, script) ==
  Spacious(dirs, t, root, forks, script, {Root}, <<>>, <<>>, <<>>, <<"c">>, <<>>, FALSE)

\* Files that may stand for a hook: a hook, a link to /dev/null, a dangling link, a directory,
\* a file that is refused, one without a command, one with a trigger without a type, one with
\* a dependency.
Files ==
  {Some("PRE", TRUE, 0), Some("PRE", TRUE, 1), Some("PRE", FALSE, 1), Some("POST", TRUE, 1),
   Hook(<<>>), [Hook(<<>>) EXCEPT !.stat = "fail"], [Hook(<<>>) EXCEPT !.stat = "dir"],
   Hook(Text(OnPkg, "POST", FALSE, FALSE, {}, Word("Command", ""))),
   Hook(Text(OnPkg, "PRE", FALSE, FALSE, {}, Word("Description", ""))),
   Hook(Text(Section("Trigger", <<Word("Operation", "Install")>>), "PRE", FALSE, FALSE, {}, Exec(<<>>, 0))),
   Hook(Text(OnPkg, "PRE", TRUE, FALSE, {<<"x">>}, Exec(<<>>, 0))),
   Hook(Text(OnPkg, "POST", FALSE, FALSE, {B}, Exec(<<>>, 0)))}

\* "1.hook" comes before "1-a.hook" though "-" comes before ".".
One == <<"1">>
Two == <<"1", "-", "a">>

\* Two names, one of them in two directories.
Overrides == {World(<<Dir(One :> f @@ Two :> h), Dir(One :> g)>>, Transaction, TRUE, TRUE, NoScript) :
                f \in Files, g \in Files, h \in Files}
Unreadable == {World(<<Dir(One :> Some("PRE", FALSE, 0)), [open |-> o, files |-> <<>>]>>, Transaction, TRUE, TRUE, NoScript) :
                 o \in {"missing", "error"}}
Unstarted == {World(<<Dir(One :> Some(ph, a, 0))>>, Transaction, root, ~root, NoScript) :
                ph \in {"PRE", "POST"}, a \in BOOLEAN, root \in BOOLEAN}

\* What triggers match, with what a command reads of it.
Transactions ==
  {[add |-> <<Pkg(A, fs, old, IF old THEN os ELSE {})>>, remove |-> IF rm THEN {Pkg(B, {G}, FALSE, {})} ELSE {},
    noextract |-> nx, local |-> {A, B}] :
     fs \in {{F}, {F, G}}, os \in {{F}, {G}}, old \in BOOLEAN, rm \in BOOLEAN, nx \in {{}, {F}}}
Ops == {<<"Install">>, <<"Upgrade">>, <<"Remove">>, <<"Install", "Remove">>}
TriggerSets == {Trigger("Path", o, {F, G}) \o Trigger("Package", p, {A, B}) : o \in Ops, p \in Ops}
Matching == {World(<<Dir(One :> Hook(Text(ts, "PRE", TRUE, TRUE, {}, Exec(<<"all">>, 0))))>>, t, TRUE, TRUE, NoScript) :
               ts \in TriggerSets, t \in Transactions}

\* Commands of many habits, as a hook with targets and as a scriptlet.
Programs ==
  {<<"all", "x", "nl">>, <<"x", "read", "nl", "read", "x", "closein", "x", "x", "x", "nl">>, <<"x", "x", "x", "x", "x", "nl", "all">>, <<"read", "x", "nl", "x", "closein">>,
   <<"closein", "x", "read", "x", "nl", "x", "x">>, <<"closeout", "x", "all">>, <<"x", "closeout", "read">>,
   <<"nl", "nl", "x", "nl", "x">>, <<"read", "x", "read", "x", "x", "nl", "read", "x">>, <<"x", "x", "x", "nl", "x", "x", "x">>}
Talking == {World(<<Dir(One :> Hook(Text(OnFile \o OnPkg, "PRE", TRUE, TRUE, {}, Exec(p, c))))>>, Transaction, TRUE, TRUE, NoScript) :
              p \in Programs, c \in {0, 1}}
Scripts ==
  {World(<<>>, Transaction, TRUE, k, [exists |-> e, archive |-> a, function |-> f, copy |-> c, prog |-> <<"x">>, status |-> 1]) :
     e \in BOOLEAN, a \in BOOLEAN, f \in BOOLEAN, c \in {"ok", "partly", "none", "nodir"}, k \in BOOLEAN}

\* Disks: a mount point "/g" that is not where "/go" is, one for "/d" with the database, sizes
\* about those of blocks, two packages of which the second shrinks.
D == <<"d", "/", "x">>
M == <<".", "m">>
H == <<"g", "/", "h">>
Mounts == {{[Root EXCEPT !.avail = a], [Root EXCEPT !.dir = <<"/", "g">>, !.bsize = 3, !.avail = b, !.ro = ro]}
             \cup (IF d THEN {[Root EXCEPT !.dir = <<"/", "d">>, !.avail = 4]} ELSE {}) :
               a \in 4..8, b \in {1, 4}, ro \in BOOLEAN, d \in BOOLEAN}
Big == [add |-> <<Pkg(A, {F, G, M}, TRUE, {F, H}), Pkg(B, {D}, TRUE, {D})>>, remove |-> {}, noextract |-> {}, local |-> {A, B}]
Swap == [add |-> <<Pkg(A, {F, H}, FALSE, {})>>, remove |-> {Pkg(B, {G, D}, FALSE, {})}, noextract |-> {F}, local |-> {B}]
WhereIs(ms) == LET db == IF \E n \in ms : n.dir = <<"/", "d">> THEN <<"/", "d">> ELSE <<"/">>
               IN  F :> <<"/">> @@ G :> <<"/">> @@ H :> <<"/", "g">> @@ D :> db @@ M :> db
Disks == {Spacious(<<>>, t, TRUE, TRUE, NoScript, ms, WhereIs(ms), F :> s @@ G :> 3 @@ H :> 4 @@ D :> 1 @@ M :> 1,
                   F :> 2 @@ H :> 3 @@ D :> 6 @@ (IF t = Swap THEN G :> 2 ELSE <<>>), <<"c">>, fetch, check) :
            t \in {Big, Swap}, ms \in Mounts, s \in {2, 3, 5}, fetch \in {<<>>, <<1, 3>>}, check \in BOOLEAN}

MCWorlds == Disks \cup Overrides \cup Unreadable \cup Unstarted \cup Matching \cup Talking \cup Scripts
=============================================================================
