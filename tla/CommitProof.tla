---------------------------- MODULE CommitProof -----------------------------
(***************************************************************************)
(* For all packages, files, transactions, faults, interrupts and crashes:  *)
(* what a commit leaves on disk.  The inductive invariant says where every *)
(* package of the transaction stands: waiting, worked on, or done.         *)
(***************************************************************************)
EXTENDS Commit, FiniteSetTheorems, TLAPS

-----------------------------------------------------------------------------
(* The inductive invariant.                                                *)

Removing == {"can_remove", "unlink", "db_remove", "rmdir"}
Adding   == {"mkdir", "open", "extract", "desc", "files", "cache"}
Working  == Removing \cup Adding
Before   == {"prepare", "check"}

AtWork(n)  == n = cur /\ pc \in Working
Waiting(n) == /\ n \notin targets.add \ add /\ n \notin targets.remove \ remove
              /\ ~AtWork(n)

\* The loops: removals first, each package once; how far the run has got.
Order ==
  /\ add \subseteq targets.add /\ remove \subseteq targets.remove
  /\ targets.add \cap targets.remove = {}
  /\ pc \in Working => cur \in add \cup remove
  /\ pc \in Adding => cur \in add
  /\ pc # "down" /\ remove # {} =>
       add = targets.add /\ (pc \in Working => cur \in remove)
  /\ pc \in Before => add = targets.add /\ remove = targets.remove /\ skip_remove = {}
  /\ pc # "down" => ended = "no" /\ \A n \in remove : pkgcache[n] # Nothing
  /\ pc = "rmdir" => cur \in hurt
  /\ pc \notin {"unlink", "extract"} => todo = {}
  /\ pc = "unlink" => todo \subseteq listed[cur] \ skip_remove
  /\ pc = "extract" => todo \subseteq Files[cur]["new"]

\* The database entries: a cached package has one, the entry that is written is as
\* far as the step, and those already written are whole.
Entries ==
  /\ \A n \in Names : pkgcache[n] # Nothing => entry[n][pkgcache[n]] # Nothing
  /\ pc \in {"open", "extract"} => entry[cur]["new"] = Empty
  /\ pc = "desc" => entry[cur]["new"] \in
       {Empty, [desc |-> "partial", files |-> "absent"]}
  /\ pc = "files" => entry[cur]["new"] \in
       {[desc |-> "complete", files |-> "absent"],
        [desc |-> "complete", files |-> "partial"]}
  /\ pc = "cache" => entry[cur]["new"] = Whole
  /\ pc # "down" /\ ret = 0 =>
       \A n \in targets.add \ (add \cup hurt) : entry[n]["new"] = Whole

\* A file on disk belongs to the package it came with.
Owners == \A f \in Paths, n \in Names, v \in Versions :
            fs[f] = <<n, v>> => f \in Files[n][v]

\* No file is in two lists, and what _klpm_db_find_fileconflicts has let pass.
Lists == \A n, m \in Names : n # m => listed[n] \cap listed[m] = {}

Checked ==
  /\ \A n, m \in targets.add : n # m => Files[n]["new"] \cap Files[m]["new"] = {}
  /\ \A n \in targets.add : \A m \in Names \ {n} : \A f \in Files[n]["new"] \cap listed[m] :
       m \in targets.remove \/ (m \in targets.add /\ f \in skip_remove)
  /\ \A f \in skip_remove :
       /\ \E n \in targets.add : f \in Files[n]["new"]
       /\ \A m \in targets.remove : f \notin listed[m]

\* Only version v of n is recorded (none, when v is Nothing).
Only(n, v) == \A w \in Versions : w # v => entry[n][w] = Nothing

\* A package whose turn has not come is as the cache has it; of its files, another
\* package of the transaction may have installed some already.
Untouched(n) ==
  /\ Only(n, pkgcache[n])
  /\ pkgcache[n] = Nothing => listed[n] = {}
  /\ pkgcache[n] # Nothing =>
       /\ entry[n][pkgcache[n]] = Whole
       /\ listed[n] = Files[n][pkgcache[n]]
       /\ \A f \in listed[n] :
            \/ fs[f] = <<n, pkgcache[n]>>
            \/ /\ n \in targets.add \cup targets.remove
               /\ \E m \in targets.add \ {n} : fs[f] = <<m, "new">>

\* A package that was installed is complete, one that was removed has gone.
Added(n)   == /\ Only(n, "new") /\ entry[n]["new"] = Whole
              /\ \A f \in Files[n]["new"] : fs[f] = <<n, "new">>
Removed(n) == Only(n, Nothing)

\* The package worked on, while none of its system calls has failed.
Current ==
  /\ pc \in Removing => Only(cur, pkgcache[cur]) /\ listed[cur] = Files[cur][pkgcache[cur]]
  /\ pc \in {"unlink", "db_remove", "rmdir"} =>
       \A f \in listed[cur] \ (skip_remove \cup todo) : fs[f] = Nothing
  /\ pc = "mkdir" => Only(cur, Nothing)
  /\ pc \in Adding \ {"mkdir"} => Only(cur, "new")
  /\ pc \in Adding \ {"mkdir", "open"} =>
       \A f \in Files[cur]["new"] \ todo : fs[f] = <<cur, "new">>

\* A file that an upgraded package has left to the package that will install it.
Promised(f) ==
  /\ f \in skip_remove
  /\ \E n \in add : /\ f \in Files[n]["new"]
                    /\ n = cur => /\ pc \notin {"desc", "files", "cache"}
                                  /\ pc = "extract" => f \in todo

NoOrphan == \A f \in Paths : fs[f] = Nothing \/ fs[f][2] \in Recorded(fs[f][1])
                               \/ Promised(f)

Story ==
  /\ Lists
  /\ pc \notin Before => Checked
  /\ \A n \in Names : Waiting(n) => Untouched(n)
  /\ \A n \in targets.add \ (add \cup hurt) : Added(n)
  /\ \A n \in targets.remove \ (remove \cup hurt) : Removed(n)
  /\ cur \notin hurt => Current
  /\ hurt = {} => NoOrphan

\* What stays true of the disk when the process has ended.
Outcome == pc = "down" => DamageIsLocal /\ SuccessMeansSound /\ SuccessMeansRecorded

IInv ==
  /\ TypeOK /\ Order /\ Entries /\ Owners /\ Outcome
  /\ soundstart /\ pc # "down" => Story

-----------------------------------------------------------------------------
(* Facts about the constants and the state.                                *)

\* A set of versions has at most one element when all its elements are equal.
LEMMA AtMostOne ==
  ASSUME NEW S \in SUBSET Versions
  PROVE  Cardinality(S) <= 1 <=> \A v, w \in S : v = w
<1>1. IsFiniteSet({"old", "new"}) /\ Cardinality({"old", "new"}) = 2
  <2>1. IsFiniteSet({"old"}) /\ Cardinality({"old"}) = 1  BY FS_Singleton, Zenon
  <2>2. {"old"} \cup {"new"} = {"old", "new"} /\ "new" \notin {"old"}  BY Zenon
  <2> QED  BY <2>1, <2>2, FS_AddElement
<1>2. CASE S = {}  BY <1>2, FS_EmptySet
<1>3. CASE S = {"old"} \/ S = {"new"}
  <2>1. Cardinality(S) = 1  BY <1>3, FS_Singleton, Zenon
  <2> QED  BY <1>3, <2>1
<1>4. CASE S = {"old", "new"}  BY <1>1, <1>4
<1> QED  BY <1>2, <1>3, <1>4, Zenon DEF Versions

\* What Sound says, without counting.
LEMMA WholeButMeans ==
  ASSUME NEW n, NEW owners
  PROVE  WholeBut(n, owners) <=>
           \A v \in Recorded(n) :
             /\ Only(n, v) /\ entry[n][v] = Whole
             /\ \A f \in Files[n][v] :
                  fs[f] = <<n, v>> \/ \E m \in owners : fs[f] = <<m, "new">>
<1>1. Cardinality(Recorded(n)) <= 1 <=> \A v, w \in Recorded(n) : v = w
  <2>1. Recorded(n) \in SUBSET Versions  BY Zenon DEF Recorded
  <2> QED  BY <2>1, AtMostOne, Zenon
<1>2. (\A v, w \in Recorded(n) : v = w) <=> \A v \in Recorded(n) : Only(n, v)
  BY Zenon DEF Recorded, Only
<1> QED  BY <1>1, <1>2, Zenon DEF WholeBut

-----------------------------------------------------------------------------
(* The invariant holds at first.                                           *)

\* A fresh system satisfies the invariant.
LEMMA InitIInv == Init => IInv
<1> SUFFICES ASSUME Init PROVE IInv  BY Zenon
<1>0. /\ pc = "down" /\ soundstart = TRUE /\ hurt = {} /\ ended = "no" /\ targets.add = {}
      /\ targets.remove = {} /\ add = {} /\ remove = {} /\ todo = {} /\ cur = Nothing
  BY Zenon DEF Init
<1>1. ASSUME NEW f \in Paths
      PROVE  \/ fs[f] = Nothing
             \/ \E n \in Installed : fs[f] = <<n, "old">> /\ f \in Files[n]["old"]
  <2>1. CASE \E n \in Installed : f \in Files[n]["old"]
    <3>1. PICK n \in Installed : f \in Files[n]["old"]  BY <2>1, Zenon
    <3>2. <<n, "old">> \in Installed \X {"old"} /\ f \in Files[<<n, "old">>[1]]["old"]
      BY <3>1, Zenon
    <3> DEFINE y == CHOOSE x \in Installed \X {"old"} : f \in Files[x[1]]["old"]
    <3>3. y \in Installed \X {"old"} /\ f \in Files[y[1]]["old"]
      BY <3>2, Zenon
    <3>4. fs[f] = y  BY <2>1, Zenon DEF Init
    <3> HIDE DEF y
    <3> QED  BY <3>3, <3>4
  <2>2. CASE ~ \E n \in Installed : f \in Files[n]["old"]  BY <2>2, Zenon DEF Init
  <2> QED  BY <2>1, <2>2, Zenon
<1>2. ASSUME NEW n \in Installed, NEW f \in Files[n]["old"] PROVE fs[f] = <<n, "old">>
  <2>1. f \in Paths  BY ConstAssumption DEF Versions
  <2>2. fs[f] # Nothing
    <3>1. fs[f] = CHOOSE x \in Installed \X {"old"} : f \in Files[x[1]]["old"]
      BY <2>1, Zenon DEF Init
    <3>2. <<n, "old">> \in Installed \X {"old"} /\ f \in Files[<<n, "old">>[1]]["old"]
      BY Zenon
    <3>3. fs[f] \in Installed \X {"old"}  BY <3>1, <3>2, Zenon
    <3> QED  BY <3>3, ConstAssumption, Zenon DEF Versions
  <2> QED  BY <1>1, <2>1, <2>2, ConstAssumption, Zenon
<1>3. TypeOK
  <2>1. fs \in [Paths -> (Names \X Versions) \cup {Nothing}]
    <3>1. fs = [f \in Paths |-> fs[f]]  BY DEF Init
    <3>2. ASSUME NEW f \in Paths PROVE fs[f] \in (Names \X Versions) \cup {Nothing}
      <4>1. "old" \in Versions /\ Installed \subseteq Names
        BY ConstAssumption, Zenon DEF Versions
      <4>2. \A n \in Installed : <<n, "old">> \in Names \X Versions  BY <4>1, Zenon
      <4> QED  BY <1>1, <4>2, Zenon
    <3> QED  BY <3>1, <3>2, Zenon
  <2>2. entry \in [Names -> [Versions -> EntryRec \cup {Nothing}]]
    BY Zenon DEF Init, EntryRec, Progress, Whole
  <2>3. runs \in 0..MaxRuns /\ faults \in 0..MaxFaults /\ interrupts \in 0..MaxInterrupts
        /\ crashes \in 0..MaxCrashes
    BY ConstAssumption DEF Init
  <2>4. /\ pkgcache \in [Names -> Versions \cup {Nothing}] /\ listed \in [Names -> SUBSET Paths]
        /\ targets \in [add : SUBSET Names, remove : SUBSET Names]
    BY Zenon DEF Init
  <2> QED  BY <2>1, <2>2, <2>3, <2>4, <1>0, Zenon DEF Init, TypeOK, Labels
<1>4. Order  BY <1>0, Zenon DEF Order, Working, Removing, Adding, Before
<1>5. Entries  BY Zenon DEF Init, Entries
<1>6. Owners
  <2> SUFFICES ASSUME NEW f \in Paths, NEW n \in Names, NEW v \in Versions, fs[f] = <<n, v>>
               PROVE  f \in Files[n][v]
    BY Zenon DEF Owners
  <2>1. fs[f] # Nothing  BY ConstAssumption
  <2>2. PICK m \in Installed : fs[f] = <<m, "old">> /\ f \in Files[m]["old"]
    BY <1>1, <2>1, Zenon
  <2>3. n = m /\ v = "old"  BY <2>2
  <2> QED  BY <2>2, <2>3, Zenon
<1>7. DamageIsLocal
  <2> SUFFICES ASSUME NEW n \in Names PROVE WholeBut(n, {})  BY <1>0, Zenon DEF DamageIsLocal
  <2>1. ASSUME NEW v \in Recorded(n) PROVE n \in Installed /\ v = "old"
    BY <2>1, Zenon DEF Recorded, Init, Versions
  <2>2. ASSUME n \in Installed PROVE entry[n]["old"] = Whole /\ Only(n, "old")
    BY <2>2, Zenon DEF Init, Only, Versions
  <2> QED  BY <1>2, <2>1, <2>2, WholeButMeans, Zenon
<1>8. Outcome  BY <1>0, <1>7, Zenon DEF Outcome, SuccessMeansSound, SuccessMeansRecorded
<1> QED  BY <1>0, <1>3, <1>4, <1>5, <1>6, <1>8, Zenon DEF IInv

-----------------------------------------------------------------------------
(* The end of a process, and what the invariant says of the disk then.     *)

\* While the process runs, only the package worked on and those with a failed call
\* may be damaged.
LEMMA StoryMeansLocal ==
  ASSUME TypeOK, Order, Story
  PROVE  DamageIsLocal
<1> SUFFICES ASSUME NEW n \in Names, n \notin hurt, n # cur PROVE WholeBut(n, targets.add)
  BY Zenon DEF DamageIsLocal
<1>1. CASE Waiting(n)
  <2>1. Untouched(n)  BY <1>1, Zenon DEF Story
  <2>2. \A v \in Recorded(n) : v = pkgcache[n] /\ v # Nothing
    BY <2>1, ConstAssumption, Zenon DEF Untouched, Only, Recorded, Versions
  <2> QED  BY <2>1, <2>2, WholeButMeans, Zenon DEF Untouched
<1>2. CASE n \in targets.add \ add
  <2>1. Added(n)  BY <1>2, Zenon DEF Story
  <2>2. \A v \in Recorded(n) : v = "new"  BY <2>1, Zenon DEF Added, Only, Recorded
  <2> QED  BY <2>1, <2>2, WholeButMeans, Zenon DEF Added
<1>3. CASE n \in targets.remove \ remove
  <2>1. Removed(n)  BY <1>3, Zenon DEF Story
  <2>2. Recorded(n) = {}
    BY <2>1, ConstAssumption, Zenon DEF Removed, Only, Recorded
  <2> QED  BY <2>2, WholeButMeans, Zenon
<1> QED  BY <1>1, <1>2, <1>3, Zenon DEF Waiting, AtWork

\* When both loops have run to their end and no call failed, the state is sound.
LEMMA StoryMeansSound ==
  ASSUME TypeOK, Order, Story, pc = "loop", add = {}, remove = {}, hurt = {}
  PROVE  Sound
<1>1. ASSUME NEW n \in Names PROVE WholeBut(n, {})
  <2>1. CASE n \notin targets.add \cup targets.remove
    <3>1. Waiting(n)  BY <2>1, Zenon DEF Waiting, AtWork, Working, Removing, Adding
    <3>2. Untouched(n)  BY <3>1, Zenon DEF Story
    <3>3. \A v \in Recorded(n) : v = pkgcache[n] /\ v # Nothing
      BY <3>2, ConstAssumption, Zenon DEF Untouched, Only, Recorded, Versions
    <3> QED  BY <2>1, <3>2, <3>3, WholeButMeans, Zenon DEF Untouched
  <2>2. CASE n \in targets.add
    <3>1. Added(n)  BY <2>2, Zenon DEF Story
    <3>2. \A v \in Recorded(n) : v = "new"  BY <3>1, Zenon DEF Added, Only, Recorded
    <3> QED  BY <3>1, <3>2, WholeButMeans, Zenon DEF Added
  <2>3. CASE n \in targets.remove
    <3>1. Removed(n)  BY <2>3, Zenon DEF Story
    <3>2. Recorded(n) = {}  BY <3>1, ConstAssumption, Zenon DEF Removed, Only, Recorded
    <3> QED  BY <3>2, WholeButMeans, Zenon
  <2> QED  BY <2>1, <2>2, <2>3, Zenon
<1>2. NoOrphan  BY Zenon DEF Story
<1>3. \A f \in Paths : ~Promised(f)  BY Zenon DEF Promised
<1> QED  BY <1>1, <1>2, <1>3, Zenon DEF Sound, NoOrphan

\* A process that ends leaves the disk as it is.
LEMMA EndStep ==
  ASSUME IInv, pc # "down", NEW how, End(how), Works,
         how \in {"refused", "ok", "interrupted", "error", "crash"},
         how = "ok" => pc = "loop" /\ ret = 0 /\ add = {} /\ remove = {},
         interrupts' \in 0..MaxInterrupts, crashes' \in 0..MaxCrashes
  PROVE  IInv'
<1>1. /\ UNCHANGED <<fs, entry, cur, targets, soundstart, runs, hurt, faults>>
      /\ pc' = "down" /\ ended' = how /\ add' = {} /\ remove' = {} /\ todo' = {}
      /\ pkgcache' = [n \in Names |-> Nothing] /\ listed' = [n \in Names |-> {}]
      /\ skip_remove' = {} /\ errors' = FALSE /\ state' = "PREPARED" /\ ret' = 0
  BY Zenon DEF End, Works, disk
<1>2. TypeOK'  BY <1>1, Zenon DEF IInv, TypeOK, Labels
<1>3. Order'  BY <1>1, Zenon DEF IInv, Order, Working, Removing, Adding, Before
<1>4. Entries'  BY <1>1, Zenon DEF Entries
<1>5. Owners'  BY <1>1, Zenon DEF IInv, Owners
<1>6. DamageIsLocal'
  <2>1. CASE soundstart
    <3>1. DamageIsLocal  BY <2>1, StoryMeansLocal, Zenon DEF IInv
    <3> QED  BY <1>1, <3>1 DEF DamageIsLocal, WholeBut, Recorded
  <2>2. CASE ~soundstart  BY <1>1, <2>2, Zenon DEF DamageIsLocal
  <2> QED  BY <2>1, <2>2, Zenon
<1>7. SuccessMeansSound'
  <2> SUFFICES ASSUME soundstart, how = "ok", hurt = {} PROVE Sound'
    BY <1>1, Zenon DEF SuccessMeansSound
  <2>1. Sound  BY StoryMeansSound, Zenon DEF IInv
  <2> QED  BY <1>1, <2>1, Zenon DEF Sound, WholeBut, Recorded
<1>8. SuccessMeansRecorded'
  <2> SUFFICES ASSUME how = "ok", NEW n \in targets.add \ hurt PROVE entry[n]["new"] = Whole
    BY <1>1, Zenon DEF SuccessMeansRecorded
  <2> QED  BY Zenon DEF IInv, Entries
<1> QED  BY <1>1, <1>2, <1>3, <1>4, <1>5, <1>6, <1>7, <1>8, Zenon DEF IInv, Outcome

-----------------------------------------------------------------------------
(* The steps that change neither the disk nor the cache.                   *)

\* _klpm_sync_prepare keeps the invariant, whether it refuses or goes on.
LEMMA PrepareStep == ASSUME IInv, sync_prepare PROVE IInv'
<1>1. CASE End("refused")
  <2>1. interrupts' \in 0..MaxInterrupts /\ crashes' \in 0..MaxCrashes
    BY Zenon DEF IInv, TypeOK, sync_prepare
  <2> QED  BY <1>1, <2>1, EndStep, Zenon DEF sync_prepare
<1>2. CASE pc' = "check" /\ UNCHANGED <<disk, memory, state, ret, local, past>>
  <2>1. /\ UNCHANGED <<fs, entry, pkgcache, listed, add, remove, skip_remove, state, ret,
                       cur, todo, errors, targets, soundstart, ended, runs, faults, hurt,
                       interrupts, crashes>>
        /\ pc = "prepare" /\ pc' = "check"
    BY <1>2, Zenon DEF sync_prepare, Works, disk, memory, local, past
  <2>2. TypeOK'  BY <2>1 DEF IInv, TypeOK, Labels
  <2>3. Order'  BY <2>1, Zenon DEF IInv, Order, Working, Removing, Adding, Before
  <2>4. Entries'  BY <2>1, Zenon DEF IInv, Entries
  <2>5. Owners'  BY <2>1, Zenon DEF IInv, Owners
  <2>6. ASSUME soundstart PROVE Story'
    <3>1. Story  BY <2>1, <2>6, Zenon DEF IInv
    <3> QED
      BY <2>1, <3>1 DEF Story, Lists, Before, Waiting, AtWork, Working, Removing, Adding,
         Untouched, Added, Removed, Only, Current, NoOrphan, Promised, Recorded
  <2> QED  BY <2>1, <2>2, <2>3, <2>4, <2>5, <2>6, Zenon DEF IInv, Outcome
<1> QED  BY <1>1, <1>2, Zenon DEF sync_prepare

\* The end of the two loops keeps the invariant.
LEMMA LoopsDoneStep == ASSUME IInv, loops_done PROVE IInv'
<1> DEFINE how == IF ret # 0 THEN "error"
                  ELSE IF state = "INTERRUPTED" THEN "interrupted" ELSE "ok"
<1>1. /\ pc = "loop" /\ End(how) /\ Works /\ UNCHANGED <<interrupts, crashes>>
      /\ state # "INTERRUPTED" => add = {} /\ remove = {}
  BY Zenon DEF loops_done, TakesNext
<1>2. /\ how \in {"refused", "ok", "interrupted", "error", "crash"}
      /\ how = "ok" => ret = 0 /\ add = {} /\ remove = {}
  BY <1>1, Zenon
<1>3. interrupts' \in 0..MaxInterrupts /\ crashes' \in 0..MaxCrashes
  BY <1>1, Zenon DEF IInv, TypeOK
<1> HIDE DEF how
<1> QED  BY <1>1, <1>2, <1>3, EndStep, Zenon

\* A process that dies keeps it.
LEMMA CrashStep == ASSUME IInv, Crash PROVE IInv'
<1>1. interrupts' \in 0..MaxInterrupts /\ crashes' \in 0..MaxCrashes
  BY ConstAssumption DEF IInv, TypeOK, Crash
<1> QED  BY <1>1, EndStep, Zenon DEF Crash

\* The invariant, TypeOK apart, speaks of these variables only.
LEMMA Frame ==
  ASSUME IInv, TypeOK', ret' = ret,
         UNCHANGED <<fs, entry, pkgcache, listed, add, remove, skip_remove, pc, cur, todo>>,
         UNCHANGED <<targets, soundstart, ended, hurt>>
  PROVE  IInv'
<1>1. Order'  BY Zenon DEF IInv, Order
<1>2. Entries'  BY Zenon DEF IInv, Entries
<1>3. Owners'  BY Zenon DEF IInv, Owners
<1>4. \A n \in Names : Recorded(n)' = Recorded(n)  BY Zenon DEF Recorded
<1>5. Outcome'
  <2>1. \A n \in Names : WholeBut(n, targets.add) = WholeBut(n, targets.add)'
    BY <1>4, Zenon DEF WholeBut
  <2>2. \A n \in Names : WholeBut(n, {}) = WholeBut(n, {})'
    BY <1>4, Zenon DEF WholeBut
  <2>3. Sound = Sound'
    BY <2>2, Zenon DEF Sound, Recorded
  <2>4. DamageIsLocal = DamageIsLocal'  BY <2>1, Zenon DEF DamageIsLocal
  <2> QED  BY <2>3, <2>4, Zenon DEF IInv, Outcome, SuccessMeansSound, SuccessMeansRecorded
<1>6. ASSUME soundstart, pc # "down" PROVE Story'
  <2>1. Story  BY <1>6, Zenon DEF IInv
  <2>2. Lists' /\ (pc' \notin Before => Checked')  BY <2>1, Zenon DEF Story, Lists, Checked
  <2>3. \A n \in Names : Waiting(n)' => Untouched(n)'
    BY <2>1 DEF Story, Waiting, AtWork, Untouched, Only
  <2>4. \A n \in (targets.add \ (add \cup hurt))' : Added(n)'
    BY <2>1, Zenon DEF Story, Added, Only
  <2>5. \A n \in (targets.remove \ (remove \cup hurt))' : Removed(n)'
    BY <2>1, Zenon DEF Story, Removed, Only
  <2>6. cur' \notin hurt' => Current'  BY <2>1, Zenon DEF Story, Current, Only
  <2>7. hurt' = {} => NoOrphan'  BY <2>1, Zenon DEF Story, NoOrphan, Promised, Recorded
  <2> QED  BY <2>2, <2>3, <2>4, <2>5, <2>6, <2>7, Zenon DEF Story
<1> QED  BY <1>1, <1>2, <1>3, <1>5, <1>6, Zenon DEF IInv

\* klpm_trans_interrupt keeps it.
LEMMA InterruptStep == ASSUME IInv, trans_interrupt PROVE IInv'
<1>1. /\ UNCHANGED <<fs, entry, pkgcache, listed, add, remove, skip_remove, ret, pc,
                     cur, todo, errors, targets, soundstart, ended, runs, faults, hurt, crashes>>
      /\ state' = "INTERRUPTED"
  BY Zenon DEF trans_interrupt, Works, disk, memory, local, past
<1>2. interrupts' \in 0..MaxInterrupts
  BY ConstAssumption DEF IInv, TypeOK, trans_interrupt
<1>3. TypeOK'  BY <1>1, <1>2, Zenon DEF IInv, TypeOK
<1> QED  BY <1>1, <1>3, Frame, Zenon

\* A step that changes nothing keeps it.
LEMMA StutterStep == ASSUME IInv, UNCHANGED vars PROVE IInv'
<1>1. TypeOK'  BY DEF IInv, TypeOK, vars, disk, memory, local, past
<1> QED  BY <1>1, Frame, Zenon DEF vars, disk, memory, local, past

-----------------------------------------------------------------------------
(* A process starts, checks for file conflicts, and takes up packages.     *)

\* A new process reads back what the database says, and nothing else.
LEMMA BeginStep == ASSUME IInv, Begin PROVE IInv'
<1>1. /\ UNCHANGED <<fs, entry, faults, interrupts, crashes>> /\ pc' = "prepare" /\ cur' = Nothing
      /\ todo' = {} /\ errors' = FALSE /\ skip_remove' = {} /\ state' = "PREPARED" /\ ret' = 0
      /\ hurt' = {} /\ ended' = "no" /\ targets' = [add |-> add', remove |-> remove']
      /\ add' \subseteq Names /\ remove' \subseteq Names \ add'
      /\ \A n \in remove' : pkgcache'[n] # Nothing
  BY Zenon DEF Begin, disk
<1>2. soundstart' = Sound /\ soundstart' \in BOOLEAN  BY Zenon DEF Begin, Sound
<1>3. /\ pkgcache' \in [Names -> Versions \cup {Nothing}]
      /\ \A n \in Names : IF Recorded(n) = {} THEN pkgcache'[n] = Nothing
                                              ELSE pkgcache'[n] \in Recorded(n)
  BY Zenon DEF Begin, Populated
<1>4. /\ listed' \in [Names -> SUBSET Paths]
      /\ \A n \in Names : listed'[n] \in Readable(n, pkgcache'[n])
  BY Zenon DEF Begin
<1>5. TypeOK'
  <2>1. runs' \in 0..MaxRuns  BY ConstAssumption DEF IInv, TypeOK, Begin
  <2> QED  BY <1>1, <1>2, <1>3, <1>4, <2>1, Zenon DEF IInv, TypeOK, Labels
<1>6. Order'  BY <1>1, Zenon DEF Order, Working, Removing, Adding, Before
<1>7. Entries'  BY <1>1, <1>3, Zenon DEF Entries, Recorded
<1>8. Owners'  BY <1>1, Zenon DEF IInv, Owners
<1>9. ASSUME Sound PROVE Story'
  <2>1. ASSUME NEW n \in Names, NEW v \in Recorded(n)
        PROVE  /\ v = pkgcache'[n] /\ Only(n, v) /\ entry[n][v] = Whole /\ listed'[n] = Files[n][v]
               /\ \A f \in Files[n][v] : fs[f] = <<n, v>>
    <3>1. Only(n, v) /\ entry[n][v] = Whole /\ \A f \in Files[n][v] : fs[f] = <<n, v>>
      BY <1>9, WholeButMeans, Zenon DEF Sound
    <3>2. v = pkgcache'[n] /\ v # Nothing
      BY <1>3, <3>1, ConstAssumption, Zenon DEF Recorded, Only
    <3>3. Readable(n, v) = {Files[n][v]}  BY <3>1, <3>2 DEF Readable, Whole
    <3> QED  BY <1>4, <3>1, <3>2, <3>3, Zenon
  <2>2. ASSUME NEW n \in Names, pkgcache'[n] = Nothing
        PROVE  Recorded(n) = {} /\ Only(n, Nothing) /\ listed'[n] = {}
    <3>1. Recorded(n) = {}  BY <1>3, <2>2, ConstAssumption, Zenon DEF Recorded
    <3>2. Only(n, Nothing)  BY <3>1, Zenon DEF Recorded, Only
    <3> QED  BY <1>4, <2>2, <3>1, <3>2, Zenon DEF Readable
  <2>3. \A n \in Names : pkgcache'[n] # Nothing => pkgcache'[n] \in Recorded(n)
    BY <1>3, Zenon
  <2>4. Lists'
    <3> SUFFICES ASSUME NEW n \in Names, NEW m \in Names, n # m,
                        NEW f \in listed'[n], f \in listed'[m]
                 PROVE  FALSE
      BY Zenon DEF Lists
    <3>1. pkgcache'[n] \in Recorded(n) /\ pkgcache'[m] \in Recorded(m)  BY <2>2, <2>3, Zenon
    <3>2. fs[f] = <<n, pkgcache'[n]>> /\ fs[f] = <<m, pkgcache'[m]>>  BY <2>1, <3>1
    <3> QED  BY <3>2
  <2>5. ASSUME NEW n \in Names PROVE Untouched(n)'
    <3>1. CASE pkgcache'[n] = Nothing  BY <1>1, <2>2, <3>1, Zenon DEF Untouched, Only
    <3>2. CASE pkgcache'[n] # Nothing
      <4>1. pkgcache'[n] \in Recorded(n)  BY <2>3, <3>2, Zenon
      <4>2. Only(n, pkgcache[n])'  BY <1>1, <2>1, <4>1 DEF Only
      <4> QED  BY <1>1, <2>1, <3>2, <4>1, <4>2 DEF Untouched
    <3> QED  BY <3>1, <3>2, Zenon
  <2>6. NoOrphan'  BY <1>1, <1>9, Zenon DEF Sound, NoOrphan, Recorded
  <2>7. cur' \notin hurt' => Current'
    BY <1>1, Zenon DEF Current, Removing, Adding
  <2> QED  BY <1>1, <2>4, <2>5, <2>6, <2>7, Zenon DEF Story, Before
<1>10. soundstart' => Story'  BY <1>2, <1>9, Zenon
<1> QED  BY <1>1, <1>5, <1>6, <1>7, <1>8, <1>10, Zenon DEF IInv, Outcome

\* The conflict check establishes what the later steps rely on.
LEMMA CheckStep == ASSUME IInv, sync_check PROVE IInv'
<1>1. CASE End("refused")
  <2>1. interrupts' \in 0..MaxInterrupts /\ crashes' \in 0..MaxCrashes
    BY Zenon DEF IInv, TypeOK, sync_check
  <2> QED  BY <1>1, <2>1, EndStep, Zenon DEF sync_check
<1>2. CASE ~(add # {} /\ (TargetConflicts \/ FileConflicts))
  <2>1. /\ UNCHANGED <<fs, entry, pkgcache, listed, add, remove, ret, cur, todo, errors,
                       targets, soundstart, ended, runs, faults, hurt, interrupts, crashes>>
        /\ pc = "check" /\ pc' = "loop" /\ state' = "COMMITTING" /\ skip_remove' = SkipRemove
    BY <1>2, Zenon DEF sync_check, Works, disk, local, past
  <2>2. add = targets.add /\ remove = targets.remove /\ add \subseteq Names
    BY <2>1, Zenon DEF IInv, TypeOK, Order, Before
  <2>3. TypeOK'
    <3>1. SkipRemove \subseteq Paths
      <4>1. \A n \in Names : Files[n]["new"] \subseteq Paths  BY ConstAssumption DEF Versions
      <4> QED  BY <2>2, <4>1, Zenon DEF SkipRemove, Found
    <3> QED  BY <2>1, <3>1, Zenon DEF IInv, TypeOK, Labels
  <2>4. Order'  BY <2>1, Zenon DEF IInv, Order, Working, Removing, Adding, Before
  <2>5. Entries'  BY <2>1, Zenon DEF IInv, Entries
  <2>6. Owners'  BY <2>1, Zenon DEF IInv, Owners
  <2>7. ASSUME soundstart PROVE Story'
    <3>1. Story  BY <2>1, <2>7, Zenon DEF IInv
    <3>2. ASSUME NEW n \in Names, NEW f \in listed[n] PROVE fs[f] # Nothing
      <4>1. Untouched(n)  BY <2>1, <2>2, <3>1, Zenon DEF Story, Waiting, AtWork, Working, Removing, Adding
      <4>2. pkgcache[n] # Nothing /\ pkgcache[n] \in Versions
        BY <4>1, Zenon DEF Untouched, IInv, TypeOK
      <4>3. \A m \in Names, v \in Versions : <<m, v>> # Nothing  BY ConstAssumption
      <4>4. "new" \in Versions /\ targets.add \subseteq Names  BY <2>2, Zenon DEF Versions
      <4> QED  BY <4>1, <4>2, <4>3, <4>4, Zenon DEF Untouched
    <3>3. \A n, m \in Names : n # m => listed[n] \cap listed[m] = {}  BY <3>1, Zenon DEF Story, Lists
    <3>4. \A n, m \in targets.add : n # m => Files[n]["new"] \cap Files[m]["new"] = {}
      BY <1>2, <2>2, Zenon DEF TargetConflicts
    <3>5. ASSUME NEW n \in targets.add, NEW m \in Names \ {n}, NEW f \in Files[n]["new"] \cap listed[m]
          PROVE  m \in targets.remove \/ (m \in targets.add /\ f \in SkipRemove)
      <4>1. f \in Found(n)  BY <2>2, <3>2, <3>3, Zenon DEF Found
      <4>2. CASE LeavesWith(f)  BY <2>2, <3>3, <4>2, Zenon DEF LeavesWith, IInv, TypeOK
      <4>3. CASE ChangesHands(n, f)
        <5>1. m \in add  BY <2>2, <3>3, <4>3, Zenon DEF ChangesHands
        <5>2. f \in SkipRemove  BY <2>2, <4>1, <4>3 DEF SkipRemove
        <5> QED  BY <2>2, <5>1, <5>2, Zenon
      <4> QED  BY <1>2, <2>2, <4>1, <4>2, <4>3, Zenon DEF FileConflicts
    <3>6. ASSUME NEW f \in SkipRemove
          PROVE  /\ \E n \in targets.add : f \in Files[n]["new"]
                 /\ \A m \in targets.remove : f \notin listed[m]
      BY <2>2, Zenon DEF SkipRemove, Found, ChangesHands, LeavesWith
    <3>7. Checked'  BY <2>1, <3>4, <3>5, <3>6, Zenon DEF Checked
    <3>8. \A n \in Names : Waiting(n)' => Untouched(n)'
      BY <2>1, <3>1 DEF Story, Waiting, AtWork, Working, Removing, Adding, Untouched, Only
    <3>9. \A n \in (targets.add \ (add \cup hurt))' : Added(n)'
      BY <2>1, <2>2, Zenon
    <3>10. \A n \in (targets.remove \ (remove \cup hurt))' : Removed(n)'
      BY <2>1, <2>2, Zenon
    <3>11. Current'  BY <2>1, Zenon DEF Current, Removing, Adding
    <3>12. hurt' = {} => NoOrphan'
      <4>1. \A f \in Paths : ~Promised(f)  BY <2>1, Zenon DEF IInv, Order, Before, Promised
      <4> QED  BY <2>1, <3>1, <4>1, Zenon DEF Story, NoOrphan, Recorded
    <3> QED  BY <2>1, <3>3, <3>7, <3>8, <3>9, <3>10, <3>11, <3>12, Zenon DEF Story, Lists
  <2> QED  BY <2>1, <2>3, <2>4, <2>5, <2>6, <2>7, Zenon DEF IInv, Outcome
<1> QED  BY <1>1, <1>2, Zenon DEF sync_check

\* Taking up a package that waited.
LEMMA TakeStep == ASSUME IInv, take_package PROVE IInv'
<1>1. PICK n \in IF remove # {} THEN remove ELSE add :
        cur' = n /\ pc' = IF HasOld(n) THEN "can_remove" ELSE "mkdir"
  BY Zenon DEF take_package
<1>2. /\ UNCHANGED <<fs, entry, pkgcache, listed, add, remove, skip_remove, state, ret, todo, errors,
                     targets, soundstart, ended, runs, faults, hurt, interrupts, crashes>>
      /\ pc = "loop" /\ pc' \in {"can_remove", "mkdir"} /\ todo = {}
  BY <1>1, Zenon DEF take_package, Works, disk, memory, past, IInv, Order
<1>3. n \in Names /\ n \in add \cup remove /\ (remove # {} => n \in remove)
  BY <1>1, Zenon DEF IInv, TypeOK
<1>4. pc' = "can_remove" => pkgcache[n] \in Versions
  BY <1>1, <1>3, Zenon DEF HasOld, IInv, TypeOK
<1>5. pc' = "mkdir" => pkgcache[n] = Nothing  BY <1>1, Zenon DEF HasOld
<1>6. TypeOK'  BY <1>1, <1>2, <1>3, <1>4 DEF IInv, TypeOK, Labels
<1>7. Order'
  <2>1. pc' = "mkdir" => n \in add
    <3>1. \A m \in remove : pkgcache[m] # Nothing  BY <1>2, Zenon DEF IInv, Order
    <3> QED  BY <1>3, <1>5, <3>1, Zenon
  <2> QED  BY <1>1, <1>2, <1>3, <2>1, Zenon DEF IInv, Order, Working, Removing, Adding, Before
<1>8. Entries'  BY <1>2, Zenon DEF IInv, Entries
<1>9. Owners'  BY <1>2, Zenon DEF IInv, Owners
<1>10. ASSUME soundstart PROVE Story'
  <2>1. Story /\ Checked  BY <1>2, <1>10, Zenon DEF IInv, Story, Before
  <2>2. Lists' /\ Checked'  BY <1>2, <2>1, Zenon DEF Story, Lists, Checked
  <2>3. \A m \in Names : Waiting(m)' => Untouched(m)'
    <3>1. \A m \in Names : Waiting(m)' => Waiting(m)
      BY <1>2, Zenon DEF Waiting, AtWork, Working, Removing, Adding
    <3>2. \A m \in Names : Untouched(m) => Untouched(m)'  BY <1>2, Zenon DEF Untouched, Only
    <3> QED  BY <2>1, <3>1, <3>2, Zenon DEF Story
  <2>4. \A m \in (targets.add \ (add \cup hurt))' : Added(m)'
    BY <1>2, <2>1, Zenon DEF Story, Added, Only
  <2>5. \A m \in (targets.remove \ (remove \cup hurt))' : Removed(m)'
    BY <1>2, <2>1, Zenon DEF Story, Removed, Only
  <2>6. Untouched(n)
    BY <1>2, <1>3, <2>1, Zenon DEF Story, Waiting, AtWork, Working, Removing, Adding, IInv, Order
  <2>7. Current'
    BY <1>1, <1>2, <1>4, <1>5, <2>6, ConstAssumption, Zenon DEF Current, Untouched, Only, Removing, Adding
  <2>8. hurt' = {} => NoOrphan'
    BY <1>1, <1>2, <2>1, Zenon DEF Story, NoOrphan, Promised, Recorded
  <2> QED  BY <2>2, <2>3, <2>4, <2>5, <2>7, <2>8, Zenon DEF Story
<1> QED  BY <1>2, <1>6, <1>7, <1>8, <1>9, <1>10, Zenon DEF IInv, Outcome

-----------------------------------------------------------------------------
(* The work on one package.                                                *)

FilesStep ==
  \/ fs' = fs
  \/ pc = "unlink" /\ \E f \in todo : fs' = [fs EXCEPT ![f] = Nothing]
  \/ pc = "extract" /\ \E f \in todo : fs' = [fs EXCEPT ![f] = <<cur, "new">>]

WorkStep ==
  /\ pc \in Working
  /\ UNCHANGED <<listed, skip_remove, cur, targets, soundstart, ended>>
  /\ hurt \subseteq hurt' /\ hurt' \subseteq hurt \cup {cur}
  /\ \A n \in Names \ {cur} : entry'[n] = entry[n] /\ pkgcache'[n] = pkgcache[n]
  /\ FilesStep
  /\ \/ pc' \in Working /\ UNCHANGED <<add, remove>>
     \/ pc' = "loop" /\ cur \in add /\ add' = add \ {cur} /\ remove' = remove
     \/ pc' = "loop" /\ cur \in remove /\ add' = add /\ remove' = remove \ {cur}

\* No step of the work on one package touches what another package needs: the
\* conflict check has seen to it.
LEMMA OthersKept ==
  ASSUME IInv, soundstart, WorkStep
  PROVE  /\ Lists' /\ Checked'
         /\ \A n \in Names \ {cur} :
              /\ Waiting(n)' => Untouched(n)'
              /\ n \in targets.add \ (add' \cup hurt') => Added(n)'
              /\ n \in targets.remove \ (remove' \cup hurt') => Removed(n)'
<1>1. Story /\ Lists /\ Checked
  BY Zenon DEF IInv, Story, WorkStep, Working, Removing, Adding, Before
<1>2. UNCHANGED <<listed, skip_remove, cur, targets>>  BY Zenon DEF WorkStep
<1>3. Lists' /\ Checked'  BY <1>1, <1>2, Zenon DEF Lists, Checked
<1>4. /\ targets.add \subseteq Names /\ targets.remove \subseteq Names /\ cur \in add \cup remove
      /\ add \subseteq targets.add /\ remove \subseteq targets.remove
      /\ targets.add \cap targets.remove = {} /\ cur \in Names
      /\ pc \in Working
      /\ pc = "extract" => cur \in targets.add
      /\ remove # {} => add = targets.add /\ cur \in remove
  BY Zenon DEF IInv, TypeOK, Order, WorkStep, Working, Removing, Adding
<1>5. fs \in [Paths -> (Names \X Versions) \cup {Nothing}] /\ todo \subseteq Paths
  BY Zenon DEF IInv, TypeOK
<1> SUFFICES ASSUME NEW n \in Names, n # cur
             PROVE  /\ Waiting(n)' => Untouched(n)'
                    /\ n \in targets.add \ (add' \cup hurt') => Added(n)'
                    /\ n \in targets.remove \ (remove' \cup hurt') => Removed(n)'
  BY <1>3, Zenon
<1>6. entry'[n] = entry[n] /\ pkgcache'[n] = pkgcache[n]  BY Zenon DEF WorkStep
<1>7. (n \in add' <=> n \in add) /\ (n \in remove' <=> n \in remove) /\ (n \notin hurt' => n \notin hurt)
  BY Zenon DEF WorkStep
<1>8. ASSUME Waiting(n)' PROVE Untouched(n)'
  <2>1. Untouched(n)
    BY <1>1, <1>2, <1>7, <1>8, Zenon DEF Story, Waiting, AtWork
  <2>2. ASSUME NEW f \in listed[n], pkgcache[n] # Nothing
        PROVE  \/ fs'[f] = fs[f]
               \/ /\ n \in targets.add \cup targets.remove
                  /\ \E m \in targets.add \ {n} : fs'[f] = <<m, "new">>
    <3>0. f \in Paths  BY Zenon DEF IInv, TypeOK
    <3>1. CASE fs' = fs  BY <3>1, Zenon
    <3>2. ASSUME pc = "unlink", NEW g \in todo, fs' = [fs EXCEPT ![g] = Nothing]
          PROVE  fs'[f] = fs[f]
      <4>1. g \in listed[cur]  BY <3>2, Zenon DEF IInv, Order
      <4>2. g # f  BY <1>1, <1>4, <4>1, Zenon DEF Lists
      <4> QED  BY <1>5, <3>0, <3>2, <4>2, Zenon
    <3>3. ASSUME pc = "extract", NEW g \in todo, fs' = [fs EXCEPT ![g] = <<cur, "new">>], g = f
          PROVE  /\ n \in targets.add \cup targets.remove
                 /\ \E m \in targets.add \ {n} : fs'[f] = <<m, "new">>
      <4>1. g \in Files[cur]["new"]  BY <3>3, Zenon DEF IInv, Order
      <4>2. n \in targets.add \cup targets.remove  BY <1>1, <1>4, <3>3, <4>1, Zenon DEF Checked
      <4>3. fs'[f] = <<cur, "new">>  BY <1>5, <3>0, <3>3, Zenon
      <4> QED  BY <1>4, <3>3, <4>2, <4>3, Zenon
    <3>4. ASSUME NEW g \in todo, fs' = [fs EXCEPT ![g] = <<cur, "new">>], g # f
          PROVE  fs'[f] = fs[f]
      BY <1>5, <3>0, <3>4, Zenon
    <3> QED  BY <3>1, <3>2, <3>3, <3>4, Zenon DEF WorkStep, FilesStep
  <2> QED  BY <1>2, <1>6, <2>1, <2>2, Zenon DEF Untouched, Only
<1>9. ASSUME n \in targets.add \ (add' \cup hurt') PROVE Added(n)'
  <2>1. Added(n) /\ n \notin add /\ remove = {}
    BY <1>1, <1>4, <1>7, <1>9, Zenon DEF Story
  <2>2. cur \in targets.add  BY <1>4, <2>1, Zenon
  <2>3. ASSUME NEW f \in Files[n]["new"] PROVE fs'[f] = fs[f]
    <3>0. f \in Paths  BY ConstAssumption DEF Versions
    <3>1. CASE fs' = fs  BY <3>1, Zenon
    <3>2. ASSUME pc = "unlink", NEW g \in todo, fs' = [fs EXCEPT ![g] = Nothing]
          PROVE  fs'[f] = fs[f]
      <4>1. g \in listed[cur] /\ g \notin skip_remove  BY <3>2, Zenon DEF IInv, Order
      <4>2. g # f  BY <1>1, <1>4, <1>9, <2>2, <4>1, Zenon DEF Checked
      <4> QED  BY <1>5, <3>0, <3>2, <4>2, Zenon
    <3>3. ASSUME pc = "extract", NEW g \in todo, fs' = [fs EXCEPT ![g] = <<cur, "new">>]
          PROVE  fs'[f] = fs[f]
      <4>1. g \in Files[cur]["new"]  BY <3>3, Zenon DEF IInv, Order
      <4>2. g # f  BY <1>1, <1>9, <2>2, <4>1, Zenon DEF Checked
      <4> QED  BY <1>5, <3>0, <3>3, <4>2, Zenon
    <3> QED  BY <3>1, <3>2, <3>3, Zenon DEF WorkStep, FilesStep
  <2> QED  BY <1>6, <2>1, <2>3, Zenon DEF Added, Only
<1>10. ASSUME n \in targets.remove \ (remove' \cup hurt') PROVE Removed(n)'
  <2>1. Removed(n)  BY <1>1, <1>7, <1>10, Zenon DEF Story
  <2> QED  BY <1>6, <2>1, Zenon DEF Removed, Only
<1> QED  BY <1>8, <1>9, <1>10, Zenon

\* What is left to show of a step: how it leaves the package worked on.
LEMMA StoryStep ==
  ASSUME IInv, soundstart, WorkStep,
         cur \notin hurt' => Current',
         cur \in add \ (add' \cup hurt') => Added(cur)',
         cur \in remove \ (remove' \cup hurt') => Removed(cur)',
         hurt' = {} => NoOrphan'
  PROVE  Story'
<1>1. /\ add \subseteq targets.add /\ remove \subseteq targets.remove
      /\ targets.add \cap targets.remove = {}
      /\ cur \in add \cup remove /\ UNCHANGED <<targets, cur>>
      /\ targets.add \subseteq Names /\ targets.remove \subseteq Names
  BY Zenon DEF IInv, TypeOK, Order, WorkStep
<1>2. ~Waiting(cur)'
  BY <1>1, Zenon DEF WorkStep, Waiting, AtWork
<1>3. \A n \in Names : Waiting(n)' => Untouched(n)'  BY <1>1, <1>2, OthersKept, Zenon
<1>4. ASSUME NEW n \in (targets.add \ (add \cup hurt))' PROVE Added(n)'
  <2>1. n = cur => cur \in add
    BY <1>1, <1>4, Zenon
  <2> QED  BY <1>1, <1>4, <2>1, OthersKept, Zenon
<1>5. ASSUME NEW n \in (targets.remove \ (remove \cup hurt))' PROVE Removed(n)'
  <2>1. n = cur => cur \in remove
    BY <1>1, <1>5, Zenon
  <2> QED  BY <1>1, <1>5, <2>1, OthersKept, Zenon
<1> QED  BY <1>1, <1>3, <1>4, <1>5, OthersKept, Zenon DEF Story

\* The bookkeeping of a step inside the work on a package.
LEMMA FaultOrNot ==
  ASSUME IInv, cur \in Names, Works \/ \E c \in Faults : Fault(c)
  PROVE  /\ hurt \subseteq hurt' /\ hurt' \subseteq hurt \cup {cur}
         /\ hurt' \subseteq Names /\ faults' \in 0..MaxFaults
<1>1. faults \in 0..MaxFaults /\ MaxFaults \in Nat /\ hurt \subseteq Names
  BY ConstAssumption, Zenon DEF IInv, TypeOK
<1>2. CASE Works  BY <1>1, <1>2, Zenon DEF Works
<1>3. CASE \E c \in Faults : Fault(c)
  <2>1. faults' = faults + 1 /\ faults < MaxFaults /\ hurt' = hurt \cup {cur}  BY <1>3, Zenon DEF Fault
  <2> QED  BY <1>1, <2>1
<1> QED  BY <1>2, <1>3, Zenon

\* What a step inside the work on a package leaves alone.
LEMMA InsideMeans ==
  ASSUME Inside
  PROVE  UNCHANGED <<add, remove, listed, skip_remove, cur, targets, soundstart, ended, runs,
                     interrupts, crashes>>
BY Zenon DEF Inside, past

\* The package worked on is one of the targets left.
LEMMA CurKnown ==
  ASSUME IInv, pc \in Working
  PROVE  /\ cur \in Names /\ cur \in add \cup remove
         /\ cur \notin targets.add \ add /\ targets.add \subseteq Names
         /\ pc \in Removing => pkgcache[cur] \in Versions /\ entry[cur][pkgcache[cur]] \in EntryRec
         /\ pc \in Adding => cur \in add
<1>1. /\ cur \in Names /\ cur \in add \cup remove /\ (pc \in Adding => cur \in add)
      /\ cur \notin targets.add \ add /\ targets.add \subseteq Names
  BY Zenon DEF IInv, TypeOK, Order
<1>2. ASSUME pc \in Removing
      PROVE  pkgcache[cur] \in Versions /\ entry[cur][pkgcache[cur]] \in EntryRec
  <2>1. pkgcache[cur] \in Versions /\ pkgcache[cur] # Nothing
    BY <1>2, ConstAssumption, Zenon DEF IInv, TypeOK, Removing
  <2>2. entry[cur][pkgcache[cur]] # Nothing  BY <1>1, <2>1, Zenon DEF IInv, Entries
  <2> QED  BY <1>1, <2>1, <2>2 DEF IInv, TypeOK
<1> QED  BY <1>1, <1>2, Zenon

\* can_remove_file keeps the invariant.
LEMMA CanRemoveStep == ASSUME IInv, can_remove_file PROVE IInv'
<1>1. /\ UNCHANGED <<fs, entry, pkgcache, state, ret, errors>> /\ pc = "can_remove" /\ pc' = "unlink"
      /\ UNCHANGED <<add, remove, listed, skip_remove, cur, targets, soundstart, ended, runs,
                     interrupts, crashes>>
      /\ todo' \subseteq Removable
  BY InsideMeans, Zenon DEF can_remove_file, disk
<1>2. /\ hurt \subseteq hurt' /\ hurt' \subseteq hurt \cup {cur}
      /\ hurt' \subseteq Names /\ faults' \in 0..MaxFaults
  <2>1. cur \in Names  BY <1>1, CurKnown, Zenon DEF Working, Removing
  <2>2. Works \/ \E c \in Faults : Fault(c)  BY Zenon DEF can_remove_file, Fault
  <2> QED  BY <2>1, <2>2, FaultOrNot, Zenon
<1>3. cur \notin hurt' => todo' = Removable
  BY Zenon DEF can_remove_file, Fault
<1>4. TypeOK'
  <2>1. todo' \subseteq Paths  BY <1>1, Zenon DEF IInv, TypeOK, Removable
  <2> QED  BY <1>1, <1>2, <2>1 DEF IInv, TypeOK, Labels
<1>5. Order'
  BY <1>1, <1>2, Zenon DEF IInv, Order, Working, Removing, Adding, Before, Removable
<1>6. Entries'  BY <1>1, <1>2, Zenon DEF IInv, Entries
<1>7. Owners'  BY <1>1, Zenon DEF IInv, Owners
<1>8. ASSUME soundstart PROVE Story'
  <2>1. Story  BY <1>1, <1>8, Zenon DEF IInv
  <2>2. WorkStep  BY <1>1, <1>2, Zenon DEF WorkStep, FilesStep, Working, Removing
  <2>3. cur \notin hurt' => Current'
    BY <1>1, <1>2, <1>3, <2>1, Zenon DEF Story, Current, Only, Removing, Adding, Removable
  <2>4. hurt' = {} => NoOrphan'
    BY <1>1, <1>2, <2>1, Zenon DEF Story, NoOrphan, Promised, Recorded
  <2> QED  BY <1>1, <1>8, <2>2, <2>3, <2>4, StoryStep, Zenon
<1> QED  BY <1>1, <1>2, <1>4, <1>5, <1>6, <1>7, <1>8, Zenon DEF IInv, Outcome

\* Unlinking a file keeps it: the file is of no other package.
LEMMA UnlinkStep == ASSUME IInv, unlink_file PROVE IInv'
<1>1. /\ UNCHANGED <<entry, pkgcache, state, ret, errors, pc>> /\ pc = "unlink"
      /\ UNCHANGED <<add, remove, listed, skip_remove, cur, targets, soundstart, ended, runs,
                     interrupts, crashes>>
  BY InsideMeans, Zenon DEF unlink_file
<1>2. PICK f \in todo : /\ todo' = todo \ {f}
                        /\ \/ fs' = [fs EXCEPT ![f] = Nothing] /\ Works
                           \/ fs' = fs /\ Fault("unlink")
  BY Zenon DEF unlink_file
<1>3. /\ hurt \subseteq hurt' /\ hurt' \subseteq hurt \cup {cur}
      /\ hurt' \subseteq Names /\ faults' \in 0..MaxFaults
  <2>1. cur \in Names  BY <1>1, CurKnown, Zenon DEF Working, Removing
  <2>2. Works \/ \E c \in Faults : Fault(c)  BY <1>2, Zenon DEF Fault
  <2> QED  BY <2>1, <2>2, FaultOrNot, Zenon
<1>4. cur \notin hurt' => fs' = [fs EXCEPT ![f] = Nothing]  BY <1>2, Zenon DEF Fault
<1>5. /\ f \in Paths /\ fs \in [Paths -> (Names \X Versions) \cup {Nothing}]
      /\ fs' \in [Paths -> (Names \X Versions) \cup {Nothing}]
      /\ \A g \in Paths : fs'[g] = fs[g] \/ (g = f /\ fs'[g] = Nothing)
  BY <1>2, Zenon DEF IInv, TypeOK
<1>6. TypeOK'
  <2>1. todo' \subseteq Paths  BY <1>2, Zenon DEF IInv, TypeOK
  <2> QED  BY <1>1, <1>3, <1>5, <2>1 DEF IInv, TypeOK
<1>7. Order'  BY <1>1, <1>2, Zenon DEF IInv, Order, Working, Removing, Adding, Before
<1>8. Entries'  BY <1>1, <1>3, Zenon DEF IInv, Entries
<1>9. Owners'
  <2> SUFFICES ASSUME NEW g \in Paths, NEW n \in Names, NEW v \in Versions, fs'[g] = <<n, v>>
               PROVE  g \in Files[n][v]
    BY Zenon DEF Owners
  <2>1. <<n, v>> # Nothing  BY ConstAssumption
  <2> QED  BY <1>5, <2>1, Zenon DEF IInv, Owners
<1>10. ASSUME soundstart PROVE Story'
  <2>1. Story  BY <1>1, <1>10, Zenon DEF IInv
  <2>2. WorkStep  BY <1>1, <1>2, <1>3, Zenon DEF WorkStep, FilesStep, Working, Removing
  <2>3. ASSUME cur \notin hurt' PROVE Current'
    <3>1. Current /\ listed[cur] \subseteq Paths
      BY <1>3, <2>1, <2>3, <1>1, CurKnown, Zenon DEF Story, IInv, TypeOK, Working, Removing
    <3>2. \A g \in listed[cur] \ (skip_remove \cup todo') : fs'[g] = Nothing
      BY <1>1, <1>2, <1>4, <1>5, <2>3, <3>1, Zenon DEF Current
    <3> QED  BY <1>1, <3>1, <3>2, Zenon DEF Current, Only, Removing, Adding
  <2>4. ASSUME hurt' = {} PROVE NoOrphan'
    <3>1. NoOrphan  BY <1>3, <2>1, <2>4, Zenon DEF Story
    <3> QED  BY <1>1, <1>5, <3>1, Zenon DEF NoOrphan, Promised, Recorded
  <2> QED  BY <1>1, <1>10, <2>2, <2>3, <2>4, StoryStep, Zenon
<1> QED  BY <1>1, <1>6, <1>7, <1>8, <1>9, <1>10, Zenon DEF IInv, Outcome

\* The last file has been removed.
LEMMA FilesRemovedStep == ASSUME IInv, files_removed PROVE IInv'
<1>1. /\ UNCHANGED <<fs, entry, pkgcache, state, ret, todo, errors>>
      /\ pc = "unlink" /\ pc' = "db_remove" /\ todo = {}
      /\ UNCHANGED <<add, remove, listed, skip_remove, cur, targets, soundstart, ended, runs,
                     interrupts, crashes>>
      /\ UNCHANGED <<hurt, faults>>
  BY InsideMeans, Zenon DEF files_removed, AfterFiles, disk, Works
<1>2. TypeOK'  BY <1>1 DEF IInv, TypeOK, Labels
<1>3. Order'  BY <1>1, Zenon DEF IInv, Order, Working, Removing, Adding, Before
<1>4. Entries'  BY <1>1, Zenon DEF IInv, Entries
<1>5. Owners'  BY <1>1, Zenon DEF IInv, Owners
<1>6. ASSUME soundstart PROVE Story'
  <2>1. Story  BY <1>1, <1>6, Zenon DEF IInv
  <2>2. WorkStep  BY <1>1, Zenon DEF WorkStep, FilesStep, Working, Removing
  <2>3. cur \notin hurt' => Current'
    BY <1>1, <2>1, Zenon DEF Story, Current, Only, Removing, Adding
  <2>4. hurt' = {} => NoOrphan'
    BY <1>1, <2>1, Zenon DEF Story, NoOrphan, Promised, Recorded
  <2> QED  BY <1>1, <1>6, <2>2, <2>3, <2>4, StoryStep, Zenon
<1> QED  BY <1>1, <1>2, <1>3, <1>4, <1>5, <1>6, Zenon DEF IInv, Outcome

\* Unlinking a part of the database entry keeps it.
LEMMA DbUnlinkStep == ASSUME IInv, db_unlink PROVE IInv'
<1>1. /\ UNCHANGED <<fs, pkgcache, state, ret, todo, errors>>
      /\ pc = "db_remove" /\ pc' \in {"db_remove", "rmdir"}
      /\ UNCHANGED <<add, remove, listed, skip_remove, cur, targets, soundstart, ended, runs,
                     interrupts, crashes>>
  BY InsideMeans, Zenon DEF db_unlink
<1>2. /\ cur \in Names /\ Old \in Versions /\ entry[cur][Old] \in EntryRec
      /\ entry \in [Names -> [Versions -> EntryRec \cup {Nothing}]]
  BY <1>1, CurKnown, Zenon DEF Working, Removing, Old, IInv, TypeOK
<1>3. PICK part \in {"desc", "files"} :
        \/ /\ entry' = [entry EXCEPT ![cur][Old][part] = "absent"]
           /\ pc' = pc /\ Works
        \/ /\ entry' = [entry EXCEPT ![cur][Old] = [Empty EXCEPT ![part] = entry[cur][Old][part]]]
           /\ pc' = "rmdir" /\ Fault("dbremove")
  BY Zenon DEF db_unlink
<1>4. PICK e \in EntryRec : entry' = [entry EXCEPT ![cur][Old] = e]
  <2>1. CASE entry' = [entry EXCEPT ![cur][Old][part] = "absent"]
    <3> DEFINE e == [entry[cur][Old] EXCEPT ![part] = "absent"]
    <3>1. e \in EntryRec
      <4>1. CASE part = "desc"  BY <1>2, <4>1, Zenon DEF EntryRec, Progress
      <4>2. CASE part = "files"  BY <1>2, <4>2, Zenon DEF EntryRec, Progress
      <4> QED  BY <4>1, <4>2, Zenon
    <3>2. entry' = [entry EXCEPT ![cur][Old] = e]  BY <2>1, Zenon
    <3> QED  BY <3>1, <3>2, Zenon
  <2>2. CASE entry' = [entry EXCEPT ![cur][Old] = [Empty EXCEPT ![part] = entry[cur][Old][part]]]
    <3> DEFINE e == [Empty EXCEPT ![part] = entry[cur][Old][part]]
    <3>1. e \in EntryRec
      <4>1. CASE part = "desc"  BY <1>2, <4>1, Zenon DEF EntryRec, Progress, Empty
      <4>2. CASE part = "files"  BY <1>2, <4>2, Zenon DEF EntryRec, Progress, Empty
      <4> QED  BY <4>1, <4>2, Zenon
    <3>2. entry' = [entry EXCEPT ![cur][Old] = e]  BY <2>2, Zenon
    <3> QED  BY <3>1, <3>2, Zenon
  <2> QED  BY <1>3, <2>1, <2>2, Zenon
<1>5. /\ entry' \in [Names -> [Versions -> EntryRec \cup {Nothing}]]
      /\ \A n \in Names \ {cur} : entry'[n] = entry[n]
      /\ \A w \in Versions \ {Old} : entry'[cur][w] = entry[cur][w]
      /\ entry'[cur][Old] # Nothing /\ Old = pkgcache[cur]
  BY <1>2, <1>4, ConstAssumption, Zenon DEF Old
<1>6. /\ hurt \subseteq hurt' /\ hurt' \subseteq hurt \cup {cur}
      /\ hurt' \subseteq Names /\ faults' \in 0..MaxFaults
      /\ pc' = "rmdir" => cur \in hurt'
  <2>1. Works \/ \E c \in Faults : Fault(c)  BY <1>3, Zenon DEF Fault
  <2>2. pc' = "rmdir" => cur \in hurt'  BY <1>1, <1>3, Zenon DEF Fault
  <2> QED  BY <1>2, <2>1, <2>2, FaultOrNot, Zenon
<1>7. TypeOK'  BY <1>1, <1>2, <1>5, <1>6 DEF IInv, TypeOK, Labels, Old
<1>8. Order'  BY <1>1, <1>6, Zenon DEF IInv, Order, Working, Removing, Adding, Before
<1>9. Entries'
  <2>1. \A n \in Names : pkgcache'[n] # Nothing => entry'[n][pkgcache'[n]] # Nothing
    BY <1>1, <1>2, <1>5, Zenon DEF IInv, Entries
  <2>2. ret' = 0 => \A n \in (targets.add \ (add \cup hurt))' : entry'[n]["new"] = Whole
    <3>1. cur \notin targets.add \ add /\ targets.add \subseteq Names
      BY <1>1, CurKnown, Zenon DEF Working, Removing
    <3> QED  BY <1>1, <1>5, <1>6, <3>1 DEF IInv, Entries
  <2> QED  BY <1>1, <2>1, <2>2, Zenon DEF Entries
<1>10. Owners'  BY <1>1, Zenon DEF IInv, Owners
<1>11. ASSUME soundstart PROVE Story'
  <2>1. Story  BY <1>1, <1>11, Zenon DEF IInv
  <2>2. WorkStep  BY <1>1, <1>5, <1>6, Zenon DEF WorkStep, FilesStep, Working, Removing
  <2>3. ASSUME cur \notin hurt' PROVE Current'
    <3>1. Current  BY <1>6, <2>1, <2>3, Zenon DEF Story
    <3> QED  BY <1>1, <1>5, <3>1, Zenon DEF Current, Only, Removing, Adding
  <2>4. hurt' = {} => NoOrphan'
    <3>1. \A n \in Names, v \in Versions : entry[n][v] # Nothing => entry'[n][v] # Nothing
      BY <1>2, <1>5, Zenon
    <3>2. hurt' = {} => NoOrphan  BY <1>6, <2>1, Zenon DEF Story
    <3> QED  BY <1>1, <3>1, <3>2 DEF NoOrphan, Promised, Recorded, IInv, TypeOK
  <2> QED  BY <1>1, <1>11, <2>2, <2>3, <2>4, StoryStep, Zenon
<1> QED  BY <1>1, <1>7, <1>8, <1>9, <1>10, <1>11, Zenon DEF IInv, Outcome

\* Removing the entry itself: the files that stay are promised to another package.
LEMMA DbRmdirStep == ASSUME IInv, db_rmdir PROVE IInv'
<1>1. /\ UNCHANGED <<fs, add, listed, skip_remove, state, ret, cur, todo, errors, targets, soundstart,
                     ended, runs, interrupts, crashes>>
      /\ pc \in {"db_remove", "rmdir"} /\ pkgcache' = [pkgcache EXCEPT ![cur] = Nothing]
      /\ \/ cur \in add /\ pc' = "mkdir" /\ remove' = remove
         \/ cur \notin add /\ pc' = "loop" /\ remove' = remove \ {cur}
  BY Zenon DEF db_rmdir, CacheWithoutCur, Upgrading, local, past
<1>2. /\ cur \in Names /\ Old \in Versions /\ entry[cur][Old] \in EntryRec
      /\ entry \in [Names -> [Versions -> EntryRec \cup {Nothing}]]
      /\ pkgcache \in [Names -> Versions \cup {Nothing}]
      /\ cur \in add \cup remove /\ cur \notin targets.add \ add /\ targets.add \subseteq Names
      /\ Old = pkgcache[cur] /\ todo = {}
  BY <1>1, CurKnown, Zenon DEF Working, Removing, Old, IInv, TypeOK, Order
<1>3. entry' = entry \/ entry' = [entry EXCEPT ![cur][Old] = Nothing]  BY Zenon DEF db_rmdir
<1>4. /\ entry' \in [Names -> [Versions -> EntryRec \cup {Nothing}]]
      /\ pkgcache' \in [Names -> Versions \cup {Nothing}]
      /\ \A n \in Names \ {cur} : entry'[n] = entry[n] /\ pkgcache'[n] = pkgcache[n]
      /\ \A w \in Versions \ {Old} : entry'[cur][w] = entry[cur][w]
      /\ pkgcache'[cur] = Nothing
  BY <1>1, <1>2, <1>3
<1>5. /\ hurt \subseteq hurt' /\ hurt' \subseteq hurt \cup {cur}
      /\ hurt' \subseteq Names /\ faults' \in 0..MaxFaults
  <2>1. Works \/ \E c \in Faults : Fault(c)  BY Zenon DEF db_rmdir, Fault
  <2> QED  BY <1>2, <2>1, FaultOrNot, Zenon
<1>6. ASSUME cur \notin hurt' PROVE entry'[cur][Old] = Nothing
  <2>1. pc # "rmdir"  BY <1>5, <1>6, Zenon DEF IInv, Order
  <2>2. entry[cur][Old] = Empty  BY <1>1, <2>1, Zenon DEF db_rmdir
  <2>3. entry' = [entry EXCEPT ![cur][Old] = Nothing]  BY <1>6, <2>2, Zenon DEF db_rmdir, Fault
  <2> QED  BY <1>2, <2>3, Zenon
<1>7. TypeOK'
  <2>1. remove' \subseteq Names  BY <1>1, Zenon DEF IInv, TypeOK
  <2> QED  BY <1>1, <1>2, <1>4, <1>5, <2>1 DEF IInv, TypeOK, Labels
<1>8. Order'
  <2>1. \A n \in remove' : pkgcache'[n] # Nothing
    <3>1. remove' \subseteq remove \ {cur}
      BY <1>1, Zenon DEF IInv, Order
    <3> QED  BY <1>1, <1>4, <3>1, Zenon DEF IInv, TypeOK, Order
  <2> QED  BY <1>1, <1>2, <2>1, Zenon DEF IInv, Order, Working, Removing, Adding, Before
<1>9. Entries'
  <2>1. \A n \in Names : pkgcache'[n] # Nothing => entry'[n][pkgcache'[n]] # Nothing
    BY <1>2, <1>4, Zenon DEF IInv, Entries
  <2>2. ret' = 0 => \A n \in (targets.add \ (add \cup hurt))' : entry'[n]["new"] = Whole
    BY <1>1, <1>2, <1>4, <1>5 DEF IInv, Entries
  <2> QED  BY <1>1, <2>1, <2>2, Zenon DEF Entries
<1>10. Owners'  BY <1>1, Zenon DEF IInv, Owners
<1>11. ASSUME soundstart PROVE Story'
  <2>1. Story /\ Checked  BY <1>1, <1>11, Zenon DEF IInv, Story, Before
  <2>2. WorkStep  BY <1>1, <1>2, <1>4, <1>5, Zenon DEF WorkStep, FilesStep, Working, Removing, Adding
  <2>3. ASSUME cur \notin hurt' PROVE Only(cur, Nothing)'
    <3>1. Only(cur, Old)  BY <1>1, <1>2, <1>5, <2>1, <2>3, Zenon DEF Story, Current, Removing
    <3> QED  BY <1>1, <1>4, <1>6, <2>3, <3>1, Zenon DEF Only
  <2>4. cur \notin hurt' => Current'
    BY <1>1, <2>3, Zenon DEF Current, Only, Removing, Adding
  <2>5. cur \in remove \ (remove' \cup hurt') => Removed(cur)'
    BY <1>1, <2>3, Zenon DEF Removed, Only
  <2>6. ASSUME hurt' = {} PROVE NoOrphan'
    <3>1. NoOrphan /\ Current /\ hurt = {}  BY <1>5, <2>1, <2>6, Zenon DEF Story
    <3> SUFFICES ASSUME NEW f \in Paths, fs[f] # Nothing, fs[f][2] \notin Recorded(fs[f][1])'
                 PROVE  Promised(f)'
      BY <1>1, Zenon DEF NoOrphan, Recorded
    <3>2. PICK m \in Names, w \in Versions : fs[f] = <<m, w>>
      <4>1. fs[f] \in (Names \X Versions) \cup {Nothing}  BY Zenon DEF IInv, TypeOK
      <4> QED  BY <4>1
    <3>3. entry'[m][w] = Nothing
      <4>1. fs[f][1] = m /\ fs[f][2] = w  BY <3>2
      <4>2. w \notin Recorded(m)'
        <5>1. w \notin {v \in Versions : entry'[fs[f][1]][v] # Nothing}  BY <1>1, <4>1, Zenon DEF Recorded
        <5> QED  BY <4>1, <5>1, Zenon DEF Recorded
      <4> QED  BY <4>2, Zenon DEF Recorded
    <3>4. CASE Promised(f)  BY <1>1, <3>4, Zenon DEF Promised
    <3>5. CASE ~Promised(f)
      <4>1. entry[m][w] # Nothing  BY <3>1, <3>2, <3>5 DEF NoOrphan, Recorded
      <4>2. m = cur /\ w = Old  BY <1>4, <3>3, <4>1, Zenon
      <4>3. f \in listed[cur]
        BY <1>1, <1>2, <3>1, <3>2, <4>2 DEF IInv, Owners, Current, Removing
      <4>4. f \in skip_remove  BY <1>1, <1>2, <3>1, <4>3, Zenon DEF Current
      <4>5. cur \in add  BY <1>2, <2>1, <4>3, <4>4, Zenon DEF Checked, IInv, Order
      <4>6. PICK n \in targets.add : f \in Files[n]["new"]  BY <2>1, <4>4, Zenon DEF Checked
      <4>7. n \in add
        <5>1. CASE n = cur  BY <4>5, <5>1, Zenon
        <5>2. CASE n # cur
          <6>1. ASSUME n \notin add PROVE fs[f] = <<n, "new">>
            BY <2>1, <3>1, <4>6, <6>1, Zenon DEF Story, Added
          <6> QED  BY <3>2, <4>2, <5>2, <6>1
        <5> QED  BY <5>1, <5>2, Zenon
      <4> QED  BY <1>1, <4>4, <4>5, <4>6, <4>7, Zenon DEF Promised
    <3> QED  BY <3>4, <3>5, Zenon
  <2> QED  BY <1>1, <1>11, <2>2, <2>4, <2>5, <2>6, StoryStep, Zenon
<1> QED  BY <1>1, <1>7, <1>8, <1>9, <1>10, <1>11, Zenon DEF IInv, Outcome

\* commit_single_pkg gives up on the package.
LEMMA FailedReturn ==
  ASSUME IInv, pc \in Adding, UNCHANGED <<entry, pkgcache>>, Return(TRUE),
         Works \/ \E c \in Faults : Fault(c), soundstart => cur \in hurt'
  PROVE  IInv'
<1>1. /\ UNCHANGED <<fs, remove, listed, skip_remove, cur, targets, soundstart, ended, runs,
                     interrupts, crashes>>
      /\ pc' = "loop" /\ add' = add \ {cur} /\ todo' = {} /\ errors' = FALSE
      /\ state' = "INTERRUPTED" /\ ret' = 1
  BY Zenon DEF Return, past
<1>2. cur \in Names /\ cur \in add  BY CurKnown, Zenon DEF Working
<1>3. /\ hurt \subseteq hurt' /\ hurt' \subseteq hurt \cup {cur}
      /\ hurt' \subseteq Names /\ faults' \in 0..MaxFaults
  BY <1>2, FaultOrNot, Zenon
<1>4. TypeOK'
  <2>1. add' \subseteq Names  BY <1>1, Zenon DEF IInv, TypeOK
  <2> QED  BY <1>1, <1>3, <2>1, Zenon DEF IInv, TypeOK, Labels
<1>5. Order'  BY <1>1, <1>2, Zenon DEF IInv, Order, Working, Removing, Adding, Before
<1>6. Entries'
  <2>1. Entries  BY Zenon DEF IInv
  <2>2. \A n \in Names : pkgcache'[n] # Nothing => entry'[n][pkgcache'[n]] # Nothing  BY <2>1, Zenon DEF Entries
  <2> QED  BY <1>1, <2>2 DEF Entries
<1>7. Owners'  BY <1>1, Zenon DEF IInv, Owners
<1>8. ASSUME soundstart PROVE Story'
  <2>1. WorkStep  BY <1>1, <1>2, <1>3, Zenon DEF WorkStep, FilesStep, Working
  <2> QED  BY <1>1, <1>2, <1>8, <2>1, StoryStep, Zenon
<1> QED  BY <1>1, <1>4, <1>5, <1>6, <1>7, <1>8, Zenon DEF IInv, Outcome

\* A step of the work that changes no more than the entry that is written.
LEMMA WriteStep ==
  ASSUME IInv, \/ pc = "mkdir" /\ pc' = "open"
               \/ pc = "extract" /\ pc' = "desc" /\ todo = {}
               \/ pc = "desc" /\ pc' \in {"desc", "files"}
               \/ pc = "files" /\ pc' \in {"files", "cache"},
         UNCHANGED <<fs, pkgcache, state, ret, todo, errors>>, Inside, Works,
         NEW e \in EntryRec, entry' = [entry EXCEPT ![cur]["new"] = e],
         pc' = "open" => e = Empty,
         pc' = "desc" => e \in {Empty, [desc |-> "partial", files |-> "absent"]},
         pc' = "files" => e \in {[desc |-> "complete", files |-> "absent"],
                                 [desc |-> "complete", files |-> "partial"]},
         pc' = "cache" => e = Whole
  PROVE  IInv'
<1>1. /\ UNCHANGED <<add, remove, listed, skip_remove, cur, targets, soundstart, ended, runs,
                     interrupts, crashes>>
      /\ UNCHANGED <<hurt, faults>>
  BY InsideMeans, Zenon DEF Works
<1>2. /\ cur \in Names /\ cur \in add /\ cur \notin targets.add \ add /\ targets.add \subseteq Names
      /\ entry \in [Names -> [Versions -> EntryRec \cup {Nothing}]] /\ pc \in Working
      /\ pc' \in Working /\ todo = {} /\ pc # "down" /\ pc' \notin {"down", "rmdir", "unlink"}
  BY CurKnown, Zenon DEF Working, Removing, Adding, IInv, TypeOK, Order
<1>3. /\ entry' \in [Names -> [Versions -> EntryRec \cup {Nothing}]]
      /\ \A n \in Names \ {cur} : entry'[n] = entry[n]
      /\ \A w \in Versions \ {"new"} : entry'[cur][w] = entry[cur][w]
      /\ entry'[cur]["new"] = e /\ e # Nothing
  BY <1>2, ConstAssumption, Zenon DEF Versions
<1>4. TypeOK'  BY <1>1, <1>2, <1>3, ZenonT(60) DEF IInv, TypeOK, Labels, Adding
<1>5. Order'  BY <1>1, <1>2, Zenon DEF IInv, Order, Working, Removing, Adding, Before
<1>6. Entries'
  <2>1. \A n \in Names : pkgcache'[n] # Nothing => entry'[n][pkgcache'[n]] # Nothing
    <3>1. pkgcache[cur] # Nothing => pkgcache[cur] \in Versions  BY <1>2, Zenon DEF IInv, TypeOK
    <3> QED  BY <1>2, <1>3, <3>1 DEF IInv, Entries
  <2>2. ret' = 0 => \A n \in (targets.add \ (add \cup hurt))' : entry'[n]["new"] = Whole
    BY <1>1, <1>2, <1>3, Zenon DEF IInv, Entries
  <2> QED  BY <1>1, <1>3, <2>1, <2>2, Zenon DEF Entries
<1>7. Owners'  BY Zenon DEF IInv, Owners
<1>8. ASSUME soundstart PROVE Story'
  <2>1. Story  BY <1>2, <1>8, Zenon DEF IInv
  <2>2. WorkStep  BY <1>1, <1>2, <1>3, Zenon DEF WorkStep, FilesStep
  <2>3. ASSUME cur \notin hurt PROVE Current'
    <3>1. Current  BY <2>1, <2>3, Zenon DEF Story
    <3>2. Only(cur, "new")'
      <4>1. \A w \in Versions : w # "new" => entry[cur][w] = Nothing
        BY <3>1, ConstAssumption, Zenon DEF Current, Only, Adding
      <4> QED  BY <1>1, <1>3, <4>1, Zenon DEF Only
    <3>3. pc' \in Adding \ {"mkdir", "open"} =>
            \A f \in Files[cur]["new"] \ todo : fs[f] = <<cur, "new">>
      BY <3>1, <1>2, Zenon DEF Current, Adding
    <3> QED  BY <1>1, <3>2, <3>3, Zenon DEF Current, Removing, Adding
  <2>4. hurt = {} => NoOrphan'
    <3>1. \A n \in Names, v \in Versions : entry[n][v] # Nothing => entry'[n][v] # Nothing
      BY <1>2, <1>3, Zenon
    <3>2. hurt = {} => NoOrphan  BY <2>1, Zenon DEF Story
    <3>3. \A f \in Paths : Promised(f) => Promised(f)'
      BY <1>1, <1>2, Zenon DEF Promised, Adding
    <3> QED  BY <1>1, <3>1, <3>2, <3>3, Zenon DEF NoOrphan, Recorded, IInv, TypeOK
  <2> QED  BY <1>1, <1>8, <2>2, <2>3, <2>4, StoryStep, Zenon
<1> QED  BY <1>1, <1>2, <1>4, <1>5, <1>6, <1>7, <1>8, Zenon DEF IInv, Outcome

\* _klpm_local_db_prepare keeps the invariant.
LEMMA MkdirStep == ASSUME IInv, local_db_prepare PROVE IInv'
<1>0. pc = "mkdir" /\ pc \in Adding /\ Empty \in EntryRec
  BY Zenon DEF local_db_prepare, Adding, Empty, EntryRec, Progress
<1>1. CASE Return(TRUE) /\ UNCHANGED <<entry, pkgcache>>
           /\ IF entry[cur]["new"] = Nothing THEN Fault("mkdir") ELSE Works
  <2>1. Works \/ \E c \in Faults : Fault(c)  BY <1>1, Zenon DEF Fault
  <2>2. ASSUME soundstart, cur \notin hurt' PROVE FALSE
    <3>1. Works /\ entry[cur]["new"] # Nothing  BY <1>1, <2>2, Zenon DEF Fault
    <3>2. Current  BY <1>0, <2>2, <3>1, Zenon DEF IInv, Story, Works
    <3>3. Only(cur, Nothing)  BY <1>0, <3>2, Zenon DEF Current
    <3> QED  BY <3>1, <3>3, ConstAssumption, Zenon DEF Only, Versions
  <2> QED  BY <1>0, <1>1, <2>1, <2>2, FailedReturn, Zenon
<1>2. CASE /\ entry[cur]["new"] = Nothing /\ Works
           /\ entry' = [entry EXCEPT ![cur]["new"] = Empty] /\ pc' = "open"
           /\ UNCHANGED <<fs, pkgcache, state, ret, todo, errors>> /\ Inside
  BY <1>0, <1>2, WriteStep, Zenon
<1> QED  BY <1>1, <1>2, Zenon DEF local_db_prepare

\* Opening the archive keeps it.
LEMMA OpenStep == ASSUME IInv, open_archive PROVE IInv'
<1>0. pc = "open" /\ pc \in Adding  BY Zenon DEF open_archive, Adding
<1>1. CASE UNCHANGED <<entry, pkgcache>> /\ Return(TRUE) /\ Fault("open")
  <2>1. (\E c \in Faults : Fault(c)) /\ cur \in hurt'  BY <1>1, Zenon DEF Fault
  <2> QED  BY <1>0, <1>1, <2>1, FailedReturn, Zenon
<1>2. CASE /\ pc' = "extract" /\ todo' = Files[cur]["new"] /\ Works
           /\ UNCHANGED <<disk, pkgcache, state, ret, errors>> /\ Inside
  <2>1. /\ UNCHANGED <<fs, entry, pkgcache, state, ret, errors>>
        /\ UNCHANGED <<add, remove, listed, skip_remove, cur, targets, soundstart, ended, runs,
                       interrupts, crashes>>
        /\ UNCHANGED <<hurt, faults>>
    BY <1>2, InsideMeans, Zenon DEF disk, Works
  <2>2. cur \in Names  BY <1>0, CurKnown, Zenon DEF Working
  <2>3. TypeOK'
    <3>1. todo' \subseteq Paths  BY <1>2, <2>2, ConstAssumption DEF Versions
    <3> QED  BY <1>2, <2>1, <3>1, Zenon DEF IInv, TypeOK, Labels
  <2>4. Order'  BY <1>0, <1>2, <2>1 DEF IInv, Order, Working, Removing, Adding, Before
  <2>5. Entries'  BY <1>0, <1>2, <2>1 DEF IInv, Entries
  <2>6. Owners'  BY <2>1, Zenon DEF IInv, Owners
  <2>7. ASSUME soundstart PROVE Story'
    <3>1. Story  BY <1>0, <2>7, Zenon DEF IInv
    <3>2. WorkStep  BY <1>0, <1>2, <2>1, Zenon DEF WorkStep, FilesStep, Working, Adding
    <3>3. cur \notin hurt => Current'
      BY <1>0, <1>2, <2>1, <3>1, Zenon DEF Story, Current, Only, Removing, Adding
    <3>4. hurt = {} => NoOrphan'
      BY <1>0, <1>2, <2>1, <3>1, Zenon DEF Story, NoOrphan, Promised, Recorded
    <3> QED  BY <2>1, <2>7, <3>2, <3>3, <3>4, StoryStep
  <2> QED  BY <1>0, <1>2, <2>1, <2>3, <2>4, <2>5, <2>6, <2>7, Zenon DEF IInv, Outcome
<1> QED  BY <1>1, <1>2, Zenon DEF open_archive

\* Extracting a file keeps it: no other package of the transaction has it.
LEMMA ExtractStep == ASSUME IInv, extract_single_file PROVE IInv'
<1>1. /\ UNCHANGED <<entry, pkgcache, state, ret, pc>> /\ pc = "extract"
      /\ UNCHANGED <<add, remove, listed, skip_remove, cur, targets, soundstart, ended, runs,
                     interrupts, crashes>>
  BY InsideMeans, Zenon DEF extract_single_file
<1>2. PICK f \in todo : /\ todo' = todo \ {f}
                        /\ \/ fs' = [fs EXCEPT ![f] = <<cur, "new">>] /\ UNCHANGED errors /\ Works
                           \/ fs' = fs /\ errors' = TRUE /\ Fault("extract")
  BY Zenon DEF extract_single_file
<1>3. cur \in Names /\ cur \in add /\ f \in Files[cur]["new"]
  BY <1>1, <1>2, CurKnown, Zenon DEF Working, Adding, IInv, Order
<1>4. /\ hurt \subseteq hurt' /\ hurt' \subseteq hurt \cup {cur}
      /\ hurt' \subseteq Names /\ faults' \in 0..MaxFaults
  <2>1. Works \/ \E c \in Faults : Fault(c)  BY <1>2, Zenon DEF Fault
  <2> QED  BY <1>3, <2>1, FaultOrNot, Zenon
<1>5. cur \notin hurt' => fs' = [fs EXCEPT ![f] = <<cur, "new">>]  BY <1>2, Zenon DEF Fault
<1>6. /\ f \in Paths /\ fs \in [Paths -> (Names \X Versions) \cup {Nothing}]
      /\ fs' \in [Paths -> (Names \X Versions) \cup {Nothing}]
      /\ \A g \in Paths : fs'[g] = fs[g] \/ (g = f /\ fs'[g] = <<cur, "new">>)
  <2>1. <<cur, "new">> \in Names \X Versions  BY <1>3, Zenon DEF Versions
  <2>2. f \in Paths /\ fs \in [Paths -> (Names \X Versions) \cup {Nothing}]
    BY <1>2, Zenon DEF IInv, TypeOK
  <2> QED  BY <1>2, <2>1, <2>2, Zenon
<1>7. TypeOK'
  <2>1. todo' \subseteq Paths  BY <1>2, Zenon DEF IInv, TypeOK
  <2>2. errors' \in BOOLEAN  BY <1>2, Zenon DEF IInv, TypeOK
  <2> QED  BY <1>1, <1>4, <1>6, <2>1, <2>2, Zenon DEF IInv, TypeOK
<1>8. Order'  BY <1>1, <1>2, Zenon DEF IInv, Order, Working, Removing, Adding, Before
<1>9. Entries'  BY <1>1, <1>4, Zenon DEF IInv, Entries
<1>10. Owners'
  <2> SUFFICES ASSUME NEW g \in Paths, NEW n \in Names, NEW v \in Versions, fs'[g] = <<n, v>>
               PROVE  g \in Files[n][v]
    BY DEF Owners
  <2>1. CASE fs'[g] = fs[g]  BY <2>1, Zenon DEF IInv, Owners
  <2>2. CASE g = f /\ fs'[g] = <<cur, "new">>
    <3>1. n = cur /\ v = "new"  BY <2>2
    <3> QED  BY <1>3, <2>2, <3>1, Zenon
  <2> QED  BY <1>6, <2>1, <2>2, Zenon
<1>11. ASSUME soundstart PROVE Story'
  <2>1. Story  BY <1>1, <1>11, Zenon DEF IInv
  <2>2. WorkStep  BY <1>1, <1>2, <1>4, Zenon DEF WorkStep, FilesStep, Working, Adding
  <2>3. ASSUME cur \notin hurt' PROVE Current'
    <3>1. Current /\ Files[cur]["new"] \subseteq Paths
      BY <1>3, <1>4, <2>1, <2>3, ConstAssumption DEF Story, Versions
    <3>2. \A g \in Files[cur]["new"] \ todo' : fs'[g] = <<cur, "new">>
      BY <1>1, <1>2, <1>5, <1>6, <2>3, <3>1, Zenon DEF Current, Adding
    <3> QED  BY <1>1, <3>1, <3>2, Zenon DEF Current, Only, Removing, Adding
  <2>4. ASSUME hurt' = {} PROVE NoOrphan'
    <3>1. NoOrphan /\ cur \notin hurt'  BY <1>4, <2>1, <2>4, Zenon DEF Story
    <3>2. fs'[f] = <<cur, "new">>  BY <1>5, <1>6, <3>1, Zenon
    <3>3. "new" \in Recorded(cur)'
      BY <1>1, ConstAssumption DEF Recorded, Versions, IInv, Entries, Empty, EntryRec, Progress
    <3>4. \A g \in Paths \ {f} : fs'[g] = fs[g] /\ (Promised(g) => Promised(g)')
      BY <1>1, <1>2, <1>6, Zenon DEF Promised
    <3>5. \A n \in Names : Recorded(n)' = Recorded(n)  BY <1>1, Zenon DEF Recorded
    <3> SUFFICES ASSUME NEW g \in Paths
                 PROVE  fs'[g] = Nothing \/ fs'[g][2] \in Recorded(fs[g][1])' \/ Promised(g)'
      BY Zenon DEF NoOrphan
    <3>6. CASE g = f  BY <1>1, <3>2, <3>3, <3>6 DEF Recorded
    <3>7. CASE g # f  BY <1>1, <3>1, <3>4, <3>7, Zenon DEF NoOrphan, Recorded
    <3> QED  BY <3>6, <3>7, Zenon
  <2> QED  BY <1>1, <1>11, <2>2, <2>3, <2>4, StoryStep, Zenon
<1> QED  BY <1>1, <1>7, <1>8, <1>9, <1>10, <1>11, Zenon DEF IInv, Outcome

\* The last file has been extracted.
LEMMA ExtractedStep == ASSUME IInv, extracted PROVE IInv'
<1>1. /\ pc = "extract" /\ pc' = "desc" /\ todo = {} /\ Inside /\ Works
      /\ UNCHANGED <<fs, entry, pkgcache, state, ret, todo, errors>>
  BY Zenon DEF extracted, disk
<1>2. entry[cur]["new"] = Empty /\ Empty \in EntryRec
  BY <1>1, Zenon DEF IInv, Entries, Empty, EntryRec, Progress
<1>3. cur \in Names /\ entry \in [Names -> [Versions -> EntryRec \cup {Nothing}]]
  BY <1>1, CurKnown, Zenon DEF Working, Adding, IInv, TypeOK
<1>4. entry' = [entry EXCEPT ![cur]["new"] = Empty]  BY <1>1, <1>2, <1>3, Zenon
<1> QED  BY <1>1, <1>2, <1>4, WriteStep, Zenon

\* Writing the desc file keeps it.
LEMMA WriteDescStep == ASSUME IInv, db_write_desc PROVE IInv'
<1>1. pc = "desc" /\ pc \in Adding /\ WriteFile("desc", "files")
  BY Zenon DEF db_write_desc, AfterDesc, Adding
<1>2. cur \in Names /\ entry \in [Names -> [Versions -> EntryRec \cup {Nothing}]]
  BY <1>1, CurKnown, Zenon DEF Working, Adding, IInv, TypeOK
<1>3. entry[cur]["new"] \in {Empty, [desc |-> "partial", files |-> "absent"]}
  BY <1>1, Zenon DEF IInv, Entries
<1>4. CASE UNCHANGED <<entry, pkgcache>> /\ Return(TRUE) /\ Fault("write")
  <2>1. (\E c \in Faults : Fault(c)) /\ cur \in hurt'  BY <1>4, Zenon DEF Fault
  <2> QED  BY <1>1, <1>4, <2>1, FailedReturn, Zenon
<1>5. CASE /\ entry[cur]["new"]["desc"] = "absent" /\ Works
           /\ entry' = [entry EXCEPT ![cur]["new"]["desc"] = "partial"]
           /\ UNCHANGED <<fs, pkgcache, state, ret, pc, todo, errors>> /\ Inside
  <2> DEFINE e == [desc |-> "partial", files |-> "absent"]
  <2>1. entry[cur]["new"] = Empty  BY <1>3, <1>5
  <2>2. [entry[cur]["new"] EXCEPT !["desc"] = "partial"] = e
    <3>1. [Empty EXCEPT !["desc"] = "partial"] = e  BY DEF Empty
    <3> QED  BY <2>1, <3>1, Zenon
  <2>3. entry' = [entry EXCEPT ![cur]["new"] = e] /\ e \in EntryRec
    BY <1>5, <2>2, Zenon DEF EntryRec, Progress
  <2> QED  BY <1>1, <1>5, <2>3, WriteStep, Zenon
<1>6. CASE /\ entry[cur]["new"]["desc"] = "partial" /\ Works
           /\ entry' = [entry EXCEPT ![cur]["new"]["desc"] = "complete"] /\ pc' = "files"
           /\ UNCHANGED <<fs, pkgcache, state, ret, todo, errors>> /\ Inside
  <2> DEFINE e == [desc |-> "complete", files |-> "absent"]
  <2>1. entry[cur]["new"] = [desc |-> "partial", files |-> "absent"]  BY <1>3, <1>6 DEF Empty
  <2>2. [entry[cur]["new"] EXCEPT !["desc"] = "complete"] = e  BY <2>1
  <2>3. entry' = [entry EXCEPT ![cur]["new"] = e] /\ e \in EntryRec
    BY <1>6, <2>2, Zenon DEF EntryRec, Progress
  <2> QED  BY <1>1, <1>6, <2>3, WriteStep, Zenon
<1> QED  BY <1>1, <1>4, <1>5, <1>6, Zenon DEF WriteFile

\* Writing the files file keeps it.
LEMMA WriteFilesStep == ASSUME IInv, db_write_files PROVE IInv'
<1>1. pc = "files" /\ pc \in Adding /\ WriteFile("files", "cache")
  BY Zenon DEF db_write_files, Adding
<1>2. cur \in Names /\ entry \in [Names -> [Versions -> EntryRec \cup {Nothing}]]
  BY <1>1, CurKnown, Zenon DEF Working, Adding, IInv, TypeOK
<1>3. entry[cur]["new"] \in {[desc |-> "complete", files |-> "absent"],
                             [desc |-> "complete", files |-> "partial"]}
  BY <1>1, Zenon DEF IInv, Entries
<1>4. CASE UNCHANGED <<entry, pkgcache>> /\ Return(TRUE) /\ Fault("write")
  <2>1. (\E c \in Faults : Fault(c)) /\ cur \in hurt'  BY <1>4 DEF Fault
  <2> QED  BY <1>1, <1>4, <2>1, FailedReturn
<1>5. CASE /\ entry[cur]["new"]["files"] = "absent" /\ Works
           /\ entry' = [entry EXCEPT ![cur]["new"]["files"] = "partial"]
           /\ UNCHANGED <<fs, pkgcache, state, ret, pc, todo, errors>> /\ Inside
  <2> DEFINE e == [desc |-> "complete", files |-> "partial"]
  <2>1. entry[cur]["new"] = [desc |-> "complete", files |-> "absent"]  BY <1>3, <1>5
  <2>2. [entry[cur]["new"] EXCEPT !["files"] = "partial"] = e  BY <2>1
  <2>3. entry' = [entry EXCEPT ![cur]["new"] = e] /\ e \in EntryRec
    BY <1>5, <2>2, Zenon DEF EntryRec, Progress
  <2> QED  BY <1>1, <1>5, <2>3, WriteStep, Zenon
<1>6. CASE /\ entry[cur]["new"]["files"] = "partial" /\ Works
           /\ entry' = [entry EXCEPT ![cur]["new"]["files"] = "complete"] /\ pc' = "cache"
           /\ UNCHANGED <<fs, pkgcache, state, ret, todo, errors>> /\ Inside
  <2>1. entry[cur]["new"] = [desc |-> "complete", files |-> "partial"]  BY <1>3, <1>6
  <2>2. [entry[cur]["new"] EXCEPT !["files"] = "complete"] = Whole  BY <2>1 DEF Whole
  <2>3. entry' = [entry EXCEPT ![cur]["new"] = Whole] /\ Whole \in EntryRec
    BY <1>6, <2>2, Zenon DEF EntryRec, Progress, Whole
  <2> QED  BY <1>1, <1>6, <2>3, WriteStep, Zenon
<1> QED  BY <1>1, <1>4, <1>5, <1>6, Zenon DEF WriteFile

\* _klpm_db_add_pkgincache keeps it, and the package is complete.
LEMMA CacheStep == ASSUME IInv, add_pkgincache PROVE IInv'
<1>1. /\ UNCHANGED <<fs, entry, remove, listed, skip_remove, cur, targets, soundstart, ended, runs,
                     interrupts, crashes, hurt, faults>>
      /\ pc = "cache" /\ pc' = "loop" /\ add' = add \ {cur} /\ todo' = {} /\ errors' = FALSE
      /\ pkgcache' = [pkgcache EXCEPT ![cur] = "new"]
      /\ \/ state' = "INTERRUPTED" /\ ret' = 1
         \/ UNCHANGED <<state, ret>>
  BY Zenon DEF add_pkgincache, Return, Works, past
<1>2. /\ cur \in Names /\ cur \in add /\ cur \notin targets.add \ add /\ targets.add \subseteq Names
      /\ entry[cur]["new"] = Whole /\ Whole # Nothing /\ todo = {}
      /\ pkgcache \in [Names -> Versions \cup {Nothing}]
  <2>1. cur \in Names /\ cur \in add  BY <1>1, CurKnown, Zenon DEF Working, Adding, IInv, Order
  <2>2. cur \notin targets.add \ add  BY <2>1, Zenon
  <2>3. targets.add \subseteq Names /\ pkgcache \in [Names -> Versions \cup {Nothing}]  BY Zenon DEF IInv, TypeOK
  <2>4. entry[cur]["new"] = Whole /\ todo = {}  BY <1>1, Zenon DEF IInv, Entries, Order
  <2>5. Whole # Nothing  BY ConstAssumption DEF Whole, EntryRec, Progress
  <2> QED  BY <2>1, <2>2, <2>3, <2>4, <2>5, Zenon
<1>3. /\ pkgcache' \in [Names -> Versions \cup {Nothing}] /\ pkgcache'[cur] = "new"
      /\ \A n \in Names \ {cur} : pkgcache'[n] = pkgcache[n]
  BY <1>1, <1>2, Zenon DEF Versions
<1>4. TypeOK'
  <2>1. add' \subseteq Names  BY <1>1, Zenon DEF IInv, TypeOK
  <2> QED  BY <1>1, <1>3, <2>1, Zenon DEF IInv, TypeOK, Labels
<1>5. Order'
  <2>1. cur \notin remove /\ remove \subseteq Names  BY <1>1, <1>2, Zenon DEF IInv, TypeOK, Order
  <2> QED  BY <1>1, <1>2, <1>3, <2>1, Zenon DEF IInv, Order, Working, Removing, Adding, Before
<1>6. Entries'
  <2>1. \A n \in Names : pkgcache'[n] # Nothing => entry'[n][pkgcache'[n]] # Nothing
    BY <1>1, <1>2, <1>3, Zenon DEF IInv, Entries
  <2>2. ret' = 0 => \A n \in (targets.add \ (add \cup hurt))' : entry'[n]["new"] = Whole
    BY <1>1, <1>2 DEF IInv, Entries
  <2> QED  BY <1>1, <2>1, <2>2, Zenon DEF Entries
<1>7. Owners'  BY <1>1, Zenon DEF IInv, Owners
<1>8. ASSUME soundstart PROVE Story'
  <2>1. Story  BY <1>1, <1>8, Zenon DEF IInv
  <2>2. WorkStep  BY <1>1, <1>2, <1>3, Zenon DEF WorkStep, FilesStep, Working, Adding
  <2>3. Current'  BY <1>1, Zenon DEF Current, Removing, Adding
  <2>4. cur \notin hurt => Added(cur)'
    BY <1>1, <1>2, <2>1, Zenon DEF Story, Current, Added, Only, Adding
  <2>5. hurt = {} => NoOrphan'
    <3>1. \A f \in Paths : Promised(f) => Promised(f)'  BY <1>1, Zenon DEF Promised
    <3> QED  BY <1>1, <2>1, <3>1, Zenon DEF Story, NoOrphan, Recorded
  <2>6. cur \notin remove  BY <1>2, Zenon DEF IInv, Order
  <2> QED  BY <1>1, <1>8, <2>2, <2>3, <2>4, <2>5, <2>6, StoryStep, Zenon
<1> QED  BY <1>1, <1>4, <1>5, <1>6, <1>7, <1>8, Zenon DEF IInv, Outcome

-----------------------------------------------------------------------------
(* The theorems.                                                           *)

\* Every step keeps the invariant.
LEMMA NextIInv == IInv /\ [Next]_vars => IInv'
<1> SUFFICES ASSUME IInv, [Next]_vars PROVE IInv'  BY Zenon
<1>1. CASE Finished  BY <1>1, StutterStep, Zenon DEF Finished
<1> QED
  BY <1>1, BeginStep, PrepareStep, CheckStep, TakeStep, LoopsDoneStep, CanRemoveStep, UnlinkStep,
     FilesRemovedStep, DbUnlinkStep, DbRmdirStep, MkdirStep, OpenStep, ExtractStep, ExtractedStep,
     WriteDescStep, WriteFilesStep, CacheStep, InterruptStep, CrashStep, StutterStep
  DEF Next

\* The invariant holds in every reachable state.
LEMMA SpecIInv == Spec => []IInv
BY InitIInv, NextIInv, PTL DEF Spec

\* The variables keep their types, for every set of packages and files.
THEOREM TypeCorrect == Spec => []TypeOK
<1>1. IInv => TypeOK  BY Zenon DEF IInv
<1> QED  BY <1>1, SpecIInv, PTL

\* Whatever fails, is interrupted or dies, in whatever order packages are taken up:
\* only the package worked on and those with a failed system call are damaged.
THEOREM DamageLocal == Spec => []DamageIsLocal
<1>1. IInv => DamageIsLocal
  <2> SUFFICES ASSUME IInv PROVE DamageIsLocal  BY Zenon
  <2>1. CASE pc = "down"  BY <2>1, Zenon DEF IInv, Outcome
  <2>2. CASE pc # "down" /\ soundstart  BY <2>2, StoryMeansLocal, Zenon DEF IInv
  <2>3. CASE ~soundstart  BY <2>3, Zenon DEF DamageIsLocal
  <2> QED  BY <2>1, <2>2, <2>3, Zenon
<1> QED  BY <1>1, SpecIInv, PTL

\* A commit that reports success and met no failed call keeps a sound system sound.
THEOREM SuccessSound == Spec => []SuccessMeansSound
<1>1. IInv => SuccessMeansSound
  BY Zenon DEF IInv, Outcome, Order, SuccessMeansSound
<1> QED  BY <1>1, SpecIInv, PTL

\* A commit that reports success has recorded every package it added, whatever state
\* the database was in before.
THEOREM SuccessRecorded == Spec => []SuccessMeansRecorded
<1>1. IInv => SuccessMeansRecorded
  BY Zenon DEF IInv, Outcome, Order, SuccessMeansRecorded
<1> QED  BY <1>1, SpecIInv, PTL

\* Between packages, the cache holds no package that has no entry on disk.
THEOREM CacheOnDisk == Spec => []CacheIsOnDisk
<1>1. IInv => CacheIsOnDisk
  <2> SUFFICES ASSUME IInv, NEW n \in Names
               PROVE  pkgcache[n] = Nothing \/ pkgcache[n] \in Recorded(n)
    BY Zenon DEF CacheIsOnDisk
  <2> QED  BY Zenon DEF IInv, TypeOK, Entries, Recorded
<1> QED  BY <1>1, SpecIInv, PTL
=============================================================================
