----------------------------- MODULE BackupProof -----------------------------
(***************************************************************************)
(* For all contents, any number of copies and of transactions, and every   *)
(* failure: what becomes of a configuration file.                          *)
(***************************************************************************)
EXTENDS Backup, WellFoundedInduction, TLAPS

-----------------------------------------------------------------------------
(* The inductive invariant.                                                *)

\* A hash in a backup list is that of a packaged content.
Hashes == Packaged \cup {Null, Nothing}
Records ==
  /\ db # Nothing => db.backup \in Hashes
  /\ old # Nothing => old.backup \in Hashes

\* The packages of the transaction promise to keep what FILE held at its start.
KeepsStart ==
  /\ kind # "purge"
  /\ \/ NoUpgrade
     \/ new # Nothing /\ new.backup
     \/ kind # "move" /\ old # Nothing /\ old.backup \notin {Nothing, start}

\* Within a transaction: which packages take which way, and that FILE, if it holds
\* anything of the user's, holds what it held at the start.
Way ==
  /\ file = start \/ file \notin Edited
  /\ start \in edits => KeepsStart
  /\ NoUpgrade => pc \in {"entry", "extract", "record"} /\ (start # Nothing => file = start)
  /\ pc \in {"unlink_file", "shift", "save"} =>
       /\ file = start /\ kind # "move" /\ old # Nothing
       /\ new # Nothing => ~new.backup
  /\ pc \in {"shift", "save"} =>
       start # Nothing /\ old.backup \notin {Nothing, start} /\ kind # "purge"
  /\ pc \in {"extract", "merge", "record"} => new # Nothing
  /\ pc = "merge" =>
       pacnew = new.content /\ hash \in {new.content, Nothing} /\ file # Nothing

\* shift_pacsave has room for every copy it moves, and then for FILE itself.
Room ==
  /\ pc = "unlink_file" => saves[MaxSave] = Nothing
  /\ pc = "shift" => /\ shift < MaxSave
                     /\ PlainName /\ ~lossy => saves[shift + 1] = Nothing
  /\ pc = "save" /\ PlainName /\ ~lossy => saves[0] = Nothing

\* An upgrade in which every call works.
Smooth ==
  failed = {} /\ kind = "install" /\ ~NoUpgrade =>
    /\ pc \in {"entry", "extract"} /\ new # Nothing =>
         IF new.backup THEN file = start
         ELSE /\ file = Nothing
              /\ start # Nothing /\ Orig \notin {Nothing, start} => saves[0] = start
    /\ pc = "merge" => new.backup /\ file = start /\ hash = new.content

IInv ==
  /\ TypeOK /\ Records /\ Room /\ DocumentedOutcome
  /\ pc # "idle" => Way /\ Smooth
  /\ PlainName => EditsKept

-----------------------------------------------------------------------------
(* Numbers: the last copy that readdir finds.                              *)

\* A set of naturals that is not empty has a least element.
LEMMA LeastNat ==
  ASSUME NEW T, T \subseteq Nat, T # {}
  PROVE  \E x \in T : \A y \in T : x <= y
<1> DEFINE R == OpToRel(<, Nat)
<1>1. PICK x \in T : \A y \in T : ~(<<y, x>> \in R)
  <2>1. IsWellFoundedOn(R, Nat)  BY NatLessThanWellFounded, Zenon
  <2> HIDE DEF R
  <2> QED  BY <2>1, WFMin, Zenon
<1>2. \A y \in T : y < x => <<y, x>> \in R  BY Zenon DEF OpToRel
<1> HIDE DEF R
<1>3. \A y \in T : ~(y < x)  BY <1>1, <1>2, Zenon
<1> QED  BY <1>3

\* Max of a bounded one is its greatest element.
LEMMA MaxIsGreatest ==
  ASSUME NEW N \in Nat, NEW T, T \subseteq 0..N, T # {}
  PROVE  Max(T) \in T /\ \A y \in T : y <= Max(T)
<1> DEFINE D == {d \in 0..N : N - d \in T}
<1>1. D \subseteq Nat /\ D # {}
  <2>1. PICK t \in T : TRUE  BY Zenon
  <2>2. N - t \in D  BY <2>1
  <2> QED  BY <2>2
<1>2. PICK d \in D : \A y \in D : d <= y
  <2> HIDE DEF D
  <2> QED  BY <1>1, LeastNat, Zenon
<1>3. N - d \in T /\ \A y \in T : y <= N - d
  <2>1. \A y \in T : N - y \in D  OBVIOUS
  <2> QED  BY <1>2, <2>1
<1>4. \E x \in T : \A y \in T : x >= y  BY <1>3, Zenon
<1>5. Max(T) \in T /\ \A y \in T : Max(T) >= y  BY <1>4, Zenon DEF Max
<1> QED  BY <1>5, Zenon

\* log_max in shift_pacsave: no copy has a higher number, and there is room above.
LEMMA LogMaxIsLast ==
  ASSUME TypeOK, saves[MaxSave] = Nothing
  PROVE  /\ LogMax \in 0..MaxSave /\ LogMax < MaxSave
         /\ PlainName => \A n \in 0..MaxSave : n > LogMax => saves[n] = Nothing
<1>1. MaxSave \in Nat /\ MaxSave > 0  BY ConstAssumption
<1>2. CASE Numbers = {}
  <2>1. LogMax = 0  BY <1>2, Zenon DEF LogMax
  <2> QED  BY <1>1, <1>2, <2>1 DEF Numbers
<1>3. CASE Numbers # {}
  <2>1. Numbers \subseteq 0..MaxSave /\ \A n \in Numbers : saves[n] # Nothing
    BY <1>1 DEF Numbers
  <2>2. Max(Numbers) \in Numbers /\ \A n \in Numbers : n <= Max(Numbers)
    BY <1>1, <1>3, <2>1, MaxIsGreatest, Zenon
  <2>3. LogMax = Max(Numbers)  BY <1>3, Zenon DEF LogMax
  <2>4. LogMax \in 0..MaxSave /\ saves[LogMax] # Nothing  BY <2>1, <2>2, <2>3, Zenon
  <2>5. PlainName => \A n \in 1..MaxSave : saves[n] # Nothing => n \in Numbers
    BY Zenon DEF Numbers
  <2>6. ASSUME PlainName, NEW n \in 0..MaxSave, n > LogMax PROVE saves[n] = Nothing
    <3>1. n \in 1..MaxSave /\ ~(n <= LogMax)  BY <1>1, <2>4, <2>6
    <3> QED  BY <2>2, <2>3, <2>5, <2>6, <3>1, Zenon
  <2> QED  BY <1>1, <2>4, <2>6
<1> QED  BY <1>2, <1>3, Zenon

-----------------------------------------------------------------------------
(* The invariant holds at first and the user's steps keep it.              *)

\* Nothing is no content, no record and no hash.
LEMMA NothingElse ==
  /\ Nothing \notin Packaged \cup Edited \cup {Partial, Null}
  /\ \A r \in NewSays \cup [backup : OldSays] : r # Nothing
  /\ Packaged \cap Edited = {} /\ Partial \notin Packaged \cup Edited
  /\ Null \notin Packaged \cup Edited
BY ConstAssumption, Zenon DEF Contents

\* A fresh system satisfies the invariant.
LEMMA InitIInv == Init => IInv
<1> SUFFICES ASSUME Init PROVE IInv  BY Zenon
<1>1. TypeOK
  <2>1. 0 \in 0..MaxSave /\ 0 \in 0..MaxOps  BY ConstAssumption
  <2>2. saves \in [0..MaxSave -> Contents \cup {Nothing}]  BY Zenon DEF Init
  <2> QED  BY <2>1, <2>2, Zenon DEF Init, TypeOK, Labels
<1>2. Records /\ Room  BY Zenon DEF Init, Records, Room
<1>3. DocumentedOutcome  BY Zenon DEF Init, DocumentedOutcome
<1>4. EditsKept  BY Zenon DEF Init, EditsKept
<1> QED  BY <1>1, <1>2, <1>3, <1>4, Zenon DEF Init, IInv

\* The user writes the file.
LEMMA EditStep == ASSUME IInv, edit PROVE IInv'
<1>1. PICK c \in (Packaged \cup Edited \cup {Nothing}) \ {file} :
        file' = c /\ edits' = (edits \ {file}) \cup ({c} \cap Edited)
  BY Zenon DEF edit
<1>2. /\ pc = "idle"
      /\ UNCHANGED <<pacnew, saves, db, pc, kind, old, new, isnewfile, hash, shift, start, failed,
                     lossy, ops, NoUpgrade>>
  BY Zenon DEF edit, job
<1>3. TypeOK'  BY <1>1, <1>2 DEF IInv, TypeOK, Contents
<1>4. Records' /\ Room'  BY <1>2, Zenon DEF IInv, Records, Room
<1>5. DocumentedOutcome'  BY <1>2, Zenon DEF DocumentedOutcome
<1>6. PlainName => EditsKept'
  BY <1>1, <1>2, Zenon DEF IInv, EditsKept
<1> QED  BY <1>2, <1>3, <1>4, <1>5, <1>6, Zenon DEF IInv

\* The user deletes a copy.
LEMMA DeleteStep == ASSUME IInv, delete_copy PROVE IInv'
<1>1. /\ pc = "idle"
      /\ UNCHANGED <<file, db, pc, kind, old, new, isnewfile, hash, shift, start, failed,
                     lossy, ops, NoUpgrade>>
  BY Zenon DEF delete_copy, job
<1>2. CASE pacnew' = Nothing /\ UNCHANGED <<saves, edits>>
  <2>1. TypeOK'  BY <1>1, <1>2 DEF IInv, TypeOK
  <2>2. Records' /\ Room'  BY <1>1, <1>2, Zenon DEF IInv, Records, Room
  <2>3. DocumentedOutcome'  BY <1>1, Zenon DEF DocumentedOutcome
  <2>4. PlainName => EditsKept'  BY <1>1, <1>2, Zenon DEF IInv, EditsKept
  <2> QED  BY <1>1, <2>1, <2>2, <2>3, <2>4, Zenon DEF IInv
<1>3. ASSUME NEW n \in 0..MaxSave, saves' = [saves EXCEPT ![n] = Nothing],
             edits' = edits \ {saves[n]}, UNCHANGED pacnew
      PROVE  IInv'
  <2>1. TypeOK'  BY <1>1, <1>3 DEF IInv, TypeOK
  <2>2. Records' /\ Room'  BY <1>1, Zenon DEF IInv, Records, Room
  <2>3. DocumentedOutcome'  BY <1>1, Zenon DEF DocumentedOutcome
  <2>4. ASSUME PlainName PROVE EditsKept'
    <3>1. \A m \in 0..MaxSave : m # n => saves'[m] = saves[m]  BY <1>3, Zenon DEF IInv, TypeOK
    <3>2. ~lossy => \A u \in edits' : u # saves[n] /\ u \in edits  BY <1>3, Zenon
    <3> QED  BY <1>1, <2>4, <3>1, <3>2, Zenon DEF IInv, EditsKept
  <2> QED  BY <1>1, <2>1, <2>2, <2>3, <2>4, Zenon DEF IInv
<1> QED  BY <1>2, <1>3, Zenon DEF delete_copy

-----------------------------------------------------------------------------
(* A transaction begins.                                                   *)

\* What all beginnings have in common: the invariant but for the way that is taken.
LEMMA Begins ==
  ASSUME IInv, NEW k \in {"install", "move", "remove", "purge"},
         NEW w \in NewSays \cup {Nothing}, begin(k, db, w),
         pc' \in {"unlink_file", "entry", "extract"}
  PROVE  /\ TypeOK' /\ Records' /\ Room' /\ DocumentedOutcome' /\ (PlainName => EditsKept')
         /\ UNCHANGED <<file, pacnew, saves, db, shift, lossy, NoUpgrade>>
         /\ kind' = k /\ old' = db /\ new' = w /\ start' = file /\ failed' = {}
         /\ start' \in edits' => KeepsStart'
<1>1. /\ pc = "idle" /\ saves[MaxSave] = Nothing /\ ops' = ops + 1 /\ ops < MaxOps
      /\ UNCHANGED <<file, pacnew, saves, db, shift, lossy, NoUpgrade>>
      /\ kind' = k /\ old' = db /\ new' = w /\ start' = file /\ failed' = {}
      /\ hash' = Nothing /\ isnewfile' = FALSE
      /\ edits' = IF Promised(k, db, w) THEN edits ELSE edits \ {file}
  BY Zenon DEF begin, copies
<1>2. edits' \subseteq edits /\ (file \in edits' => Promised(k, db, w))  BY <1>1, Zenon
<1>3. TypeOK'
  <2>1. ops' \in 0..MaxOps  BY <1>1, ConstAssumption DEF IInv, TypeOK
  <2>2. edits' \subseteq Edited  BY <1>2, Zenon DEF IInv, TypeOK
  <2> QED  BY <1>1, <2>1, <2>2 DEF IInv, TypeOK, Labels
<1>4. Records'  BY <1>1, Zenon DEF IInv, Records
<1>5. Room'  BY <1>1, Zenon DEF Room
<1>6. DocumentedOutcome'  BY <1>1, Zenon DEF DocumentedOutcome
<1>7. PlainName => EditsKept'  BY <1>1, <1>2, Zenon DEF IInv, EditsKept
<1>8. start' \in edits' => KeepsStart'  BY <1>1, <1>2, Zenon DEF Promised, KeepsStart
<1> QED  BY <1>1, <1>3, <1>4, <1>5, <1>6, <1>7, <1>8, Zenon

\* An install or upgrade begins.
LEMMA InstallStep == ASSUME IInv, install PROVE IInv'
<1>1. PICK w \in NewSays \cup {Nothing} :
        /\ ~Conflict(db, w) /\ (w = Nothing => Listed(db)) /\ begin("install", db, w)
        /\ pc' = IF Listed(db) THEN IF Skips("install", w) THEN "entry" ELSE "unlink_file"
                 ELSE "extract"
  BY Zenon DEF install
<1>2. /\ TypeOK' /\ Records' /\ Room' /\ DocumentedOutcome' /\ (PlainName => EditsKept')
      /\ UNCHANGED <<file, pacnew, saves, db, shift, lossy, NoUpgrade>>
      /\ kind' = "install" /\ old' = db /\ new' = w /\ start' = file /\ failed' = {}
      /\ start' \in edits' => KeepsStart'
  BY <1>1, Begins, Zenon
<1>3. Way'  BY <1>1, <1>2, Zenon DEF Way, Skips, Listed
<1>4. Smooth'
  <2>1. CASE pc' = "extract"
    <3>1. db = Nothing /\ w # Nothing  BY <1>1, <2>1, Zenon DEF Listed
    <3>2. ~w.backup => file = Nothing  BY <1>1, <3>1, Zenon DEF Conflict
    <3> QED  BY <1>2, <2>1, <3>2, Zenon DEF Smooth
  <2>2. CASE pc' = "entry"  BY <1>1, <1>2, <2>2, Zenon DEF Smooth, Skips
  <2>3. CASE pc' = "unlink_file"  BY <1>2, <2>3, Zenon DEF Smooth
  <2> QED  BY <1>1, <2>1, <2>2, <2>3, Zenon
<1> QED  BY <1>2, <1>3, <1>4, Zenon DEF IInv

\* A transaction that gives FILE to another package begins.
LEMMA MoveStep == ASSUME IInv, move PROVE IInv'
<1>1. PICK w \in NewSays : begin("move", db, w)  BY Zenon DEF move
<1>2. pc' = "entry"  BY Zenon DEF move
<1>3. /\ TypeOK' /\ Records' /\ Room' /\ DocumentedOutcome' /\ (PlainName => EditsKept')
      /\ UNCHANGED <<file, pacnew, saves, db, shift, lossy, NoUpgrade>>
      /\ kind' = "move" /\ old' = db /\ new' = w /\ start' = file /\ failed' = {}
      /\ start' \in edits' => KeepsStart'
  BY <1>1, <1>2, Begins, Zenon
<1>4. Way' /\ Smooth'  BY <1>2, <1>3, Zenon DEF Way, Smooth
<1> QED  BY <1>3, <1>4, Zenon DEF IInv

\* A removal begins.
LEMMA RemoveStep == ASSUME IInv, remove PROVE IInv'
<1>1. PICK k \in {"remove", "purge"} : begin(k, db, Nothing)  BY Zenon DEF remove
<1>2. pc' = (IF NoUpgrade THEN "entry" ELSE "unlink_file") /\ db # Nothing  BY Zenon DEF remove, Listed
<1>3. /\ TypeOK' /\ Records' /\ Room' /\ DocumentedOutcome' /\ (PlainName => EditsKept')
      /\ UNCHANGED <<file, pacnew, saves, db, shift, lossy, NoUpgrade>>
      /\ kind' = k /\ old' = db /\ new' = Nothing /\ start' = file /\ failed' = {}
      /\ start' \in edits' => KeepsStart'
  BY <1>1, <1>2, Begins, Zenon
<1>4. Way' /\ Smooth'  BY <1>2, <1>3, Zenon DEF Way, Smooth
<1> QED  BY <1>3, <1>4, Zenon DEF IInv

-----------------------------------------------------------------------------
(* The old version is removed.                                             *)

\* A failed call is noted, and the sort of call that may cost a copy as well.
LEMMA FaultOrNot ==
  ASSUME IInv, Works \/ \E c \in Faults : Fault(c)
  PROVE  /\ failed \subseteq failed' /\ failed' \subseteq Faults /\ lossy' \in BOOLEAN
         /\ lossy => lossy'
         /\ Works => failed' = failed /\ lossy' = lossy
<1>1. CASE Works  BY <1>1, Zenon DEF Works, IInv, TypeOK
<1>2. ASSUME NEW c \in Faults, Fault(c)
      PROVE  /\ failed \subseteq failed' /\ failed' \subseteq Faults /\ lossy' \in BOOLEAN
             /\ lossy => lossy'
  BY <1>2, Zenon DEF Fault, IInv, TypeOK
<1> QED  BY <1>1, <1>2, Zenon DEF Works

\* unlink_file either leaves FILE to shift_pacsave or unlinks what nobody wrote.
LEMMA UnlinkStep == ASSUME IInv, unlink_file PROVE IInv'
<1>1. /\ pc = "unlink_file" /\ pc' \in {"entry", "shift", "save"} /\ shift' = LogMax
      /\ file' \in {file, Nothing}
      /\ UNCHANGED <<pacnew, saves, db, kind, old, new, isnewfile, hash, start, edits, ops, NoUpgrade>>
  BY Zenon DEF unlink_file
<1>2. TypeOK /\ Records /\ Room /\ Way /\ Smooth /\ file = start /\ ~NoUpgrade
  BY <1>1, Zenon DEF IInv, Way
<1>3. Works \/ \E c \in Faults : Fault(c)  BY Zenon DEF unlink_file, Fault
<1>4. /\ LogMax \in 0..MaxSave /\ LogMax < MaxSave
      /\ PlainName => \A n \in 0..MaxSave : n > LogMax => saves[n] = Nothing
  BY <1>1, <1>2, LogMaxIsLast, Zenon DEF Room
<1>5. TypeOK'  BY <1>1, <1>2, <1>3, <1>4, FaultOrNot DEF TypeOK, Labels
<1>6. Records'  BY <1>1, <1>2, Zenon DEF Records
<1>7. Room'
  <2>1. PlainName => saves[LogMax + 1] = Nothing  BY <1>4, ConstAssumption
  <2>2. pc' = "save" => lossy'  BY <1>1, Zenon DEF unlink_file, Fault
  <2> QED  BY <1>1, <1>4, <2>1, <2>2, Zenon DEF Room
<1>8. Way'
  <2>1. pc' \in {"shift", "save"} =>
          file' = file /\ start # Nothing /\ old.backup \notin {Nothing, start} /\ kind # "purge"
    BY <1>1, <1>2, Zenon DEF unlink_file, OldBackup, Modified
  <2> QED  BY <1>1, <1>2, <2>1, NothingElse, Zenon DEF Way, KeepsStart
<1>9. Smooth'
  <2> SUFFICES ASSUME failed' = {}, kind = "install", pc' = "entry", new # Nothing
               PROVE  /\ ~new.backup /\ file' = Nothing
                      /\ start # Nothing /\ Orig \notin {Nothing, start} => saves[0] = start
    BY <1>1, Zenon DEF Smooth, Orig, OldBackup, Listed
  <2>1. ~new.backup  BY <1>1, <1>2, Zenon DEF Way
  <2>2. Works  BY <1>3, Zenon DEF Fault
  <2>3. file' = Nothing  BY <2>2, Zenon DEF unlink_file, Fault, Works
  <2>4. ASSUME start # Nothing, Orig # Nothing PROVE Orig = start
    <3>1. OldBackup /\ Orig = old.backup  BY <2>4, Zenon DEF Orig
    <3>2. ~Modified  BY <1>2, <2>2, <2>3, <2>4, <3>1, Zenon DEF unlink_file, Fault, Works
    <3> QED  BY <1>2, <3>1, <3>2, Zenon DEF Modified
  <2> QED  BY <2>1, <2>3, <2>4, Zenon
<1>10. DocumentedOutcome'  BY <1>1, <1>2, Zenon DEF DocumentedOutcome
<1>11. ASSUME PlainName PROVE EditsKept'
  <2>1. EditsKept /\ failed \subseteq failed' /\ (lossy => lossy')
    BY <1>3, <1>11, FaultOrNot, Zenon DEF IInv
  <2>2. CASE file' = file  BY <1>1, <2>1, <2>2, Zenon DEF EditsKept
  <2>3. CASE Fault("md5_remove")  BY <2>3, Zenon DEF EditsKept, Fault
  <2>4. CASE file # Nothing /\ ~(OldBackup /\ kind # "purge" /\ Modified)
    <3>1. start \notin edits
      BY <1>1, <1>2, <2>4, Zenon DEF Way, KeepsStart, OldBackup, Listed, Modified
    <3> QED  BY <1>1, <1>2, <2>1, <3>1, Zenon DEF EditsKept
  <2> QED  BY <2>2, <2>3, <2>4, Zenon DEF unlink_file
<1> QED  BY <1>1, <1>5, <1>6, <1>7, <1>8, <1>9, <1>10, <1>11, Zenon DEF IInv

\* A turn of shift_pacsave moves a copy to a free name.
LEMMA ShiftStep == ASSUME IInv, shift_pacsave PROVE IInv'
<1>1. /\ pc = "shift" /\ pc' \in {"shift", "save"}
      /\ UNCHANGED <<file, pacnew, db, kind, old, new, isnewfile, hash, start, edits, ops, NoUpgrade>>
      /\ \/ shift = 0 /\ pc' = "save" /\ shift' = shift
         \/ shift # 0 /\ pc' = "shift" /\ shift' = shift - 1
  BY Zenon DEF shift_pacsave
<1>2. /\ TypeOK /\ Records /\ Room /\ Way /\ Smooth /\ file = start /\ ~NoUpgrade
      /\ shift \in 0..MaxSave /\ shift < MaxSave /\ MaxSave \in Nat
      /\ saves \in [0..MaxSave -> Contents \cup {Nothing}]
  BY <1>1, ConstAssumption, Zenon DEF IInv, Way, Room, TypeOK
<1>3. /\ Works \/ \E c \in Faults : Fault(c)
      /\ saves' = saves \/ saves' = [saves EXCEPT ![shift + 1] = saves[shift], ![shift] = Nothing]
  BY Zenon DEF shift_pacsave, Fault
<1>4. shift + 1 \in 0..MaxSave /\ saves[shift] \in Contents \cup {Nothing}  BY <1>2
<1>5. ASSUME ~lossy'
      PROVE  ~lossy /\ saves' = IF saves[shift] = Nothing THEN saves
                        ELSE [saves EXCEPT ![shift + 1] = saves[shift], ![shift] = Nothing]
  <2>1. ~Fault("rename_shift")  BY <1>5, Zenon DEF Fault
  <2>2. Works  BY <2>1, Zenon DEF shift_pacsave
  <2>3. ~lossy  BY <1>5, <2>2, Zenon DEF Works
  <2> QED  BY <2>1, <2>3, Zenon DEF shift_pacsave
<1>6. TypeOK'
  <2>1. saves' \in [0..MaxSave -> Contents \cup {Nothing}]  BY <1>2, <1>3, <1>4, Zenon
  <2>2. shift' \in 0..MaxSave  BY <1>1, <1>2
  <2> QED  BY <1>1, <1>2, <1>3, <2>1, <2>2, FaultOrNot DEF TypeOK, Labels
<1>7. Records'  BY <1>1, <1>2, Zenon DEF Records
<1>8. Room'
  <2>1. ~lossy' => saves'[shift] = Nothing  BY <1>2, <1>4, <1>5, Zenon
  <2>2. shift' < MaxSave  BY <1>1, <1>2
  <2>3. pc' = "shift" => shift' + 1 = shift  BY <1>1, <1>2
  <2> QED  BY <1>1, <2>1, <2>2, <2>3, Zenon DEF Room
<1>9. Way'  BY <1>1, <1>2, Zenon DEF Way, KeepsStart
<1>10. Smooth'  BY <1>1, Zenon DEF Smooth
<1>11. DocumentedOutcome'  BY <1>1, <1>2, Zenon DEF DocumentedOutcome
<1>12. ASSUME PlainName PROVE EditsKept'
  <2>1. EditsKept /\ failed \subseteq failed'  BY <1>3, <1>12, FaultOrNot, Zenon DEF IInv
  <2>2. ASSUME ~lossy', NEW u \in edits PROVE file = u \/ \E n \in 0..MaxSave : saves'[n] = u
    <3>1. ~lossy /\ (file = u \/ \E n \in 0..MaxSave : saves[n] = u)  BY <1>5, <2>1, <2>2, Zenon DEF EditsKept
    <3>2. u # Nothing  BY <1>2, NothingElse, Zenon DEF TypeOK
    <3>3. ASSUME NEW n \in 0..MaxSave, saves[n] = u PROVE \E m \in 0..MaxSave : saves'[m] = u
      <4>1. CASE saves[shift] = Nothing  BY <1>5, <2>2, <3>3, <4>1, Zenon
      <4>2. CASE saves[shift] # Nothing
        <5>1. saves' = [saves EXCEPT ![shift + 1] = saves[shift], ![shift] = Nothing]
          BY <1>5, <2>2, <4>2, Zenon
        <5>2. saves[shift + 1] = Nothing  BY <1>1, <1>2, <1>12, <3>1, Zenon DEF Room
        <5>3. CASE n = shift
          <6>1. saves'[shift + 1] = u  BY <1>2, <1>4, <3>3, <5>1, <5>3
          <6> QED  BY <1>4, <6>1, Zenon
        <5>4. CASE n # shift
          <6>1. n # shift + 1  BY <3>2, <3>3, <5>2, Zenon
          <6>2. saves'[n] = u  BY <1>2, <3>3, <5>1, <5>4, <6>1, Zenon
          <6> QED  BY <6>2, Zenon
        <5> QED  BY <5>3, <5>4, Zenon
      <4> QED  BY <4>1, <4>2, Zenon
    <3> QED  BY <3>1, <3>3, Zenon
  <2> QED  BY <1>1, <1>2, <2>1, <2>2, Zenon DEF EditsKept
<1> QED  BY <1>1, <1>6, <1>7, <1>8, <1>9, <1>10, <1>11, <1>12, Zenon DEF IInv

\* FILE becomes FILE.pacsave.
LEMMA SaveStep == ASSUME IInv, save PROVE IInv'
<1>1. /\ pc = "save" /\ pc' = "entry"
      /\ UNCHANGED <<pacnew, db, kind, old, new, isnewfile, hash, shift, start, edits, ops, NoUpgrade>>
      /\ \/ saves' = [saves EXCEPT ![0] = file] /\ file' = Nothing /\ Works
         \/ UNCHANGED <<saves, file>> /\ Fault("rename")
  BY Zenon DEF save, job
<1>2. /\ TypeOK /\ Records /\ Room /\ Way /\ Smooth /\ file = start /\ ~NoUpgrade
      /\ 0 \in 0..MaxSave /\ saves \in [0..MaxSave -> Contents \cup {Nothing}]
      /\ file \in Contents \cup {Nothing}
      /\ new # Nothing => ~new.backup
  BY <1>1, ConstAssumption DEF IInv, Way, TypeOK
<1>3. Works \/ \E c \in Faults : Fault(c)  BY <1>1, Zenon DEF Fault
<1>4. TypeOK'
  <2>1. saves' \in [0..MaxSave -> Contents \cup {Nothing}] /\ file' \in Contents \cup {Nothing}
    BY <1>1, <1>2, Zenon
  <2> QED  BY <1>1, <1>2, <1>3, <2>1, FaultOrNot DEF TypeOK, Labels
<1>5. Records' /\ Room'  BY <1>1, <1>2, Zenon DEF Records, Room
<1>6. Way'  BY <1>1, <1>2, NothingElse, Zenon DEF Way, KeepsStart
<1>7. Smooth'
  <2>1. failed' = {} => file' = Nothing /\ saves'[0] = start  BY <1>1, <1>2, Zenon DEF Fault
  <2> QED  BY <1>1, <1>2, <2>1, Zenon DEF Smooth
<1>8. DocumentedOutcome'  BY <1>1, <1>2, Zenon DEF DocumentedOutcome
<1>9. ASSUME PlainName PROVE EditsKept'
  <2>1. EditsKept /\ failed \subseteq failed' /\ (lossy => lossy')
    BY <1>3, <1>9, FaultOrNot DEF IInv
  <2>2. CASE UNCHANGED <<saves, file>>  BY <1>1, <2>1, <2>2, Zenon DEF EditsKept
  <2>3. CASE saves' = [saves EXCEPT ![0] = file] /\ file' = Nothing
    <3>1. saves'[0] = start  BY <1>2, <2>3, Zenon
    <3>2. ASSUME ~lossy', NEW u \in edits PROVE \E n \in 0..MaxSave : saves'[n] = u
      <4>1. file = u \/ \E n \in 0..MaxSave : saves[n] = u  BY <2>1, <3>2, Zenon DEF EditsKept
      <4>2. u # Nothing  BY <1>2, NothingElse, Zenon DEF TypeOK
      <4>3. CASE file = u  BY <1>2, <3>1, <4>3, Zenon
      <4>4. ASSUME NEW n \in 0..MaxSave, saves[n] = u PROVE saves'[n] = u
        <5>1. saves[0] = Nothing  BY <1>1, <1>2, <1>9, <2>1, <3>2, Zenon DEF Room
        <5> QED  BY <1>2, <2>3, <4>2, <4>4, <5>1, Zenon
      <4> QED  BY <4>1, <4>3, <4>4, Zenon
    <3> QED  BY <1>1, <1>2, <3>1, <3>2, Zenon DEF EditsKept
  <2> QED  BY <1>1, <2>2, <2>3, Zenon
<1> QED  BY <1>1, <1>4, <1>5, <1>6, <1>7, <1>8, <1>9, Zenon DEF IInv

\* The database entry of the old version goes.
LEMMA EntryStep == ASSUME IInv, entry_removed PROVE IInv'
<1>1. /\ pc = "entry" /\ db' = Nothing /\ pc' = IF new = Nothing THEN "idle" ELSE "extract"
      /\ UNCHANGED <<file, pacnew, saves, kind, old, new, isnewfile, hash, shift, start, edits,
                     failed, lossy, ops, NoUpgrade>>
  BY Zenon DEF entry_removed, copies, job, past
<1>2. TypeOK /\ Records /\ Room /\ Way /\ Smooth  BY <1>1, Zenon DEF IInv
<1>3. TypeOK'  BY <1>1, <1>2 DEF TypeOK, Labels
<1>4. Records' /\ Room'  BY <1>1, <1>2, Zenon DEF Records, Room
<1>5. pc' # "idle" => Way'  BY <1>1, <1>2, Zenon DEF Way, KeepsStart
<1>6. pc' # "idle" => Smooth'  BY <1>1, <1>2, Zenon DEF Smooth, Orig, OldBackup, Listed
<1>7. DocumentedOutcome'  BY <1>1, <1>2, Zenon DEF DocumentedOutcome, Way
<1>8. PlainName => EditsKept'  BY <1>1, Zenon DEF IInv, EditsKept
<1> QED  BY <1>3, <1>4, <1>5, <1>6, <1>7, <1>8, Zenon DEF IInv

-----------------------------------------------------------------------------
(* The new version is unpacked.                                            *)

\* What the transaction promised to keep is never unpacked over.
LEMMA PromisedIsBeside ==
  ASSUME IInv, pc = "extract", file # Nothing, file \in edits
  PROVE  ToPacnew
<1>1. TypeOK /\ Way /\ file = start  BY Zenon DEF IInv, Way, TypeOK
<1>2. KeepsStart  BY <1>1, Zenon DEF Way
<1> QED  BY <1>2, Zenon DEF KeepsStart, ToPacnew, needbackup, Orig, OldBackup, Listed

\* A file of the user's stays where it is when an unpacking does not finish.
LEMMA UnfinishedKeeps ==
  ASSUME IInv, pc = "extract", Unfinished, UNCHANGED <<saves, edits, start>>,
         lossy => lossy', failed \subseteq failed'
  PROVE  /\ file' \in Contents \cup {Nothing} /\ pacnew' \in Packaged \cup {Partial, Nothing}
         /\ file' = file \/ (file \notin edits /\ file' \notin Edited)
         /\ PlainName => EditsKept'
         /\ NoUpgrade /\ start # Nothing => file' = file
<1>1. TypeOK /\ Way  BY Zenon DEF IInv
<1>2. /\ file' \in Contents \cup {Nothing} /\ pacnew' \in Packaged \cup {Partial, Nothing}
      /\ file' \in {file, Nothing, Partial}
  BY <1>1, Zenon DEF Unfinished, TypeOK, Contents
<1>3. ToPacnew => file' = file  BY Zenon DEF Unfinished
<1>4. file' = file \/ (file \notin edits /\ file' \notin Edited)
  <2>1. CASE file \in edits
    <3>1. file # Nothing  BY <1>1, <2>1, NothingElse, Zenon DEF TypeOK
    <3> QED  BY <1>3, <2>1, <3>1, PromisedIsBeside, Zenon
  <2>2. CASE file \notin edits  BY <1>2, <2>2, NothingElse, Zenon
  <2> QED  BY <2>1, <2>2, Zenon
<1>5. ASSUME PlainName PROVE EditsKept'
  <2>1. EditsKept  BY <1>5, Zenon DEF IInv
  <2>2. \A u \in edits : file = u => file' = u  BY <1>4, Zenon
  <2> QED  BY <2>1, <2>2, Zenon DEF EditsKept
<1>6. NoUpgrade /\ start # Nothing => file' = file
  <2>1. NoUpgrade /\ start # Nothing => ToPacnew  BY <1>1, Zenon DEF Way, ToPacnew
  <2> QED  BY <1>3, <2>1, Zenon
<1> QED  BY <1>2, <1>4, <1>5, <1>6, Zenon

\* extract_single_file up to the comparison of the three hashes.
LEMMA ExtractStep == ASSUME IInv, extract PROVE IInv'
<1>1. /\ pc = "extract" /\ pc' \in {"merge", "record"} /\ isnewfile' = (pacnew = Nothing)
      /\ UNCHANGED <<saves, db, kind, old, new, shift, start, edits, ops, NoUpgrade>>
  BY Zenon DEF extract
<1>2. /\ TypeOK /\ Records /\ Room /\ Way /\ Smooth /\ new # Nothing /\ new \in NewSays
      /\ new.content \in Packaged /\ new.backup \in BOOLEAN
  BY <1>1, Zenon DEF IInv, Way, TypeOK, NewSays
<1>3. Works \/ \E c \in Faults : Fault(c)  BY Zenon DEF extract, Fault
<1>4. /\ failed \subseteq failed' /\ failed' \subseteq Faults /\ lossy' \in BOOLEAN
      /\ lossy => lossy'
  BY <1>3, FaultOrNot, Zenon
<1>5. Records' /\ Room'  BY <1>1, <1>2, Zenon DEF Records, Room
<1>6. CASE Unfinished /\ Fault("extract") /\ pc' = "record" /\ UNCHANGED hash
  <2>1. /\ file' \in Contents \cup {Nothing} /\ pacnew' \in Packaged \cup {Partial, Nothing}
        /\ file' = file \/ (file \notin edits /\ file' \notin Edited)
        /\ PlainName => EditsKept'
        /\ NoUpgrade /\ start # Nothing => file' = file
    BY <1>1, <1>4, <1>6, UnfinishedKeeps, Zenon
  <2>2. TypeOK'  BY <1>1, <1>2, <1>4, <1>6, <2>1, Zenon DEF TypeOK, Labels
  <2>3. Way'  BY <1>1, <1>2, <1>6, <2>1, Zenon DEF Way, KeepsStart
  <2>4. failed' # {}  BY <1>6, Zenon DEF Fault
  <2>5. Smooth'  BY <2>4, Zenon DEF Smooth
  <2>6. DocumentedOutcome'  BY <1>1, <1>2, <2>1, <2>4, Zenon DEF DocumentedOutcome, Way
  <2> QED  BY <1>1, <1>5, <2>1, <2>2, <2>3, <2>5, <2>6, Zenon DEF IInv
<1>7. CASE /\ IF ToPacnew THEN pacnew' = new.content /\ UNCHANGED file
                          ELSE file' = new.content /\ UNCHANGED pacnew
           /\ pc' = IF needbackup THEN "merge" ELSE "record"
           /\ \/ hash' = (IF new.backup THEN Md5Unpacked ELSE Nothing) /\ Works
              \/ new.backup /\ hash' = Nothing /\ Fault("md5")
  <2>1. /\ hash' \in {new.content, Nothing}
        /\ failed' = {} /\ new.backup => hash' = new.content
    BY <1>7, Zenon DEF Md5Unpacked, Fault
  <2>2. TypeOK'
    <3>1. file' \in Contents \cup {Nothing} /\ pacnew' \in Packaged \cup {Partial, Nothing}
      BY <1>2, <1>7, Zenon DEF TypeOK, Contents
    <3>2. hash' \in Packaged \cup {Nothing}  BY <1>2, <2>1, Zenon
    <3>3. isnewfile' \in BOOLEAN  BY <1>1, Zenon
    <3> QED  BY <1>1, <1>2, <1>4, <3>1, <3>2, <3>3, Zenon DEF TypeOK, Labels
  <2>3. needbackup => ToPacnew /\ file # Nothing /\ ~NoUpgrade  BY Zenon DEF needbackup, ToPacnew
  <2>4. NoUpgrade /\ start # Nothing => ToPacnew /\ file = start
    BY <1>1, <1>2, Zenon DEF Way, ToPacnew
  <2>5. Way'  BY <1>1, <1>2, <1>7, <2>1, <2>3, <2>4, NothingElse, Zenon DEF Way, KeepsStart
  <2>6. Smooth'
    <3> SUFFICES ASSUME failed' = {}, kind = "install", ~NoUpgrade, needbackup
                 PROVE  new.backup /\ file' = start /\ hash' = new.content
      BY <1>1, <1>7, Zenon DEF Smooth
    <3>1. failed = {} /\ file # Nothing  BY <1>4, <2>3, Zenon
    <3>2. new.backup /\ file = start  BY <1>1, <1>2, <3>1, Zenon DEF Smooth
    <3> QED  BY <1>7, <2>1, <2>3, <3>2, Zenon
  <2>7. DocumentedOutcome'
    <3>1. NoUpgrade /\ start # Nothing => file' = start  BY <1>7, <2>4, Zenon
    <3>2. ASSUME pc' = "record", failed' = {}, kind = "install", ~NoUpgrade
          PROVE  /\ file' = new.content /\ ~needbackup
                 /\ start # Nothing /\ new.backup => FALSE
                 /\ start # Nothing /\ Orig \notin {Nothing, start} => saves[0] = start
      <4>1. ~needbackup /\ failed = {}  BY <1>4, <1>7, <3>2, Zenon
      <4>2. ~ToPacnew  BY <3>2, <4>1, Zenon DEF ToPacnew
      <4>3. file' = new.content  BY <1>7, <4>2, Zenon
      <4>4. start # Nothing /\ new.backup => FALSE
        BY <1>1, <1>2, <3>2, <4>1, Zenon DEF Smooth, needbackup
      <4>5. start # Nothing /\ Orig \notin {Nothing, start} => saves[0] = start
        BY <1>1, <1>2, <3>2, <4>1, <4>4, Zenon DEF Smooth
      <4> QED  BY <4>1, <4>3, <4>4, <4>5, Zenon
    <3>3. Orig' = Orig  BY <1>1, Zenon DEF Orig, OldBackup, Listed
    <3> QED  BY <1>1, <3>1, <3>2, <3>3, Zenon DEF DocumentedOutcome
  <2>8. ASSUME PlainName PROVE EditsKept'
    <3>1. EditsKept  BY <2>8, Zenon DEF IInv
    <3>2. \A u \in edits : file = u => file' = u
      BY <1>1, <1>2, <1>7, PromisedIsBeside, NothingElse, Zenon DEF TypeOK
    <3> QED  BY <1>1, <1>4, <3>1, <3>2, Zenon DEF EditsKept
  <2> QED  BY <1>1, <1>5, <2>2, <2>5, <2>6, <2>7, <2>8, Zenon DEF IInv
<1> QED  BY <1>6, <1>7, Zenon DEF extract

\* The hash in the installed package's backup list is never that of a file the user
\* wrote.
LEMMA OrigIsPackaged == ASSUME IInv PROVE Orig \in Hashes
BY Zenon DEF IInv, Records, Orig, OldBackup, Listed, Hashes

\* The comparison of the three hashes.
LEMMA MergeStep == ASSUME IInv, merge PROVE IInv'
<1>1. /\ pc = "merge" /\ pc' = "record"
      /\ UNCHANGED <<saves, db, kind, old, new, isnewfile, hash, shift, start, edits, ops, NoUpgrade>>
  BY Zenon DEF merge, job
<1>2. /\ TypeOK /\ Records /\ Room /\ Way /\ Smooth /\ new # Nothing /\ ~NoUpgrade
      /\ pacnew = new.content /\ hash \in {new.content, Nothing} /\ file # Nothing
      /\ new.content \in Packaged
  BY <1>1, Zenon DEF IInv, Way, TypeOK, NewSays
<1>3. PICK local \in Md5(file), pkg \in IF new.backup THEN {hash} ELSE Md5(pacnew) :
        LET act == Action(local, pkg) IN
        \/ /\ IF Nothing \in {local, pkg} THEN Fault("md5") ELSE Works
           /\ \/ act = "install" /\ Renamed
              \/ /\ act = "leave" /\ UNCHANGED file
                 /\ pacnew' = IF isnewfile THEN Nothing ELSE pacnew
              \/ act = "keep" /\ UNCHANGED <<file, pacnew>>
        \/ act = "install" /\ Fault("rename") /\ UNCHANGED <<file, pacnew>>
  BY Zenon DEF merge
<1>4. local \in {file, Nothing} /\ pkg \in {new.content, Nothing}
  BY <1>2, Zenon DEF Md5
<1>5. Works \/ \E c \in Faults : Fault(c)  BY <1>3, Zenon DEF Fault
<1>6. /\ failed \subseteq failed' /\ failed' \subseteq Faults /\ lossy' \in BOOLEAN
      /\ lossy => lossy'
  BY <1>5, FaultOrNot, Zenon
<1>7. file' = file \/ (Action(local, pkg) = "install" /\ file' = new.content)
  BY <1>2, <1>3, Zenon DEF Renamed
<1>8. file \in Edited => Action(local, pkg) # "install"
  <2>1. file \in Edited => local # pkg \/ local = Nothing  BY <1>2, <1>4, NothingElse, Zenon
  <2>2. file \in Edited => Orig # file  BY OrigIsPackaged, NothingElse, Zenon DEF Hashes
  <2> QED  BY <1>4, <2>1, <2>2, Zenon DEF Action
<1>9. file' = file \/ (file \notin Edited /\ file' \notin Edited)
  BY <1>2, <1>7, <1>8, NothingElse, Zenon
<1>10. TypeOK'
  <2>1. file' \in Contents \cup {Nothing} /\ pacnew' \in Packaged \cup {Partial, Nothing}
    BY <1>2, <1>3, <1>7, Zenon DEF TypeOK, Contents, Renamed
  <2> QED  BY <1>1, <1>2, <1>6, <2>1, Zenon DEF TypeOK, Labels
<1>11. Records' /\ Room'  BY <1>1, <1>2, Zenon DEF Records, Room
<1>12. Way'  BY <1>1, <1>2, <1>9, Zenon DEF Way, KeepsStart
<1>13. Smooth'  BY <1>1, Zenon DEF Smooth
<1>14. DocumentedOutcome'
  <2> SUFFICES ASSUME failed' = {}, kind = "install"
               PROVE  IF Orig = start \/ start = new.content THEN file' = new.content
                      ELSE IF Orig = new.content THEN file' = start
                      ELSE file' = start /\ pacnew' = new.content
    <3>1. failed' = {} /\ kind = "install" => new.backup /\ start # Nothing
      BY <1>1, <1>2, <1>6, Zenon DEF Smooth
    <3>2. Orig' = Orig  BY <1>1, Zenon DEF Orig, OldBackup, Listed
    <3> QED  BY <1>1, <1>2, <3>1, <3>2, Zenon DEF DocumentedOutcome
  <2>1. new.backup /\ file = start /\ hash = new.content  BY <1>1, <1>2, <1>6, Zenon DEF Smooth
  <2>2. pkg = new.content /\ pkg # Nothing  BY <1>2, <1>3, <2>1, NothingElse, Zenon
  <2>3. ~\E c \in Faults : Fault(c)  BY Zenon DEF Fault
  <2>4. local = start /\ local # Nothing  BY <1>2, <1>3, <1>4, <2>1, <2>3, Zenon DEF Fault
  <2>5. \/ Action(local, pkg) = "install" /\ file' = new.content
        \/ Action(local, pkg) = "leave" /\ file' = start
        \/ Action(local, pkg) = "keep" /\ file' = start /\ pacnew' = new.content
    BY <1>2, <1>3, <2>1, <2>3, Zenon DEF Fault, Renamed
  <2>6. Action(local, pkg) = CASE start = new.content -> "install"
                               [] Orig = new.content  -> "leave"
                               [] Orig = start        -> "install"
                               [] OTHER               -> "keep"
    BY <2>2, <2>4, Zenon DEF Action
  <2> QED  BY <2>5, <2>6, Zenon
<1>15. ASSUME PlainName PROVE EditsKept'
  <2>1. EditsKept  BY <1>15, Zenon DEF IInv
  <2>2. \A u \in edits : file = u => file' = u  BY <1>2, <1>9, Zenon DEF TypeOK
  <2> QED  BY <1>1, <1>2, <1>6, <2>1, <2>2, Zenon DEF EditsKept, TypeOK
<1> QED  BY <1>1, <1>10, <1>11, <1>12, <1>13, <1>14, <1>15, Zenon DEF IInv

\* The new entry is written.
LEMMA RecordedStep == ASSUME IInv, recorded PROVE IInv'
<1>1. /\ pc = "record" /\ pc' = "idle"
      /\ UNCHANGED <<file, pacnew, saves, kind, old, new, isnewfile, hash, shift, start, edits,
                     failed, lossy, ops, NoUpgrade>>
      /\ db' = [backup |-> IF ~new.backup THEN Nothing
                           ELSE IF hash = Nothing THEN Null ELSE hash]
  BY Zenon DEF recorded, copies, job, past
<1>2. TypeOK /\ Records  BY Zenon DEF IInv
<1>3. db'.backup \in Hashes /\ db' \in [backup : Hashes]  BY <1>1, <1>2, Zenon DEF TypeOK, Hashes
<1>4. db' \in [backup : OldSays]  BY <1>3, Zenon DEF OldSays, Hashes, Contents
<1>5. TypeOK'  BY <1>1, <1>2, <1>4 DEF TypeOK, Labels
<1>6. Records' /\ Room' /\ DocumentedOutcome'
  BY <1>1, <1>2, <1>3, Zenon DEF Records, Room, DocumentedOutcome
<1>7. PlainName => EditsKept'  BY <1>1, Zenon DEF IInv, EditsKept
<1> QED  BY <1>1, <1>5, <1>6, <1>7, Zenon DEF IInv

\* The process dies.
LEMMA CrashStep == ASSUME IInv, Crash PROVE IInv'
<1>1. /\ pc # "idle" /\ pc' = "idle"
      /\ UNCHANGED <<saves, db, kind, old, new, isnewfile, hash, shift, start, edits,
                     failed, lossy, ops, NoUpgrade>>
      /\ IF pc = "extract" THEN Unfinished ELSE UNCHANGED <<file, pacnew>>
  BY Zenon DEF Crash, job, past
<1>2. TypeOK /\ Records  BY DEF IInv
<1>3. /\ file' \in Contents \cup {Nothing} /\ pacnew' \in Packaged \cup {Partial, Nothing}
      /\ PlainName => EditsKept'
  <2>1. CASE pc = "extract"  BY <1>1, <2>1, UnfinishedKeeps, Zenon
  <2>2. CASE pc # "extract"  BY <1>1, <1>2, <2>2, Zenon DEF IInv, TypeOK, EditsKept
  <2> QED  BY <2>1, <2>2, Zenon
<1>4. TypeOK'  BY <1>1, <1>2, <1>3 DEF TypeOK, Labels
<1>5. Records' /\ Room' /\ DocumentedOutcome'
  BY <1>1, <1>2, Zenon DEF Records, Room, DocumentedOutcome
<1> QED  BY <1>1, <1>3, <1>4, <1>5, Zenon DEF IInv

-----------------------------------------------------------------------------
(* The theorems.                                                           *)

\* Every step keeps the invariant.
LEMMA NextIInv == IInv /\ [Next]_vars => IInv'
<1> SUFFICES ASSUME IInv, [Next]_vars PROVE IInv'  BY Zenon
<1>1. CASE UNCHANGED vars
  <2>1. UNCHANGED <<file, pacnew, saves, db, pc, kind, old, new, isnewfile, hash, shift, start,
                    edits, failed, lossy, ops, NoUpgrade>>
    BY <1>1, Zenon DEF vars, copies, job, past
  <2> QED  BY <2>1 DEF IInv, TypeOK, Records, Room, Way, KeepsStart, Smooth, DocumentedOutcome,
                       EditsKept, Orig, OldBackup, Listed
<1>2. CASE Next
  BY <1>2, EditStep, DeleteStep, InstallStep, MoveStep, RemoveStep, UnlinkStep, ShiftStep,
     SaveStep, EntryStep, ExtractStep, MergeStep, RecordedStep, CrashStep, Zenon DEF Next
<1> QED  BY <1>1, <1>2, Zenon

\* So it always holds.
LEMMA AlwaysIInv == Spec => []IInv
BY InitIInv, NextIInv, PTL DEF Spec

\* Contents, copies, records and the transaction's own state are what the code takes
\* them for; the loop of shift_pacsave stays in its bounds.
THEOREM TypeCorrect == Spec => []TypeOK
<1>1. IInv => TypeOK  BY Zenon DEF IInv
<1> QED  BY <1>1, AlwaysIInv, PTL

\* However many copies there are, what the user wrote is in FILE or in one of them
\* (unlink_file, shift_pacsave, extract_single_file), for a file whose name matches
\* itself when shift_pacsave takes it for a regular expression.
THEOREM EditsAreKept == ASSUME PlainName PROVE Spec => []EditsKept
<1>1. IInv => EditsKept  BY Zenon DEF IInv
<1> QED  BY <1>1, AlwaysIInv, PTL

\* extract_single_file and unlink_file do what the manual's table says, and leave a
\* NoUpgrade file alone in every state of a transaction.
THEOREM OutcomeAsDocumented == Spec => []DocumentedOutcome
<1>1. IInv => DocumentedOutcome  BY Zenon DEF IInv
<1> QED  BY <1>1, AlwaysIInv, PTL
=============================================================================
