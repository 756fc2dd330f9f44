------------------------------ MODULE LfsProof ------------------------------
(***************************************************************************)
(* packinstall-lfs, for every set of packages, builds and listings, every  *)
(* command line and source tree, and sessions of any length: root and      *)
(* store agree, root never builds as root, and a success is a package.     *)
(***************************************************************************)
EXTENDS Lfs, TLAPS

-----------------------------------------------------------------------------
(* The store: the inductive invariant.                                     *)

Names(p) == DOMAIN Listing[p]

\* The store without what the properties do not need.  An archive that `install`
\* takes has been made from a build of its package.
Stored ==
  /\ archive \in [Pkgs -> [state : {"none", "torn", "whole"}, dot : BOOLEAN, build : Builds \cup {1}]]
  /\ \A p \in Pkgs : archive[p].dot => archive[p].build \in Names(p)
  /\ db \in [Pkgs -> {"none", "dir", "manifest"}]
  /\ DOMAIN manifest = Pkgs
  /\ \A p \in Pkgs : manifest[p] \in Seq(AllOf(p))
  /\ cut \subseteq Pkgs /\ partial \subseteq Pkgs

\* The running command.  An install has extracted what is no longer in its list; a
\* remove has deleted what is no longer in its list, directories and what could not
\* be unlinked excepted.
Doing(op) == cmd # Idle /\ cmd.op = op

Running ==
  \/ cmd = Idle
  \/ /\ cmd \in [op : {"legacy", "install", "remove"}, pkg : Pkgs, build : Builds \cup {1},
                 step : {"tar", "extract", "entry", "rmdir"}, todo : Seq(AllOf(cmd.pkg))]
     /\ cmd.op \in {"legacy", "install"} => cmd.build \in Names(cmd.pkg)
     /\ cmd.op = "remove" => cmd.step \in {"entry", "rmdir"}

Unpacked(L, todo, r) ==
  LET done == Len(L) - Len(todo) IN
    /\ done \in Nat /\ \A n \in 1..Len(todo) : todo[n] = L[done + n]
    /\ \A n \in 1..done : L[n] = Target(PKGINFO) \/ L[n] \in r

Extracted == Doing("install") => Unpacked(Listing[cmd.pkg][cmd.build], cmd.todo, root)

Deleted ==
  Doing("remove") =>
    /\ db[cmd.pkg] = IF cmd.step = "entry" THEN "manifest" ELSE "dir"
    /\ cmd.step = "entry" =>
         \/ cmd.pkg \in cut
         \/ \A f \in (Range(manifest[cmd.pkg]) \cap root) \ Dirs : f \in Range(cmd.todo)

\* The directory above a file is there as long as the file is.
Tree == \A f \in root : \A d \in Dirs : Below(f, d) => d \in root

\* The three properties, with what excuses them made precise.
Owned ==
  \A f \in root \ (Base \cup Dirs) :
    \/ \E p \in Pkgs : f \in Listed(p)
    \/ \E p \in cut : f \in AllOf(p)
    \/ Doing("install") /\ f \in Range(Listing[cmd.pkg][cmd.build])

Whole(p) ==
  \A f \in Range(manifest[p]) \ {Target(PKGINFO)} : f \in root \/ \E q \in Pkgs \ {p} : f \in AllOf(q)

Intact ==
  \A p \in Pkgs \ cut :
    db[p] = "manifest" /\ p \notin partial /\ ~(Doing("remove") /\ cmd.pkg = p) => Whole(p)

Removable ==
  \A p \in Pkgs : db[p] = "dir" =>
    p \in cut \/ (cmd.pkg = p /\ (Doing("install") \/ Doing("remove")))

SInv == Stored /\ Running /\ Extracted /\ Deleted /\ Tree /\ Owned /\ Intact /\ Removable

-----------------------------------------------------------------------------
(* The store: lemmas.                                                      *)

\* What a sequence holds.
LEMMA RangeSeq ==
  ASSUME NEW S, NEW s \in Seq(S)
  PROVE  /\ Range(s) \subseteq S /\ \A n \in 1..Len(s) : s[n] \in Range(s)
         /\ \A x \in Range(s) : \E n \in 1..Len(s) : s[n] = x
         /\ s # <<>> => /\ Head(s) = s[1] /\ Head(s) \in S /\ Tail(s) \in Seq(S)
                        /\ Len(Tail(s)) = Len(s) - 1 /\ Len(s) > 0
                        /\ \A n \in 1..Len(Tail(s)) : Tail(s)[n] = s[n + 1]
                        /\ \A x \in Range(s) : x = Head(s) \/ x \in Range(Tail(s))
         /\ s = <<>> => Range(s) = {} /\ Len(s) = 0
<1>1. DOMAIN s = 1..Len(s) /\ Len(s) \in Nat  OBVIOUS
<1>2. Range(s) = {s[n] : n \in 1..Len(s)}  BY <1>1, Zenon DEF Range
<1>3. ASSUME s # <<>>
      PROVE  /\ Head(s) = s[1] /\ Head(s) \in S /\ Tail(s) \in Seq(S)
             /\ Len(Tail(s)) = Len(s) - 1 /\ Len(s) > 0
             /\ \A n \in 1..Len(Tail(s)) : Tail(s)[n] = s[n + 1]
  BY <1>3
<1>4. ASSUME s # <<>>, NEW x \in Range(s) PROVE x = Head(s) \/ x \in Range(Tail(s))
  <2>1. PICK n \in 1..Len(s) : x = s[n]  BY <1>2, Zenon
  <2>2. CASE n = 1  BY <1>3, <1>4, <2>1, <2>2, Zenon
  <2>3. CASE n # 1
    <3>1. n - 1 \in 1..Len(Tail(s)) /\ (n - 1) + 1 = n  BY <1>1, <1>3, <1>4, <2>3
    <3>2. Tail(s)[n - 1] = x  BY <1>3, <1>4, <2>1, <3>1, Zenon
    <3>3. DOMAIN Tail(s) = 1..Len(Tail(s))  BY <1>3, <1>4
    <3> QED  BY <3>1, <3>2, <3>3, Zenon DEF Range
  <2> QED  BY <2>2, <2>3, Zenon
<1> QED  BY <1>1, <1>2, <1>3, <1>4

\* A listing, and that a directory comes in it before what is below.
LEMMA Lists ==
  ASSUME NEW p \in Pkgs, NEW b \in Names(p)
  PROVE  /\ Listing[p][b] \in Seq(AllOf(p)) /\ Range(Listing[p][b]) \subseteq AllOf(p)
         /\ \A n \in 1..Len(Listing[p][b]), d \in Dirs :
              Below(Listing[p][b][n], d) => \E m \in 1..(n - 1) : Listing[p][b][m] = d
<1> DEFINE L == Listing[p][b]
<1>1. /\ L \in Seq(Range(L))
      /\ \A n \in DOMAIN L, d \in Dirs : Below(L[n], d) => \E m \in 1..(n - 1) : L[m] = d
  BY ListingAssumption, Zenon DEF Names
<1>2. Range(L) \subseteq AllOf(p)  BY Zenon DEF AllOf, Names
<1> HIDE DEF L
<1>3. DOMAIN L = 1..Len(L) /\ L \in Seq(AllOf(p))  BY <1>1, <1>2
<1> QED  BY <1>1, <1>2, <1>3, Zenon DEF L

\* The facts of a command of the store that the steps use.
LEMMA Command ==
  ASSUME SInv, cmd # Idle
  PROVE  /\ cmd.pkg \in Pkgs /\ cmd.todo \in Seq(AllOf(cmd.pkg)) /\ cmd.build \in Builds \cup {1}
         /\ cmd.op \in {"legacy", "install", "remove"}
         /\ cmd.op \in {"legacy", "install"} => cmd.build \in Names(cmd.pkg)
         /\ cmd.op = "remove" => cmd.step \in {"entry", "rmdir"}
BY Zenon DEF SInv, Running

\* The first state of the store.
LEMMA StoreInitInv == StoreInit => SInv
<1> SUFFICES ASSUME StoreInit PROVE SInv  BY Zenon
<1>1. cmd = Idle /\ root = Base /\ cut = {} /\ partial = {}  BY Zenon DEF StoreInit
<1>2. Stored
  <2>1. NoArchive \in [state : {"none", "torn", "whole"}, dot : BOOLEAN, build : Builds \cup {1}]
    BY ListingAssumption, Zenon DEF NoArchive
  <2>2. ~NoArchive.dot  BY Zenon DEF NoArchive
  <2> QED  BY <2>1, <2>2 DEF StoreInit, Stored
<1>3. Running /\ Extracted /\ Deleted  BY <1>1, Zenon DEF Running, Extracted, Deleted, Doing
<1>4. Tree /\ Owned  BY <1>1, ListingAssumption, Zenon DEF Tree, Owned
<1>5. Intact /\ Removable  BY Zenon DEF StoreInit, Intact, Removable
<1> QED  BY <1>2, <1>3, <1>4, <1>5, Zenon DEF SInv

\* A step with neither root nor database in it.
LEMMA Quiet ==
  ASSUME SInv, UNCHANGED <<root, db, manifest, partial>>, cut \subseteq cut', cut' \subseteq Pkgs,
         archive' \in [Pkgs -> [state : {"none", "torn", "whole"}, dot : BOOLEAN, build : Builds \cup {1}]],
         \A p \in Pkgs : archive'[p].dot => archive'[p].build \in Names(p),
         ~Doing("install"), ~Doing("remove"), ~Doing("install")', ~Doing("remove")', Running'
  PROVE  SInv'
<1>1. Stored'  BY Zenon DEF SInv, Stored
<1>2. Extracted' /\ Deleted'  BY Zenon DEF Extracted, Deleted
<1>3. Tree'  BY Zenon DEF SInv, Tree
<1>4. Owned'
  <2>1. \A p : Listed(p)' = Listed(p)  BY Zenon DEF Listed
  <2>2. Owned  BY Zenon DEF SInv
  <2> QED  BY <2>1, <2>2, Zenon DEF Owned
<1>5. Intact'
  <2>1. \A p : Whole(p)' <=> Whole(p)  BY Zenon DEF Whole
  <2>2. Intact  BY Zenon DEF SInv
  <2> QED  BY <2>1, <2>2, Zenon DEF Intact
<1>6. Removable'  BY Zenon DEF SInv, Removable
<1> QED  BY <1>1, <1>2, <1>3, <1>4, <1>5, <1>6, Zenon DEF SInv

\* Nothing that the invariant speaks of changes.
LEMMA StoreStutters ==
  ASSUME SInv, UNCHANGED <<archive, root, db, manifest, cmd, cut, partial>> PROVE SInv'
<1>1. Stored' /\ Running'  BY Zenon DEF SInv, Stored, Running
<1>2. \A op : Doing(op)' <=> Doing(op)  BY Zenon DEF Doing
<1>3. Extracted' /\ Deleted'  BY <1>2, Zenon DEF SInv, Extracted, Deleted
<1>4. Tree'  BY Zenon DEF SInv, Tree
<1>5. \A p : Listed(p)' = Listed(p)  BY Zenon DEF Listed
<1>6. \A p : Whole(p)' <=> Whole(p)  BY Zenon DEF Whole
<1>7. Owned'  BY <1>2, <1>5, Zenon DEF SInv, Owned
<1>8. Intact' /\ Removable'  BY <1>2, <1>6, Zenon DEF SInv, Intact, Removable
<1> QED  BY <1>1, <1>3, <1>4, <1>7, <1>8, Zenon DEF SInv

-----------------------------------------------------------------------------
(* The store: the steps.                                                   *)

\* create_legacy().
LEMMA LegacySteps ==
  ASSUME SInv, \/ \E p \in Pkgs : \E b \in Builds : b \in DOMAIN Listing[p] /\ LegacyBegin(p, b)
               \/ cmd # Idle /\ LegacyTar
  PROVE  SInv'
<1>1. Stored /\ cut \subseteq Pkgs  BY Zenon DEF SInv, Stored
<1>2. ASSUME NEW p \in Pkgs, NEW b \in Builds, b \in Names(p), LegacyBegin(p, b) PROVE SInv'
  <2>1. /\ cmd = Idle /\ UNCHANGED <<archive, root, db, manifest, partial, cut>>
        /\ cmd' = [op |-> "legacy", pkg |-> p, build |-> b, step |-> "tar", todo |-> <<>>]
    BY <1>2, Zenon DEF LegacyBegin, Begin
  <2>2. Running'
    <3>1. cmd' \in [op : {"legacy", "install", "remove"}, pkg : Pkgs, build : Builds \cup {1},
                    step : {"tar", "extract", "entry", "rmdir"}, todo : Seq(AllOf(cmd'.pkg))]
      BY <1>2, <2>1
    <3>2. cmd'.op = "legacy" /\ cmd'.build \in Names(cmd'.pkg)  BY <1>2, <2>1, Zenon
    <3> QED  BY <3>1, <3>2, Zenon DEF Running
  <2>3. ~Doing("install") /\ ~Doing("remove") /\ ~Doing("install")' /\ ~Doing("remove")'
    BY <2>1, Zenon DEF Doing
  <2> QED  BY <1>1, <2>1, <2>2, <2>3, Quiet, Zenon DEF Stored
<1>3. ASSUME cmd # Idle, LegacyTar PROVE SInv'
  <2>1. cmd.op = "legacy" /\ UNCHANGED <<root, db, manifest, partial, cut>> /\ cmd' = Idle
    BY <1>3, Zenon DEF LegacyTar, Ends
  <2>2. PICK st \in {"torn", "whole"} :
          archive' = [archive EXCEPT ![cmd.pkg] = [state |-> st, dot |-> TRUE, build |-> cmd.build]]
    BY <1>3, Zenon DEF LegacyTar
  <2>3. cmd.pkg \in Pkgs /\ cmd.build \in Builds \cup {1} /\ cmd.build \in Names(cmd.pkg)
    BY <1>3, <2>1, Command, Zenon
  <2>4. /\ archive' \in [Pkgs -> [state : {"none", "torn", "whole"}, dot : BOOLEAN, build : Builds \cup {1}]]
        /\ \A p \in Pkgs : archive'[p].dot => archive'[p].build \in Names(p)
    BY <1>1, <2>2, <2>3, Zenon DEF Stored
  <2>5. ~Doing("install") /\ ~Doing("remove") /\ ~Doing("install")' /\ ~Doing("remove")'
    BY <2>1, Zenon DEF Doing
  <2>6. Running'  BY <2>1, Zenon DEF Running
  <2> QED  BY <1>1, <2>1, <2>4, <2>5, <2>6, Quiet, Zenon
<1> QED  BY <1>2, <1>3, Zenon DEF Names

\* A command that is refused.
LEMMA RefusedSteps ==
  ASSUME SInv, \E p \in Pkgs : InstallRefused(p) \/ RemoveRefused(p)
  PROVE  SInv'
<1>1. cmd = Idle /\ cmd' = Idle /\ UNCHANGED <<archive, root, db, manifest, cut, partial>>
  BY Zenon DEF InstallRefused, RemoveRefused, Ends
<1> QED  BY <1>1, StoreStutters, Zenon

\* install_package() begins.
LEMMA InstallBeginStep == ASSUME SInv, NEW p \in Pkgs, InstallBegin(p) PROVE SInv'
<1> DEFINE b == archive[p].build
           L == Listing[p][b]
<1>1. /\ archive[p].dot /\ cmd = Idle /\ UNCHANGED <<archive, root, manifest, cut, partial>>
      /\ cmd' = [op |-> "install", pkg |-> p, build |-> b, step |-> "extract", todo |-> L]
      /\ db' = [db EXCEPT ![p] = IF @ = "none" THEN "dir" ELSE @]
  BY Zenon DEF InstallBegin, Begin, HasPkginfo
<1>2. Stored /\ b \in Names(p)  BY <1>1, Zenon DEF SInv, Stored
<1>3. b \in Builds \cup {1}  BY <1>2, Zenon DEF Stored
<1>4. L \in Seq(AllOf(p))  BY <1>2, Lists, Zenon
<1> HIDE DEF b, L
<1>5. cmd' # Idle /\ cmd'.op = "install" /\ cmd'.pkg = p /\ cmd'.build = b /\ cmd'.todo = L
  BY <1>1, Zenon DEF Idle
<1>6. Doing("install")' /\ ~Doing("remove")' /\ ~Doing("install") /\ ~Doing("remove")
  BY <1>1, <1>5, Zenon DEF Doing
<1>7. Stored'  BY <1>1, <1>2, Zenon DEF Stored
<1>8. Running'
  <2>1. cmd' \in [op : {"legacy", "install", "remove"}, pkg : Pkgs, build : Builds \cup {1},
                  step : {"tar", "extract", "entry", "rmdir"}, todo : Seq(AllOf(cmd'.pkg))]
    BY <1>1, <1>3, <1>4, <1>5, Zenon
  <2> QED  BY <1>2, <1>5, <2>1, Zenon DEF Running
<1>9. Extracted'
  <2>1. Listing[cmd'.pkg][cmd'.build] = L  BY <1>5, Zenon DEF L
  <2>2. Len(L) - Len(cmd'.todo) = 0 /\ Len(L) \in Nat  BY <1>4, <1>5
  <2>3. Unpacked(L, cmd'.todo, root')  BY <1>5, <2>2 DEF Unpacked
  <2> QED  BY <2>1, <2>3, Zenon DEF Extracted
<1>10. Deleted'  BY <1>6, Zenon DEF Deleted
<1>11. Tree'  BY <1>1, Zenon DEF SInv, Tree
<1>12. \A q \in Pkgs : (db'[q] = "manifest" <=> db[q] = "manifest") /\ (Whole(q)' <=> Whole(q))
  BY <1>1, <1>2, Zenon DEF Whole, Stored
<1>13. Owned'
  <2>1. \A q \in Pkgs : Listed(q)' = Listed(q)  BY <1>1, <1>12, Zenon DEF Listed
  <2>2. Owned  BY Zenon DEF SInv
  <2> QED  BY <1>1, <1>6, <2>1, <2>2, Zenon DEF Owned
<1>14. Intact'
  <2>1. Intact  BY Zenon DEF SInv
  <2> QED  BY <1>1, <1>6, <1>12, <2>1, Zenon DEF Intact
<1>15. Removable'
  <2>1. Removable  BY Zenon DEF SInv
  <2>2. \A q \in Pkgs \ {p} : db'[q] = db[q]  BY <1>1, <1>2, Zenon DEF Stored
  <2> QED  BY <1>1, <1>5, <1>6, <2>1, <2>2, Zenon DEF Removable
<1> QED  BY <1>7, <1>8, <1>9, <1>10, <1>11, <1>13, <1>14, <1>15, Zenon DEF SInv

\* The next member of a listing.
LEMMA UnpackOne ==
  ASSUME NEW S, NEW L \in Seq(S), NEW t \in Seq(S), t # <<>>, NEW r,
         Unpacked(L, t, r), Head(t) = Target(PKGINFO) \/ Head(t) \in r
  PROVE  /\ Unpacked(L, Tail(t), r) /\ Tail(t) \in Seq(S) /\ Head(t) \in Range(L)
         /\ \E n \in 1..Len(L) :
              L[n] = Head(t) /\ \A m \in 1..(n - 1) : L[m] = Target(PKGINFO) \/ L[m] \in r
<1> DEFINE done == Len(L) - Len(t)
           u == Tail(t)
<1>1. /\ u \in Seq(S) /\ Head(t) = t[1] /\ Len(u) = Len(t) - 1 /\ Len(t) > 0 /\ Len(t) \in Nat
      /\ \A n \in 1..Len(u) : u[n] = t[n + 1]
      /\ DOMAIN L = 1..Len(L) /\ Len(L) \in Nat
  BY RangeSeq
<1>2. /\ done \in Nat /\ \A n \in 1..Len(t) : t[n] = L[done + n]
      /\ \A n \in 1..done : L[n] = Target(PKGINFO) \/ L[n] \in r
  BY Zenon DEF Unpacked
<1>3. done + 1 \in 1..Len(L) /\ Len(L) - Len(u) = done + 1 /\ (done + 1) - 1 = done
  BY <1>1, <1>2
<1> HIDE DEF done, u
<1>4. L[done + 1] = Head(t)
  <2>1. 1 \in 1..Len(t)  BY <1>1
  <2> QED  BY <1>1, <1>2, <2>1, Zenon
<1>5. \A n \in 1..Len(u) : u[n] = L[(done + 1) + n]
  <2> SUFFICES ASSUME NEW n \in 1..Len(u) PROVE u[n] = L[(done + 1) + n]  BY Zenon
  <2>1. n + 1 \in 1..Len(t) /\ u[n] = t[n + 1] /\ done + (n + 1) = (done + 1) + n  BY <1>1, <1>2
  <2> QED  BY <1>2, <2>1, Zenon
<1>6. \A n \in 1..(done + 1) : L[n] = Target(PKGINFO) \/ L[n] \in r
  <2> SUFFICES ASSUME NEW n \in 1..(done + 1) PROVE L[n] = Target(PKGINFO) \/ L[n] \in r
    BY Zenon
  <2>1. n \in 1..done \/ n = done + 1  BY <1>2
  <2> QED  BY <1>2, <1>4, <2>1, Zenon
<1>7. Unpacked(L, u, r)
  <2> DEFINE e == Len(L) - Len(u)
  <2>1. e = done + 1 /\ e \in Nat  BY <1>2, <1>3
  <2> HIDE DEF e
  <2>2. \A n \in 1..Len(u) : u[n] = L[e + n]  BY <1>5, <2>1, Zenon
  <2>3. \A n \in 1..e : L[n] = Target(PKGINFO) \/ L[n] \in r  BY <1>6, <2>1, Zenon
  <2> QED  BY <2>1, <2>2, <2>3, Zenon DEF Unpacked, e
<1>8. Head(t) \in Range(L)  BY <1>1, <1>3, <1>4, Zenon DEF Range
<1>9. \E n \in 1..Len(L) :
        L[n] = Head(t) /\ \A m \in 1..(n - 1) : L[m] = Target(PKGINFO) \/ L[m] \in r
  BY <1>2, <1>3, <1>4, Zenon
<1> QED  BY <1>1, <1>7, <1>8, <1>9, Zenon DEF u

\* tar extracts a member.
LEMMA InstallExtractStep == ASSUME SInv, cmd # Idle, InstallExtract PROVE SInv'
<1> DEFINE p == cmd.pkg
           L == Listing[p][cmd.build]
           t == cmd.todo
           m == Head(t)
<1>1. /\ cmd.op = "install" /\ t # <<>> /\ cmd' = [cmd EXCEPT !.todo = Tail(t)]
      /\ root' = IF m = Target(PKGINFO) THEN root ELSE root \cup {m}
      /\ UNCHANGED <<archive, db, manifest, cut, partial>>
  BY Zenon DEF InstallExtract
<1>2. Stored /\ Running /\ Extracted /\ Tree /\ Owned /\ Intact /\ Removable  BY Zenon DEF SInv
<1>3. cmd.op = "install" /\ t # <<>>  BY <1>1, Zenon
<1>4. /\ p \in Pkgs /\ t \in Seq(AllOf(p)) /\ cmd.build \in Names(p)
      /\ Doing("install") /\ ~Doing("remove")
  BY <1>3, Command, Zenon DEF Doing
<1>5. Unpacked(L, t, root)  BY <1>2, <1>4, Zenon DEF Extracted
<1>6. /\ L \in Seq(AllOf(p))
      /\ \A n \in 1..Len(L), d \in Dirs : Below(L[n], d) => \E k \in 1..(n - 1) : L[k] = d
  <2> DEFINE b == cmd.build
  <2>1. p \in Pkgs /\ b \in Names(p)  BY <1>4, Zenon
  <2> HIDE DEF p, b
  <2>2. /\ Listing[p][b] \in Seq(AllOf(p))
        /\ \A n \in 1..Len(Listing[p][b]), d \in Dirs :
             Below(Listing[p][b][n], d) => \E k \in 1..(n - 1) : Listing[p][b][k] = d
    BY <2>1, Lists, Zenon
  <2> QED  BY <2>2, Zenon DEF b
<1>7. cmd \in [op : {"legacy", "install", "remove"}, pkg : Pkgs, build : Builds \cup {1},
               step : {"tar", "extract", "entry", "rmdir"}, todo : Seq(AllOf(p))]
  BY <1>2, Zenon DEF Running
<1> HIDE DEF p, L, t, m
<1>8. root \subseteq root' /\ (m = Target(PKGINFO) \/ m \in root') /\ \A f \in root' : f \in root \/ f = m
  BY <1>1, Zenon
<1>9. /\ Unpacked(L, Tail(t), root') /\ Tail(t) \in Seq(AllOf(p)) /\ m \in Range(L)
      /\ \E n \in 1..Len(L) :
           L[n] = m /\ \A k \in 1..(n - 1) : L[k] = Target(PKGINFO) \/ L[k] \in root'
  <2>1. Head(t) = Target(PKGINFO) \/ Head(t) \in root'  BY <1>8, Zenon DEF m
  <2>2. t # <<>> /\ t \in Seq(AllOf(p)) /\ L \in Seq(AllOf(p))  BY <1>3, <1>4, <1>6, Zenon
  <2>3. Unpacked(L, t, root')  BY <1>5, <1>8, Zenon DEF Unpacked
  <2>4. /\ Unpacked(L, Tail(t), root') /\ Tail(t) \in Seq(AllOf(p)) /\ Head(t) \in Range(L)
        /\ \E n \in 1..Len(L) :
             L[n] = Head(t) /\ \A k \in 1..(n - 1) : L[k] = Target(PKGINFO) \/ L[k] \in root'
    BY <2>1, <2>2, <2>3, UnpackOne
  <2> QED  BY <2>4, Zenon DEF m
<1>10. /\ cmd'.op = "install" /\ cmd'.pkg = cmd.pkg /\ cmd'.build = cmd.build
       /\ cmd'.todo = Tail(t)
       /\ cmd' \in [op : {"legacy", "install", "remove"}, pkg : Pkgs, build : Builds \cup {1},
                    step : {"tar", "extract", "entry", "rmdir"}, todo : Seq(AllOf(p))]
  BY <1>1, <1>7, <1>9, Zenon
<1>11. cmd' # Idle /\ cmd'.pkg = p  BY <1>10 DEF Idle, p
<1>12. Doing("install")' /\ ~Doing("remove")'  BY <1>10, <1>11, Zenon DEF Doing
<1>13. Listing[cmd'.pkg][cmd'.build] = L /\ Listing[cmd.pkg][cmd.build] = L
  BY <1>10, <1>11, Zenon DEF L, p
<1>14. UNCHANGED <<archive, db, manifest, cut, partial>>  BY <1>1, Zenon
<1>15. Stored'  BY <1>2, <1>14, Zenon DEF Stored
<1>16. Running'  BY <1>4, <1>10, <1>11, Zenon DEF Running
<1>17. Extracted'  BY <1>9, <1>10, <1>13, Zenon DEF Extracted
<1>18. Deleted'  BY <1>12, Zenon DEF Deleted
<1>19. Tree'
  <2> SUFFICES ASSUME NEW f \in root', NEW d \in Dirs, Below(f, d) PROVE d \in root'
    BY Zenon DEF Tree
  <2>1. CASE f \in root  BY <1>2, <1>8, <2>1, Zenon DEF Tree
  <2>2. CASE f = m
    <3>1. PICK n \in 1..Len(L) :
            L[n] = m /\ \A k \in 1..(n - 1) : L[k] = Target(PKGINFO) \/ L[k] \in root'
      BY <1>9, Zenon
    <3>2. PICK k \in 1..(n - 1) : L[k] = d  BY <1>6, <2>2, <3>1, Zenon
    <3> QED  BY <1>8, <3>1, <3>2, ListingAssumption, Zenon
  <2> QED  BY <1>8, <2>1, <2>2, Zenon
<1>20. \A q : Listed(q)' = Listed(q)  BY <1>14, Zenon DEF Listed
<1>21. Owned'
  <2> SUFFICES ASSUME NEW f \in root', f \notin Base \cup Dirs
               PROVE  \/ \E q \in Pkgs : f \in Listed(q)
                      \/ \E q \in cut : f \in AllOf(q)
                      \/ f \in Range(L)
    BY <1>12, <1>13, <1>14, <1>20, Zenon DEF Owned
  <2>1. CASE f \in root  BY <1>2, <1>13, <2>1, Zenon DEF Owned
  <2> QED  BY <1>8, <1>9, <2>1, Zenon
<1>22. Intact'
  <2>1. \A q : Whole(q) => Whole(q)'  BY <1>8, <1>14, Zenon DEF Whole
  <2> QED  BY <1>2, <1>4, <1>12, <1>14, <2>1, Zenon DEF Intact
<1>23. Removable'  BY <1>2, <1>4, <1>11, <1>12, <1>14, Zenon DEF Removable, p
<1> QED  BY <1>15, <1>16, <1>17, <1>18, <1>19, <1>21, <1>22, <1>23, Zenon DEF SInv

\* An install that ends without a manifest.
LEMMA InstallCut ==
  ASSUME SInv, Doing("install"), cmd' = Idle, cut' = cut \cup {cmd.pkg},
         UNCHANGED <<archive, root, db, manifest, partial>>
  PROVE  SInv'
<1> DEFINE p == cmd.pkg
<1>1. p \in Pkgs /\ cmd.build \in Names(p)  BY Command, Zenon DEF Doing
<1>2. Range(Listing[p][cmd.build]) \subseteq AllOf(p)  BY <1>1, Lists, Zenon
<1>3. Stored /\ Tree /\ Owned /\ Intact /\ Removable  BY Zenon DEF SInv
<1>4. Stored'  BY <1>1, <1>3, Zenon DEF Stored
<1>5. ~Doing("install")' /\ ~Doing("remove")' /\ ~Doing("remove")  BY Zenon DEF Doing
<1>6. Running' /\ Extracted' /\ Deleted'  BY <1>5, Zenon DEF Running, Extracted, Deleted
<1>7. Tree'  BY <1>3, Zenon DEF Tree
<1>8. Owned'
  <2>1. \A q : Listed(q)' = Listed(q)  BY Zenon DEF Listed
  <2> QED  BY <1>2, <1>3, <2>1, Zenon DEF Owned
<1>9. Intact'
  <2>1. \A q : Whole(q)' <=> Whole(q)  BY Zenon DEF Whole
  <2> QED  BY <1>3, <1>5, <2>1, Zenon DEF Intact
<1>10. Removable'  BY <1>3, <1>5, Zenon DEF Removable
<1> QED  BY <1>4, <1>6, <1>7, <1>8, <1>9, <1>10, Zenon DEF SInv

\* The manifest is saved.
LEMMA InstallRecordStep == ASSUME SInv, cmd # Idle, InstallRecord PROVE SInv'
<1>0. PICK p \in Pkgs, b \in Builds \cup {1} : p = cmd.pkg /\ b = cmd.build  BY Command, Zenon
<1> DEFINE L == Listing[p][b]
<1>1. /\ cmd.op = "install" /\ cmd.todo = <<>> /\ cmd' = Idle
      /\ manifest' = [manifest EXCEPT ![p] = L] /\ db' = [db EXCEPT ![p] = "manifest"]
      /\ partial' = partial \ {p}
      /\ cut' = cut \cup {q \in {p} : Replaced(q, L) # {}}
      /\ UNCHANGED <<archive, root>>
  BY <1>0, Zenon DEF InstallRecord, Ends, ManifestOf
<1>2. Stored /\ Extracted /\ Tree /\ Owned /\ Intact /\ Removable  BY Zenon DEF SInv
<1>3. b \in Names(p) /\ Doing("install") /\ ~Doing("remove")
  BY <1>0, <1>1, Command, Zenon DEF Doing
<1>4. ~Doing("install")' /\ ~Doing("remove")'  BY <1>1, Zenon DEF Doing
<1>5. L \in Seq(AllOf(p)) /\ Range(L) \subseteq AllOf(p)  BY <1>3, Lists, Zenon
<1>6. \A f \in Range(L) \ {Target(PKGINFO)} : f \in root
  <2>1. Unpacked(L, <<>>, root)  BY <1>0, <1>1, <1>2, <1>3, Zenon DEF Extracted
  <2> HIDE DEF L
  <2>2. Len(L) \in Nat /\ Len(L) - Len(<<>>) = Len(L)  BY <1>5
  <2>3. \A n \in 1..Len(L) : L[n] = Target(PKGINFO) \/ L[n] \in root
    BY <2>1, <2>2, Zenon DEF Unpacked
  <2> QED  BY <1>5, <2>3, RangeSeq
<1>7. Listing[cmd.pkg][cmd.build] = L  BY <1>0, Zenon
<1> HIDE DEF L
<1>8. /\ \A q \in Pkgs \ {p} : manifest'[q] = manifest[q] /\ db'[q] = db[q]
      /\ manifest'[p] = L /\ db'[p] = "manifest"
  BY <1>1, <1>2, <1>3, Zenon DEF Stored
<1>9. Stored'
  <2>1. /\ archive' = archive /\ cut' \subseteq Pkgs /\ partial' \subseteq Pkgs
        /\ db' \in [Pkgs -> {"none", "dir", "manifest"}] /\ DOMAIN manifest' = Pkgs
    BY <1>1, <1>2, <1>3, Zenon DEF Stored
  <2>2. \A q \in Pkgs : manifest'[q] \in Seq(AllOf(q))  BY <1>2, <1>5, <1>8, Zenon DEF Stored
  <2> QED  BY <1>2, <2>1, <2>2, Zenon DEF Stored
<1>10. Running' /\ Extracted' /\ Deleted'  BY <1>1, <1>4, Zenon DEF Running, Extracted, Deleted
<1>11. Tree'  BY <1>1, <1>2, Zenon DEF Tree
<1>12. Owned'
  <2> SUFFICES ASSUME NEW f \in root, f \notin Base \cup Dirs
               PROVE  (\E q \in Pkgs : f \in Listed(q)') \/ (\E q \in cut' : f \in AllOf(q))
    BY <1>1, Zenon DEF Owned
  <2>1. Listed(p)' = Range(L) /\ \A q \in Pkgs \ {p} : Listed(q)' = Listed(q)
    BY <1>8, Zenon DEF Listed
  <2>2. CASE f \in Range(L)  BY <1>3, <2>1, <2>2, Zenon
  <2>3. CASE f \in Listed(p) \ Range(L)
    <3>1. f \in Replaced(p, L)  BY <2>3, Zenon DEF Replaced
    <3>2. p \in cut'  BY <1>1, <3>1, Zenon
    <3>3. f \in AllOf(p)  BY <1>2, <1>3, <2>3, RangeSeq, Zenon DEF Stored, Listed
    <3> QED  BY <3>2, <3>3, Zenon
  <2>4. CASE \E q \in Pkgs \ {p} : f \in Listed(q)  BY <2>1, <2>4, Zenon
  <2>5. CASE \E q \in cut : f \in AllOf(q)  BY <1>1, <2>5, Zenon
  <2> QED  BY <1>2, <1>7, <2>2, <2>3, <2>4, <2>5, Zenon DEF Owned
<1>13. Intact'
  <2> SUFFICES ASSUME NEW q \in Pkgs, q \notin cut', db'[q] = "manifest", q \notin partial'
               PROVE  Whole(q)'
    BY Zenon DEF Intact
  <2>1. CASE q = p  BY <1>1, <1>6, <1>8, <2>1, Zenon DEF Whole
  <2>2. CASE q # p
    <3>1. Whole(q)  BY <1>1, <1>2, <1>3, <1>8, <2>2, Zenon DEF Intact
    <3> QED  BY <1>1, <1>8, <2>2, <3>1, Zenon DEF Whole
  <2> QED  BY <2>1, <2>2, Zenon
<1>14. Removable'
  <2> SUFFICES ASSUME NEW q \in Pkgs, db'[q] = "dir" PROVE q \in cut'  BY Zenon DEF Removable
  <2>1. q # p /\ db[q] = "dir"  BY <1>8, Zenon
  <2> QED  BY <1>0, <1>1, <1>2, <2>1, Zenon DEF Removable
<1> QED  BY <1>9, <1>10, <1>11, <1>12, <1>13, <1>14, Zenon DEF SInv

\* remove_package() begins.
LEMMA RemoveBeginStep == ASSUME SInv, NEW p \in Pkgs, RemoveBegin(p) PROVE SInv'
<1>1. /\ db[p] = "manifest" /\ cmd = Idle
      /\ cmd' = [op |-> "remove", pkg |-> p, build |-> CHOOSE b \in Builds : TRUE,
                 step |-> "entry", todo |-> manifest[p]]
      /\ UNCHANGED <<archive, root, db, manifest, cut, partial>>
  BY Zenon DEF RemoveBegin, Begin
<1>2. Stored /\ Tree /\ Owned /\ Intact /\ Removable  BY Zenon DEF SInv
<1>3. /\ cmd'.op = "remove" /\ cmd'.pkg = p /\ cmd'.step = "entry" /\ cmd'.todo = manifest[p]
      /\ cmd' # Idle
  BY <1>1, Zenon DEF Idle
<1>4. /\ Doing("remove")' /\ ~Doing("install")' /\ ~Doing("install") /\ ~Doing("remove")
  BY <1>1, <1>3, Zenon DEF Doing
<1>5. Running'
  <2>1. (CHOOSE b \in Builds : TRUE) \in Builds  BY ListingAssumption, Zenon
  <2>2. manifest[p] \in Seq(AllOf(p))  BY <1>2, Zenon DEF Stored
  <2>3. cmd' \in [op : {"legacy", "install", "remove"}, pkg : Pkgs, build : Builds \cup {1},
                  step : {"tar", "extract", "entry", "rmdir"}, todo : Seq(AllOf(cmd'.pkg))]
    BY <1>1, <1>3, <2>1, <2>2, Zenon
  <2> QED  BY <1>3, <2>3, Zenon DEF Running
<1>6. Stored' /\ Tree'  BY <1>1, <1>2, Zenon DEF Stored, Tree
<1>7. Extracted'  BY <1>4, Zenon DEF Extracted
<1>8. Deleted'  BY <1>1, <1>3, Zenon DEF Deleted
<1>9. \A q : (Listed(q)' = Listed(q)) /\ (Whole(q)' <=> Whole(q))  BY <1>1, Zenon DEF Listed, Whole
<1>10. Owned'  BY <1>1, <1>2, <1>4, <1>9, Zenon DEF Owned
<1>11. Intact'  BY <1>1, <1>2, <1>4, <1>9, Zenon DEF Intact
<1>12. Removable'  BY <1>1, <1>2, <1>4, Zenon DEF Removable
<1> QED  BY <1>5, <1>6, <1>7, <1>8, <1>10, <1>11, <1>12, Zenon DEF SInv

\* A line of the manifest: its path is deleted, or is a directory, or could not be
\* unlinked.
LEMMA RemoveEntrySteps ==
  ASSUME SInv, cmd # Idle, RemoveEntry \/ RemoveEntryFails PROVE SInv'
<1>1. PICK p \in Pkgs, t \in Seq(AllOf(cmd.pkg)) :
        p = cmd.pkg /\ t = cmd.todo /\ t # <<>> /\ cmd.op = "remove" /\ cmd.step = "entry"
  BY Command, Zenon DEF RemoveEntry, RemoveEntryFails
<1> DEFINE m == Head(t)
<1>2. UNCHANGED <<archive, db, manifest, partial>> /\ cmd' = [cmd EXCEPT !.todo = Tail(t)]
  BY <1>1, Zenon DEF RemoveEntry, RemoveEntryFails
<1>3. /\ root' \subseteq root /\ root \ {m} \subseteq root' /\ cut \subseteq cut' /\ cut' \subseteq cut \cup {p}
      /\ p \in cut' \/ m \in Dirs \/ m \notin root'
      /\ m \in root \ root' /\ m \in Dirs => Children(m) = {}
  <2>1. CASE RemoveEntry
    <3>1. root' = (IF m \in Dirs /\ Children(m) # {} THEN root ELSE root \ {m}) /\ cut' = cut
      BY <1>1, <2>1, Zenon DEF RemoveEntry
    <3> HIDE DEF m
    <3> QED  BY <3>1, Zenon
  <2>2. CASE RemoveEntryFails
    <3>1. root' = root /\ cut' = cut \cup {p}  BY <1>1, <2>2, Zenon DEF RemoveEntryFails
    <3> HIDE DEF m
    <3> QED  BY <3>1, Zenon
  <2> QED  BY <2>1, <2>2, Zenon
<1>4. /\ t \in Seq(AllOf(p)) /\ m \in AllOf(p) /\ Tail(t) \in Seq(AllOf(p))
      /\ \A x \in Range(t) : x = m \/ x \in Range(Tail(t))
  <2>1. t \in Seq(AllOf(p)) /\ t # <<>>  BY <1>1, Zenon
  <2> QED  BY <2>1, RangeSeq, Zenon
<1> HIDE DEF m
<1>5. Stored /\ Running /\ Deleted /\ Tree /\ Owned /\ Intact /\ Removable  BY Zenon DEF SInv
<1>6. cmd \in [op : {"legacy", "install", "remove"}, pkg : Pkgs, build : Builds \cup {1},
               step : {"tar", "extract", "entry", "rmdir"}, todo : Seq(AllOf(p))]
  BY <1>1, <1>5, Zenon DEF Running
<1>7. /\ cmd'.op = "remove" /\ cmd'.pkg = p /\ cmd'.step = "entry" /\ cmd'.todo = Tail(t)
      /\ cmd' \in [op : {"legacy", "install", "remove"}, pkg : Pkgs, build : Builds \cup {1},
                   step : {"tar", "extract", "entry", "rmdir"}, todo : Seq(AllOf(p))]
  <2> DEFINE u == Tail(t)
  <2>1. cmd.op = "remove" /\ cmd.step = "entry" /\ cmd.pkg = p  BY <1>1, Zenon
  <2>2. cmd' = [cmd EXCEPT !.todo = u] /\ u \in Seq(AllOf(p))  BY <1>2, <1>4, Zenon
  <2> HIDE DEF u
  <2>3. /\ cmd'.op = "remove" /\ cmd'.pkg = p /\ cmd'.step = "entry" /\ cmd'.todo = u
        /\ cmd' \in [op : {"legacy", "install", "remove"}, pkg : Pkgs, build : Builds \cup {1},
                     step : {"tar", "extract", "entry", "rmdir"}, todo : Seq(AllOf(p))]
    BY <1>6, <2>1, <2>2, Zenon
  <2> QED  BY <2>3, Zenon DEF u
<1>8. cmd' # Idle  BY <1>7 DEF Idle
<1>9. Doing("remove") /\ Doing("remove")' /\ ~Doing("install") /\ ~Doing("install")'
  BY <1>1, <1>7, <1>8, Zenon DEF Doing
<1>10. Stored'  BY <1>2, <1>3, <1>5, Zenon DEF Stored
<1>11. Running'  BY <1>7, Zenon DEF Running
<1>12. Extracted'  BY <1>9, Zenon DEF Extracted
<1>13. Deleted'
  <2>1. /\ db[p] = "manifest"
        /\ p \in cut \/ \A f \in (Range(manifest[p]) \cap root) \ Dirs : f \in Range(t)
    BY <1>1, <1>5, <1>9, Zenon DEF Deleted
  <2>2. p \in cut' \/ \A f \in (Range(manifest[p]) \cap root') \ Dirs : f \in Range(Tail(t))
    BY <1>3, <1>4, <2>1, Zenon
  <2> QED  BY <1>2, <1>7, <2>1, <2>2, Zenon DEF Deleted
<1>14. Tree'
  <2> SUFFICES ASSUME NEW f \in root', NEW d \in Dirs, Below(f, d) PROVE d \in root'
    BY Zenon DEF Tree
  <2>1. f \in root /\ d \in root  BY <1>3, <1>5, Zenon DEF Tree
  <2>2. ASSUME d \notin root' PROVE FALSE
    <3>1. d = m /\ Children(m) = {}  BY <1>3, <2>1, <2>2, Zenon
    <3> QED  BY <2>1, <3>1, Zenon DEF Children
  <2> QED  BY <2>2, Zenon
<1>15. \A q : Listed(q)' = Listed(q)  BY <1>2, Zenon DEF Listed
<1>16. Owned'  BY <1>3, <1>5, <1>9, <1>15, Zenon DEF Owned
<1>17. Intact'
  <2> SUFFICES ASSUME NEW q \in Pkgs \ {p}, q \notin cut', db[q] = "manifest", q \notin partial
               PROVE  Whole(q)'
    BY <1>2, <1>7, <1>9, Zenon DEF Intact
  <2>1. Whole(q)  BY <1>1, <1>3, <1>5, Zenon DEF Intact
  <2> SUFFICES ASSUME NEW f \in Range(manifest[q]), f # Target(PKGINFO)
               PROVE  f \in root' \/ \E x \in Pkgs \ {q} : f \in AllOf(x)
    BY <1>2, Zenon DEF Whole
  <2>2. CASE f = m  BY <1>4, <2>2, Zenon
  <2> QED  BY <1>3, <2>1, <2>2, Zenon DEF Whole
<1>18. Removable'  BY <1>1, <1>2, <1>3, <1>5, <1>7, <1>9, Zenon DEF Removable
<1> QED  BY <1>10, <1>11, <1>12, <1>13, <1>14, <1>16, <1>17, <1>18, Zenon DEF SInv

\* The manifest is unlinked: its files are gone, or the package is excused.
LEMMA RemoveUnlinkStep == ASSUME SInv, cmd # Idle, RemoveUnlink PROVE SInv'
<1>1. PICK p \in Pkgs : p = cmd.pkg  BY Command, Zenon
<1>2. /\ cmd.op = "remove" /\ cmd.step = "entry" /\ cmd.todo = <<>>
      /\ db' = [db EXCEPT ![p] = "dir"] /\ cmd' = [cmd EXCEPT !.step = "rmdir"]
      /\ UNCHANGED <<archive, root, manifest, cut, partial>>
  BY <1>1, Zenon DEF RemoveUnlink
<1>3. Stored /\ Running /\ Deleted /\ Tree /\ Owned /\ Intact /\ Removable  BY Zenon DEF SInv
<1>4. /\ cmd'.op = "remove" /\ cmd'.pkg = p /\ cmd'.step = "rmdir"
      /\ cmd' \in [op : {"legacy", "install", "remove"}, pkg : Pkgs, build : Builds \cup {1},
                   step : {"tar", "extract", "entry", "rmdir"}, todo : Seq(AllOf(p))]
  <2>1. cmd \in [op : {"legacy", "install", "remove"}, pkg : Pkgs, build : Builds \cup {1},
                 step : {"tar", "extract", "entry", "rmdir"}, todo : Seq(AllOf(p))]
    BY <1>1, <1>3, Zenon DEF Running
  <2> QED  BY <1>1, <1>2, <2>1, Zenon
<1>5. cmd' # Idle  BY <1>4 DEF Idle
<1>6. Doing("remove") /\ Doing("remove")' /\ ~Doing("install") /\ ~Doing("install")'
  BY <1>2, <1>4, <1>5, Zenon DEF Doing
<1>7. db'[p] = "dir" /\ \A q \in Pkgs \ {p} : db'[q] = db[q]  BY <1>2, <1>3, Zenon DEF Stored
<1>8. Stored'  BY <1>2, <1>3, Zenon DEF Stored
<1>9. Running' /\ Extracted'  BY <1>4, <1>6, Zenon DEF Running, Extracted
<1>10. Deleted'  BY <1>4, <1>7, Zenon DEF Deleted
<1>11. Tree'  BY <1>2, <1>3, Zenon DEF Tree
<1>12. Owned'
  <2> SUFFICES ASSUME NEW f \in root, f \notin Base \cup Dirs
               PROVE  (\E q \in Pkgs : f \in Listed(q)') \/ (\E q \in cut : f \in AllOf(q))
    BY <1>2, Zenon DEF Owned
  <2>1. \A q \in Pkgs \ {p} : Listed(q)' = Listed(q)  BY <1>2, <1>7, Zenon DEF Listed
  <2>2. ASSUME f \in Listed(p) PROVE p \in cut /\ f \in AllOf(p)
    <3>1. f \in Range(manifest[p])  BY <2>2, Zenon DEF Listed
    <3>2. f \in AllOf(p)  BY <1>3, <3>1, RangeSeq, Zenon DEF Stored
    <3>3. cmd.todo = <<>> => Range(cmd.todo) = {}
      <4>1. Range(<<>>) = {}  BY DEF Range
      <4> QED  BY <4>1, Zenon
    <3>4. p \in cut  BY <1>1, <1>2, <1>3, <1>6, <3>1, <3>3, Zenon DEF Deleted
    <3> QED  BY <3>2, <3>4, Zenon
  <2> QED  BY <1>3, <1>6, <2>1, <2>2, Zenon DEF Owned
<1>13. Intact'
  <2>1. \A q : Whole(q)' <=> Whole(q)  BY <1>2, Zenon DEF Whole
  <2> QED  BY <1>1, <1>2, <1>3, <1>7, <2>1, Zenon DEF Intact
<1>14. Removable'  BY <1>1, <1>2, <1>3, <1>4, <1>6, <1>7 DEF Removable
<1> QED  BY <1>8, <1>9, <1>10, <1>11, <1>12, <1>13, <1>14, Zenon DEF SInv

\* A remove ends: the directory is removed, or the process is killed.
LEMMA RemoveOver ==
  ASSUME SInv, Doing("remove"), cmd' = Idle, UNCHANGED <<archive, root, manifest>>,
         \/ cmd.step = "rmdir" /\ db' = [db EXCEPT ![cmd.pkg] = "none"] /\ UNCHANGED <<cut, partial>>
         \/ /\ cut' = IF cmd.step = "entry" THEN cut ELSE cut \cup {cmd.pkg}
            /\ partial' = partial \cup {cmd.pkg} /\ UNCHANGED db
  PROVE  SInv'
<1>1. PICK p \in Pkgs : p = cmd.pkg  BY Command, Zenon DEF Doing
<1>2. Stored /\ Deleted /\ Tree /\ Owned /\ Intact /\ Removable  BY Zenon DEF SInv
<1>3. db[p] = IF cmd.step = "entry" THEN "manifest" ELSE "dir"  BY <1>1, <1>2, Zenon DEF Deleted
<1>4. /\ \A q \in Pkgs \ {p} : db'[q] = db[q] /\ (q \in cut' <=> q \in cut) /\ (q \in partial' <=> q \in partial)
      /\ cut \subseteq cut' /\ (db'[p] = "manifest" <=> db[p] = "manifest")
      /\ db'[p] = "manifest" => p \in partial'
      /\ db'[p] = "dir" => p \in cut'
  BY <1>1, <1>2, <1>3, Zenon DEF Stored
<1>5. ~Doing("install")' /\ ~Doing("remove")' /\ ~Doing("install")  BY Zenon DEF Doing
<1>6. Stored'  BY <1>1, <1>2, Zenon DEF Stored
<1>7. Running' /\ Extracted' /\ Deleted'  BY <1>5, Zenon DEF Running, Extracted, Deleted
<1>8. Tree'  BY <1>2, Zenon DEF Tree
<1>9. Owned'
  <2>1. \A q \in Pkgs : Listed(q)' = Listed(q)  BY <1>4, Zenon DEF Listed
  <2> QED  BY <1>2, <1>4, <1>5, <2>1 DEF Owned
<1>10. Intact'
  <2>1. \A q : Whole(q)' <=> Whole(q)  BY Zenon DEF Whole
  <2> QED  BY <1>1, <1>2, <1>4, <2>1, Zenon DEF Intact
<1>11. Removable'  BY <1>1, <1>2, <1>4, Zenon DEF Removable
<1> QED  BY <1>6, <1>7, <1>8, <1>9, <1>10, <1>11, Zenon DEF SInv

\* Every step of the store.
LEMMA StoreStep == ASSUME SInv, StoreNext PROVE SInv'
<1>1. \A op \in {"legacy", "install", "remove"} : cmd.op = op => cmd # Idle /\ Doing(op)
  BY DEF Idle, Doing
<1>2. ASSUME InstallFails \/ InstallUnrecorded PROVE SInv'
  <2>1. /\ cmd.op = "install" /\ cmd' = Idle /\ cut' = cut \cup {cmd.pkg}
        /\ UNCHANGED <<archive, root, db, manifest, partial>>
    BY <1>2, Zenon DEF InstallFails, InstallUnrecorded, Ends
  <2> QED  BY <1>1, <2>1, InstallCut, Zenon
<1>3. ASSUME RemoveEnd PROVE SInv'
  <2>1. /\ cmd.op = "remove" /\ cmd.step = "rmdir" /\ cmd' = Idle
        /\ db' = [db EXCEPT ![cmd.pkg] = "none"]
        /\ UNCHANGED <<archive, root, manifest, cut, partial>>
    BY <1>3, Zenon DEF RemoveEnd, Ends
  <2> QED  BY <1>1, <2>1, RemoveOver, Zenon
<1>4. ASSUME Kill PROVE SInv'
  <2>1. cmd # Idle /\ cmd' = Idle /\ UNCHANGED <<root, db, manifest>>  BY <1>4, Zenon DEF Kill, Ends
  <2>2. cmd.op \in {"legacy", "install", "remove"} /\ cmd.pkg \in Pkgs  BY <2>1, Command, Zenon
  <2>3. CASE cmd.op = "legacy"
    <3>1. /\ archive' = [archive EXCEPT ![cmd.pkg] = [@ EXCEPT !.state = "torn"]]
          /\ cut' = cut \cup {cmd.pkg} /\ partial' = partial
      BY <1>4, <2>3, Zenon DEF Kill
    <3>2. Stored  BY Zenon DEF SInv
    <3>3. /\ archive' \in [Pkgs -> [state : {"none", "torn", "whole"}, dot : BOOLEAN, build : Builds \cup {1}]]
          /\ \A p \in Pkgs : archive'[p].dot => archive'[p].build \in Names(p)
      BY <2>2, <3>1, <3>2 DEF Stored
    <3>4. cut \subseteq cut' /\ cut' \subseteq Pkgs  BY <2>2, <3>1, <3>2, Zenon DEF Stored
    <3>5. ~Doing("install") /\ ~Doing("remove") /\ ~Doing("install")' /\ ~Doing("remove")'
      BY <2>1, <2>3, Zenon DEF Doing
    <3>6. Running'  BY <2>1, Zenon DEF Running
    <3> QED  BY <2>1, <3>1, <3>3, <3>4, <3>5, <3>6, Quiet, Zenon
  <2>4. CASE cmd.op = "install"
    <3>1. cut' = cut \cup {cmd.pkg} /\ partial' = partial /\ archive' = archive
      BY <1>4, <2>4, Zenon DEF Kill
    <3> QED  BY <1>1, <2>1, <2>4, <3>1, InstallCut, Zenon
  <2>5. CASE cmd.op = "remove"
    <3>1. /\ cut' = (IF cmd.step = "entry" THEN cut ELSE cut \cup {cmd.pkg})
          /\ partial' = partial \cup {cmd.pkg} /\ archive' = archive
      BY <1>4, <2>5, Zenon DEF Kill
    <3> QED  BY <1>1, <2>1, <2>5, <3>1, RemoveOver, Zenon
  <2> QED  BY <2>2, <2>3, <2>4, <2>5, Zenon
<1>5. LegacyTar => cmd # Idle  BY <1>1, Zenon DEF LegacyTar
<1>6. InstallExtract \/ InstallRecord => cmd # Idle  BY <1>1, Zenon DEF InstallExtract, InstallRecord
<1>7. RemoveEntry \/ RemoveEntryFails \/ RemoveUnlink => cmd # Idle
  BY <1>1, Zenon DEF RemoveEntry, RemoveEntryFails, RemoveUnlink
<1> QED
  BY <1>2, <1>3, <1>4, <1>5, <1>6, <1>7, LegacySteps, RefusedSteps, InstallBeginStep,
     InstallExtractStep, InstallRecordStep, RemoveBeginStep, RemoveEntrySteps,
     RemoveUnlinkStep, Zenon DEF StoreNext

\* The invariant says of the store what the properties say.
LEMMA StoreImplies == SInv => StoreAgrees
<1> SUFFICES ASSUME SInv PROVE StoreAgrees  BY Zenon
<1>1. Stored /\ Owned /\ Intact /\ Removable /\ Tree  BY Zenon DEF SInv
<1>2. \A op : Doing(op) => cmd # Idle /\ cmd.op = op  BY Zenon DEF Doing
<1>3. NoOrphans
  <2>1. ASSUME Doing("install") PROVE Range(Listing[cmd.pkg][cmd.build]) \subseteq AllOf(cmd.pkg)
    <3>1. cmd.pkg \in Pkgs /\ cmd.build \in Names(cmd.pkg)  BY <2>1, Command, Zenon DEF Doing
    <3> QED  BY <3>1, Lists, Zenon
  <2> QED  BY <1>1, <1>2, <2>1, Zenon DEF NoOrphans, Owned
<1>4. InstalledIntact
  <2> SUFFICES ASSUME NEW p \in Pkgs \ cut, db[p] = "manifest", p \notin partial, ~Busy(p),
                      NEW f \in Listed(p), f # Target(PKGINFO), f \notin root
               PROVE  /\ \E q \in Pkgs \ {p} : f \in AllOf(q)
                      /\ f \in Dirs => Children(f) = {}
    BY Zenon DEF InstalledIntact
  <2>1. Whole(p)  BY <1>1, <1>2, Zenon DEF Intact, Busy
  <2>2. \E q \in Pkgs \ {p} : f \in AllOf(q)  BY <2>1, Zenon DEF Whole, Listed
  <2>3. f \in Dirs => Children(f) = {}  BY <1>1, Zenon DEF Tree, Children
  <2> QED  BY <2>2, <2>3, Zenon
<1>5. ListedIsRemovable
  <2> SUFFICES ASSUME NEW p \in Pkgs, db[p] # "none" PROVE db[p] = "manifest" \/ p \in cut \/ Busy(p)
    BY Zenon DEF ListedIsRemovable, list_packages
  <2>1. db[p] = "dir" \/ db[p] = "manifest"  BY <1>1, Zenon DEF Stored
  <2> QED  BY <1>1, <1>2, <2>1, Zenon DEF Removable, Busy
<1> QED  BY <1>3, <1>4, <1>5, Zenon DEF StoreAgrees

-----------------------------------------------------------------------------
(* The create command.                                                     *)

\* There is at most one line of the builder in each file, the builder that makepkg
\* runs as is not root, and what build() has made is in the package.
Account ==
  /\ passwd = <<>> \/ passwd = <<"user">> \/ passwd = <<"uid0">> \/ passwd = <<"gid0">>
  /\ group = <<>> \/ group = <<"plain">> \/ group = <<"gid0">>
  /\ step \in {"group", "passwd"} => passwd = <<>>
  /\ euid0 /\ step \in {"metadata", "copy", "makepkg", "finish"} =>
       passwd = <<"user">> \/ passwd = <<"gid0">>
  /\ euid0 /\ step \in {"makepkg", "finish"} => passwd = <<"user">> /\ work = "copy"

Product ==
  /\ art \in [Products -> SUBSET {"old", "new"}]
  /\ step \in {"finish", "done"} => (wrapper.build => "new" \in made)
  /\ step = "finish" =>
       place = IF inv.output # None THEN "output" ELSE IF euid0 THEN "out" ELSE "source"
  /\ step = "done" =>
       place = (IF inv.output = None THEN "source" ELSE "output") \/ why = "could not copy"

CInv == Account /\ Product

\* package() looks where build() puts its product, for every build system.
LEMMA ProductFound == \A s : PackageInput(s) = BuildProduct(s) /\ BuildProduct(s) \in Products
BY Zenon DEF PackageInput, BuildProduct, Products

\* The first state of the create command.
LEMMA CreateInitInv == CreateInit => CInv
<1> SUFFICES ASSUME CreateInit PROVE CInv  OBVIOUS
<1>1. step = "idle" /\ art = [x \in Products |-> {}]  BY Zenon DEF CreateInit
<1>2. PICK a \in Accounts : passwd = a[1] /\ group = a[2]  BY Zenon DEF CreateInit
<1>3. Account  BY <1>1, <1>2 DEF Account, Accounts
<1> QED  BY <1>1, <1>3, Zenon DEF CInv, Product

\* A create that dies changes nothing else.
LEMMA DiesStep == ASSUME CInv, NEW r, Dies(r) PROVE CInv'
<1>1. step' = "dead" /\ UNCHANGED <<passwd, group, art>>  BY Zenon DEF Dies
<1> QED  BY <1>1, Zenon DEF CInv, Account, Product

\* Every step of the create command.
LEMMA CreateStep == ASSUME CInv, CreateNext PROVE CInv'
<1>1. Account /\ Product  BY Zenon DEF CInv
<1>2. ASSUME NEW x \in Invocations, NEW t \in Trees, CreateBegin(x, t) PROVE CInv'
  BY <1>1, <1>2, Zenon DEF CreateBegin, CInv, Account, Product
<1>3. ASSUME NEW m \in Machines, CreateCheck(m) PROVE CInv'
  <2>1. CASE step' = (IF euid0 THEN "builder" ELSE "metadata") /\ UNCHANGED <<passwd, group, euid0, art>>
    BY <1>1, <2>1, Zenon DEF CInv, Account, Product
  <2> QED  BY <1>3, <2>1, DiesStep, Zenon DEF CreateCheck
<1>4. ASSUME EnsureBuilder PROVE CInv'
  <2>1. step = "builder" /\ UNCHANGED <<euid0, art>>  BY <1>4, Zenon DEF EnsureBuilder
  <2>2. CASE passwd # <<>> /\ Head(passwd) # "uid0" /\ step' = "metadata" /\ UNCHANGED <<passwd, group>>
    BY <1>1, <2>1, <2>2 DEF CInv, Account, Product
  <2>3. CASE passwd = <<>> /\ step' = "group" /\ UNCHANGED <<passwd, group>>
    BY <1>1, <2>1, <2>3, Zenon DEF CInv, Account, Product
  <2>4. CASE passwd' = <<"user">> /\ group' = <<"plain">> /\ step' = "metadata"
    BY <1>1, <2>1, <2>4, Zenon DEF CInv, Account, Product
  <2> QED  BY <1>4, <2>2, <2>3, <2>4, DiesStep, Zenon DEF EnsureBuilder
<1>5. ASSUME AppendGroup PROVE CInv'
  <2>1. CASE /\ step = "group" /\ step' = "passwd" /\ UNCHANGED <<passwd, art, euid0>>
             /\ group' = IF group = <<>> THEN <<"plain">> ELSE group
    BY <1>1, <2>1, Zenon DEF CInv, Account, Product
  <2> QED  BY <1>5, <2>1, DiesStep, Zenon DEF AppendGroup
<1>6. ASSUME AppendPasswd PROVE CInv'
  <2>1. /\ passwd = <<>> /\ passwd' = Append(passwd, "user") /\ step' = "metadata"
        /\ UNCHANGED <<group, art, euid0>>
    BY <1>1, <1>6, Zenon DEF AppendPasswd, Account
  <2>2. passwd' = <<"user">>  BY <2>1
  <2> QED  BY <1>1, <2>1, <2>2, Zenon DEF CInv, Account, Product
<1>7. ASSUME NEW l \in Projects, Metadata(l) PROVE CInv'
  <2>1. CASE step = "metadata" /\ step' = "copy" /\ UNCHANGED <<passwd, group, euid0, art>>
    BY <1>1, <2>1, Zenon DEF CInv, Account, Product
  <2> QED  BY <1>7, <2>1, DiesStep, Zenon DEF Metadata
<1>8. ASSUME PrepareTree PROVE CInv'
  <2>1. CASE /\ step = "copy" /\ CanCopy /\ work' = (IF euid0 THEN "copy" ELSE "source")
             /\ step' = "makepkg" /\ UNCHANGED <<passwd, group, euid0, art>>
    <3>1. euid0 => passwd = <<"user">>
      BY <1>1, <2>1 DEF CanCopy, builder_gid_ok, builder_uid_ok, Account
    <3> QED  BY <1>1, <2>1, <3>1, Zenon DEF CInv, Account, Product
  <2> QED  BY <1>8, <2>1, DiesStep, Zenon DEF PrepareTree
<1>9. ASSUME ExecuteMakepkg PROVE CInv'
  <2>1. CASE /\ step = "makepkg" /\ made' = Packaged(BuiltTree)
             /\ art' = (IF work = "source" THEN BuiltTree ELSE art)
             /\ place' = (IF inv.output # None THEN "output" ELSE IF euid0 THEN "out" ELSE "source")
             /\ step' = "finish" /\ UNCHANGED <<inv, wrapper, work, passwd, group, euid0>>
    <3> DEFINE prod == BuildProduct(wrapper.system)
    <3>1. prod \in Products /\ PackageInput(wrapper.system) = prod  BY ProductFound, Zenon
    <3> HIDE DEF prod
    <3>2. /\ BuiltTree \in [Products -> SUBSET {"old", "new"}]
          /\ wrapper.build => "new" \in BuiltTree[prod]
      BY <1>1, <3>1, Zenon DEF Product, BuiltTree, prod
    <3>3. wrapper.build => "new" \in made'  BY <2>1, <3>1, <3>2, Zenon DEF Packaged
    <3>4. Product'  BY <1>1, <2>1, <3>2, <3>3, Zenon DEF Product
    <3>5. Account'  BY <1>1, <2>1, Zenon DEF Account
    <3> QED  BY <3>4, <3>5, Zenon DEF CInv
  <2> QED  BY <1>9, <2>1, DiesStep, Zenon DEF ExecuteMakepkg
<1>10. ASSUME CreateFinish PROVE CInv'
  <2>1. step = "finish" /\ step' = "done" /\ UNCHANGED <<inv, art, wrapper, made, passwd, group, euid0>>
    BY <1>10, Zenon DEF CreateFinish
  <2>2. \/ place' = IF place = "out" THEN "source" ELSE place
        \/ why' = "could not copy"
    BY <1>10, Zenon DEF CreateFinish
  <2>3. Account'  BY <1>1, <2>1, Zenon DEF Account
  <2>4. Product'  BY <1>1, <2>1, <2>2, Zenon DEF Product
  <2> QED  BY <2>3, <2>4, Zenon DEF CInv
<1>11. ASSUME CreateKill PROVE CInv'  BY <1>1, <1>11, Zenon DEF CreateKill, CInv, Account, Product
<1>12. ASSUME CreateExit PROVE CInv'
  <2>1. /\ step' = "idle" /\ UNCHANGED <<passwd, group, euid0>>
        /\ art' = [x \in Products |-> IF art[x] = {} THEN {} ELSE {"old"}]
    BY <1>12, Zenon DEF CreateExit
  <2>2. art' \in [Products -> SUBSET {"old", "new"}]  BY <2>1, Zenon
  <2> QED  BY <1>1, <2>1, <2>2, Zenon DEF CInv, Account, Product
<1> QED  BY <1>2, <1>3, <1>4, <1>5, <1>6, <1>7, <1>8, <1>9, <1>10, <1>11, <1>12, Zenon DEF CreateNext

-----------------------------------------------------------------------------
(* The theorems.                                                           *)

\* Both invariants hold in every state of a session.
LEMMA AlwaysLfs == LfsSpec => [](SInv /\ CInv)
<1>1. LfsInit => SInv /\ CInv  BY StoreInitInv, CreateInitInv, Zenon DEF LfsInit
<1>2. ASSUME SInv, CInv, LfsNext PROVE SInv' /\ CInv'
  <2>1. CASE cmd = Idle /\ CreateNext /\ Arrives /\ UNCHANGED <<root, db, manifest, cmd, cut, partial>>
    <3>1. Stored  BY <1>2, Zenon DEF SInv
    <3>2. /\ archive' \in [Pkgs -> [state : {"none", "torn", "whole"}, dot : BOOLEAN, build : Builds \cup {1}]]
          /\ \A p \in Pkgs : archive'[p].dot => archive'[p].build \in Names(p)
      <4>1. CASE archive' = archive  BY <3>1, <4>1, Zenon DEF Stored
      <4>2. CASE archive' = [archive EXCEPT ![Created] =
                               [state |-> "whole", dot |-> FALSE, build |-> 1]]
        BY <3>1, <4>2, CreatedAssumption, Zenon DEF Stored
      <4> QED  BY <2>1, <4>1, <4>2, Zenon DEF Arrives
    <3>3. ~Doing("install") /\ ~Doing("remove") /\ ~Doing("install")' /\ ~Doing("remove")' /\ Running'
      BY <2>1, Zenon DEF Doing, Running
    <3>4. cut' \subseteq Pkgs /\ cut \subseteq cut'  BY <2>1, <3>1, Zenon DEF Stored
    <3>5. SInv'  BY <1>2, <2>1, <3>2, <3>3, <3>4, Quiet, Zenon
    <3> QED  BY <1>2, <2>1, <3>5, CreateStep, Zenon
  <2>2. CASE StoreNext /\ UNCHANGED createVars
    <3>1. CInv'  BY <1>2, <2>2, Zenon DEF createVars, CInv, Account, Product
    <3> QED  BY <1>2, <2>2, <3>1, StoreStep, Zenon
  <2> QED  BY <1>2, <2>1, <2>2, Zenon DEF LfsNext
<1>3. ASSUME SInv, CInv, UNCHANGED <<storeVars, createVars>> PROVE SInv' /\ CInv'
  <2>1. SInv'  BY <1>3, StoreStutters, Zenon DEF storeVars
  <2>2. CInv'  BY <1>3, Zenon DEF createVars, CInv, Account, Product
  <2> QED  BY <2>1, <2>2, Zenon
<1>4. SInv /\ CInv /\ [LfsNext]_<<storeVars, createVars>> => (SInv /\ CInv)'  BY <1>2, <1>3, Zenon
<1> QED  BY <1>1, <1>4, PTL DEF LfsSpec

\* After any sequence of create-legacy, create, install and remove, with steps that
\* fail and processes that are killed, no file is without a package, no package without
\* its files and no package that `list` prints without its manifest, the accidents that
\* the properties name excepted.
THEOREM RootAndStoreAgree == LfsSpec => []StoreAgrees
BY AlwaysLfs, StoreImplies, PTL

\* makepkg never runs as root for `create`, and the builder has at most one line in
\* /etc/passwd and in /etc/group, however often ensure_builder() is cut short.
THEOREM RootNeverBuilds == LfsSpec => []PrivateBuild
<1>1. CInv => PrivateBuild
  <2> SUFFICES ASSUME CInv PROVE PrivateBuild  OBVIOUS
  <2>1. Account  BY Zenon DEF CInv
  <2>2. Len(passwd) <= 1 /\ Len(group) <= 1
    <3>1. Len(<<>>) <= 1 /\ \A x : Len(<<x>>) <= 1  OBVIOUS
    <3>2. passwd = <<>> \/ \E x : passwd = <<x>>  BY <2>1, Zenon DEF Account
    <3>3. group = <<>> \/ \E x : group = <<x>>  BY <2>1, Zenon DEF Account
    <3> QED  BY <3>1, <3>2, <3>3, Zenon
  <2>3. euid0 /\ step = "finish" => Head(passwd) = "user" /\ work = "copy"  BY <2>1 DEF Account
  <2> QED  BY <2>2, <2>3, Zenon DEF PrivateBuild
<1> QED  BY <1>1, AlwaysLfs, PTL

\* modern_create() succeeds only with a package where the user looks for it, and with
\* the products of the build in it, for every build system it knows or is told.
THEOREM SuccessIsAPackage == LfsSpec => []ExitMeansPackage
<1>1. CInv => ExitMeansPackage  BY Zenon DEF CInv, Product, ExitMeansPackage
<1> QED  BY <1>1, AlwaysLfs, PTL
=============================================================================
