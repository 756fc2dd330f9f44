------------------------------ MODULE SyncLoad ------------------------------
(***************************************************************************)
(* From a prepared transaction to the packages that are installed: the     *)
(* entries of the databases are replaced by the files of the cache, once   *)
(* the keys, the files and what is in them have been looked at.            *)
(*   lib/libkuzpkg/sync.c        _klpm_sync_load and what it calls         *)
(*   lib/libkuzpkg/be_package.c  _klpm_pkg_validate_internal               *)
(*   lib/libkuzpkg/signing.c                                               *)
(* How the files come into the cache is the subject of Download.           *)
(***************************************************************************)
EXTENDS SyncPrep

\* What may be in the cache for a package, and the setting of the checks:
\*   level      SigLevel of the databases: [package, optional, marginal, unknown]
\*   sum, sig   the databases give a checksum, a signature
\*   status     what gpg says of a signature by a key that it has
\*   validity   how far the key is trusted
\*   gpgme      gpg works
CONSTANTS FilesOf(_), Settings

VARIABLES
  setting,
  cache,    \* the files in the cache by package: [valid, sig, inside]
  keyring,  \* the packages whose signing key is in the keyring
  accepted  \* history: the files that were loaded, by package

loadvars == <<setting, cache, keyring, accepted>>
allvars == <<vars, loadvars>>

FromDb == {p \in Range(add) : p.db \in DOMAIN Dbs}
NoCache == [n \in {} |-> 0]

\* The setting matters only if the user proceeds.
LoadInit ==
  /\ SyncInit
  /\ setting \in IF req.proceed THEN Settings ELSE {CHOOSE s \in Settings : TRUE}
  /\ cache = NoCache /\ keyring = {} /\ accepted = NoCache

Prepare == SyncNext /\ UNCHANGED loadvars

\* The user proceeds and download_files() leaves a file, or none, for every
\* package; the keyring holds any of the keys.
download_files ==
  /\ step = "prepared" /\ req.proceed
  /\ \/ step' = "refused" /\ UNCHANGED <<cache, keyring>>
     \/ /\ step' = "keyring"
        /\ \E missing \in {{}} \cup {{p} : p \in FromDb}, odd \in FromDb \cup {NoPkg} :
           \E f \in FilesOf(odd) :
             cache' = [n \in {p.name : p \in FromDb \ missing} |->
                         IF n = odd.name THEN f
                         ELSE [valid |-> TRUE, sig |-> TRUE, inside |-> klpm_pkg_find(add, n)]]
        /\ \E S \in SUBSET Names(add) : keyring' = S
  /\ UNCHANGED <<given, i, j, retval, lists, search, conflicts, history, setting, accepted>>

\* Imports: whether the key is then in the keyring, and what is returned.  An error
\* while the keyring is searched for the key that a web key directory gave counts as
\* success.
Imported(got, ok) == [got |-> got, ok |-> ok]
key_import_wkd == {Imported(TRUE, TRUE), Imported(FALSE, TRUE), Imported(FALSE, FALSE)}
key_search_keyserver == BOOLEAN
key_import_keyserver == {Imported(TRUE, TRUE), Imported(FALSE, FALSE)}

\* _klpm_key_import(): nothing if the keyring cannot be written or the user declines;
\* else from the directory and, when that fails, from a key server.
key_import ==
  {Imported(FALSE, FALSE)}
  \cup {r \in key_import_wkd : r.ok}
  \cup (IF \E r \in key_import_wkd : ~r.ok /\ TRUE \in key_search_keyserver
        THEN key_import_keyserver ELSE {})

HasSig(n) == setting.sig \/ (n \in DOMAIN cache /\ cache[n].sig)

Got(r) == {n \in DOMAIN r : r[n].got}

\* The keys that _klpm_key_in_keychain() does not find; an error is not that.
NotInKeychain(names) == IF setting.gpgme THEN names \ keyring ELSE {}

\* check_keyring(): the keys of the signatures, imported one after the other.
check_keyring ==
  /\ step = "keyring"
  /\ LET signed == {p.name : p \in {q \in FromDb : setting.level.package /\ HasSig(q.name)}}
     IN  \E r \in [NotInKeychain(signed) -> key_import] :
           /\ keyring' = keyring \cup Got(r)
           /\ step' = IF \A n \in DOMAIN r : r[n].ok THEN "validity" ELSE "refused"
  /\ UNCHANGED <<given, i, j, retval, lists, search, conflicts, history, setting, cache, accepted>>

\* _klpm_gpgme_checksig(): an error, or the status of the signature.
gpgme_checksig(n) ==
  CASE ~HasSig(n) -> "SIG_MISSING"
    [] HasSig(n) /\ ~setting.gpgme -> "GPGME"
    [] HasSig(n) /\ setting.gpgme /\ n \notin keyring -> "KEY_UNKNOWN"
    [] HasSig(n) /\ setting.gpgme /\ n \in keyring /\ ~cache[n].valid -> "INVALID"
    [] OTHER -> setting.status

\* _klpm_check_pgp_helper()
Trusted(level) ==
  {"FULL"} \cup (IF level.marginal THEN {"MARGINAL"} ELSE {})
           \cup (IF level.unknown THEN {"UNKNOWN"} ELSE {})
check_pgp_helper(n) ==
  \/ gpgme_checksig(n) = "SIG_MISSING" /\ setting.level.optional
  \/ gpgme_checksig(n) \in {"VALID", "KEY_EXPIRED"} /\ setting.validity \in Trusted(setting.level)

\* "can we get away with skipping checksums?"
\* Mutant: a signature in the database is enough, whether or not it is looked at.
SkipSumsAnyLevel(n) == setting.sig
SkipSums(n) == setting.level.package /\ setting.sig

\* _klpm_pkg_validate_internal() of a file that is there.
pkg_validate(n) ==
  CASE ~SkipSums(n) /\ setting.sum /\ ~cache[n].valid -> "INVALID_CHECKSUM"
    [] (SkipSums(n) \/ ~setting.sum \/ cache[n].valid) /\ setting.level.package ->
         IF ~HasSig(n) /\ ~setting.level.optional THEN "MISSING_SIG"
         ELSE IF check_pgp_helper(n) THEN "OK" ELSE "INVALID_SIG"
    [] OTHER -> "OK"

\* prompt_to_delete() of the files of some packages: the user lets any of them go.
prompt_to_delete(names) ==
  \E gone \in SUBSET names : cache' = [n \in DOMAIN cache \ gone |-> cache[n]]

\* _klpm_process_siglist(): the keys that it offers to import, those that are unknown
\* or have expired.
process_siglist(names) ==
  {n \in names : gpgme_checksig(n) = "KEY_EXPIRED"}
  \cup NotInKeychain({n \in names : gpgme_checksig(n) = "KEY_UNKNOWN"})

\* check_validity(): a file that is missing ends it at once, a file in error once all
\* were looked at.  No file is looked at again, whatever keys were imported.
check_validity ==
  /\ step = "validity"
  /\ LET errors(e) == {p.name : p \in {q \in FromDb : pkg_validate(q.name) = e}}
         known == {p.name : p \in FromDb}
     IN  \/ /\ known \ DOMAIN cache # {}
            /\ step' = "refused" /\ UNCHANGED <<cache, keyring>>
         \/ /\ known \subseteq DOMAIN cache /\ errors("OK") = known
            /\ step' = IF "DOWNLOADONLY" \in req.flags THEN "downloaded" ELSE "load"
            /\ UNCHANGED <<cache, keyring>>
         \/ /\ known \subseteq DOMAIN cache /\ errors("OK") # known
            /\ step' = "refused"
            /\ prompt_to_delete(errors("INVALID_SIG") \cup errors("INVALID_CHECKSUM"))
            /\ \E r \in [process_siglist(errors("INVALID_SIG")) -> key_import] :
                 keyring' = keyring \cup Got(r)
  /\ UNCHANGED <<given, i, j, retval, lists, search, conflicts, history, setting, accepted>>

\* klpm_list_cmp_unsorted()
SameElements(s, t) ==
  /\ Len(s) = Len(t)
  /\ \A e \in Range(s) \cup Range(t) :
       Cardinality({k \in DOMAIN s : s[k] = e}) = Cardinality({k \in DOMAIN t : t[k] = e})

\* check_pkg_matches_db(); the architecture is not compared.
check_pkg_matches_db(p, f) ==
  /\ p.name = f.name /\ p.version = f.version
  /\ SameElements(p.depends, f.depends) /\ SameElements(p.conflicts, f.conflicts)
  /\ SameElements(p.replaces, f.replaces) /\ SameElements(p.provides, f.provides)
  /\ p.groups = f.groups

Loads(p) == cache[p.name].inside # NoPkg /\ check_pkg_matches_db(p, cache[p.name].inside)

\* load_packages(): the entries in trans->add become the packages of the files.
load_packages ==
  /\ step = "load"
  /\ LET good == {p \in FromDb : Loads(p)} IN
     /\ add' = [k \in DOMAIN add |-> IF add[k] \in good THEN cache[add[k].name].inside ELSE add[k]]
     /\ IF good = FromDb
        THEN step' = "loaded" /\ accepted' = cache /\ UNCHANGED cache
        ELSE /\ step' = "refused" /\ UNCHANGED accepted
             /\ prompt_to_delete({p.name : p \in FromDb \ good})
  /\ UNCHANGED <<given, i, j, retval, removes, reason, remove, search, conflicts, history,
                 setting, keyring>>

loadover == step \in {"loaded", "downloaded", "refused"} /\ UNCHANGED allvars

LoadNext == Prepare \/ download_files \/ check_keyring \/ check_validity \/ load_packages \/ loadover

\* Sequential code, as the preparation.
LoadSpec == LoadInit /\ [][LoadNext]_allvars /\ WF_allvars(LoadNext)

-----------------------------------------------------------------------------
(* Properties.                                                              *)

\* No file whose contents are not those that the packager built is installed if the
\* database gives a checksum, or a signature that the SigLevel has looked at: the
\* checksum is passed over only for a signature that is checked
\* (_klpm_pkg_validate_internal).
IntegrityChecked ==
  step = "loaded" =>
    \A n \in DOMAIN accepted :
      accepted[n].valid \/ (~setting.sum /\ ~(setting.level.package /\ HasSig(n)))

\* Where the SigLevel requires signatures, what is installed is signed by a key that
\* is in the keyring and trusted as far as the SigLevel asks, although an import may
\* report success without the key being there (key_import_wkd).
SignedAndTrusted ==
  step = "loaded" /\ setting.level.package /\ ~setting.level.optional =>
    \A n \in DOMAIN accepted :
      /\ HasSig(n) /\ n \in keyring
      /\ setting.status \in {"VALID", "KEY_EXPIRED"}
      /\ CASE setting.validity = "FULL" -> TRUE
           [] setting.validity = "MARGINAL" -> setting.level.marginal
           [] setting.validity = "UNKNOWN" -> setting.level.unknown
           [] OTHER -> FALSE

\* The transaction was checked for dependencies and conflicts as the databases
\* describe the packages; what is installed is what is in the files.  The same
\* dependencies and conflicts hold for these (check_pkg_matches_db).
LoadedAsPrepared ==
  step = "loaded" /\ "NODEPS" \notin req.flags =>
    /\ klpm_checkdeps(Local, remove, add, TRUE) = <<>>
    /\ innerconflicts = <<>> /\ Range(outerconflicts) \subseteq {<<n, m>> : n \in Names(add), m \in remove}

\* What is installed was looked at as the configuration asks, and is what the
\* transaction was prepared with.
LoadedAsChecked == IntegrityChecked /\ SignedAndTrusted /\ LoadedAsPrepared
=============================================================================
