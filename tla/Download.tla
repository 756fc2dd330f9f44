------------------------------ MODULE Download ------------------------------
(***************************************************************************)
(* The download engine (dload.c) and its clients: klpm_db_update           *)
(* (be_sync.c), download_files with check_validity (sync.c) and            *)
(* klpm_fetch_pkgurl.  A file is a sequence of blocks; a block is the      *)
(* version of the remote file it belongs to, or Html for a block of a      *)
(* server's error page.  Servers answer, fail, stop in the middle or       *)
(* change what they offer; the downloading child and the whole process may *)
(* be killed at any step.                                                  *)
(***************************************************************************)
EXTENDS Integers, Sequences, FiniteSets, SequencesExt

CONSTANTS
  Pkgs, Dbs, Urls,     \* what can be fetched: packages, databases, URLs
  Order,               \* all of them, in the order of the code's lists
  Hosts, Good,         \* the hosts, and those that never fail
  CacheServers,        \* sequence of hosts: CacheServer of a repository
  Servers,             \* sequence of hosts: Server of a repository
  server_error_limit,
  Size,                \* blocks of each payload
  Parallel,            \* handle->parallel_downloads
  SigOptional,         \* payload->signature_optional
  Modes,               \* values of <<sandbox, fetchcb is set>> that occur
  Faults,              \* the kinds of fault that may happen
  Leftovers,           \* what earlier processes may have left in the directory
  MaxOps, MaxFaults, MaxVer,
  MaxEvents            \* bound on the operations and faults together

Payloads == Pkgs \cup Dbs \cup Urls

ASSUME DownloadShape ==
  /\ Size \in [Payloads -> Nat \ {0}] /\ Parallel \in Nat \ {0} /\ server_error_limit \in Nat \ {0}
  /\ ToSet(Order) = Payloads /\ Len(Order) = Cardinality(Payloads)
  /\ ToSet(CacheServers) \cup ToSet(Servers) \cup Good \subseteq Hosts
  /\ Servers # <<>>

VARIABLES
  disk,      \* content of the files of the temporary and the final directory
  ver,       \* the version of the databases a host offers
  errors,    \* handle->server_errors
  saved,     \* the parent's errors and interrupted while a child downloads
  phase,     \* "idle", "loop", "xfer", "final" or "ret"
  op,        \* the operation: what it fetches, in which mode, and the
             \* packages whose temporary files it found complete
  force,     \* payloads to be fetched whatever their age
  todo,      \* payloads not started, or files not yet moved (phase "final")
  rest,      \* the servers a payload has left
  active,    \* transfers in progress
  unlink,    \* payloads with unlink_on_fail set on the way
  mtime,     \* payloads with mtime_existing_file
  interrupted,  \* dload_interrupted
  err, updated, \* of curl_download_internal; err is finalize_ret in "final"
  childsig,
  ret,       \* what _klpm_download, then the operation, returns
  status,    \* of a database: "valid", "invalid" or "missing"
  loaded,    \* content of the database the package cache was read from
  ops, faults, excused, torn

vars == <<disk, ver, errors, saved, phase, op, force, todo, rest, active, unlink, mtime,
          interrupted, err, updated, childsig, ret, status, loaded, ops, faults,
          excused, torn>>

request == <<op, force, mtime, childsig, ops>>
dbs     == <<status, loaded>>

-----------------------------------------------------------------------------
(* Files and their contents.                                               *)

Files    == Payloads \X {"file", "sig"}
Main(p)  == <<p, "file">>
Sig(p)   == <<p, "sig">>
IsSig(f) == f[2] = "sig"

Html == -2
None == <<-1>>

Part(f) == <<f, ".part">>
Dest(f) == <<f, "">>
Names   == {Part(f) : f \in Files} \cup {Dest(f) : f \in Files}

Idle == [kind |-> "none", sandbox |-> FALSE, fetchcb |-> FALSE, want |-> <<>>,
         found |-> {}]

\* The directory transfers are written to: a fresh one in the sandbox.
TmpDir == IF op.sandbox THEN "tmp" ELSE "final"

\* Packages never change under a name; databases do.
Version(f, h) == IF f[1] \in Dbs THEN ver[h] ELSE 0
Whole(f, v)   == [i \in 1..(IF IsSig(f) THEN 1 ELSE Size[f[1]]) |-> v]
Full(f)       == Len(Whole(f, 0))
IsWhole(f, c) == \E v \in 0..MaxVer : c = Whole(f, v)

Put(d, dir, name, c) == [d EXCEPT ![dir][name] = c]
Final(f) == disk["final"][Dest(f)]

\* Signatures are asked for at every level; one is good for the version of
\* the file it is made of.
Verified(d, p) ==
  \E v \in 0..MaxVer :
    /\ d["final"][Dest(Main(p))] = Whole(Main(p), v)
    /\ \/ d["final"][Dest(Sig(p))] = Whole(Sig(p), v)
       \/ SigOptional /\ d["final"][Dest(Sig(p))] = None

sync_db_validate(d, p) ==
  IF d["final"][Dest(Main(p))] = None THEN "missing"
  ELSE IF Verified(d, p) THEN "valid" ELSE "invalid"

-----------------------------------------------------------------------------
(* Payloads and servers.                                                   *)

AllowResume(f) == f[1] \notin Dbs /\ ~IsSig(f)
ErrorsOk(f)    == IsSig(f) /\ SigOptional
UnlinkOnFail(f) == f[1] \in Dbs \/ f \in unlink

\* The size limit that can be reached: pkg->size.  The limits of databases
\* and signatures are far above what a server sends.
MaxSize(f) == IF f[1] \in Pkgs /\ ~IsSig(f) THEN Size[f[1]] ELSE 0

should_skip_server(e, h)       == e[h] < 0 \/ e[h] >= server_error_limit
should_skip_cache_server(e, h) == e[h] < 0

server_soft_error(e, h) ==
  IF should_skip_server(e, h) THEN e ELSE [e EXCEPT ![h] = @ + 1]

server_hard_error(e, h) == [e EXCEPT ![h] = -1]

NoHost == "no host"

After(s, i) == IF i = 0 THEN <<>> ELSE SubSeq(s, i + 1, Len(s))

\* The first server not skipped, what the payload has left after it, and
\* request_errors_ok.  Signatures have no server list.
payload_next_server(e, f) ==
  LET r == IF IsSig(f) THEN [cache |-> <<>>, norm |-> <<>>] ELSE rest[f[1]]
      c == SelectInSeq(r.cache, LAMBDA h : ~should_skip_cache_server(e, h))
      n == SelectInSeq(r.norm,  LAMBDA h : ~should_skip_server(e, h))
  IN  IF c # 0
      THEN [host |-> r.cache[c], ok |-> TRUE,
            left |-> [r EXCEPT !.cache = After(@, c)]]
      ELSE [host |-> IF n = 0 THEN NoHost ELSE r.norm[n], ok |-> ErrorsOk(f),
            left |-> [cache |-> <<>>, norm |-> After(r.norm, n)]]

\* rest after server s was taken for f.
Left(f, s) == IF IsSig(f) THEN rest ELSE [rest EXCEPT ![f[1]] = s.left]

\* A transfer: the request and what it has delivered.  src is the version
\* the server answers with, cond whether CURLOPT_TIMECONDITION is set.
Transfer(f, h, ok, initial, cond) ==
  [file |-> f, host |-> h, ok |-> ok, initial |-> initial, cond |-> cond,
   src |-> Version(f, h), got |-> 0, page |-> FALSE]

\* A fault of a kind; excuse: one that the next server cannot make good.
Fault(kind, excuse) ==
  /\ kind \in Faults /\ faults < MaxFaults /\ ops + faults < MaxEvents
  /\ faults' = faults + 1
  /\ excused' = (excused \/ excuse)
NoFault == UNCHANGED <<faults, excused>>

Without(t) == active \ {t}

-----------------------------------------------------------------------------
(* curl_add_payload: open the temporary file and hand the request to curl. *)

\* curl_set_handle_opts: with a time condition the file is fetched from its
\* start; a file left by an earlier transfer is continued.
timecond(f) == ~IsSig(f) /\ f[1] \in mtime /\ f[1] \notin force
resumes(f)  == ~timecond(f) /\ AllowResume(f) /\ disk[TmpDir][Part(f)] # None

initial_size(f) == IF resumes(f) THEN Len(disk[TmpDir][Part(f)]) ELSE 0
OpenedAnew(d, f) == Put(d, TmpDir, Part(f), <<>>)  \* a mutant of Opened
Opened(d, f)    == IF resumes(f) THEN d ELSE Put(d, TmpDir, Part(f), <<>>)

\* A temporary file as large as the package is taken to be complete: nothing
\* is started, and nothing is renamed.
part_complete(f) == MaxSize(f) # 0 /\ initial_size(f) = MaxSize(f)

\* One turn of the loop that starts payloads.  A payload that cannot be
\* started ends it.
StartNext ==
  /\ phase = "loop" /\ todo # <<>> /\ Cardinality(active) < Parallel
  /\ LET f == Main(Head(todo))
         s == IF f[1] \in Urls
              THEN [host |-> Head(Servers), ok |-> FALSE, left |-> rest[f[1]]]
              ELSE payload_next_server(errors, f)
     IN  /\ rest' = Left(f, s)
         /\ \/ /\ s.host = NoHost \/ ~part_complete(f)
               /\ IF s.host = NoHost THEN NoFault ELSE Fault("open", TRUE)
               /\ todo' = <<>> /\ err' = TRUE
               /\ UNCHANGED <<op, disk, active>>
            \/ /\ s.host # NoHost /\ part_complete(f)
               /\ todo' = Tail(todo) /\ op' = [op EXCEPT !.found = @ \cup {f[1]}]
               /\ UNCHANGED <<disk, active, err>> /\ NoFault
            \/ /\ s.host # NoHost /\ ~part_complete(f)
               /\ active' = active \cup
                    {Transfer(f, s.host, s.ok, initial_size(f), timecond(f))}
               /\ disk' = Opened(disk, f)
               /\ todo' = Tail(todo)
               /\ UNCHANGED <<op, err>> /\ NoFault
  /\ UNCHANGED <<ver, errors, saved, phase, force, mtime, childsig, ops, unlink,
                 interrupted, updated, ret, dbs, torn>>

-----------------------------------------------------------------------------
(* Transfers.  What libcurl and the servers do, and dload_progress_cb.     *)

Running(t) == phase = "loop" /\ t \in active

\* The server has nothing newer than the file we have: no block is sent.
Unmodified(t) ==
  t.cond /\ Final(t.file) # None /\ Final(t.file)[1] >= t.src

\* A resumed request beyond the end of the file (answered with status 416).
BeyondEnd(t) == t.initial >= Full(t.file)

\* Only this file's own server is asked: a signature or a URL.
OneServer(t) == IsSig(t.file) \/ t.file[1] \in Urls

Written(t, b) == Put(disk, TmpDir, Part(t.file), Append(disk[TmpDir][Part(t.file)], b))

\* A block arrives.  A server whose file is larger than announced is noticed
\* here only when the request was resumed: libcurl rejects the others.
Receive(t) ==
  /\ Running(t) /\ ~interrupted /\ ~t.page /\ ~Unmodified(t) /\ ~BeyondEnd(t)
  /\ LET n == t.initial + t.got + 1
     IN  /\ \/ n <= Full(t.file) /\ NoFault
            \/ /\ n = Full(t.file) + 1 /\ MaxSize(t.file) # 0 /\ t.initial > 0
               /\ t.host \notin Good /\ Fault("long", TRUE)
         /\ interrupted' = (MaxSize(t.file) # 0 /\ n > MaxSize(t.file))
  /\ disk' = Written(t, t.src)
  /\ active' = Without(t) \cup {[t EXCEPT !.got = @ + 1]}
  /\ UNCHANGED <<ver, errors, saved, phase, request, todo, rest, unlink, err, updated,
                 ret, dbs, torn>>

\* The server answers with status >= 400, and a page that is written like
\* the file would be.
ErrorPage(t) ==
  /\ Running(t) /\ t.got = 0 /\ ~t.page /\ ~Unmodified(t)
  /\ \/ BeyondEnd(t) /\ excused' = TRUE /\ UNCHANGED faults
     \/ ~BeyondEnd(t) /\ t.host \notin Good /\ Fault("http", OneServer(t))
  /\ disk' = Written(t, Html)
  /\ active' = Without(t) \cup {[t EXCEPT !.page = TRUE]}
  /\ UNCHANGED <<ver, errors, saved, phase, request, todo, rest, unlink, interrupted, err,
                 updated, ret, dbs, torn>>

-----------------------------------------------------------------------------
(* curl_check_finished_download: one transfer has ended.                   *)

\* From cleanup on: the file gets its name (r = 0), is kept or is removed.
Finished(t, d, r, unl) ==
  LET f == t.file
      cut == Put(d, TmpDir, Part(f), None)
  IN  /\ unlink' = IF unl THEN unlink \cup {f} ELSE unlink
      /\ disk' = IF r = 0 THEN Put(cut, TmpDir, Dest(f), d[TmpDir][Part(f)])
                 ELSE IF r = 1 \/ UnlinkOnFail(f) \/ unl THEN cut
                 ELSE d
      /\ updated' = (updated \/ r = 0)
      /\ IF r = -1 /\ ~ErrorsOk(f) THEN todo' = <<>> /\ err' = TRUE
                                   ELSE UNCHANGED <<todo, err>>

\* Mutant: every transfer is resumed, whatever it is.
RetryResumesAll(t, d, s) ==
  /\ active' = Without(t) \cup
       {Transfer(t.file, s.host, s.ok, Len(d[TmpDir][Part(t.file)]), t.cond)}
  /\ disk' = d
  /\ UNCHANGED <<unlink, todo, err, updated>>

\* curl_retry_next_server: go on from the end of what is there, or restart.
Retry(t, d, s) ==
  LET f == t.file
  IN  /\ active' = Without(t) \cup
           {Transfer(f, s.host, s.ok,
                     IF AllowResume(f) THEN Len(d[TmpDir][Part(f)]) ELSE 0, t.cond)}
      /\ disk' = IF AllowResume(f) THEN d ELSE Put(d, TmpDir, Part(f), <<>>)
      /\ UNCHANGED <<unlink, todo, err, updated>>

\* A mutant of TryNext.
TryNoOther(t, d, e, unl) ==
  /\ errors' = e /\ UNCHANGED rest
  /\ active' = Without(t) /\ Finished(t, d, -1, unl)

\* The errors after which the next server is asked; e: the new error counts.
TryNext(t, d, e, unl) ==
  LET s == payload_next_server(e, t.file)
  IN  /\ errors' = e
      /\ rest' = Left(t.file, s)
      /\ IF s.host # NoHost THEN Retry(t, d, s)
         ELSE active' = Without(t) /\ Finished(t, d, -1, unl)

\* The signature is requested from where the file came from, also when the
\* file was not modified or is truncated; failing to start it goes unnoticed.
AddSignature(t, started) ==
  active' = Without(t) \cup
    {Transfer(Sig(p), t.host, ErrorsOk(Sig(p)), 0, FALSE) :
       p \in {p \in Payloads : started /\ t.file = Main(p)}}
WithSignature(t, d, started) ==
  IF started /\ ~IsSig(t.file) THEN Put(d, TmpDir, Part(Sig(t.file[1])), <<>>) ELSE d

SoftError(t) == IF t.ok THEN errors ELSE server_soft_error(errors, t.host)

\* CURLE_OK with status >= 400: the page is cut off again.
HttpError(t) ==
  /\ Running(t) /\ t.page
  /\ TryNext(t, Put(disk, TmpDir, Part(t.file),
                    SubSeq(disk[TmpDir][Part(t.file)], 1, t.initial)),
             SoftError(t), TRUE)
  /\ UNCHANGED <<ver, saved, phase, request, interrupted, ret, dbs, faults, excused, torn>>

\* CURLE_COULDNT_RESOLVE_HOST
ResolveError(t) ==
  /\ Running(t) /\ t.got = 0 /\ ~t.page /\ t.host \notin Good
  /\ Fault("resolve", OneServer(t))
  /\ TryNext(t, disk, server_hard_error(errors, t.host), FALSE)
  /\ UNCHANGED <<ver, saved, phase, request, interrupted, ret, dbs, torn>>

\* Any other error of libcurl: connection refused, reset, timed out.
CurlError(t) ==
  /\ Running(t) /\ ~t.page /\ t.host \notin Good
  /\ t.initial + t.got < Full(t.file)
  /\ Fault("curl", OneServer(t))
  /\ TryNext(t, disk, SoftError(t), disk[TmpDir][Part(t.file)] = <<>>)
  /\ UNCHANGED <<ver, saved, phase, request, interrupted, ret, dbs, torn>>

\* CURLE_ABORTED_BY_CALLBACK: some transfer of this process was too long.
Aborted(t) ==
  /\ Running(t) /\ interrupted /\ ~t.page /\ ~Unmodified(t)
  /\ errors' = server_soft_error(errors, t.host)
  /\ active' = Without(t)
  /\ Finished(t, disk, -1, TRUE)
  /\ excused' = TRUE
  /\ UNCHANGED <<ver, saved, phase, request, rest, interrupted, ret, dbs, faults, torn>>

\* CURLE_OK: the file is complete, or not modified, or shorter than what the
\* server announced, or shorter although the server announced nothing.
Completed(t) ==
  /\ Running(t) /\ ~t.page
  /\ \E started \in BOOLEAN, r \in {-1, 0, 1} :
       LET short == t.initial + t.got # Full(t.file)
           whole == r = 1 \/ (r = 0 /\ ~short)
       IN  /\ r = 1 <=> Unmodified(t)
           /\ ~Unmodified(t) => ~BeyondEnd(t) /\ (short => ~interrupted)
           /\ \/ started /\ whole /\ NoFault
              \/ ~started /\ whole /\ ~IsSig(t.file) /\ Fault("open", ~SigOptional)
              \/ started /\ r = 0 /\ short /\ t.host \notin Good /\ Fault("nolength", TRUE)
              \/ started /\ r = -1 /\ Fault("truncated", TRUE)
           /\ torn' = (torn \/ (short /\ r = 0))
           /\ AddSignature(t, started)
           /\ Finished(t, WithSignature(t, disk, started), r, FALSE)
  /\ UNCHANGED <<ver, errors, saved, phase, request, rest, interrupted, ret, dbs>>

-----------------------------------------------------------------------------
(* curl_download_internal ends; finalize_download_locations.               *)

\* curl_multi_perform or curl_multi_wait fails: no new payload is started.
MultiError ==
  /\ phase = "loop" /\ todo # <<>> /\ Fault("multi", TRUE)
  /\ todo' = <<>> /\ err' = TRUE
  /\ UNCHANGED <<disk, ver, errors, saved, phase, request, rest, active, unlink,
                 interrupted, updated, ret, dbs, torn>>

\* What the parent does once the child is gone: its error counts and the
\* abort flag are those of before the fork.
ToFinal ==
  /\ phase' = "final" /\ err' = FALSE
  /\ errors' = saved.errors /\ interrupted' = saved.interrupted
  /\ todo' = FlattenSeq([i \in 1..Len(op.want) |-> <<Main(op.want[i]), Sig(op.want[i])>>])

LoopEndsWell ==  \* a mutant of LoopEnds
  /\ phase = "loop" /\ todo = <<>> /\ active = {} /\ ~err
  /\ ret' = IF updated THEN 0 ELSE 1
  /\ IF op.sandbox THEN ToFinal
     ELSE phase' = "ret" /\ UNCHANGED <<todo, err, errors, interrupted>>
  /\ UNCHANGED <<disk, ver, saved, request, rest, active, unlink, updated, dbs, faults,
                 excused, torn>>

LoopEnds ==
  /\ phase = "loop" /\ todo = <<>> /\ active = {}
  /\ ret' = IF err THEN -1 ELSE IF updated THEN 0 ELSE 1
  /\ IF op.sandbox THEN ToFinal
     ELSE phase' = "ret" /\ UNCHANGED <<todo, err, errors, interrupted>>
  /\ UNCHANGED <<disk, ver, saved, request, rest, active, unlink, updated, dbs, faults,
                 excused, torn>>

\* The child is killed: the parent keeps what it has fetched, and then kills
\* itself with the same signal.
ChildKilled ==
  /\ phase = "loop" /\ op.sandbox /\ Fault("kill", TRUE)
  /\ torn' = (torn \/ \E t \in active : t.page /\ AllowResume(t.file))
  /\ ToFinal /\ ret' = -1 /\ childsig' = TRUE /\ active' = {}
  /\ UNCHANGED <<disk, ver, saved, op, force, mtime, ops, rest, unlink, updated, dbs>>

\* move_file on the name of the payload or else of its temporary file; empty
\* files are removed instead.
Moved(name) ==
  LET c == disk["tmp"][name]
  IN  Put(Put(disk, "tmp", name, None), "final", name,
          IF c = <<>> THEN disk["final"][name] ELSE c)

FinalizeNext ==
  /\ phase = "final" /\ todo # <<>>
  /\ LET f == Head(todo)
         name == IF disk["tmp"][Dest(f)] # None THEN Dest(f) ELSE Part(f)
     IN  \/ disk["tmp"][name] = None /\ UNCHANGED <<disk, err>> /\ NoFault
         \/ disk["tmp"][name] # None /\ disk' = Moved(name) /\ UNCHANGED err /\ NoFault
         \/ /\ disk["tmp"][name] # None /\ Fault("move", TRUE)
            /\ err' = (err \/ (~IsSig(f) /\ f[1] \notin mtime))
            /\ UNCHANGED disk
  /\ todo' = Tail(todo)
  /\ UNCHANGED <<ver, errors, saved, phase, request, rest, active, unlink, interrupted,
                 updated, ret, dbs, torn>>

NoFiles == [n \in Names |-> None]
NoRest  == [p \in Payloads |-> [cache |-> <<>>, norm |-> <<>>]]

\* The payloads and the variables of an operation that has ended.
Freed ==
  /\ force' = {} /\ todo' = <<>> /\ rest' = NoRest /\ unlink' = {} /\ mtime' = {}
  /\ err' = FALSE /\ updated' = FALSE
  /\ saved' = [errors |-> errors', interrupted |-> interrupted']

\* The process is gone; the next one registers the databases, and so reads
\* their status from the disk.
Restart(d) ==
  /\ disk' = [d EXCEPT !["tmp"] = NoFiles]
  /\ status' = [p \in Dbs |-> sync_db_validate(d, p)]
  /\ loaded' = [p \in Dbs |-> None]
  /\ errors' = [h \in Hosts |-> 0] /\ interrupted' = FALSE
  /\ phase' = "idle" /\ op' = Idle /\ active' = {} /\ Freed
  /\ childsig' = FALSE /\ ret' = 0
  /\ UNCHANGED <<ver, ops>>

\* _klpm_remove_temporary_download_dir, and the result of _klpm_download.
FinalizeDone ==
  /\ phase = "final" /\ todo = <<>>
  /\ IF childsig THEN Restart(disk)
     ELSE /\ disk' = [disk EXCEPT !["tmp"] = NoFiles]
          /\ ret' = IF err /\ ret = 0 THEN -1 ELSE ret
          /\ phase' = "ret"
          /\ UNCHANGED <<ver, errors, saved, request, todo, rest, active, unlink,
                         interrupted, err, updated, dbs>>
  /\ UNCHANGED <<faults, excused, torn>>

Killed ==
  /\ phase # "idle" /\ Fault("kill", TRUE)
  /\ torn' = (torn \/ (~op.sandbox /\ \E t \in active : t.page /\ AllowResume(t.file)))
  /\ Restart(disk)

-----------------------------------------------------------------------------
(* The operations.                                                         *)

\* prepare_resumable_downloads.  In the sandbox the first temporary file that
\* is found is moved, and ends the loop: chown returned 0.
FirstPart(want, sandbox) ==
  IF sandbox
  THEN SelectInSeq(want, LAMBDA p : disk["final"][Part(Main(p))] \notin {None, <<>>})
  ELSE 0

Prepared(want, sandbox) ==
  LET k == FirstPart(want, sandbox)
      d == [disk EXCEPT !["tmp"] = NoFiles]
  IN  IF k = 0 THEN d
      ELSE LET n == Part(Main(want[k]))
           IN  Put(Put(d, "tmp", n, d["final"][n]), "final", n, None)

Existing(want, sandbox) ==
  LET k == FirstPart(want, sandbox)
  IN  {want[i] : i \in {i \in 1..(IF k = 0 THEN Len(want) ELSE k) :
                          Final(Main(want[i])) \notin {None, <<>>}}}

\* find_dl_candidates, and the test of klpm_fetch_pkgurl: the file or its
\* signature is missing.  A database is always asked for.
Needed(p) == p \in Dbs \/ Final(Main(p)) = None \/ Final(Sig(p)) = None

Kinds == [refresh |-> Dbs, packages |-> Pkgs, url |-> Urls]

CacheOf(p) == IF p \in Pkgs THEN CacheServers ELSE <<>>
NormOf(p)  == IF p \in Urls THEN <<>> ELSE Servers

ForcedByUser(forced) == {p \in Dbs : forced}  \* a mutant of Forced
Forced(forced) == {p \in Dbs : forced \/ status[p] = "invalid"}

Begin(kind, m, forced) ==
  /\ phase = "idle" /\ ops < MaxOps /\ ops + faults < MaxEvents /\ Kinds[kind] # {}
  /\ kind = "refresh" \/ ~forced
  /\ LET want == SelectSeq(Order, LAMBDA p : p \in Kinds[kind] /\ Needed(p))
     IN  /\ op' = [kind |-> kind, sandbox |-> m[1], fetchcb |-> m[2], want |-> want,
                   found |-> {}]
         /\ todo' = want
         /\ disk' = Prepared(want, m[1])
         /\ mtime' = Existing(want, m[1])
         /\ phase' = IF want = <<>> THEN "ret" ELSE IF m[2] THEN "xfer" ELSE "loop"
  /\ force' = Forced(forced)
  /\ rest' = [p \in Payloads |-> [cache |-> CacheOf(p), norm |-> NormOf(p)]]
  /\ saved' = [errors |-> errors, interrupted |-> interrupted]
  /\ unlink' = {} /\ err' = FALSE /\ updated' = FALSE /\ ret' = 1
  /\ ops' = ops + 1 /\ excused' = FALSE
  /\ UNCHANGED <<ver, errors, active, interrupted, childsig, dbs, faults, torn>>

\* An external downloader (handle->fetchcb) fetches a payload from one of its
\* servers and then its signature.  Failing ends the operation at once; the
\* temporary directory is left behind, and the next operation has another.
FetchCb ==
  /\ phase = "xfer"
  /\ \E fetched, signed \in BOOLEAN, h \in Hosts :
       LET p == Head(todo)
           r == fetched /\ (signed \/ SigOptional)
           Got(d, f) == Put(d, TmpDir, Dest(f), Whole(f, Version(f, h)))
           main == IF fetched THEN Got(disk, Main(p)) ELSE disk
       IN  /\ h \in IF p \in Urls THEN {Head(Servers)}
                    ELSE ToSet(CacheOf(p)) \cup ToSet(Servers)
           /\ signed => fetched
           /\ IF fetched /\ signed THEN NoFault ELSE Fault("curl", TRUE)
           /\ disk' = [IF signed THEN Got(main, Sig(p)) ELSE main EXCEPT
                        !["tmp"] = IF r THEN @ ELSE NoFiles]
           /\ updated' = (updated \/ r)
           /\ IF ~r THEN ret' = -1 /\ phase' = "ret" /\ UNCHANGED <<todo, err>>
              ELSE IF Len(todo) > 1
              THEN todo' = Tail(todo) /\ UNCHANGED <<ret, phase, err>>
              ELSE /\ ret' = 0
                   /\ IF op.sandbox
                      THEN /\ phase' = "final" /\ err' = FALSE
                           /\ todo' = FlattenSeq([i \in 1..Len(op.want) |->
                                          <<Main(op.want[i]), Sig(op.want[i])>>])
                      ELSE phase' = "ret" /\ todo' = <<>> /\ UNCHANGED err
  /\ UNCHANGED <<ver, errors, saved, request, rest, active, unlink, interrupted, dbs,
                 torn>>

\* klpm_db_update after the download: package caches are dropped and every
\* database is validated.
RefreshReturns ==
  /\ op.kind = "refresh"
  /\ IF ret = -1 THEN UNCHANGED <<ret, dbs>>
     ELSE /\ loaded' = [p \in Dbs |-> None]
          /\ status' = [p \in Dbs |-> sync_db_validate(disk, p)]
          /\ ret' = IF \E p \in Dbs : status'[p] = "invalid" THEN -1 ELSE ret
  /\ UNCHANGED disk

\* check_validity, with prompt_to_delete: the user may have the files removed
\* whose checksum or signature is wrong.
check_validity(removed) ==
  LET bad == {p \in Pkgs : ~Verified(disk, p)}
  IN  IF \E p \in Pkgs : Final(Main(p)) = None
      THEN removed = {} /\ ret' = -1 /\ UNCHANGED disk
      ELSE /\ removed \subseteq {p \in bad : SigOptional \/ Final(Sig(p)) # None}
           /\ ret' = IF bad = {} THEN ret ELSE -1
           /\ disk' = [disk EXCEPT !["final"] = [n \in Names |->
                IF n \in {Dest(Main(p)) : p \in removed} \cup {Dest(Sig(p)) : p \in removed}
                THEN None ELSE @[n]]]

PackagesReturn ==
  /\ op.kind = "packages" /\ UNCHANGED dbs
  /\ IF ret = -1 THEN UNCHANGED <<ret, disk>>
     ELSE \E removed \in SUBSET Pkgs : check_validity(removed)

UrlReturns ==
  /\ op.kind = "url" /\ UNCHANGED <<dbs, disk>>
  /\ ret' = IF \E i \in 1..Len(op.want) : Final(Main(op.want[i])) = None THEN -1 ELSE ret

Return ==
  /\ phase = "ret" /\ phase' = "idle"
  /\ RefreshReturns \/ PackagesReturn \/ UrlReturns
  /\ UNCHANGED <<ver, errors, interrupted, active, childsig, ops, faults, excused, torn>>
  /\ op' = [Idle EXCEPT !.kind = op.kind] /\ Freed

\* The package cache of a valid database is filled when it is first used.
LoadCache(p) ==
  /\ phase = "idle" /\ status[p] = "valid" /\ loaded[p] = None
  /\ loaded' = [loaded EXCEPT ![p] = Final(Main(p))]
  /\ UNCHANGED <<disk, ver, errors, saved, phase, request, todo, rest, active, unlink,
                 interrupted, err, updated, ret, status, faults, excused, torn>>

\* A server publishes newer databases (which other operations do not see).
MirrorSync(h) ==
  /\ op.kind = "refresh" /\ phase # "ret"
  /\ ver[h] < MaxVer /\ ver' = [ver EXCEPT ![h] = @ + 1]
  /\ excused' = (excused \/ phase # "idle")
  /\ UNCHANGED <<disk, errors, saved, phase, request, todo, rest, active, unlink,
                 interrupted, err, updated, ret, dbs, faults, torn>>

-----------------------------------------------------------------------------
Init ==
  /\ \E l \in Leftovers :
       disk = [tmp |-> NoFiles,
               final |-> [n \in Names |-> IF n \in DOMAIN l THEN l[n] ELSE None]]
  /\ ver \in {[h \in Hosts |-> IF h \in Good THEN v ELSE 0] : v \in 0..MaxVer}
  /\ errors = [h \in Hosts |-> 0]
  /\ saved = [errors |-> errors, interrupted |-> FALSE]
  /\ phase = "idle" /\ op = Idle /\ force = {} /\ todo = <<>> /\ rest = NoRest
  /\ active = {} /\ unlink = {} /\ mtime = {} /\ interrupted = FALSE
  /\ err = FALSE /\ updated = FALSE /\ childsig = FALSE /\ ret = 0
  /\ status = [p \in Dbs |-> sync_db_validate(disk, p)] /\ loaded = [p \in Dbs |-> None]
  /\ ops = 0 /\ faults = 0 /\ excused = FALSE /\ torn = FALSE

TransferStep ==
  \E t \in active : \/ Receive(t) \/ ErrorPage(t) \/ HttpError(t) \/ ResolveError(t)
                    \/ CurlError(t) \/ Aborted(t) \/ Completed(t)

\* What happens by itself once an operation was begun.
Progress ==
  \/ StartNext \/ TransferStep \/ MultiError \/ LoopEnds \/ FinalizeNext \/ FinalizeDone
  \/ FetchCb \/ Return

Next ==
  \/ Progress
  \/ \E kind \in DOMAIN Kinds, m \in Modes, forced \in BOOLEAN : Begin(kind, m, forced)
  \/ ChildKilled \/ Killed
  \/ \E p \in Dbs : LoadCache(p)
  \/ \E h \in Hosts : MirrorSync(h)

\* libcurl ends every transfer: it has connection and low-speed time limits.
Spec == Init /\ [][Next]_vars /\ WF_vars(Progress)

-----------------------------------------------------------------------------
(* Properties.                                                             *)

TypeOK ==
  /\ \A d \in {"tmp", "final"}, n \in Names :
       disk[d][n] = None \/ (disk[d][n] \in Seq({Html} \cup (0..MaxVer))
                             /\ Len(disk[d][n]) <= Full(n[1]) + 2)
  /\ errors \in [Hosts -> -1..server_error_limit]
  /\ phase \in {"idle", "loop", "xfer", "final", "ret"} /\ ret \in -1..1
  /\ force \cup mtime \subseteq Payloads /\ unlink \subseteq Files
  /\ Cardinality({t.file : t \in active}) = Cardinality(active)
  /\ status \in [Dbs -> {"valid", "invalid", "missing"}]

\* A file that has its final name is one version of the remote file, from its
\* first block to its last: nothing partial, no mix of versions from several
\* servers, no piece of an error page (the truncation and the restarts of
\* curl_check_finished_download and curl_retry_next_server).  Except when a
\* process was killed while an error page was being written behind the blocks
\* of a resumable file, or a server announced no length.
WholeFiles ==
  ~torn => \A f \in Files, d \in {"tmp", "final"} :
             disk[d][Dest(f)] = None \/ IsWhole(f, disk[d][Dest(f)])

\* The result is the truth.  When _klpm_download reports no error ("Returns -1 if
\* an error happened for a required file"), each file asked for is in its
\* directory; except a package whose temporary file was found complete, which
\* keeps its name (.part), and an answer without a length, which may be empty.
\* And as long as one server of the list works, errors of the others
\* (unreachable, unresolvable, HTTP errors, broken connections, in any number
\* and for any of the parallel transfers) do not make a download fail.
ResultIsTruthful ==
  phase = "ret" =>
    /\ ret # -1 /\ ~torn => \A k \in DOMAIN op.want :
                               op.want[k] \in op.found \/ Final(Main(op.want[k])) # None
    /\ ~excused /\ op.kind # "url" => ret # -1

\* A refresh of databases whose files and signatures do not match fetches both
\* anew, whatever their age ("force update of invalid databases to fix
\* potential mismatched database/signature"): if the servers are up and do not
\* change meanwhile, they match afterwards, whichever crash, stale mirror or
\* failed move left them unmatched.  And a package cache in memory is that of the
\* database on disk whenever the last refresh could download (klpm_db_update
\* drops the caches after it).
RefreshHeals ==
  op.kind = "refresh" =>
    /\ phase = "ret" /\ ~excused =>
         \A p \in Dbs : status[p] = "invalid" /\ p \notin ToSet(todo) => Verified(disk, p)
    /\ phase = "idle" /\ ret # -1 =>
         \A p \in Dbs : loaded[p] \in {None, Final(Main(p))}

Held(d, p) ==
  Max({0} \cup {Len(c) : c \in {d["final"][Dest(Main(p))], d["final"][Part(Main(p))]} \ {None}})

\* What was received of a package is not thrown away by a failure, a retry, a
\* kill or the next operation: only when the last server answered with an HTTP
\* error, when the transfer was aborted for its length, or by the user.
\* Without the sandbox, whose loop stops at the first file to be resumed.
PartsSurvive ==
  [][\A p \in Pkgs :
       Held(disk', p) < Held(disk, p) =>
         \/ op.sandbox \/ op'.sandbox
         \/ \E t \in active : t.file = Main(p) /\ (t.page \/ interrupted)
         \/ phase = "ret"]_vars

\* Every operation that is begun comes to its end.
OperationsEnd == [](phase # "idle" => <>(phase = "idle"))
=============================================================================
