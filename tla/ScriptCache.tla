----------------------------- MODULE ScriptCache -----------------------------
(***************************************************************************)
(* CacheManager.get_script and cleanup_old_cache over one cache directory, *)
(* with the repository behind them: GitRepository, whose clone lies inside *)
(* the cache directory, or HttpRepository or S3Repository, which download  *)
(* a version into a directory of its own.  One script; its versions are    *)
(* numbered in the order of their release, and a release is one step.  A   *)
(* version is a directory, in git maybe a single file, and may lack the    *)
(* entry point its metadata names (a single file has default metadata, so  *)
(* it does unless it is called main.py).  Files are copied as a whole.     *)
(* ScriptDownloader, the facade for other programs than the worker, adds   *)
(* the invalidation of the cache and the download that begins with one.    *)
(*                                                                         *)
(* Within a worker get_script touches the cache without giving up the loop *)
(* (and its cleanup loop cannot run meanwhile); workers of one host share  *)
(* the directory (docker-compose mounts script_cache in every replica), so *)
(* the file operations of two workers interleave.                          *)
(***************************************************************************)
EXTENDS Naturals, FiniteSetsExt

CONSTANTS
  Workers,
  Downloaders,   \* the ones that use the ScriptDownloader
  Repositories,  \* the kinds a worker may be configured for
  MaxRelease,    \* bound: how many versions are ever released
  SingleFiles,   \* versions that are a single file in the git repository
  Entryless,     \* versions published without the entry point that is expected
  MaxCrashes     \* bound: how many workers crash, or cleanups fail to remove something

ASSUME CacheAssumption ==
  /\ Downloaders \subseteq Workers
  /\ Repositories \subseteq {"git", "http", "s3"}
  /\ MaxRelease \in 1..91     \* see StringKey
  /\ SingleFiles \subseteq 1..MaxRelease /\ Entryless \subseteq 1..MaxRelease
  /\ MaxCrashes \in Nat

VARIABLES
  repository, \* settings.script_repository_type, the same in all workers
  upstream,   \* the newest version in the remote repository
  clone,      \* the local git clone: <script_cache_dir>/git_repo
  cache,      \* cache[v]: the directory of version v
  job,        \* job[w]: the get_script or the script worker w is busy with
  fallback,   \* versions some checkout of which failed (history)
  gaps,       \* versions whose directory may lack the entry point, or not be a copy
              \* of one version: see MakeDir, CopySingle and CutShort (history)
  crashes

vars == <<repository, upstream, clone, cache, job, fallback, gaps, crashes>>

Versions == 1..MaxRelease
Files == {"entry", "meta"}    \* the entry point and metadata.json

\* What a download of version v consists of.
FilesOf(v) == IF v \in Entryless THEN {"meta"} ELSE Files

Single(v) == repository = "git" /\ v \in SingleFiles

\* entry: the version whose entry point lies there, 0 if none.  hash: the version
\* that file_hash of .cache_info fits, 0 for null.  age: 1 after 24 hours, 2
\* after 168.
NoEntry == [dir |-> FALSE, entry |-> 0, meta |-> FALSE, info |-> "none",
            hash |-> 0, age |-> 0]

\* A clone of depth 1 has one branch and only the tags of the commits it fetched.
\* broken: git does not open it.  torn: git does, and files of the work tree are gone.
NoClone == [dir |-> "absent", branch |-> 0, tags |-> {}, head |-> 0, attached |-> TRUE]
FreshClone == [dir |-> "ok", branch |-> upstream, tags |-> {upstream},
               head |-> upstream, attached |-> TRUE]
Works == clone.dir \in {"ok", "torn"}

\* pc: where it stands.  goal: what clone_or_update_repo returns to.  ver: the
\* version wanted, 0 until it is resolved.  temp: the version whose files are in
\* the temporary directory.  left: the files that are not copied yet.  since: the
\* newest version when the latest one was asked for, 0 otherwise, and guessed:
\* whether a list was taken for the answer (history, until the cache is checked).
NoJob == [pc |-> "idle", goal |-> "list", ver |-> 0, temp |-> 0, left |-> {},
          since |-> 0, guessed |-> FALSE]

InGetScript == {"forcing", "resolving", "listing", "checking", "updating", "cloning", "list",
                "checkout", "copyout", "fetching", "downloading", "clearing", "making",
                "copying", "parsing", "saving", "ready"}

CloneType == [dir : {"absent", "broken", "torn", "ok"}, branch : 0..MaxRelease,
              tags : SUBSET Versions, head : 0..MaxRelease, attached : BOOLEAN]

EntryType == [dir : BOOLEAN, entry : 0..MaxRelease, meta : BOOLEAN,
              info : {"none", "torn", "saved"}, hash : 0..MaxRelease, age : 0..2]

Steps == InGetScript \cup {"idle", "invalidating", "running"}

\* Where no file is left to be copied.
Filled == {"parsing", "saving", "ready", "running"}

JobType == [pc : Steps, goal : {"list", "checkout"}, ver : 0..MaxRelease,
            temp : 0..MaxRelease, left : SUBSET Files, since : 0..MaxRelease,
            guessed : BOOLEAN]

TypeOK ==
  /\ repository \in Repositories
  /\ upstream \in Versions
  /\ clone \in CloneType
  /\ cache \in [Versions -> EntryType]
  /\ job \in [Workers -> JobType]
  /\ \A w \in Workers : job[w].pc \in Filled => job[w].left = {}
  /\ fallback \subseteq Versions
  /\ gaps \subseteq Versions
  /\ crashes \in 0..MaxCrashes

\* What the settings name; an unknown kind or a missing URL ends the program.
CreateRepository == repository \in Repositories

Init ==
  /\ CreateRepository
  /\ upstream = 1
  /\ clone = NoClone
  /\ cache = [v \in Versions |-> NoEntry]
  /\ job = [w \in Workers |-> NoJob]
  /\ fallback = {}
  /\ gaps = {}
  /\ crashes = 0

Ver(w) == job[w].ver

\* Worker w goes on; it keeps nothing of the request it has done with.
Goto(w, from, to) ==
  /\ job[w].pc = from
  /\ job' = [job EXCEPT ![w] = IF to = "idle" THEN NoJob ELSE [@ EXCEPT !.pc = to]]

GotoWith(w, from, next) ==
  /\ job[w].pc = from
  /\ job' = [job EXCEPT ![w] = next]

\* What worker w goes on with: the version it has resolved, where the cache sends
\* it, the version it has downloaded, the files it has yet to copy.
Resolved(w, v) == [job[w] EXCEPT !.pc = "checking", !.ver = v]
Checked(w, next) ==
  [NoJob EXCEPT !.pc = next, !.ver = Ver(w),
                !.goal = IF next = "updating" THEN "checkout" ELSE @]
Downloaded(w, v, files) ==
  [job[w] EXCEPT !.pc = "clearing", !.goal = "list", !.temp = v, !.left = files]
Copying(w, files) ==
  [job[w] EXCEPT !.pc = IF files = {} THEN "parsing" ELSE "copying",
                 !.temp = IF files = {} THEN 0 ELSE @, !.left = files]

\* The directories of some versions are removed.
Drop(gone) ==
  /\ cache' = [v \in Versions |-> IF v \in gone THEN NoEntry ELSE cache[v]]
  /\ gaps' = gaps \ gone

----------------------------------------------------------------------------
(* Variants with a plausible mistake: each shows that a property can fail. *)

\* The metadata is parsed while files are still to be copied.
CopyFirstFile(w, f) ==
  /\ f \in job[w].left
  /\ cache[Ver(w)].dir
  /\ GotoWith(w, "copying", [job[w] EXCEPT !.pc = "parsing", !.left = @ \ {f}])
  /\ cache' = IF f = "entry" THEN [cache EXCEPT ![Ver(w)].entry = job[w].temp]
                             ELSE [cache EXCEPT ![Ver(w)].meta = TRUE]
  /\ UNCHANGED <<upstream, clone, fallback, gaps, crashes>>

\* The clone is not updated when there is one.
PullNothing(w) ==
  /\ Goto(w, "updating", job[w].goal)
  /\ Works
  /\ UNCHANGED <<upstream, clone, cache, fallback, gaps, crashes>>

\* A directory with metadata counts as cached.
IsCacheValidWithoutInfo(v) == cache[v].dir /\ cache[v].meta

\* The cleanup uses the age limit of the cache instead of its own.
IsOldWhenExpired(v) ==
  cache[v].dir /\ (cache[v].info = "none" \/ (cache[v].info = "saved" /\ cache[v].age > 0))

\* .cache_info is written before the files.
MakeDirWithInfo(w) ==
  /\ Goto(w, "making", "copying")
  /\ ~cache[Ver(w)].dir
  /\ cache' = [cache EXCEPT ![Ver(w)] = [@ EXCEPT !.dir = TRUE, !.info = "saved"]]
  /\ UNCHANGED <<upstream, clone, fallback, gaps, crashes>>

\* The tag is never checked out.
CheckoutNothing(w) ==
  /\ Goto(w, "checkout", "copyout")
  /\ UNCHANGED <<upstream, clone, cache, fallback, gaps, crashes>>

----------------------------------------------------------------------------
(* GitRepository *)

\* origin.pull() on a branch fetches what was released since, with its tags.  On
\* the detached head a checkout leaves behind it always fails.  Files that are gone
\* from the work tree come back if git has to write them.
Pull(w) ==
  /\ Goto(w, "updating", job[w].goal)
  /\ Works /\ clone.attached
  /\ \E dir \in {clone.dir, "ok"} :
       clone' = [clone EXCEPT !.dir = dir, !.branch = upstream, !.head = upstream,
                              !.tags = @ \cup (clone.branch + 1)..upstream]
  /\ UNCHANGED <<upstream, cache, fallback, gaps, crashes>>

\* The pull fails, or nothing is there: _clone_fresh removes what there is.
DiscardClone(w) ==
  /\ Goto(w, "updating", "cloning")
  /\ clone' = NoClone
  /\ UNCHANGED <<upstream, cache, fallback, gaps, crashes>>

CloneFresh(w) ==
  /\ Goto(w, "cloning", job[w].goal)
  /\ clone.dir = "absent"
  /\ clone' = FreshClone
  /\ UNCHANGED <<upstream, cache, fallback, gaps, crashes>>

\* The directory made for the clone stays behind, without a repository in it.
CloneFails(w) ==
  /\ Goto(w, "cloning", "idle")
  /\ clone' = [clone EXCEPT !.dir = IF @ = "absent" THEN "broken" ELSE @]
  /\ UNCHANGED <<upstream, cache, fallback, gaps, crashes>>

Newest(tags) == Max(tags)

\* get_latest_version: the first of the sorted tags.
LatestTag(w) ==
  /\ Works
  /\ GotoWith(w, "list", Resolved(w, Newest(clone.tags)))
  /\ UNCHANGED <<upstream, clone, cache, fallback, gaps, crashes>>

\* A tag the clone has not got is only warned about: the head stays where it is.
Checkout(w) ==
  /\ Goto(w, "checkout", "copyout")
  /\ Works
  /\ IF Ver(w) \in clone.tags
       THEN /\ \E dir \in {clone.dir, "ok"} :
                 clone' = [clone EXCEPT !.dir = dir, !.head = Ver(w), !.attached = FALSE]
            /\ UNCHANGED fallback
       ELSE /\ fallback' = fallback \cup {Ver(w)}
            /\ UNCHANGED clone
  /\ UNCHANGED <<upstream, cache, gaps, crashes>>

\* The script's directory, with or without what is torn out of it, or its single
\* file is copied to a temporary directory.
CopyOut(w) ==
  /\ Works
  /\ \E files \in SUBSET Files :
       /\ \/ files = FilesOf(clone.head)
          \/ files = {"meta"} /\ clone.dir = "torn" /\ ~Single(clone.head)
       /\ GotoWith(w, "copyout", Downloaded(w, clone.head, files))
  /\ UNCHANGED <<upstream, clone, cache, fallback, gaps, crashes>>

----------------------------------------------------------------------------
(* HttpRepository *)

LatestVersion(w) ==
  /\ GotoWith(w, "resolving", Resolved(w, upstream))
  /\ UNCHANGED <<upstream, clone, cache, fallback, gaps, crashes>>

\* /latest answers with an error: the first of the list of versions counts, which
\* comes in the server's own order and is not sorted.
FirstListed(w) ==
  /\ \E v \in 1..upstream :
       GotoWith(w, "resolving", [Resolved(w, v) EXCEPT !.guessed = TRUE])
  /\ UNCHANGED <<upstream, clone, cache, fallback, gaps, crashes>>

Fetch(w) ==
  /\ Ver(w) <= upstream
  /\ GotoWith(w, "fetching", Downloaded(w, Ver(w), FilesOf(Ver(w))))
  /\ UNCHANGED <<upstream, clone, cache, fallback, gaps, crashes>>

----------------------------------------------------------------------------
(* S3Repository; boto3 blocks the event loop *)

\* Say the versions are named 1.9.0, 1.10.0, 1.11.0, ...  As strings 1.9.0 comes
\* between 1.89.0 and 1.90.0.
StringKey(v) == LET minor == 8 + v IN IF minor < 10 THEN 20 * minor - 1 ELSE 2 * minor

FirstName(names) ==
  CHOOSE v \in names : \A u \in names : StringKey(u) <= StringKey(v)

\* get_latest_version: the first directory name in descending order.
ListLatest(w) ==
  /\ GotoWith(w, "listing", Resolved(w, FirstName(1..upstream)))
  /\ UNCHANGED <<upstream, clone, cache, fallback, gaps, crashes>>

DownloadObjects(w) ==
  /\ Ver(w) <= upstream
  /\ GotoWith(w, "downloading", Downloaded(w, Ver(w), FilesOf(Ver(w))))
  /\ UNCHANGED <<upstream, clone, cache, fallback, gaps, crashes>>

----------------------------------------------------------------------------
(* CacheManager.get_script *)

\* Where get_latest_version and download_script of the repository start.
GetLatest == [git |-> "updating", http |-> "resolving", s3 |-> "listing"]
Download == [git |-> "updating", http |-> "fetching", s3 |-> "downloading"]

FirstStep(v) == IF v # 0 THEN "checking" ELSE GetLatest[repository]

NewJob(pc, v, since) == [NoJob EXCEPT !.pc = pc, !.ver = v, !.since = since]

\* A request names a version or (v = 0) wants the latest one.
Since(v) == IF v = 0 THEN upstream ELSE 0

Request(w, v) ==
  /\ GotoWith(w, "idle", NewJob(FirstStep(v), v, Since(v)))
  /\ UNCHANGED <<upstream, clone, cache, fallback, gaps, crashes>>

\* The hash is compared only if the entry point is there.
IsCacheValid(v) ==
  /\ cache[v].dir /\ cache[v].meta
  /\ cache[v].info = "saved"
  /\ cache[v].age = 0
  /\ cache[v].entry # 0 => cache[v].entry = cache[v].hash

CheckCache(w) ==
  /\ LET next == IF IsCacheValid(Ver(w)) THEN "ready" ELSE Download[repository]
     IN GotoWith(w, "checking", Checked(w, next))
  /\ UNCHANGED <<upstream, clone, cache, fallback, gaps, crashes>>

\* shutil.rmtree(cache_path), when a directory was downloaded
ClearCache(w) ==
  /\ ~Single(job[w].temp)
  /\ Goto(w, "clearing", "making")
  /\ Drop({Ver(w)})
  /\ UNCHANGED <<upstream, clone, fallback, crashes>>

\* copytree refuses a directory that exists.
MakeDir(w) ==
  /\ Goto(w, "making", "copying")
  /\ ~cache[Ver(w)].dir
  /\ cache' = [cache EXCEPT ![Ver(w)].dir = TRUE]
  /\ gaps' = IF "entry" \in job[w].left THEN gaps ELSE gaps \cup {Ver(w)}
  /\ UNCHANGED <<upstream, clone, fallback, crashes>>

\* copytree lists the files in any order; a script without metadata.json gets a
\* default one after that.
CopyFile(w, f) ==
  /\ f \in job[w].left
  /\ cache[Ver(w)].dir
  /\ GotoWith(w, "copying", Copying(w, job[w].left \ {f}))
  /\ cache' = IF f = "entry" THEN [cache EXCEPT ![Ver(w)].entry = job[w].temp]
                             ELSE [cache EXCEPT ![Ver(w)].meta = TRUE]
  /\ UNCHANGED <<upstream, clone, fallback, gaps, crashes>>

\* A single file is copied into the directory as it is, whatever lies there: old
\* files, old metadata and an old .cache_info stay.  It is the entry point if the
\* metadata says so, which default metadata does of main.py only.
CopySingle(w) ==
  /\ Single(job[w].temp)
  /\ GotoWith(w, "clearing", Copying(w, IF cache[Ver(w)].meta THEN {} ELSE {"meta"}))
  /\ cache' = [cache EXCEPT ![Ver(w)].dir = TRUE,
                            ![Ver(w)].entry = IF "entry" \in job[w].left THEN job[w].temp ELSE @]
  /\ gaps' = gaps \cup {Ver(w)}
  /\ UNCHANGED <<upstream, clone, fallback, crashes>>

ParseMetadata(w) ==
  /\ Goto(w, "parsing", "saving")
  /\ cache[Ver(w)].meta
  /\ UNCHANGED <<upstream, clone, cache, fallback, gaps, crashes>>

\* .cache_info is written last, with the hash of the entry point, or null if it is
\* not there.
SaveCacheInfo(w) ==
  /\ Goto(w, "saving", "ready")
  /\ cache[Ver(w)].dir
  /\ cache' = [cache EXCEPT ![Ver(w)].info = "saved",
                            ![Ver(w)].hash = cache[Ver(w)].entry,
                            ![Ver(w)].age = 0]
  /\ UNCHANGED <<upstream, clone, fallback, gaps, crashes>>

\* An exception of the network, git or the file system leaves everything as it
\* is: the request fails.
GetScriptFails(w) ==
  /\ job[w].pc \in InGetScript \ {"cloning", "ready"}
  /\ job' = [job EXCEPT ![w] = NoJob]
  /\ UNCHANGED <<upstream, clone, cache, fallback, gaps, crashes>>

\* get_script returned; validate_script_execution wants the entry point.
RunScript(w) ==
  /\ Goto(w, "ready", IF cache[Ver(w)].meta /\ cache[Ver(w)].entry # 0
                        THEN "running" ELSE "idle")
  /\ UNCHANGED <<upstream, clone, cache, fallback, gaps, crashes>>

ScriptEnds(w) ==
  /\ Goto(w, "running", "idle")
  /\ UNCHANGED <<upstream, clone, cache, fallback, gaps, crashes>>

----------------------------------------------------------------------------
(* ScriptDownloader *)

\* get_script(force_download=True) invalidates the cache before anything else.
ForceDownload(w, v) ==
  /\ w \in Downloaders
  /\ GotoWith(w, "idle", NewJob("forcing", v, Since(v)))
  /\ UNCHANGED <<upstream, clone, cache, fallback, gaps, crashes>>

Invalidate(w, v) ==
  /\ w \in Downloaders
  /\ GotoWith(w, "idle", NewJob("invalidating", v, 0))
  /\ UNCHANGED <<upstream, clone, cache, fallback, gaps, crashes>>

\* Without a version the directory of the script goes, with all versions in it.
Invalidated(w) == IF Ver(w) = 0 THEN Versions ELSE {Ver(w)}

InvalidateCache(w) ==
  /\ \/ Goto(w, "forcing", FirstStep(Ver(w)))
     \/ Goto(w, "invalidating", "idle")
  /\ Drop(Invalidated(w))
  /\ UNCHANGED <<upstream, clone, fallback, crashes>>

\* validate_script and get_script_info look at what get_script returned.
Inspect(w) ==
  /\ w \in Downloaders
  /\ Goto(w, "ready", "idle")
  /\ UNCHANGED <<upstream, clone, cache, fallback, gaps, crashes>>

----------------------------------------------------------------------------
(* cleanup_old_cache, crashes, time *)

IsOld(v) ==
  cache[v].dir /\ (cache[v].info = "none" \/ (cache[v].info = "saved" /\ cache[v].age = 2))

Old == {v \in Versions : IsOld(v)}

Broken == [NoClone EXCEPT !.dir = "broken"]

\* The loop runs at the start of a worker and once a day, whenever the worker's
\* event loop is free.
MayCleanUp(w) == job[w].pc \in {"idle", "running", "resolving", "fetching"}

\* "git_repo" looks like a script: its subdirectories have no .cache_info and go,
\* .git with them.
CleanupOldCache(w) ==
  /\ MayCleanUp(w)
  /\ Drop(Old)
  /\ clone' = IF clone.dir = "absent" THEN clone ELSE Broken
  /\ UNCHANGED <<upstream, job, fallback, crashes>>

\* What an interrupted rmtree may leave of a directory.
Remains(d) ==
  {r \in [dir : {d.dir}, entry : {0, d.entry}, meta : {FALSE, d.meta}, info : {d.info},
          hash : {d.hash}, age : {d.age}]
         \cup [dir : {d.dir}, entry : {0, d.entry}, meta : {FALSE, d.meta}, info : {"none"},
               hash : {0}, age : {0}] : r.dir}

\* It has removed some versions and stops at another one.
CutShort(from) ==
  \E v \in from : \E gone \in SUBSET (from \ {v}), r \in Remains(cache[v]) :
    /\ cache' = [u \in Versions |->
                    IF u = v THEN r ELSE IF u \in gone THEN NoEntry ELSE cache[u]]
    /\ gaps' = (gaps \ gone) \cup {v}

\* Git may still open what is left of a clone.
Damaged == {Broken} \cup IF Works THEN {[clone EXCEPT !.dir = "torn"]} ELSE {}

\* An OSError of rmtree.
InvalidateFails(w) ==
  /\ job[w].pc \in {"forcing", "invalidating"}
  /\ CutShort(Invalidated(w))
  /\ job' = [job EXCEPT ![w] = NoJob]
  /\ UNCHANGED <<upstream, clone, fallback, crashes>>

\* The cleanup logs what it cannot remove, and goes on.
CleanupFails(w) ==
  /\ crashes < MaxCrashes
  /\ crashes' = crashes + 1
  /\ MayCleanUp(w)
  /\ CutShort(Old) \/ \E gone \in SUBSET Old : Drop(gone)
  /\ clone' \in IF clone.dir = "absent" THEN {clone} ELSE {clone} \cup Damaged
  /\ UNCHANGED <<upstream, job, fallback>>

\* A worker dies: rmtree, the writing of .cache_info and a clone may be cut short.
\* (An rmtree that raises at these places ends the request the same way.)
Crash(w) ==
  /\ crashes < MaxCrashes
  /\ crashes' = crashes + 1
  /\ \/ job[w].pc # "idle" /\ UNCHANGED <<cache, clone, gaps>>
     \/ /\ job[w].pc \in {"forcing", "invalidating"}
        /\ CutShort(Invalidated(w))
        /\ UNCHANGED clone
     \/ /\ job[w].pc = "clearing" /\ ~Single(job[w].temp)
        /\ \E r \in Remains(cache[Ver(w)]) : cache' = [cache EXCEPT ![Ver(w)] = r]
        /\ UNCHANGED <<clone, gaps>>
     \/ /\ job[w].pc = "saving" /\ cache[Ver(w)].dir
        /\ cache' = [cache EXCEPT ![Ver(w)].info = "torn", ![Ver(w)].hash = 0, ![Ver(w)].age = 0]
        /\ UNCHANGED <<clone, gaps>>
     \/ /\ job[w].pc \in {"updating", "cloning"}
        /\ clone' \in Damaged \cup {[FreshClone EXCEPT !.dir = "torn"]}
        /\ UNCHANGED <<cache, gaps>>
  /\ job' = [job EXCEPT ![w] = NoJob]
  /\ UNCHANGED <<upstream, fallback>>

Release ==
  /\ upstream < MaxRelease
  /\ upstream' = upstream + 1
  /\ UNCHANGED <<clone, cache, job, fallback, gaps, crashes>>

\* A script runs for an hour at most (ScrapingRequest.timeout), so none sees a
\* directory that was valid when it started become 168 hours old.
Ages(v) ==
  /\ cache[v].info = "saved" /\ cache[v].age < 2
  /\ cache[v].age = 1 => \A w \in Workers : job[w].pc \in {"ready", "running"} => Ver(w) # v
  /\ cache' = [cache EXCEPT ![v].age = @ + 1]
  /\ UNCHANGED <<upstream, clone, job, fallback, gaps, crashes>>

----------------------------------------------------------------------------

WorkerStep(w) ==
  \/ \E v \in 0..MaxRelease : Request(w, v)
  \/ Pull(w) \/ DiscardClone(w) \/ CloneFresh(w) \/ CloneFails(w)
  \/ LatestTag(w) \/ Checkout(w) \/ CopyOut(w)
  \/ LatestVersion(w) \/ FirstListed(w) \/ Fetch(w) \/ ListLatest(w) \/ DownloadObjects(w)
  \/ CheckCache(w) \/ ClearCache(w) \/ MakeDir(w) \/ CopySingle(w)
  \/ \E f \in Files : CopyFile(w, f)
  \/ ParseMetadata(w) \/ SaveCacheInfo(w) \/ GetScriptFails(w)
  \/ RunScript(w) \/ ScriptEnds(w)
  \/ \E v \in 0..MaxRelease : ForceDownload(w, v) \/ Invalidate(w, v)
  \/ InvalidateCache(w) \/ InvalidateFails(w) \/ Inspect(w)
  \/ CleanupOldCache(w) \/ CleanupFails(w)
  \/ Crash(w)

Next ==
  /\ \/ \E w \in Workers : WorkerStep(w)
     \/ Release
     \/ \E v \in Versions : Ages(v)
  /\ UNCHANGED repository

Spec == Init /\ [][Next]_vars

----------------------------------------------------------------------------
(* Properties *)

\* Whatever failed or crashed half-way before, get_script returns a directory
\* whose files are all there and whose .cache_info fits them: an interrupted
\* download, rmtree or write of .cache_info is never taken for a cached script.
\* (Holds for a worker that has the directory for itself.)  It may return one
\* without its entry point, with the hash null or not compared, and only if that
\* was missing from the source already, if the script is a single file, or if an
\* invalidation or a cleanup of the version was cut short.
ReadyScriptIsWhole ==
  \A w \in Workers : job[w].pc = "ready" =>
    LET d == cache[Ver(w)]
    IN /\ d.meta /\ d.info = "saved"
       /\ IF d.entry = 0 THEN Ver(w) \in gaps ELSE d.entry = d.hash

\* A request for the latest version is not resolved to one older than the newest
\* there was when it was made, however the clone, its detached head, the cache or
\* an invalidation stand: git's tags are fetched first and sorted as numbers, and
\* a server of scripts is asked.  An older one comes from S3Repository, which sorts
\* strings, and never but for a name that comes later as a string, and from
\* HttpRepository when it takes the first of a list it does not sort.
LatestIsFresh ==
  \A w \in Workers : Ver(w) # 0 /\ Ver(w) < job[w].since =>
    \/ repository = "s3" /\ StringKey(Ver(w)) > StringKey(job[w].since)
    \/ repository = "http" /\ job[w].guessed

\* "Multiple workers can run concurrently" (PRPs/phase4-worker-system.md): the
\* files a running script was started from stay until it ends.  Holds for a
\* worker that has the directory for itself, whose own cleanup spares it.
RunningScriptKeepsFiles ==
  \A w \in Workers : job[w].pc = "running" =>
    cache[Ver(w)].meta /\ cache[Ver(w)].entry # 0

\* A worker runs another version than the one it was asked for only if a
\* checkout of that version has failed: leftovers of other versions in the
\* clone, its detached head or the cache directory never show through.
OtherVersionNeedsFallback ==
  \A w \in Workers : job[w].pc \in {"ready", "running"} =>
    cache[Ver(w)].entry \in {0, Ver(w)} \/ Ver(w) \in fallback

----------------------------------------------------------------------------
(* What the properties rest on *)

\* A clone has the tags of its branch from some point on, the newest one among
\* them, and its head is on one of them.
CloneIsInOrder ==
  Works =>
    /\ clone.branch \in clone.tags
    /\ clone.tags \subseteq 1..clone.branch
    /\ clone.branch <= upstream
    /\ clone.head \in clone.tags

\* Where a version is wanted there is one, and only the repository that is
\* configured takes part.
InOrder(at, goal, v) ==
  /\ at \in {"checking", "checkout", "copyout", "fetching", "downloading", "clearing",
            "making", "copying", "parsing", "saving", "ready", "running"} => v # 0
  /\ at \in {"updating", "cloning"} /\ goal = "checkout" => v # 0
  /\ at = "forcing" => goal = "list"
  /\ at \in {"updating", "cloning", "list", "checkout", "copyout"} => repository = "git"
  /\ at = "resolving" => repository = "http"
  /\ at = "listing" => repository = "s3"

RequestsAreInOrder ==
  \A w \in Workers : InOrder(job[w].pc, job[w].goal, Ver(w))

\* The clone a latest version is chosen from is as new as the request, whoever
\* else renews it meanwhile.
ListedIsFresh ==
  \A w \in Workers :
    /\ job[w].since <= upstream
    /\ job[w].pc = "list" /\ Works => job[w].since <= clone.branch

\* The conjunction that a step preserves, whoever shares the directory
\* (ScriptCache_proofs).
IInv ==
  /\ TypeOK
  /\ CloneIsInOrder
  /\ RequestsAreInOrder
  /\ ListedIsFresh
  /\ LatestIsFresh

\* The files on their way into the cache are of the version they go to.
VersionsAreRight ==
  /\ \A v \in Versions : cache[v].entry \in {0, v} \/ v \in fallback
  /\ \A w \in Workers :
       /\ job[w].pc \in {"clearing", "making", "copying"} =>
            job[w].temp = Ver(w) \/ Ver(w) \in fallback
       /\ job[w].pc = "copyout" /\ Works =>
            clone.head = Ver(w) \/ Ver(w) \in fallback

OneWorker == \A u, w \in Workers : u = w

\* What a .cache_info that is not expired says of its directory is true, but for
\* the versions with a gap.
InfoIsTrue ==
  \A v \in Versions : cache[v].info = "saved" =>
    /\ cache[v].dir
    /\ v \notin gaps =>
         /\ cache[v].hash # 0
         /\ cache[v].age = 0 /\ cache[v].meta => cache[v].entry = cache[v].hash

\* How far the directory of the version wanted is, at each step of get_script.
DirectoryIs(w) ==
  LET d == cache[Ver(w)]
      at == job[w].pc
      whole == Ver(w) \notin gaps
  IN /\ at \in {"checkout", "copyout", "fetching", "downloading", "clearing"}
           \/ (at \in {"updating", "cloning"} /\ job[w].goal = "checkout") =>
          ~IsCacheValid(Ver(w))
     /\ at \in {"clearing", "making", "copying"} => job[w].temp # 0
     /\ at \in {"clearing", "making"} => "meta" \in job[w].left
     /\ at = "making" => d = NoEntry
     /\ at = "copying" => "meta" \in job[w].left \/ d.meta
     /\ at = "copying" /\ whole =>
          d.info = "none" /\ ("entry" \in job[w].left \/ d.entry # 0)
     /\ at \in {"parsing", "saving"} => d.meta
     /\ at \in {"parsing", "saving"} /\ whole => d.info = "none" /\ d.entry # 0
     /\ at \in {"ready", "running"} => d.info = "saved" /\ d.meta /\ d.age < 2
     /\ at = "ready" => IF d.entry = 0 THEN ~whole ELSE d.entry = d.hash
     /\ at = "running" => d.entry # 0

DirectoryFollows == \A w \in Workers : DirectoryIs(w)

\* The conjunction that a step of a worker that has the directory for itself
\* preserves.
AloneInv == InfoIsTrue /\ DirectoryFollows

----------------------------------------------------------------------------
(* The store that get_script makes of the directory *)

\* A directory without a gap counts while get_script would take it, or has taken it.
Using(w) ==
  IF job[w].pc \in {"ready", "running"} /\ Ver(w) \notin gaps THEN {Ver(w)} ELSE {}

Held(v) ==
  IF v \notin gaps /\ (IsCacheValid(v) \/ \E w \in Workers : v \in Using(w))
    THEN {cache[v].entry} ELSE {}

Store == INSTANCE ScriptStore WITH
  Contents <- Versions,
  held <- [v \in Versions |-> Held(v)], using <- [w \in Workers |-> Using(w)]

\* Through rmtree, copytree, the metadata and .cache_info, one file after another,
\* and whatever fails or crashes between them, get_script and the cleanup behave as
\* the store of ScriptStore does: a script comes as a whole, never changes in
\* place and stays while it is in use.  (Holds for a worker that has the directory
\* for itself, of the versions without a gap.)
ImplementsScriptStore == Store!Spec
============================================================================
