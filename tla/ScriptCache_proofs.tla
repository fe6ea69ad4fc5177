-------------------------- MODULE ScriptCache_proofs --------------------------
(***************************************************************************)
(* What is proved of ScriptCache.  Whoever shares the directory, a step    *)
(* preserves IInv (NextIInv): types, the order of the clone's tags, and    *)
(* that no latest version is older than its request.  A step of a worker   *)
(* that has the clone for itself, or of any worker where there is no       *)
(* clone, keeps the versions apart (VersionsStep); one of a worker that    *)
(* has the directory for itself keeps .cache_info true of its directory    *)
(* and the directory in step with get_script (AloneStep).                  *)
(***************************************************************************)
EXTENDS ScriptCache, TLAPS

----------------------------------------------------------------------------
(* What the helpers do to job *)

\* Worker w has gone from one step to another; nobody else has moved.
Moves(w, from, to) ==
  /\ job[w].pc = from
  /\ job' \in [Workers -> JobType]
  /\ job'[w].pc = to
  /\ \A u \in Workers \ {w} : job'[u] = job[u]

LEMMA IdleIsJob == NoJob \in JobType
  BY CacheAssumption DEF JobType, NoJob, Steps, Files

LEMMA GotoEffect ==
  ASSUME TypeOK, NEW w \in Workers, NEW from, NEW to \in Steps, Goto(w, from, to)
  PROVE  /\ Moves(w, from, to)
         /\ to = "idle" => job'[w] = NoJob
         /\ to # "idle" => /\ job'[w].goal = job[w].goal
                           /\ job'[w].ver = job[w].ver
                           /\ job'[w].temp = job[w].temp
                           /\ job'[w].left = job[w].left
                           /\ job'[w].since = job[w].since
                           /\ job'[w].guessed = job[w].guessed
<1> DEFINE next == IF to = "idle" THEN NoJob ELSE [job[w] EXCEPT !.pc = to]
<1>1. job[w] \in JobType
  BY DEF TypeOK
<1>2. next \in JobType
  <2>1. [job[w] EXCEPT !.pc = to] \in JobType
    BY <1>1 DEF JobType
  <2>2. QED
    BY <2>1, IdleIsJob
<1>3. job' = [job EXCEPT ![w] = next] /\ job[w].pc = from
  BY DEF Goto
<1>4. /\ next.pc = to
      /\ to = "idle" => next = NoJob
      /\ to # "idle" => /\ next.goal = job[w].goal
                        /\ next.ver = job[w].ver
                        /\ next.temp = job[w].temp
                        /\ next.left = job[w].left
                        /\ next.since = job[w].since
                        /\ next.guessed = job[w].guessed
  BY <1>1 DEF JobType, NoJob
<1> HIDE DEF next
<1>5. QED
  BY <1>2, <1>3, <1>4 DEF Moves, TypeOK

LEMMA GotoWithEffect ==
  ASSUME TypeOK, NEW w \in Workers, NEW from, NEW next \in JobType,
         GotoWith(w, from, next)
  PROVE  Moves(w, from, next.pc) /\ job'[w] = next
  BY DEF GotoWith, Moves, TypeOK

\* The fields that a step changes beside pc.
LEMMA ResolvedJob ==
  ASSUME TypeOK, NEW w \in Workers, NEW v \in 0..MaxRelease
  PROVE  LET k == Resolved(w, v)
             g == [k EXCEPT !.guessed = TRUE]
         IN /\ k \in JobType /\ k.pc = "checking" /\ k.ver = v
            /\ k.since = job[w].since /\ k.goal = job[w].goal
            /\ g \in JobType /\ g.pc = "checking" /\ g.ver = v
            /\ g.since = job[w].since /\ g.goal = job[w].goal /\ g.guessed
<1>1. job[w] \in JobType
  BY DEF TypeOK
<1>2. QED
  BY <1>1 DEF Resolved, JobType, Steps, InGetScript

LEMMA CheckedJob ==
  ASSUME TypeOK, NEW w \in Workers, NEW to \in Steps
  PROVE  LET k == Checked(w, to)
         IN /\ k \in JobType /\ k.pc = to /\ k.ver = Ver(w) /\ k.since = 0
            /\ k.goal = (IF to = "updating" THEN "checkout" ELSE "list")
            /\ k.left = {}
<1>1. NoJob \in JobType /\ job[w] \in JobType
  BY IdleIsJob DEF TypeOK
<1>2. NoJob.goal = "list" /\ NoJob.since = 0 /\ NoJob.left = {}
  BY DEF NoJob
<1>3. Ver(w) \in 0..MaxRelease
  BY <1>1 DEF JobType, Ver
<1>4. QED
  BY <1>1, <1>2, <1>3 DEF Checked, JobType

LEMMA DownloadedJob ==
  ASSUME TypeOK, NEW w \in Workers, NEW v \in 0..MaxRelease, NEW files \in SUBSET Files
  PROVE  LET k == Downloaded(w, v, files)
         IN /\ k \in JobType /\ k.pc = "clearing" /\ k.temp = v /\ k.left = files
            /\ k.ver = Ver(w) /\ k.since = job[w].since /\ k.guessed = job[w].guessed
<1>1. job[w] \in JobType
  BY DEF TypeOK
<1>2. QED
  BY <1>1 DEF Downloaded, JobType, Ver, Steps, InGetScript

LEMMA CopyingJob ==
  ASSUME TypeOK, NEW w \in Workers, NEW files \in SUBSET Files
  PROVE  LET k == Copying(w, files)
         IN /\ k \in JobType /\ k.left = files
            /\ k.pc = (IF files = {} THEN "parsing" ELSE "copying")
            /\ files # {} => k.temp = job[w].temp
            /\ k.ver = Ver(w) /\ k.since = job[w].since /\ k.guessed = job[w].guessed
<1>1. job[w] \in JobType /\ 0 \in 0..MaxRelease
  BY CacheAssumption DEF TypeOK
<1>2. QED
  BY <1>1 DEF Copying, JobType, Ver, Steps, InGetScript

LEMMA NewJobIsJob ==
  ASSUME NEW p \in Steps, NEW v \in 0..MaxRelease, NEW s \in 0..MaxRelease
  PROVE  LET k == NewJob(p, v, s)
         IN /\ k \in JobType /\ k.pc = p /\ k.ver = v /\ k.goal = "list"
            /\ k.since = s /\ k.left = {}
  BY IdleIsJob DEF NewJob, NoJob, JobType

LEMMA FilesOfVersion ==
  ASSUME NEW v
  PROVE  FilesOf(v) \in SUBSET Files /\ "meta" \in FilesOf(v)
  BY DEF FilesOf, Files

LEMMA ResetEffect ==
  ASSUME TypeOK, NEW w \in Workers, job' = [job EXCEPT ![w] = NoJob]
  PROVE  Moves(w, job[w].pc, "idle") /\ job'[w] = NoJob
<1>1. NoJob.pc = "idle"
  BY DEF NoJob
<1>2. QED
  BY <1>1, IdleIsJob DEF Moves, TypeOK

LEMMA NewestOfClone ==
  ASSUME TypeOK, CloneIsInOrder, Works
  PROVE  Newest(clone.tags) = clone.branch /\ clone.branch \in Versions
<1> DEFINE IsNewest(x) == x \in clone.tags /\ \A y \in clone.tags : x >= y
<1>1. clone.branch \in Nat /\ clone.tags \subseteq Nat /\ clone.branch \in Versions
  BY DEF TypeOK, CloneType, CloneIsInOrder, Versions
<1>2. IsNewest(clone.branch)
  BY <1>1 DEF CloneIsInOrder
<1>3. \A x : IsNewest(x) => x = clone.branch
  BY <1>1, <1>2
<1>4. IsNewest(Newest(clone.tags))
  BY <1>2 DEF Newest, Max
<1>5. QED
  BY <1>1, <1>3, <1>4

\* The order of the names agrees with the order of the versions, but for the first
\* version, 1.9.0, which comes after 1.89.0.
LEMMA KeysAreNumbers ==
  ASSUME NEW v \in 1..91
  PROVE  StringKey(v) = IF v = 1 THEN 179 ELSE 16 + 2 * v
  BY DEF StringKey

LEMMA FirstOfNames ==
  ASSUME NEW n \in 1..91
  PROVE  /\ FirstName(1..n) \in 1..n
         /\ \A u \in 1..n : StringKey(u) <= StringKey(FirstName(1..n))
<1> DEFINE first == IF n <= 81 THEN 1 ELSE n
<1>1. first \in 1..n /\ \A u \in 1..n : StringKey(u) <= StringKey(first)
  BY KeysAreNumbers
<1>2. QED
  BY <1>1 DEF FirstName

----------------------------------------------------------------------------
(* The clone and the cache directory *)

\* No clone is older than the one before it.
CloneAdvances ==
  Works' =>
    \/ clone'.branch = upstream
    \/ Works /\ clone.branch <= clone'.branch

LEMMA NoCloneIsClone ==
  /\ NoClone \in CloneType /\ NoClone.dir = "absent"
  /\ Broken \in CloneType /\ Broken.dir = "broken"
<1>1. {} \in SUBSET Versions /\ 0 \in 0..MaxRelease /\ TRUE \in BOOLEAN
  BY CacheAssumption
<1>2. NoClone \in CloneType
  BY <1>1 DEF NoClone, CloneType
<1>3. QED
  BY <1>2 DEF NoClone, Broken, CloneType

LEMMA PullKeepsClone ==
  ASSUME IInv, NEW w \in Workers, Pull(w)
  PROVE  clone' \in CloneType /\ CloneIsInOrder' /\ CloneAdvances
<1> DEFINE tags == clone.tags \cup (clone.branch + 1)..upstream
<1>1. /\ clone \in CloneType /\ upstream \in Versions
      /\ clone.branch \in Nat /\ upstream \in Nat /\ clone.tags \subseteq Versions
  BY CacheAssumption DEF IInv, TypeOK, CloneType, Versions
<1>2. /\ clone.branch \in clone.tags /\ clone.tags \subseteq 1..clone.branch
      /\ clone.branch <= upstream
  BY DEF Pull, IInv, CloneIsInOrder
<1>3. tags \subseteq 1..upstream /\ upstream \in tags
  BY <1>1, <1>2
<1>4. tags \in SUBSET Versions
  BY <1>1, <1>3, CacheAssumption DEF Versions
<1>5. PICK dir \in {clone.dir, "ok"} :
        clone' = [clone EXCEPT !.dir = dir, !.branch = upstream, !.head = upstream, !.tags = tags]
  BY DEF Pull
<1> HIDE DEF tags
<1>6. /\ clone'.tags = tags /\ clone'.branch = upstream /\ clone'.head = upstream
      /\ upstream' = upstream
  BY <1>1, <1>5 DEF Pull, CloneType
<1>7. clone' \in CloneType
  <2>1. upstream \in 0..MaxRelease
    BY <1>1, CacheAssumption DEF Versions
  <2>2. QED
    BY <1>1, <1>4, <1>5, <2>1 DEF CloneType
<1>8. QED
  BY <1>1, <1>3, <1>6, <1>7 DEF CloneIsInOrder, CloneAdvances

LEMMA CheckoutKeepsClone ==
  ASSUME IInv, NEW w \in Workers, Checkout(w)
  PROVE  clone' \in CloneType /\ CloneIsInOrder' /\ CloneAdvances
<1>1. /\ clone \in CloneType /\ clone.branch \in Nat /\ CloneIsInOrder
      /\ Works /\ upstream' = upstream
  BY CacheAssumption DEF IInv, TypeOK, CloneType, Checkout
<1>2. CASE Ver(w) \in clone.tags
  <2>1. PICK dir \in {clone.dir, "ok"} :
          clone' = [clone EXCEPT !.dir = dir, !.head = Ver(w), !.attached = FALSE]
    BY <1>2 DEF Checkout
  <2>2. Ver(w) \in 0..MaxRelease
    BY <1>1, <1>2, CacheAssumption DEF CloneType, Versions
  <2>3. /\ clone'.branch = clone.branch
        /\ clone'.tags = clone.tags /\ clone'.head = Ver(w)
    BY <1>1, <2>1 DEF CloneType
  <2>4. clone' \in CloneType
    BY <1>1, <2>1, <2>2 DEF CloneType
  <2>5. QED
    BY <1>1, <1>2, <2>3, <2>4 DEF CloneIsInOrder, CloneAdvances
<1>3. CASE Ver(w) \notin clone.tags
  BY <1>1, <1>3 DEF Checkout, CloneIsInOrder, CloneAdvances, Works
<1>4. QED
  BY <1>2, <1>3

\* What is left of a clone has its branch and tags, or is none.
LEMMA DamagedKeepsClone ==
  ASSUME IInv, upstream' = upstream,
         clone' \in {clone} \cup Damaged \cup {[FreshClone EXCEPT !.dir = "torn"]}
  PROVE  clone' \in CloneType /\ CloneIsInOrder' /\ CloneAdvances
<1>1. /\ clone \in CloneType /\ CloneIsInOrder
      /\ clone.branch \in Nat /\ upstream \in Nat /\ upstream \in 1..MaxRelease
  BY CacheAssumption DEF IInv, TypeOK, CloneType, Versions
<1>2. CASE clone' = clone
  BY <1>1, <1>2 DEF CloneIsInOrder, CloneAdvances, Works
<1>3. CASE clone' = Broken
  BY <1>3, NoCloneIsClone DEF CloneIsInOrder, CloneAdvances, Works
<1>4. CASE Works /\ clone' = [clone EXCEPT !.dir = "torn"]
  <2>1. /\ clone' \in CloneType /\ clone'.branch = clone.branch
        /\ clone'.tags = clone.tags /\ clone'.head = clone.head
    BY <1>1, <1>4 DEF CloneType
  <2>2. QED
    BY <1>1, <1>4, <2>1 DEF CloneIsInOrder, CloneAdvances
<1>5. CASE clone' = [FreshClone EXCEPT !.dir = "torn"]
  <2>1. /\ clone'.branch = upstream /\ clone'.tags = {upstream} /\ clone'.head = upstream
        /\ clone' \in CloneType
    <3>1. /\ FreshClone \in CloneType
          /\ FreshClone.branch = upstream /\ FreshClone.tags = {upstream}
          /\ FreshClone.head = upstream
      BY <1>1 DEF FreshClone, CloneType, Versions
    <3>2. QED
      BY <1>5, <3>1 DEF CloneType
  <2>2. QED
    BY <1>1, <2>1 DEF CloneIsInOrder, CloneAdvances
<1>6. QED
  BY <1>2, <1>3, <1>4, <1>5 DEF Damaged

LEMMA CloneStep ==
  ASSUME IInv, Next
  PROVE  clone' \in CloneType /\ CloneIsInOrder' /\ CloneAdvances
<1> DEFINE Goal == clone' \in CloneType /\ CloneIsInOrder' /\ CloneAdvances
<1>1. /\ clone \in CloneType /\ CloneIsInOrder
      /\ clone.branch \in Nat /\ upstream \in Nat /\ upstream \in 1..MaxRelease
  BY CacheAssumption DEF IInv, TypeOK, CloneType, Versions
<1>2. clone' = clone /\ upstream' = upstream => Goal
  BY <1>1 DEF CloneIsInOrder, CloneAdvances, Works
<1>3. clone' \in CloneType /\ clone'.dir \in {"absent", "broken"} => Goal
  BY DEF CloneIsInOrder, CloneAdvances, Works
<1>4. ASSUME NEW w \in Workers, DiscardClone(w) PROVE Goal
  BY <1>3, <1>4, NoCloneIsClone DEF DiscardClone
<1>5. ASSUME NEW w \in Workers, CloneFresh(w) PROVE Goal
  <2>1. clone' = FreshClone /\ upstream' = upstream
    BY <1>5 DEF CloneFresh
  <2>2. QED
    BY <1>1, <2>1 DEF FreshClone, CloneType, CloneIsInOrder, CloneAdvances, Versions
<1>6. ASSUME NEW w \in Workers, CloneFails(w) PROVE Goal
  <2>1. CASE clone.dir = "absent"
    BY <1>1, <1>3, <1>6, <2>1 DEF CloneFails, CloneType
  <2>2. CASE clone.dir # "absent"
    BY <1>1, <1>2, <1>6, <2>2 DEF CloneFails, CloneType
  <2>3. QED
    BY <2>1, <2>2
<1>7. ASSUME NEW w \in Workers, CleanupOldCache(w) \/ CleanupFails(w) PROVE Goal
  BY <1>2, <1>7, DamagedKeepsClone DEF CleanupOldCache, CleanupFails, Damaged
<1>8. ASSUME NEW w \in Workers, Crash(w) PROVE Goal
  BY <1>2, <1>8, DamagedKeepsClone DEF Crash
<1>9. ASSUME Release PROVE Goal
  BY <1>1, <1>9 DEF Release, CloneIsInOrder, CloneAdvances, Works
<1>10. QED
  BY <1>2, <1>4, <1>5, <1>6, <1>7, <1>8, <1>9, PullKeepsClone, CheckoutKeepsClone
     DEF Next, WorkerStep, Request, LatestTag, CopyOut, LatestVersion, FirstListed, Fetch,
     ListLatest, DownloadObjects, CheckCache, ClearCache, MakeDir, CopyFile, CopySingle,
     ParseMetadata, SaveCacheInfo, GetScriptFails, RunScript, ScriptEnds,
     ForceDownload, Invalidate, InvalidateCache, InvalidateFails, Inspect, Ages

\* No directory but that of version v has changed.
Puts(v) ==
  /\ cache' \in [Versions -> EntryType]
  /\ \A u \in Versions \ {v} : cache'[u] = cache[u]

LEMMA NoEntryIsEntry == NoEntry \in EntryType
  BY CacheAssumption DEF NoEntry, EntryType

LEMMA PutEffect ==
  ASSUME TypeOK, NEW v \in Versions, NEW e \in EntryType, cache' = [cache EXCEPT ![v] = e]
  PROVE  Puts(v) /\ cache'[v] = e
  BY DEF TypeOK, Puts

LEMMA WantedIsVersion ==
  ASSUME IInv, NEW w \in Workers, Ver(w) # 0
  PROVE  Ver(w) \in Versions
  BY CacheAssumption DEF IInv, TypeOK, JobType, Ver, Versions

LEMMA ClearCacheEffect ==
  ASSUME IInv, NEW w \in Workers, ClearCache(w)
  PROVE  Ver(w) \in Versions /\ Puts(Ver(w)) /\ cache'[Ver(w)] = NoEntry
<1>1. Ver(w) # 0
  BY DEF ClearCache, Goto, IInv, RequestsAreInOrder, InOrder
<1>2. Ver(w) \in Versions /\ \A v \in Versions : cache[v] \in EntryType
  BY <1>1, WantedIsVersion DEF IInv, TypeOK
<1>3. QED
  BY <1>2, NoEntryIsEntry DEF ClearCache, Drop, Puts

LEMMA MakeDirEffect ==
  ASSUME IInv, NEW w \in Workers, MakeDir(w)
  PROVE  LET d == cache[Ver(w)]
             e == cache'[Ver(w)]
         IN /\ Ver(w) \in Versions /\ Puts(Ver(w))
            /\ e.entry = d.entry /\ e.info = d.info
<1> DEFINE d == cache[Ver(w)]
           e == [d EXCEPT !.dir = TRUE]
<1>1. Ver(w) # 0
  BY DEF MakeDir, Goto, IInv, RequestsAreInOrder, InOrder
<1>2. cache[Ver(w)] \in EntryType
  BY <1>1, WantedIsVersion DEF IInv, TypeOK
<1>3. e \in EntryType /\ e.entry = d.entry /\ e.info = d.info
  BY <1>2 DEF EntryType
<1>4. cache' = [cache EXCEPT ![Ver(w)] = e]
  BY DEF MakeDir
<1> HIDE DEF e
<1>5. Ver(w) \in Versions /\ Puts(Ver(w)) /\ cache'[Ver(w)] = e
  BY <1>1, <1>3, <1>4, WantedIsVersion, PutEffect DEF IInv
<1>6. QED
  BY <1>3, <1>5

LEMMA CopyFileEffect ==
  ASSUME IInv, NEW w \in Workers, NEW f \in Files, CopyFile(w, f)
  PROVE  LET d == cache[Ver(w)]
             e == cache'[Ver(w)]
         IN /\ Ver(w) \in Versions /\ Puts(Ver(w))
            /\ e.entry = IF f = "entry" THEN job[w].temp ELSE d.entry
            /\ e.meta = (f = "meta" \/ d.meta)
            /\ e.info = d.info /\ e.dir
<1> DEFINE d == cache[Ver(w)]
           e == IF f = "entry" THEN [d EXCEPT !.entry = job[w].temp]
                               ELSE [d EXCEPT !.meta = TRUE]
<1>1. Ver(w) # 0
  BY DEF CopyFile, GotoWith, IInv, RequestsAreInOrder, InOrder
<1>2. d \in EntryType /\ job[w].temp \in 0..MaxRelease
  BY <1>1, WantedIsVersion DEF IInv, TypeOK, JobType
<1>3. /\ e \in EntryType /\ e.info = d.info /\ e.dir = d.dir
      /\ e.entry = IF f = "entry" THEN job[w].temp ELSE d.entry
  BY <1>2 DEF EntryType
<1>4. e.meta = (f = "meta" \/ d.meta)
  BY <1>2 DEF EntryType, Files
<1>5. cache' = [cache EXCEPT ![Ver(w)] = e] /\ d.dir
  BY DEF CopyFile
<1> HIDE DEF e
<1>6. Ver(w) \in Versions /\ Puts(Ver(w)) /\ cache'[Ver(w)] = e
  BY <1>1, <1>3, <1>5, WantedIsVersion, PutEffect DEF IInv
<1>7. QED
  BY <1>3, <1>4, <1>5, <1>6

LEMMA CopySingleEffect ==
  ASSUME IInv, NEW w \in Workers, CopySingle(w)
  PROVE  LET d == cache[Ver(w)]
             e == cache'[Ver(w)]
         IN /\ Ver(w) \in Versions /\ Puts(Ver(w))
            /\ e.dir /\ e.entry \in {d.entry, job[w].temp} /\ e.meta = d.meta
            /\ gaps' = gaps \cup {Ver(w)}
<1> DEFINE d == cache[Ver(w)]
           entry == IF "entry" \in job[w].left THEN job[w].temp ELSE d.entry
           e == [d EXCEPT !.dir = TRUE, !.entry = entry]
<1>1. Ver(w) # 0
  BY DEF CopySingle, GotoWith, IInv, RequestsAreInOrder, InOrder
<1>2. Ver(w) \in Versions /\ d \in EntryType /\ job[w].temp \in 0..MaxRelease
  BY <1>1, WantedIsVersion DEF IInv, TypeOK, JobType
<1>3. entry \in {d.entry, job[w].temp} /\ entry \in 0..MaxRelease
  BY <1>2 DEF EntryType
<1>4. cache' = [cache EXCEPT ![Ver(w)] = e] /\ gaps' = gaps \cup {Ver(w)}
  BY <1>2 DEF CopySingle, IInv, TypeOK, EntryType
<1> HIDE DEF entry
<1>5. e \in EntryType /\ e.dir /\ e.entry = entry /\ e.meta = d.meta
  BY <1>2, <1>3 DEF EntryType
<1> HIDE DEF e
<1>6. Puts(Ver(w)) /\ cache'[Ver(w)] = e
  BY <1>2, <1>4, <1>5, PutEffect DEF IInv
<1>7. QED
  BY <1>2, <1>3, <1>4, <1>5, <1>6

LEMMA SaveCacheInfoEffect ==
  ASSUME IInv, NEW w \in Workers, SaveCacheInfo(w)
  PROVE  LET d == cache[Ver(w)]
             e == cache'[Ver(w)]
         IN /\ Ver(w) \in Versions /\ Puts(Ver(w))
            /\ e.dir /\ e.entry = d.entry /\ e.meta = d.meta
            /\ e.info = "saved" /\ e.hash = d.entry /\ e.age = 0
<1> DEFINE d == cache[Ver(w)]
           e == [d EXCEPT !.info = "saved", !.hash = d.entry, !.age = 0]
<1>1. Ver(w) # 0
  BY DEF SaveCacheInfo, Goto, IInv, RequestsAreInOrder, InOrder
<1>2. Ver(w) \in Versions /\ d \in EntryType
  BY <1>1, WantedIsVersion DEF IInv, TypeOK
<1>3. /\ e \in EntryType /\ e.dir = d.dir /\ e.entry = d.entry /\ e.meta = d.meta
      /\ e.info = "saved" /\ e.hash = d.entry /\ e.age = 0
  <2>1. d.entry \in 0..MaxRelease /\ 0 \in 0..2
    BY <1>2 DEF EntryType
  <2>2. QED
    BY <1>2, <2>1 DEF EntryType
<1>4. cache' = [cache EXCEPT ![Ver(w)] = e] /\ d.dir
  BY <1>2 DEF SaveCacheInfo, IInv, TypeOK, EntryType
<1> HIDE DEF e
<1>5. Puts(Ver(w)) /\ cache'[Ver(w)] = e
  BY <1>2, <1>3, <1>4, PutEffect DEF IInv
<1>6. QED
  BY <1>2, <1>3, <1>4, <1>5

LEMMA AgesEffect ==
  ASSUME IInv, NEW v \in Versions, Ages(v)
  PROVE  LET d == cache[v]
             e == cache'[v]
         IN /\ Puts(v)
            /\ e.dir = d.dir /\ e.entry = d.entry /\ e.meta = d.meta
            /\ e.info = d.info /\ e.hash = d.hash /\ e.age = d.age + 1
<1> DEFINE d == cache[v]
           e == [d EXCEPT !.age = @ + 1]
<1>1. d \in EntryType /\ d.age \in {0, 1}
  BY DEF IInv, TypeOK, Ages, EntryType
<1>2. /\ e \in EntryType /\ e.dir = d.dir /\ e.entry = d.entry /\ e.meta = d.meta
      /\ e.info = d.info /\ e.hash = d.hash /\ e.age = d.age + 1
  BY <1>1 DEF EntryType
<1>3. cache' = [cache EXCEPT ![v] = e]
  BY <1>1 DEF Ages, EntryType
<1> HIDE DEF e
<1>4. Puts(v) /\ cache'[v] = e
  BY <1>2, <1>3, PutEffect DEF IInv
<1>5. QED
  BY <1>2, <1>4

\* What is left of a directory: the files that are there were there before, and
\* so was .cache_info.
LEMMA RemainsOf ==
  ASSUME NEW d \in EntryType, NEW r \in Remains(d)
  PROVE  /\ r \in EntryType /\ r.dir /\ d.dir
         /\ r.entry \in {0, d.entry}
         /\ r.meta => d.meta
         /\ \/ r.info = d.info /\ r.hash = d.hash /\ r.age = d.age
            \/ r.info = "none"
<1>1. d.entry \in 0..MaxRelease /\ d.meta \in BOOLEAN /\ 0 \in 0..MaxRelease /\ 0 \in 0..2
  BY CacheAssumption DEF EntryType
<1>2. r.dir
  BY DEF Remains
<1>3. CASE r \in [dir : {d.dir}, entry : {0, d.entry}, meta : {FALSE, d.meta},
                 info : {d.info}, hash : {d.hash}, age : {d.age}]
  BY <1>1, <1>2, <1>3 DEF EntryType
<1>4. CASE r \in [dir : {d.dir}, entry : {0, d.entry}, meta : {FALSE, d.meta},
                 info : {"none"}, hash : {0}, age : {0}]
  BY <1>1, <1>2, <1>4 DEF EntryType
<1>5. QED
  BY <1>3, <1>4 DEF Remains

\* Of the versions in "from", directories go or are cut short; the others stay.
Shrinks(from) ==
  /\ cache' \in [Versions -> EntryType]
  /\ gaps' \subseteq Versions
  /\ \A u \in Versions :
       \/ cache'[u] = cache[u] /\ (u \in gaps' <=> u \in gaps)
       \/ u \in from /\ cache'[u] = NoEntry
       \/ u \in from /\ cache'[u] \in Remains(cache[u]) /\ u \in gaps'

LEMMA DropEffect ==
  ASSUME TypeOK, NEW gone, NEW from, gone \subseteq from, Drop(gone)
  PROVE  /\ Shrinks(from)
         /\ \A v \in Versions : cache'[v] = IF v \in gone THEN NoEntry ELSE cache[v]
<1>1. \A v \in Versions : cache[v] \in EntryType
  BY DEF TypeOK
<1>2. \A v \in Versions : cache'[v] = IF v \in gone THEN NoEntry ELSE cache[v]
  BY DEF Drop
<1>3. cache' \in [Versions -> EntryType]
  BY <1>1, NoEntryIsEntry DEF Drop
<1>4. gaps' \subseteq Versions /\ \A v : v \notin gone => (v \in gaps' <=> v \in gaps)
  BY DEF TypeOK, Drop
<1>5. QED
  BY <1>2, <1>3, <1>4 DEF Shrinks

LEMMA CutShortEffect ==
  ASSUME TypeOK, NEW from \in SUBSET Versions, CutShort(from)
  PROVE  Shrinks(from)
<1>1. PICK v \in from :
        \E gone \in SUBSET (from \ {v}), r \in Remains(cache[v]) :
          /\ cache' = [u \in Versions |->
                          IF u = v THEN r ELSE IF u \in gone THEN NoEntry ELSE cache[u]]
          /\ gaps' = (gaps \ gone) \cup {v}
  BY DEF CutShort
<1>2. PICK gone \in SUBSET (from \ {v}), r \in Remains(cache[v]) :
        /\ cache' = [u \in Versions |->
                        IF u = v THEN r ELSE IF u \in gone THEN NoEntry ELSE cache[u]]
        /\ gaps' = (gaps \ gone) \cup {v}
  BY <1>1
<1>3. v \in Versions /\ r \in EntryType
  BY RemainsOf DEF TypeOK
<1>4. \A u \in Versions : cache[u] \in EntryType
  BY DEF TypeOK
<1>5. cache' \in [Versions -> EntryType]
  BY <1>2, <1>3, <1>4, NoEntryIsEntry
<1>6. gaps' \subseteq Versions
  BY <1>2, <1>3 DEF TypeOK
<1>7. ASSUME NEW u \in Versions
      PROVE  \/ cache'[u] = cache[u] /\ (u \in gaps' <=> u \in gaps)
             \/ u \in from /\ cache'[u] = NoEntry
             \/ u \in from /\ cache'[u] \in Remains(cache[u]) /\ u \in gaps'
  BY <1>2
<1>8. QED
  BY <1>5, <1>6, <1>7 DEF Shrinks

\* Invalidations and cleanups, whether they succeed or not.
LEMMA RemovalEffect ==
  ASSUME TypeOK, NEW w \in Workers
  PROVE  /\ InvalidateCache(w) \/ InvalidateFails(w) => Shrinks(Invalidated(w))
         /\ CleanupOldCache(w) \/ CleanupFails(w) => Shrinks(Old)
<1>1. Invalidated(w) \subseteq Versions /\ Old \subseteq Versions
  BY CacheAssumption DEF TypeOK, Invalidated, Ver, JobType, Versions, Old
<1>2. InvalidateCache(w) \/ InvalidateFails(w) => Shrinks(Invalidated(w))
  BY <1>1, DropEffect, CutShortEffect DEF InvalidateCache, InvalidateFails
<1>3. CleanupOldCache(w) \/ CleanupFails(w) => Shrinks(Old)
  BY <1>1, DropEffect, CutShortEffect DEF CleanupOldCache, CleanupFails
<1>4. QED
  BY <1>2, <1>3

LEMMA CrashEffect ==
  ASSUME IInv, NEW w \in Workers, Crash(w)
  PROVE  /\ cache' \in [Versions -> EntryType]
         /\ gaps' \subseteq Versions
         /\ job[w].pc # "idle"
         /\ \/ Shrinks(Versions) /\ (cache' # cache => job[w].pc \in {"forcing", "invalidating"})
            \/ /\ job[w].pc = "clearing" /\ gaps' = gaps
               /\ Ver(w) \in Versions /\ Puts(Ver(w))
               /\ cache'[Ver(w)] \in Remains(cache[Ver(w)])
            \/ /\ job[w].pc = "saving" /\ gaps' = gaps
               /\ Ver(w) \in Versions /\ Puts(Ver(w))
               /\ cache'[Ver(w)].info = "torn" /\ cache'[Ver(w)].entry = cache[Ver(w)].entry
<1> DEFINE v == Ver(w)
           d == cache[v]
<1>1. TypeOK /\ gaps \subseteq Versions /\ cache \in [Versions -> EntryType]
  BY DEF IInv, TypeOK
<1>2. CASE job[w].pc # "idle" /\ UNCHANGED <<cache, gaps>>
  BY <1>1, <1>2 DEF Shrinks
<1>3. CASE job[w].pc \in {"forcing", "invalidating"} /\ CutShort(Invalidated(w))
  <2>1. Invalidated(w) \subseteq Versions
    BY <1>1, CacheAssumption DEF TypeOK, Invalidated, Ver, JobType, Versions
  <2>2. Shrinks(Invalidated(w))
    BY <1>1, <1>3, <2>1, CutShortEffect
  <2>3. QED
    BY <1>3, <2>1, <2>2 DEF Shrinks
<1>4. ASSUME job[w].pc \in {"clearing", "saving"} PROVE v \in Versions /\ d \in EntryType
  <2>1. v # 0
    BY <1>4 DEF IInv, RequestsAreInOrder, InOrder
  <2>2. QED
    BY <1>1, <2>1, WantedIsVersion DEF TypeOK
<1>5. CASE /\ job[w].pc = "clearing"
           /\ \E r \in Remains(d) : cache' = [cache EXCEPT ![v] = r]
           /\ UNCHANGED <<clone, gaps>>
  <2>1. PICK r \in Remains(d) : cache' = [cache EXCEPT ![v] = r]
    BY <1>5
  <2>2. Puts(v) /\ cache'[v] = r
    BY <1>1, <1>4, <1>5, <2>1, RemainsOf, PutEffect
  <2>3. QED
    BY <1>1, <1>4, <1>5, <2>2 DEF Puts
<1>6. CASE /\ job[w].pc = "saving" /\ d.dir
           /\ cache' = [cache EXCEPT ![v].info = "torn", ![v].hash = 0, ![v].age = 0]
           /\ UNCHANGED <<clone, gaps>>
  <2> DEFINE e == [d EXCEPT !.info = "torn", !.hash = 0, !.age = 0]
  <2>1. e \in EntryType /\ e.info = "torn" /\ e.entry = d.entry
    <3>1. 0 \in 0..MaxRelease /\ 0 \in 0..2
      BY CacheAssumption
    <3>2. QED
      BY <1>4, <1>6, <3>1 DEF EntryType
  <2>2. cache' = [cache EXCEPT ![v] = e]
    BY <1>1, <1>4, <1>6 DEF TypeOK, EntryType
  <2> HIDE DEF e
  <2>3. Puts(v) /\ cache'[v] = e
    BY <1>1, <1>4, <1>6, <2>1, <2>2, PutEffect
  <2>4. QED
    BY <1>1, <1>4, <1>6, <2>1, <2>3 DEF Puts
<1>7. CASE job[w].pc \in {"updating", "cloning"} /\ UNCHANGED <<cache, gaps>>
  BY <1>1, <1>7 DEF Shrinks
<1>8. QED
  BY <1>2, <1>3, <1>5, <1>6, <1>7 DEF Crash

LEMMA CacheStep ==
  ASSUME IInv, Next
  PROVE  cache' \in [Versions -> EntryType]
<1> DEFINE Goal == cache' \in [Versions -> EntryType]
<1>1. TypeOK /\ cache \in [Versions -> EntryType]
  BY DEF IInv, TypeOK
<1>2. cache' = cache => Goal
  BY <1>1
<1>3. ASSUME NEW w \in Workers,
             \/ InvalidateCache(w) \/ InvalidateFails(w)
             \/ CleanupOldCache(w) \/ CleanupFails(w)
      PROVE  Goal
  BY <1>1, <1>3, RemovalEffect DEF Shrinks
<1>4. QED
  BY <1>2, <1>3, ClearCacheEffect, MakeDirEffect, CopyFileEffect, CopySingleEffect,
     SaveCacheInfoEffect, CrashEffect, AgesEffect
     DEF Puts, Next, WorkerStep, Request, Pull, DiscardClone, CloneFresh, CloneFails,
     LatestTag, Checkout, CopyOut, LatestVersion, FirstListed, Fetch, ListLatest, DownloadObjects,
     CheckCache, ParseMetadata, GetScriptFails, RunScript, ScriptEnds, ForceDownload,
     Invalidate, Inspect, Release

LEMMA HistoryStep ==
  ASSUME IInv, Next
  PROVE  /\ fallback' \subseteq Versions
         /\ gaps' \subseteq Versions
         /\ crashes' \in 0..MaxCrashes
         /\ upstream' \in Versions
         /\ repository' \in Repositories
<1>1. ASSUME NEW w \in Workers, Checkout(w) PROVE fallback' \subseteq Versions
  <2>1. Ver(w) # 0
    BY <1>1 DEF Checkout, Goto, IInv, RequestsAreInOrder, InOrder
  <2>2. QED
    BY <1>1, <2>1, WantedIsVersion DEF Checkout, IInv, TypeOK
<1>2. ASSUME NEW w \in Workers,
             \/ InvalidateCache(w) \/ InvalidateFails(w)
             \/ CleanupOldCache(w) \/ CleanupFails(w)
      PROVE  gaps' \subseteq Versions
  BY <1>2, RemovalEffect DEF Shrinks, IInv
<1>3. ASSUME NEW w \in Workers, ClearCache(w) \/ MakeDir(w) PROVE gaps' \subseteq Versions
  BY <1>3, ClearCacheEffect, MakeDirEffect DEF ClearCache, Drop, MakeDir, IInv, TypeOK
<1>4. fallback' \subseteq Versions
  BY <1>1 DEF IInv, TypeOK, Next, WorkerStep, Request, Pull, DiscardClone, CloneFresh,
     CloneFails, LatestTag, CopyOut, LatestVersion, FirstListed, Fetch, ListLatest,
     DownloadObjects, CheckCache, ClearCache, MakeDir, CopyFile, CopySingle, ParseMetadata,
     SaveCacheInfo, GetScriptFails, RunScript, ScriptEnds, ForceDownload, Invalidate,
     InvalidateCache, InvalidateFails, Inspect, CleanupOldCache, CleanupFails, Crash, Release, Ages
<1>5. gaps' \subseteq Versions
  BY <1>2, <1>3, CrashEffect, CopySingleEffect DEF IInv, TypeOK, Next, WorkerStep, Request,
     Pull, DiscardClone, CloneFresh, CloneFails, LatestTag, Checkout, CopyOut, LatestVersion,
     FirstListed, Fetch, ListLatest, DownloadObjects, CheckCache, CopyFile, ParseMetadata,
     SaveCacheInfo, GetScriptFails, RunScript, ScriptEnds, ForceDownload, Invalidate,
     Inspect, Release, Ages
<1>6. repository' \in Repositories
  BY DEF IInv, TypeOK, Next
<1>7. upstream' = upstream \/ Release
  BY DEF Next, WorkerStep, Request, Pull, DiscardClone, CloneFresh, CloneFails,
     LatestTag, Checkout, CopyOut, LatestVersion, FirstListed, Fetch, ListLatest, DownloadObjects,
     CheckCache, ClearCache, MakeDir, CopyFile, CopySingle, ParseMetadata, SaveCacheInfo,
     GetScriptFails, RunScript, ScriptEnds, ForceDownload, Invalidate,
     InvalidateCache, InvalidateFails, Inspect, CleanupOldCache, CleanupFails, Crash, Ages
<1>8. upstream' \in Versions
  BY <1>7, CacheAssumption DEF IInv, TypeOK, Versions, Release
<1>9. crashes' = crashes \/ (crashes < MaxCrashes /\ crashes' = crashes + 1)
  BY DEF Next, WorkerStep, Request, Pull, DiscardClone, CloneFresh, CloneFails,
     LatestTag, Checkout, CopyOut, LatestVersion, FirstListed, Fetch, ListLatest, DownloadObjects,
     CheckCache, ClearCache, MakeDir, CopyFile, CopySingle, ParseMetadata, SaveCacheInfo,
     GetScriptFails, RunScript, ScriptEnds, ForceDownload, Invalidate,
     InvalidateCache, InvalidateFails, Inspect, CleanupOldCache, CleanupFails, Crash, Release, Ages
<1>10. crashes' \in 0..MaxCrashes
  BY <1>9, CacheAssumption DEF IInv, TypeOK
<1>11. QED
  BY <1>4, <1>5, <1>6, <1>8, <1>10

----------------------------------------------------------------------------
(* The requests *)

\* A step of worker w is right if its own request is in order afterwards: the
\* others have what they had, and no clone gets older.
LEMMA MoveKeeps ==
  ASSUME IInv, Next, NEW w \in Workers, NEW from, NEW to, Moves(w, from, to),
         UNCHANGED upstream,
         job'[w].pc \in Filled => job'[w].left = {},
         RequestsAreInOrder!(w)', ListedIsFresh!(w)', LatestIsFresh!(w)'
  PROVE  IInv'
<1>1. TypeOK'
  <2>1. \A u \in Workers : job'[u].pc \in Filled => job'[u].left = {}
    BY DEF Moves, IInv, TypeOK
  <2>2. QED
    BY <2>1, CloneStep, CacheStep, HistoryStep DEF Moves, TypeOK
<1>2. CloneIsInOrder' /\ CloneAdvances /\ repository' = repository /\ upstream' = upstream
  BY CloneStep DEF Next
<1>3. ASSUME NEW u \in Workers, u # w
      PROVE  RequestsAreInOrder!(u)' /\ ListedIsFresh!(u)' /\ LatestIsFresh!(u)'
  <2>1. job'[u] = job[u]
    BY <1>3 DEF Moves
  <2>2. RequestsAreInOrder!(u)'
    BY <1>2, <1>3, <2>1 DEF IInv, RequestsAreInOrder, InOrder, Ver
  <2>3. ListedIsFresh!(u)'
    <3>1. /\ job[u].since \in Nat /\ upstream \in Nat
          /\ clone.branch \in Nat /\ clone'.branch \in Nat
      BY <1>1, <1>2, CacheAssumption DEF IInv, TypeOK, JobType, CloneType, Versions
    <3>2. /\ job[u].since <= upstream
          /\ job[u].pc = "list" /\ Works => job[u].since <= clone.branch
      BY DEF IInv, ListedIsFresh
    <3>3. QED
      BY <1>2, <2>1, <3>1, <3>2 DEF CloneAdvances
  <2>4. LatestIsFresh!(u)'
    BY <1>2, <2>1 DEF IInv, LatestIsFresh, Ver
  <2>5. QED
    BY <2>2, <2>3, <2>4
<1>4. RequestsAreInOrder'
  BY <1>3 DEF RequestsAreInOrder
<1>5. ListedIsFresh'
  BY <1>3 DEF ListedIsFresh
<1>6. LatestIsFresh'
  BY <1>3 DEF LatestIsFresh
<1>7. QED
  BY <1>1, <1>2, <1>4, <1>5, <1>6 DEF IInv

LEMMA EndKeeps ==
  ASSUME IInv, Next, NEW w \in Workers, NEW from, Moves(w, from, "idle"),
         job'[w] = NoJob, UNCHANGED upstream
  PROVE  IInv'
<1>1. /\ job'[w].pc = "idle" /\ job'[w].ver = 0 /\ job'[w].since = 0
      /\ job'[w].left = {}
  BY DEF NoJob
<1>2. RequestsAreInOrder!(w)' /\ LatestIsFresh!(w)'
  BY <1>1 DEF InOrder, Ver
<1>3. ListedIsFresh!(w)'
  BY <1>1, CacheAssumption DEF IInv, TypeOK, Versions
<1>4. QED
  BY <1>1, <1>2, <1>3, MoveKeeps

\* The request is the same after the step.
LEMMA SameKeeps ==
  ASSUME IInv, Next, NEW w \in Workers, NEW from, NEW to, Moves(w, from, to),
         UNCHANGED upstream, job'[w].ver = job[w].ver, job'[w].since = job[w].since,
         job'[w].guessed = job[w].guessed, job'[w].left = job[w].left,
         to \in Filled => job[w].left = {},
         RequestsAreInOrder!(w)',
         to = "list" => clone'.branch = upstream
  PROVE  IInv'
<1>1. ListedIsFresh!(w)'
  BY DEF Moves, IInv, ListedIsFresh
<1>2. LatestIsFresh!(w)'
  BY DEF IInv, LatestIsFresh, Ver, Next
<1>3. job'[w].pc \in Filled => job'[w].left = {}
  BY DEF Moves
<1>4. QED
  BY <1>1, <1>2, <1>3, MoveKeeps

LEMMA GotoKeeps ==
  ASSUME IInv, Next, NEW w \in Workers, NEW from, NEW to \in Steps, Goto(w, from, to),
         UNCHANGED upstream,
         to # "idle" => InOrder(to, job[w].goal, Ver(w)),
         to \in Filled => job[w].left = {},
         to = "list" => clone'.branch = upstream
  PROVE  IInv'
<1>1. Moves(w, from, to)
  BY GotoEffect DEF IInv
<1>2. CASE to = "idle"
  BY <1>1, <1>2, GotoEffect, EndKeeps DEF IInv
<1>3. CASE to # "idle"
  <2>1. /\ job'[w].pc = to /\ job'[w].goal = job[w].goal
        /\ job'[w].ver = job[w].ver /\ job'[w].since = job[w].since
        /\ job'[w].guessed = job[w].guessed /\ job'[w].left = job[w].left
    BY <1>1, <1>3, GotoEffect DEF IInv, Moves
  <2>2. RequestsAreInOrder!(w)'
    BY <1>3, <2>1 DEF InOrder, Ver, Next
  <2>3. QED
    BY <1>1, <2>1, <2>2, SameKeeps
<1>4. QED
  BY <1>2, <1>3

LEMMA ResetKeeps ==
  ASSUME IInv, Next, NEW w \in Workers, job' = [job EXCEPT ![w] = NoJob],
         UNCHANGED upstream
  PROVE  IInv'
  BY ResetEffect, EndKeeps DEF IInv

\* The same for the steps that change more of the job than where it stands.
LEMMA GotoWithKeeps ==
  ASSUME IInv, Next, NEW w \in Workers, NEW from, NEW next \in JobType,
         GotoWith(w, from, next), UNCHANGED upstream,
         InOrder(next.pc, next.goal, next.ver), next.pc # "list",
         next.pc \in Filled => next.left = {},
         next.since = job[w].since \/ next.since = 0 \/ next.since = upstream,
         \/ next.ver = 0
         \/ /\ next.ver = job[w].ver /\ next.since = job[w].since
            /\ next.guessed = job[w].guessed
         \/ next.ver >= next.since
         \/ repository = "s3" /\ StringKey(next.ver) > StringKey(next.since)
         \/ repository = "http" /\ next.guessed
  PROVE  IInv'
<1>1. Moves(w, from, next.pc) /\ job'[w] = next
  BY GotoWithEffect DEF IInv
<1>2. RequestsAreInOrder!(w)'
  BY <1>1 DEF InOrder, Ver, Next
<1>3. ListedIsFresh!(w)'
  BY <1>1, CacheAssumption DEF IInv, TypeOK, Versions, ListedIsFresh
<1>4. LatestIsFresh!(w)'
  <2>1. next.ver \in Nat /\ next.since \in Nat
    BY CacheAssumption DEF JobType
  <2>2. LatestIsFresh!(w)
    BY DEF IInv, LatestIsFresh
  <2>3. /\ Ver(w)' = next.ver /\ job'[w].since = next.since
        /\ job'[w].guessed = next.guessed /\ repository' = repository
    BY <1>1 DEF Ver, Next
  <2>4. QED
    BY <2>1, <2>2, <2>3 DEF Ver
<1>5. job'[w].pc \in Filled => job'[w].left = {}
  BY <1>1
<1>6. QED
  BY <1>1, <1>2, <1>3, <1>4, <1>5, MoveKeeps

\* The steps of git: a clone that is pulled or made is as new as it can be.
LEMMA GitKeeps ==
  ASSUME IInv, Next, NEW w \in Workers,
         \/ Pull(w) \/ DiscardClone(w) \/ CloneFresh(w) \/ CloneFails(w)
         \/ Checkout(w)
  PROVE  IInv'
<1> USE DEF Steps, InGetScript, Filled
<1>1. InOrder(job[w].pc, job[w].goal, Ver(w)) /\ job[w].goal \in {"list", "checkout"}
  BY DEF IInv, TypeOK, JobType, RequestsAreInOrder
<1>2. CASE Pull(w)
  <2>1. clone'.branch = upstream
    BY <1>2 DEF Pull, IInv, TypeOK, CloneType
  <2>2. Goto(w, "updating", job[w].goal) /\ upstream' = upstream /\ job[w].pc = "updating"
    BY <1>2 DEF Pull, Goto
  <2>3. InOrder(job[w].goal, job[w].goal, Ver(w))
    BY <1>1, <2>2 DEF InOrder
  <2>4. QED
    BY <1>1, <2>1, <2>2, <2>3, GotoKeeps
<1>3. CASE DiscardClone(w)
  <2>1. /\ Goto(w, "updating", "cloning") /\ upstream' = upstream
        /\ InOrder("cloning", job[w].goal, Ver(w))
    BY <1>1, <1>3 DEF DiscardClone, Goto, InOrder
  <2>2. QED
    BY <2>1, GotoKeeps
<1>4. CASE CloneFresh(w)
  <2>1. clone'.branch = upstream
    BY <1>4 DEF CloneFresh, FreshClone
  <2>2. /\ Goto(w, "cloning", job[w].goal) /\ upstream' = upstream
        /\ InOrder(job[w].goal, job[w].goal, Ver(w))
    BY <1>1, <1>4 DEF CloneFresh, Goto, InOrder
  <2>3. QED
    BY <1>1, <2>1, <2>2, GotoKeeps
<1>5. CASE CloneFails(w)
  BY <1>5, GotoKeeps DEF CloneFails
<1>6. CASE Checkout(w)
  <2>1. /\ Goto(w, "checkout", "copyout") /\ upstream' = upstream
        /\ InOrder("copyout", job[w].goal, Ver(w))
    BY <1>1, <1>6 DEF Checkout, Goto, InOrder
  <2>2. QED
    BY <2>1, GotoKeeps
<1>7. QED
  BY <1>2, <1>3, <1>4, <1>5, <1>6

\* The latest version: the newest tag of the clone, the version a server names or
\* lists first, or the directory whose name comes first.
LEMMA LatestKeeps ==
  ASSUME IInv, Next, NEW w \in Workers,
         LatestTag(w) \/ LatestVersion(w) \/ FirstListed(w) \/ ListLatest(w)
  PROVE  IInv'
<1>1. /\ upstream \in 1..91 /\ upstream \in Versions /\ upstream \in Nat
      /\ job[w].since \in Nat /\ job[w].since <= upstream
  BY CacheAssumption DEF IInv, TypeOK, JobType, Versions, ListedIsFresh
<1>2. ASSUME NEW v \in Versions, NEW from, GotoWith(w, from, Resolved(w, v)),
             upstream' = upstream,
             v >= job[w].since \/ (repository = "s3" /\ StringKey(v) > StringKey(job[w].since))
      PROVE  IInv'
  <2>1. v \in 0..MaxRelease /\ v # 0
    BY CacheAssumption DEF Versions
  <2>2. /\ Resolved(w, v) \in JobType /\ Resolved(w, v).pc = "checking"
        /\ Resolved(w, v).ver = v /\ Resolved(w, v).since = job[w].since
    BY <2>1, ResolvedJob DEF IInv
  <2>3. InOrder("checking", Resolved(w, v).goal, v)
    BY <2>1 DEF InOrder
  <2>4. QED
    BY <1>2, <2>2, <2>3, GotoWithKeeps DEF Filled
<1>3. CASE LatestTag(w)
  <2>1. /\ Works /\ upstream' = upstream
        /\ GotoWith(w, "list", Resolved(w, Newest(clone.tags)))
    BY <1>3 DEF LatestTag
  <2>2. Newest(clone.tags) = clone.branch /\ clone.branch \in Versions
    BY <2>1, NewestOfClone DEF IInv
  <2>3. clone.branch >= job[w].since
    BY <1>1, <2>1, <2>2, CacheAssumption DEF GotoWith, IInv, ListedIsFresh, Versions
  <2>4. QED
    BY <1>2, <2>1, <2>2, <2>3
<1>4. CASE LatestVersion(w)
  BY <1>1, <1>2, <1>4 DEF LatestVersion
<1>5. CASE ListLatest(w)
  <2> DEFINE v == FirstName(1..upstream)
  <2>1. v \in 1..upstream /\ \A u \in 1..upstream : StringKey(u) <= StringKey(v)
    BY <1>1, FirstOfNames
  <2>2. /\ GotoWith(w, "listing", Resolved(w, v)) /\ upstream' = upstream
        /\ repository = "s3"
    BY <1>5 DEF ListLatest, GotoWith, IInv, RequestsAreInOrder, InOrder
  <2> HIDE DEF v
  <2>3. v \in Versions /\ v \in 1..91
    BY <1>1, <2>1, CacheAssumption DEF Versions
  <2>4. v >= job[w].since \/ StringKey(v) > StringKey(job[w].since)
    <3>1. CASE job[w].since = 0
      BY <2>3, <3>1
    <3>2. CASE job[w].since # 0
      <4>1. job[w].since \in 1..upstream /\ job[w].since \in 1..91
        BY <1>1, <3>2
      <4>2. StringKey(job[w].since) <= StringKey(v)
        BY <2>1, <4>1
      <4>3. QED
        BY <2>3, <4>1, <4>2, KeysAreNumbers
    <3>3. QED
      BY <3>1, <3>2
  <2>5. QED
    BY <1>2, <2>2, <2>3, <2>4
<1>6. CASE FirstListed(w)
  <2>1. PICK v \in 1..upstream :
          GotoWith(w, "resolving", [Resolved(w, v) EXCEPT !.guessed = TRUE])
    BY <1>6 DEF FirstListed
  <2> DEFINE k == [Resolved(w, v) EXCEPT !.guessed = TRUE]
  <2>2. v \in 0..MaxRelease /\ v # 0
    BY <1>1, CacheAssumption DEF Versions
  <2>3. /\ k \in JobType /\ k.pc = "checking" /\ k.ver = v
        /\ k.since = job[w].since /\ k.guessed
    BY <2>2, ResolvedJob DEF IInv
  <2>4. InOrder("checking", k.goal, v)
    BY <2>2 DEF InOrder
  <2> HIDE DEF k
  <2>5. /\ GotoWith(w, "resolving", k) /\ upstream' = upstream /\ repository = "http"
    BY <1>6, <2>1 DEF k, FirstListed, GotoWith, IInv, RequestsAreInOrder, InOrder
  <2>6. QED
    BY <2>3, <2>4, <2>5, GotoWithKeeps DEF Filled
<1>7. QED
  BY <1>3, <1>4, <1>5, <1>6

\* A download brings a version, the one wanted or what the clone's head has.
LEMMA DownloadKeeps ==
  ASSUME IInv, Next, NEW w \in Workers, CopyOut(w) \/ Fetch(w) \/ DownloadObjects(w)
  PROVE  IInv'
<1>1. ASSUME NEW v \in 0..MaxRelease, NEW files \in SUBSET Files, NEW from,
             GotoWith(w, from, Downloaded(w, v, files)), upstream' = upstream, Ver(w) # 0
      PROVE  IInv'
  <2> DEFINE k == Downloaded(w, v, files)
  <2>1. /\ k \in JobType /\ k.pc = "clearing" /\ k.ver = job[w].ver
        /\ k.since = job[w].since /\ k.guessed = job[w].guessed
    BY DownloadedJob DEF IInv, Ver
  <2>2. InOrder("clearing", k.goal, k.ver)
    BY <1>1, <2>1 DEF InOrder, Ver
  <2> HIDE DEF k
  <2>3. GotoWith(w, from, k)
    BY <1>1 DEF k
  <2>4. QED
    BY <1>1, <2>1, <2>2, <2>3, GotoWithKeeps DEF Filled
<1>2. clone.head \in 0..MaxRelease /\ Ver(w) \in 0..MaxRelease
  BY DEF IInv, TypeOK, CloneType, JobType, Ver
<1>3. job[w].pc \in {"copyout", "fetching", "downloading"} => Ver(w) # 0
  BY DEF IInv, RequestsAreInOrder, InOrder
<1>4. QED
  BY <1>1, <1>2, <1>3, FilesOfVersion DEF CopyOut, Fetch, DownloadObjects, GotoWith

LEMMA RequestKeeps ==
  ASSUME IInv, Next, NEW w \in Workers, NEW v \in 0..MaxRelease,
         Request(w, v) \/ ForceDownload(w, v) \/ Invalidate(w, v)
  PROVE  IInv'
<1>1. ASSUME NEW p \in Steps, NEW s \in {0, upstream}, GotoWith(w, "idle", NewJob(p, v, s)),
             upstream' = upstream, InOrder(p, "list", v), p # "list",
             v = 0 \/ s = 0
      PROVE  IInv'
  <2> DEFINE k == NewJob(p, v, s)
  <2>1. s \in 0..MaxRelease
    <3>1. upstream \in 1..MaxRelease /\ MaxRelease \in Nat
      BY CacheAssumption DEF IInv, TypeOK, Versions
    <3>2. QED
      BY <3>1
  <2>2. /\ k \in JobType /\ k.pc = p /\ k.ver = v /\ k.goal = "list" /\ k.since = s
        /\ k.left = {}
    BY <2>1, NewJobIsJob
  <2> HIDE DEF k
  <2>3. GotoWith(w, "idle", k)
    BY <1>1 DEF k
  <2>4. k.ver = 0 \/ k.ver >= k.since
    BY <1>1, <2>2
  <2>5. QED
    BY <1>1, <2>2, <2>3, <2>4, GotoWithKeeps
<1>2. Since(v) \in {0, upstream} /\ (v = 0 \/ Since(v) = 0)
  BY DEF Since
<1>3. CASE Request(w, v)
  <2>1. /\ FirstStep(v) \in Steps /\ FirstStep(v) # "list"
        /\ InOrder(FirstStep(v), "list", v)
    BY CacheAssumption DEF IInv, TypeOK, FirstStep, GetLatest, Steps, InGetScript, InOrder
  <2>2. QED
    BY <1>1, <1>2, <1>3, <2>1 DEF Request
<1>4. CASE ForceDownload(w, v)
  BY <1>1, <1>2, <1>4 DEF ForceDownload, Steps, InGetScript, InOrder
<1>5. CASE Invalidate(w, v)
  BY <1>1, <1>5 DEF Invalidate, Steps, InOrder
<1>6. QED
  BY <1>3, <1>4, <1>5

LEMMA CacheKeeps ==
  ASSUME IInv, Next, NEW w \in Workers,
         CheckCache(w) \/ CopySingle(w) \/ \E f \in Files : CopyFile(w, f)
  PROVE  IInv'
<1> USE DEF Steps, InGetScript
<1>1. job[w].pc \in {"checking", "clearing", "copying"} => Ver(w) # 0
  BY DEF IInv, RequestsAreInOrder, InOrder
<1>2. CASE CheckCache(w)
  <2> DEFINE to == IF IsCacheValid(Ver(w)) THEN "ready" ELSE Download[repository]
             goal == IF to = "updating" THEN "checkout" ELSE "list"
             k == Checked(w, to)
  <2>1. to \in Steps /\ to # "list" /\ job[w].pc = "checking"
    BY <1>2, CacheAssumption DEF CheckCache, GotoWith, IInv, TypeOK, Download
  <2>2. InOrder(to, goal, Ver(w))
    BY <1>1, <2>1, CacheAssumption DEF IInv, TypeOK, Download, InOrder
  <2> HIDE DEF to
  <2>3. /\ k \in JobType /\ k.pc = to /\ k.ver = job[w].ver /\ k.goal = goal
        /\ k.since = 0 /\ k.left = {}
    BY <2>1, CheckedJob DEF IInv, Ver
  <2>4. GotoWith(w, "checking", k) /\ upstream' = upstream
    BY <1>2 DEF CheckCache, to
  <2> HIDE DEF k, goal
  <2>5. k.ver >= k.since
    BY <2>3, CacheAssumption DEF JobType
  <2>6. QED
    BY <2>1, <2>2, <2>3, <2>4, <2>5, GotoWithKeeps DEF Ver
<1>3. ASSUME NEW files \in SUBSET Files, NEW from \in {"clearing", "copying"},
             GotoWith(w, from, Copying(w, files)), upstream' = upstream
      PROVE  IInv'
  <2> DEFINE k == Copying(w, files)
  <2>1. /\ k \in JobType /\ k.pc \in {"copying", "parsing"}
        /\ k.pc = "parsing" => k.left = {}
        /\ k.ver = job[w].ver /\ k.since = job[w].since /\ k.guessed = job[w].guessed
    BY CopyingJob DEF IInv, Ver
  <2>2. InOrder(k.pc, k.goal, k.ver)
    BY <1>1, <1>3, <2>1 DEF InOrder, Ver, GotoWith
  <2> HIDE DEF k
  <2>3. GotoWith(w, from, k)
    BY <1>3 DEF k
  <2>4. k.pc \in Filled => k.left = {}
    BY <2>1 DEF Filled
  <2>5. QED
    BY <1>3, <2>1, <2>2, <2>3, <2>4, GotoWithKeeps
<1>4. CASE CopySingle(w)
  BY <1>3, <1>4 DEF CopySingle, Files
<1>5. ASSUME NEW f \in Files, CopyFile(w, f) PROVE IInv'
  <2>1. job[w].left \ {f} \in SUBSET Files
    BY DEF IInv, TypeOK, JobType
  <2>2. QED
    BY <1>3, <1>5, <2>1 DEF CopyFile
<1>6. QED
  BY <1>2, <1>4, <1>5

LEMMA RestKeeps ==
  ASSUME IInv, Next, NEW w \in Workers,
         \/ ClearCache(w) \/ MakeDir(w) \/ ParseMetadata(w) \/ SaveCacheInfo(w)
         \/ GetScriptFails(w)
         \/ RunScript(w) \/ ScriptEnds(w) \/ InvalidateCache(w) \/ InvalidateFails(w)
         \/ Inspect(w) \/ Crash(w)
  PROVE  IInv'
<1> USE DEF Steps, InGetScript
<1>1. job[w].pc \in {"clearing", "making", "parsing", "saving", "ready"} => Ver(w) # 0
  BY DEF IInv, RequestsAreInOrder, InOrder
<1>2. ASSUME NEW from, NEW to \in {"making", "copying", "saving", "ready", "running", "idle"},
             Goto(w, from, to), upstream' = upstream, to = "idle" \/ Ver(w) # 0,
             to \in {"making", "copying", "idle"} \/ from \in Filled
      PROVE  IInv'
  <2>1. to # "idle" => InOrder(to, job[w].goal, Ver(w))
    BY <1>2 DEF InOrder
  <2>2. to \in Filled => job[w].left = {}
    BY <1>2 DEF Goto, Filled, IInv, TypeOK
  <2>3. QED
    BY <1>2, <2>1, <2>2, GotoKeeps
<1>3. CASE ClearCache(w) \/ MakeDir(w) \/ ParseMetadata(w) \/ SaveCacheInfo(w)
  BY <1>1, <1>2, <1>3 DEF ClearCache, MakeDir, ParseMetadata, SaveCacheInfo, Goto, Filled
<1>4. CASE RunScript(w)
  BY <1>1, <1>2, <1>4 DEF RunScript, Goto, Filled
<1>5. CASE ScriptEnds(w) \/ Inspect(w)
  BY <1>2, <1>5 DEF ScriptEnds, Inspect
<1>6. CASE GetScriptFails(w) \/ InvalidateFails(w) \/ Crash(w)
  BY <1>6, ResetKeeps DEF GetScriptFails, InvalidateFails, Crash
<1>7. CASE InvalidateCache(w)
  <2>1. upstream' = upstream
    BY <1>7 DEF InvalidateCache
  <2>2. CASE Goto(w, "forcing", FirstStep(Ver(w)))
    <3>1. /\ FirstStep(Ver(w)) \in Steps /\ FirstStep(Ver(w)) # "list"
          /\ job[w].goal = "list"
      BY <2>2, CacheAssumption DEF IInv, TypeOK, FirstStep, GetLatest, Goto,
         RequestsAreInOrder, InOrder
    <3>2. InOrder(FirstStep(Ver(w)), "list", Ver(w)) /\ FirstStep(Ver(w)) \notin Filled
      BY CacheAssumption DEF IInv, TypeOK, FirstStep, GetLatest, InOrder, Filled
    <3>3. QED
      BY <2>1, <2>2, <3>1, <3>2, GotoKeeps
  <2>3. CASE Goto(w, "invalidating", "idle")
    BY <1>2, <2>1, <2>3
  <2>4. QED
    BY <1>7, <2>2, <2>3 DEF InvalidateCache
<1>8. QED
  BY <1>3, <1>4, <1>5, <1>6, <1>7

\* The steps of no request.
LEMMA OthersKeep ==
  ASSUME IInv, Next,
         \/ \E w \in Workers : CleanupOldCache(w) \/ CleanupFails(w)
         \/ Release
         \/ \E v \in Versions : Ages(v)
  PROVE  IInv'
<1>1. job' = job /\ repository' = repository /\ (upstream' = upstream \/ upstream' = upstream + 1)
  BY DEF Next, CleanupOldCache, CleanupFails, Release, Ages
<1>2. TypeOK' /\ CloneIsInOrder' /\ CloneAdvances
  BY <1>1, CloneStep, CacheStep, HistoryStep DEF IInv, TypeOK
<1>3. RequestsAreInOrder' /\ LatestIsFresh'
  BY <1>1 DEF IInv, RequestsAreInOrder, InOrder, LatestIsFresh, Ver
<1>4. upstream' = upstream \/ clone' = clone
  BY DEF CleanupOldCache, CleanupFails, Release, Ages
<1>5. ASSUME NEW w \in Workers PROVE ListedIsFresh!(w)'
  <2>1. /\ job[w].since \in Nat /\ upstream \in Nat
        /\ clone.branch \in Nat /\ clone'.branch \in Nat
    BY <1>2, CacheAssumption DEF IInv, TypeOK, JobType, CloneType, Versions
  <2>2. /\ job[w].since <= upstream
        /\ job[w].pc = "list" /\ Works => job[w].since <= clone.branch
    BY DEF IInv, ListedIsFresh
  <2>3. QED
    BY <1>1, <1>2, <1>4, <2>1, <2>2 DEF CloneAdvances, Works
<1>6. ListedIsFresh'
  BY <1>5 DEF ListedIsFresh
<1>7. QED
  BY <1>2, <1>3, <1>6 DEF IInv

LEMMA InitIInv == Init => IInv
<1> SUFFICES ASSUME Init PROVE IInv
  OBVIOUS
<1>1. 0 \in 0..MaxRelease /\ 0 \in 0..MaxCrashes /\ 1 \in Versions
  BY CacheAssumption DEF Versions
<1>2. TypeOK
  <2>1. \A w \in Workers : job[w].left = {}
    BY DEF Init, NoJob
  <2>2. QED
    BY <1>1, <2>1, IdleIsJob, NoEntryIsEntry, NoCloneIsClone DEF Init, CreateRepository, TypeOK
<1>3. CloneIsInOrder
  BY DEF Init, NoClone, CloneIsInOrder, Works
<1>4. \A w \in Workers : job[w].pc = "idle" /\ job[w].since = 0 /\ Ver(w) = 0
  BY DEF Init, NoJob, Ver
<1>5. RequestsAreInOrder /\ LatestIsFresh
  BY <1>4 DEF RequestsAreInOrder, InOrder, LatestIsFresh
<1>6. ListedIsFresh
  BY <1>4 DEF Init, ListedIsFresh
<1>7. QED
  BY <1>2, <1>3, <1>5, <1>6 DEF IInv

LEMMA NextIInv == IInv /\ [Next]_vars => IInv'
<1>1. ASSUME IInv, Next PROVE IInv'
  BY <1>1, GitKeeps, LatestKeeps, DownloadKeeps, RequestKeeps, CacheKeeps, RestKeeps,
     OthersKeep DEF Next, WorkerStep
<1>2. ASSUME IInv, UNCHANGED vars PROVE IInv'
  BY <1>2 DEF vars, IInv, TypeOK, CloneIsInOrder, RequestsAreInOrder, InOrder,
     ListedIsFresh, LatestIsFresh, Ver, Works
<1>3. QED
  BY <1>1, <1>2

LEMMA Invariance == Spec => []IInv
  BY InitIInv, NextIInv, PTL DEF Spec

\* Whoever shares the directory, every variable keeps its type (TypeOK).
THEOREM TypeCorrect == Spec => []TypeOK
<1>1. IInv => TypeOK
  BY DEF IInv
<1>2. QED
  BY <1>1, Invariance, PTL

\* A request for the latest version never gets one that is older than the newest
\* one at the time of the request, but for the string order of S3Repository and
\* for HttpRepository's first of an unsorted list (LatestIsFresh): however many
\* workers share the directory and the clone.
THEOREM LatestVersionsAreFresh == Spec => []LatestIsFresh
<1>1. IInv => LatestIsFresh
  BY DEF IInv
<1>2. QED
  BY <1>1, Invariance, PTL

----------------------------------------------------------------------------
(* The versions *)

LEMMA OthersWait ==
  ASSUME NEW u \in Workers, NEW w \in Workers \ {u}, WorkerStep(u), TypeOK
  PROVE  job'[w] = job[w]
  BY DEF TypeOK, WorkerStep, Goto, GotoWith, Request, Pull, DiscardClone, CloneFresh,
     CloneFails, LatestTag, Checkout, CopyOut, LatestVersion, FirstListed, Fetch, ListLatest,
     DownloadObjects, CheckCache, ClearCache, MakeDir, CopyFile, CopySingle, ParseMetadata,
     SaveCacheInfo, GetScriptFails, RunScript, ScriptEnds, ForceDownload, Invalidate,
     InvalidateCache, InvalidateFails, Inspect, CleanupOldCache, CleanupFails, Crash

\* Nothing of the directory matters to worker w there.
Quiet(w) ==
  \/ job[w].pc \in {"idle", "forcing", "invalidating", "resolving", "listing", "list",
                    "checking"}
  \/ job[w].pc \in {"updating", "cloning"} /\ job[w].goal = "list"

LEMMA GotoLands ==
  ASSUME TypeOK, NEW w \in Workers, NEW from, NEW to, Goto(w, from, to)
  PROVE  job'[w].pc = to /\ (to = "idle" \/ job'[w].goal = job[w].goal)
<1>1. job[w] \in JobType /\ NoJob.pc = "idle"
  BY DEF TypeOK, NoJob
<1>2. QED
  BY <1>1 DEF Goto, TypeOK, JobType

LEMMA QuietOrBusy ==
  ASSUME IInv, NEW w \in Workers, WorkerStep(w)
  PROVE  \/ Quiet(w)'
         \/ Pull(w) \/ DiscardClone(w) \/ CloneFresh(w) \/ Checkout(w) \/ CopyOut(w)
         \/ Fetch(w) \/ DownloadObjects(w) \/ CheckCache(w) \/ ClearCache(w)
         \/ MakeDir(w) \/ CopySingle(w) \/ \E f \in Files : CopyFile(w, f)
         \/ ParseMetadata(w) \/ SaveCacheInfo(w) \/ RunScript(w)
         \/ CleanupOldCache(w) \/ CleanupFails(w)
<1>1. TypeOK /\ job[w] \in JobType /\ NoJob.pc = "idle"
  BY DEF IInv, TypeOK, NoJob
<1>2. ASSUME NEW v \in 0..MaxRelease,
             Request(w, v) \/ ForceDownload(w, v) \/ Invalidate(w, v)
      PROVE  Quiet(w)'
  <2>1. ASSUME NEW p, NEW s, GotoWith(w, "idle", NewJob(p, v, s))
        PROVE  job'[w].pc = p /\ job'[w].goal = "list"
    BY <1>1, <2>1 DEF GotoWith, NewJob, NoJob, TypeOK
  <2>2. FirstStep(v) \in {"checking", "updating", "resolving", "listing"}
    BY CacheAssumption, <1>1 DEF FirstStep, GetLatest, TypeOK
  <2>3. QED
    BY <1>2, <2>1, <2>2 DEF Quiet, Request, ForceDownload, Invalidate
<1>3. ASSUME LatestTag(w) \/ LatestVersion(w) \/ FirstListed(w) \/ ListLatest(w)
      PROVE  Quiet(w)'
  <2>1. ASSUME NEW v, NEW from, NEW next, GotoWith(w, from, next),
               next = Resolved(w, v) \/ next = [Resolved(w, v) EXCEPT !.guessed = TRUE]
        PROVE  job'[w].pc = "checking"
    BY <1>1, <2>1 DEF GotoWith, Resolved, JobType, TypeOK
  <2>2. QED
    BY <1>3, <2>1 DEF Quiet, LatestTag, LatestVersion, FirstListed, ListLatest
<1>4. ASSUME \/ CloneFails(w) \/ ScriptEnds(w) \/ Inspect(w) \/ Goto(w, "invalidating", "idle")
             \/ job' = [job EXCEPT ![w] = NoJob]
      PROVE  Quiet(w)'
  BY <1>1, <1>4, GotoLands DEF Quiet, CloneFails, ScriptEnds, Inspect, TypeOK
<1>5. ASSUME Goto(w, "forcing", FirstStep(Ver(w))) PROVE Quiet(w)'
  <2>1. FirstStep(Ver(w)) \in {"checking", "updating", "resolving", "listing"}
    BY CacheAssumption, <1>1 DEF FirstStep, GetLatest, TypeOK
  <2>2. job[w].goal = "list"
    BY <1>5 DEF Goto, IInv, RequestsAreInOrder, InOrder
  <2>3. QED
    BY <1>1, <1>5, <2>1, <2>2, GotoLands DEF Quiet
<1>6. QED
  BY <1>2, <1>3, <1>4, <1>5 DEF WorkerStep, GetScriptFails, InvalidateCache,
     InvalidateFails, Crash

\* The entry point of a version's directory goes, stays, or comes from what a
\* worker that wants this version has downloaded.
LEMMA EntryStep ==
  ASSUME IInv, Next, NEW v \in Versions
  PROVE  \/ cache'[v].entry \in {0, cache[v].entry}
         \/ \E w \in Workers : /\ job[w].pc \in {"clearing", "copying"} /\ Ver(w) = v
                               /\ cache'[v].entry = job[w].temp
<1> DEFINE Goal == \/ cache'[v].entry \in {0, cache[v].entry}
                   \/ \E w \in Workers : /\ job[w].pc \in {"clearing", "copying"} /\ Ver(w) = v
                                         /\ cache'[v].entry = job[w].temp
<1>1. TypeOK /\ cache[v] \in EntryType /\ NoEntry.entry = 0
  BY DEF IInv, TypeOK, NoEntry
<1>2. cache' = cache => Goal
  OBVIOUS
<1>3. ASSUME NEW w \in Workers, ClearCache(w) PROVE Goal
  BY <1>1, <1>3, ClearCacheEffect DEF Puts
<1>4. ASSUME NEW w \in Workers, MakeDir(w) PROVE Goal
  BY <1>1, <1>4, MakeDirEffect DEF Puts, EntryType
<1>5. ASSUME NEW w \in Workers, NEW f \in Files, CopyFile(w, f) PROVE Goal
  <2>1. job[w].pc = "copying"
    BY <1>5 DEF CopyFile, GotoWith
  <2>2. QED
    BY <1>1, <1>5, <2>1, CopyFileEffect DEF Puts, EntryType
<1>6. ASSUME NEW w \in Workers, SaveCacheInfo(w) PROVE Goal
  BY <1>1, <1>6, SaveCacheInfoEffect DEF Puts, EntryType
<1>7. ASSUME NEW w \in Workers, CopySingle(w) PROVE Goal
  <2>1. job[w].pc = "clearing"
    BY <1>7 DEF CopySingle, GotoWith
  <2>2. QED
    BY <1>1, <1>7, <2>1, CopySingleEffect DEF Puts, EntryType
<1>8. ASSUME NEW from, Shrinks(from) PROVE Goal
  BY <1>1, <1>8, RemainsOf DEF Shrinks
<1>9. ASSUME NEW w \in Workers,
             \/ InvalidateCache(w) \/ InvalidateFails(w)
             \/ CleanupOldCache(w) \/ CleanupFails(w)
      PROVE  Goal
  BY <1>1, <1>8, <1>9, RemovalEffect
<1>10. ASSUME NEW w \in Workers, Crash(w) PROVE Goal
  BY <1>1, <1>8, <1>10, CrashEffect, RemainsOf DEF EntryType, Puts
<1>11. ASSUME NEW u \in Versions, Ages(u) PROVE Goal
  BY <1>1, <1>11, AgesEffect DEF Puts, EntryType
<1>12. QED
  BY <1>2, <1>3, <1>4, <1>5, <1>6, <1>7, <1>8, <1>9, <1>10, <1>11
     DEF Next, WorkerStep, Request, Pull, DiscardClone, CloneFresh, CloneFails,
     LatestTag, Checkout, CopyOut, LatestVersion, FirstListed, Fetch, ListLatest, DownloadObjects,
     CheckCache, ParseMetadata, GetScriptFails, RunScript, ScriptEnds, ForceDownload,
     Invalidate, Inspect, Release

\* Where a worker of git's repository goes to copyout, the version is checked out
\* or the checkout has failed; what is downloaded is then of that version.
LEMMA BusyVersions ==
  ASSUME IInv, VersionsAreRight, Next, NEW w \in Workers, WorkerStep(w)
  PROVE  /\ job'[w].pc \in {"clearing", "making", "copying"} =>
              job'[w].temp = job'[w].ver \/ job'[w].ver \in fallback'
         /\ job'[w].pc = "copyout" /\ Works' =>
              clone'.head = job'[w].ver \/ job'[w].ver \in fallback'
<1> DEFINE Goal == /\ job'[w].pc \in {"clearing", "making", "copying"} =>
                        job'[w].temp = job'[w].ver \/ job'[w].ver \in fallback'
                   /\ job'[w].pc = "copyout" /\ Works' =>
                        clone'.head = job'[w].ver \/ job'[w].ver \in fallback'
<1> USE DEF Steps, InGetScript
<1>1. TypeOK /\ job[w] \in JobType /\ clone \in CloneType
  BY DEF IInv, TypeOK
<1>2. /\ job[w].pc \in {"clearing", "making", "copying"} =>
           job[w].temp = Ver(w) \/ Ver(w) \in fallback
      /\ job[w].pc = "copyout" /\ Works =>
           clone.head = Ver(w) \/ Ver(w) \in fallback
  BY DEF VersionsAreRight
<1>3. job'[w].pc \notin {"clearing", "making", "copying", "copyout"} => Goal
  OBVIOUS
<1>4. CASE Quiet(w)'
  BY <1>3, <1>4 DEF Quiet
<1>5. CASE Checkout(w)
  <2>1. job'[w].pc = "copyout" /\ job'[w].ver = Ver(w)
    BY <1>1, <1>5, GotoEffect DEF Checkout, Moves, Ver
  <2>2. clone'.head = Ver(w) \/ Ver(w) \in fallback'
    BY <1>1, <1>5 DEF Checkout, CloneType
  <2>3. QED
    BY <2>1, <2>2
<1>6. CASE CopyOut(w) \/ Fetch(w) \/ DownloadObjects(w)
  <2>1. ASSUME NEW v \in 0..MaxRelease, NEW files \in SUBSET Files, NEW from,
               GotoWith(w, from, Downloaded(w, v, files))
        PROVE  job'[w].pc = "clearing" /\ job'[w].temp = v /\ job'[w].ver = Ver(w)
    BY <1>1, <2>1, DownloadedJob, GotoWithEffect DEF Ver
  <2>2. clone.head \in 0..MaxRelease /\ Ver(w) \in 0..MaxRelease
    BY <1>1 DEF CloneType, JobType, Ver
  <2>3. QED
    BY <1>2, <1>6, <2>1, <2>2, FilesOfVersion DEF CopyOut, Fetch, DownloadObjects, GotoWith
<1>7. CASE ClearCache(w) \/ MakeDir(w)
  BY <1>1, <1>2, <1>7, GotoEffect DEF ClearCache, MakeDir, Moves, Ver
<1>8. CASE CopySingle(w) \/ \E f \in Files : CopyFile(w, f)
  <2>1. PICK files \in SUBSET Files, from \in {"clearing", "copying"} :
          GotoWith(w, from, Copying(w, files)) /\ fallback' = fallback
    BY <1>1, <1>8 DEF CopySingle, CopyFile, JobType, Files
  <2>2. /\ job'[w].pc = IF files = {} THEN "parsing" ELSE "copying"
        /\ job'[w].ver = Ver(w)
        /\ files # {} => job'[w].temp = job[w].temp
    BY <1>1, <2>1, CopyingJob, GotoWithEffect
  <2>3. job[w].pc = from
    BY <2>1 DEF GotoWith
  <2>4. QED
    BY <1>2, <2>1, <2>2, <2>3
<1>9. CASE \/ Pull(w) \/ DiscardClone(w) \/ CloneFresh(w) \/ ParseMetadata(w)
           \/ SaveCacheInfo(w) \/ RunScript(w)
  <2>1. PICK to \in {"list", "checkout", "cloning", "saving", "ready", "running", "idle"},
             from \in Steps :
          Goto(w, from, to)
    BY <1>1, <1>9 DEF Pull, DiscardClone, CloneFresh, ParseMetadata, SaveCacheInfo,
       RunScript, JobType
  <2>2. job'[w].pc = to
    BY <1>1, <2>1, GotoLands
  <2>3. QED
    BY <1>3, <2>2
<1>10. CASE CheckCache(w)
  <2>1. job'[w].pc \in {"ready", "updating", "fetching", "downloading"}
    BY <1>1, <1>10, CheckedJob, GotoWithEffect, CacheAssumption
       DEF CheckCache, TypeOK, Download
  <2>2. QED
    BY <1>3, <2>1
<1>11. CASE CleanupOldCache(w) \/ CleanupFails(w)
  BY <1>3, <1>11 DEF CleanupOldCache, CleanupFails, MayCleanUp
<1>12. QED
  BY <1>4, <1>5, <1>6, <1>7, <1>8, <1>9, <1>10, <1>11, QuietOrBusy

LEMMA VersionsStep ==
  ASSUME IInv, VersionsAreRight, IInv', Next, OneWorker \/ "git" \notin Repositories
  PROVE  VersionsAreRight'
<1>1. fallback \subseteq fallback'
  BY DEF Next, WorkerStep, Request, Pull, DiscardClone, CloneFresh, CloneFails,
     LatestTag, Checkout, CopyOut, LatestVersion, FirstListed, Fetch, ListLatest, DownloadObjects,
     CheckCache, ClearCache, MakeDir, CopyFile, CopySingle, ParseMetadata, SaveCacheInfo,
     GetScriptFails, RunScript, ScriptEnds, ForceDownload, Invalidate,
     InvalidateCache, InvalidateFails, Inspect, CleanupOldCache, CleanupFails, Crash, Release, Ages
<1>2. ASSUME NEW v \in Versions PROVE cache'[v].entry \in {0, v} \/ v \in fallback'
  <2>1. cache[v].entry \in {0, v} \/ v \in fallback
    BY DEF VersionsAreRight
  <2>2. CASE cache'[v].entry \in {0, cache[v].entry}
    BY <1>1, <2>1, <2>2
  <2>3. CASE \E w \in Workers : /\ job[w].pc \in {"clearing", "copying"} /\ Ver(w) = v
                                /\ cache'[v].entry = job[w].temp
    BY <1>1, <2>3 DEF VersionsAreRight
  <2>4. QED
    BY <2>2, <2>3, EntryStep
<1> DEFINE Right(w) ==
      /\ job'[w].pc \in {"clearing", "making", "copying"} =>
           job'[w].temp = job'[w].ver \/ job'[w].ver \in fallback'
      /\ job'[w].pc = "copyout" /\ Works' =>
           clone'.head = job'[w].ver \/ job'[w].ver \in fallback'
<1>3. ASSUME NEW w \in Workers, job'[w] = job[w],
             clone' = clone \/ job[w].pc # "copyout" \/ "git" \notin Repositories
      PROVE  Right(w)
  <2>1. "git" \notin Repositories => job[w].pc # "copyout"
    BY DEF IInv, TypeOK, RequestsAreInOrder, InOrder
  <2>2. QED
    BY <1>1, <1>3, <2>1 DEF VersionsAreRight, Ver, Works
<1>4. ASSUME NEW u \in Workers, WorkerStep(u), NEW w \in Workers PROVE Right(w)
  <2>1. CASE u = w
    BY <1>4, <2>1, BusyVersions
  <2>2. CASE u # w
    <3>1. job'[w] = job[w]
      BY <1>4, <2>2, OthersWait DEF IInv
    <3>2. "git" \notin Repositories
      BY <2>2 DEF OneWorker
    <3>3. QED
      BY <1>3, <3>1, <3>2
  <2>3. QED
    BY <2>1, <2>2
<1>5. ASSUME NEW w \in Workers, Release \/ \E v \in Versions : Ages(v) PROVE Right(w)
  BY <1>3, <1>5 DEF Release, Ages
<1>6. \A w \in Workers : Right(w)
  BY <1>4, <1>5 DEF Next
<1>7. QED
  BY <1>2, <1>6 DEF VersionsAreRight, Ver

\* A script runs in another version than the one wanted only after a checkout of
\* that version has failed (OtherVersionNeedsFallback), for a worker that has the
\* clone for itself, and for any number of workers where there is no clone.
THEOREM OtherVersionsAreFallbacks ==
  ASSUME OneWorker \/ "git" \notin Repositories
  PROVE  Spec => []OtherVersionNeedsFallback
<1>1. Init => VersionsAreRight
  <2>1. ASSUME Init
        PROVE  /\ \A v \in Versions : cache[v].entry = 0
               /\ \A w \in Workers : job[w].pc = "idle"
    BY <2>1 DEF Init, NoEntry, NoJob
  <2>2. QED
    BY <2>1 DEF VersionsAreRight
<1>2. IInv /\ VersionsAreRight /\ IInv' /\ [Next]_vars => VersionsAreRight'
  <2>1. ASSUME VersionsAreRight, UNCHANGED vars PROVE VersionsAreRight'
    BY <2>1 DEF VersionsAreRight, Ver, vars, Works
  <2>2. QED
    BY <2>1, VersionsStep
<1>3. IInv /\ VersionsAreRight => OtherVersionNeedsFallback
  <2>1. ASSUME IInv, VersionsAreRight, NEW w \in Workers, job[w].pc \in {"ready", "running"}
        PROVE  cache[Ver(w)].entry \in {0, Ver(w)} \/ Ver(w) \in fallback
    <3>1. Ver(w) # 0
      BY <2>1 DEF IInv, RequestsAreInOrder, InOrder
    <3>2. Ver(w) \in Versions
      BY <2>1, <3>1, WantedIsVersion
    <3>3. QED
      BY <2>1, <3>2 DEF VersionsAreRight
  <2>2. QED
    BY <2>1 DEF OtherVersionNeedsFallback
<1>4. QED
  BY <1>1, <1>2, <1>3, Invariance, PTL DEF Spec

----------------------------------------------------------------------------
(* A worker that has the directory for itself *)

\* No step makes .cache_info say something untrue, the removals that are cut short
\* included: a directory that is being cleared was not valid before.
LEMMA InfoStep ==
  ASSUME IInv, AloneInv, Next
  PROVE  InfoIsTrue'
<1> DEFINE
    Honest(d, v, g) ==
      d.info = "saved" =>
        /\ d.dir
        /\ v \notin g => d.hash # 0 /\ (d.age = 0 /\ d.meta => d.entry = d.hash)
    Goal == \A v \in Versions : Honest(cache'[v], v, gaps')
<1>1. TypeOK /\ \A v \in Versions : cache[v] \in EntryType /\ Honest(cache[v], v, gaps)
  BY DEF IInv, TypeOK, AloneInv, InfoIsTrue
<1>2. \A v, c : Honest(NoEntry, v, c)
  BY DEF NoEntry
<1>3. \A d, v, c : d.info # "saved" => Honest(d, v, c)
  OBVIOUS
<1>4. cache' = cache /\ gaps' = gaps => Goal
  BY <1>1
<1>5. ASSUME NEW v \in Versions, Puts(v), Honest(cache'[v], v, gaps'),
             \A u \in Versions \ {v} : u \in gaps' <=> u \in gaps
      PROVE  Goal
  BY <1>1, <1>5 DEF Puts
<1>6. ASSUME NEW w \in Workers, ClearCache(w) PROVE Goal
  BY <1>2, <1>5, <1>6, ClearCacheEffect DEF ClearCache, Drop
<1>7. ASSUME NEW w \in Workers, MakeDir(w) PROVE Goal
  <2>1. cache[Ver(w)].info = "none"
    BY <1>7 DEF MakeDir, Goto, AloneInv, DirectoryFollows, DirectoryIs, NoEntry
  <2>2. \A u \in Versions \ {Ver(w)} : u \in gaps' <=> u \in gaps
    BY <1>7 DEF MakeDir
  <2>3. QED
    BY <1>3, <1>5, <1>7, <2>1, <2>2, MakeDirEffect
<1>8. ASSUME NEW w \in Workers, NEW f \in Files, CopyFile(w, f) PROVE Goal
  <2>1. (Ver(w) \notin gaps => cache[Ver(w)].info = "none") /\ gaps' = gaps
    BY <1>8 DEF CopyFile, GotoWith, AloneInv, DirectoryFollows, DirectoryIs
  <2>2. Honest(cache'[Ver(w)], Ver(w), gaps')
    BY <1>8, <2>1, CopyFileEffect
  <2>3. QED
    BY <1>5, <1>8, <2>1, <2>2, CopyFileEffect
<1>9. ASSUME NEW w \in Workers, SaveCacheInfo(w) PROVE Goal
  <2>1. (Ver(w) \notin gaps => cache[Ver(w)].entry # 0) /\ gaps' = gaps
    BY <1>9 DEF SaveCacheInfo, Goto, AloneInv, DirectoryFollows, DirectoryIs
  <2>2. QED
    BY <1>5, <1>9, <2>1, SaveCacheInfoEffect
<1>10. ASSUME NEW w \in Workers, CopySingle(w) PROVE Goal
  <2>1. Honest(cache'[Ver(w)], Ver(w), gaps')
    BY <1>10, CopySingleEffect
  <2>2. QED
    BY <1>5, <1>10, <2>1, CopySingleEffect
<1>11. ASSUME NEW v \in Versions, cache'[v] \in Remains(cache[v]),
              v \in gaps' \/ (~IsCacheValid(v) /\ gaps' = gaps)
       PROVE  Honest(cache'[v], v, gaps')
  <2> DEFINE r == cache'[v]
             d == cache[v]
  <2>1. /\ r.dir /\ d.dir /\ r.entry \in {0, d.entry} /\ (r.meta => d.meta)
        /\ \/ r.info = d.info /\ r.hash = d.hash /\ r.age = d.age
           \/ r.info = "none"
    BY <1>1, <1>11, RemainsOf
  <2>2. Honest(d, v, gaps)
    BY <1>1
  <2>3. CASE v \in gaps'
    BY <2>1, <2>2, <2>3
  <2>4. CASE ~IsCacheValid(v) /\ v \notin gaps
    <3>1. ~(d.info = "saved" /\ d.age = 0 /\ d.meta)
      BY <2>1, <2>2, <2>4 DEF IsCacheValid
    <3>2. d.info = "saved" => d.hash # 0
      BY <2>2, <2>4
    <3> HIDE DEF r, d
    <3>3. Honest(r, v, gaps')
      BY <2>1, <3>1, <3>2
    <3>4. QED
      BY <3>3 DEF r
  <2>5. QED
    BY <1>11, <2>3, <2>4
<1>12. ASSUME NEW from, Shrinks(from) PROVE Goal
  BY <1>1, <1>2, <1>11, <1>12 DEF Shrinks
<1>13. ASSUME NEW w \in Workers,
              \/ InvalidateCache(w) \/ InvalidateFails(w)
              \/ CleanupOldCache(w) \/ CleanupFails(w)
       PROVE  Goal
  BY <1>1, <1>12, <1>13, RemovalEffect
<1>14. ASSUME NEW w \in Workers, Crash(w) PROVE Goal
  <2>1. CASE Shrinks(Versions)
    BY <1>12, <2>1
  <2>2. CASE /\ job[w].pc = "clearing" /\ gaps' = gaps
             /\ Ver(w) \in Versions /\ Puts(Ver(w))
             /\ cache'[Ver(w)] \in Remains(cache[Ver(w)])
    <3>1. ~IsCacheValid(Ver(w))
      BY <2>2 DEF AloneInv, DirectoryFollows, DirectoryIs
    <3>2. QED
      BY <1>5, <1>11, <2>2, <3>1
  <2>3. CASE /\ job[w].pc = "saving" /\ gaps' = gaps
             /\ Ver(w) \in Versions /\ Puts(Ver(w))
             /\ cache'[Ver(w)].info = "torn"
    BY <1>3, <1>5, <2>3
  <2>4. QED
    BY <1>14, <2>1, <2>2, <2>3, CrashEffect
<1>15. ASSUME NEW v \in Versions, Ages(v) PROVE Goal
  <2>1. gaps' = gaps /\ cache[v].age \in Nat
    BY <1>1, <1>15 DEF Ages, EntryType
  <2>2. Honest(cache'[v], v, gaps')
    BY <1>1, <1>15, <2>1, AgesEffect
  <2>3. QED
    BY <1>5, <1>15, <2>1, <2>2, AgesEffect
<1> HIDE DEF Honest, Goal
<1>16. Goal
  BY <1>4, <1>6, <1>7, <1>8, <1>9, <1>10, <1>13, <1>14, <1>15
     DEF Next, WorkerStep, Request, Pull, DiscardClone, CloneFresh, CloneFails,
     LatestTag, Checkout, CopyOut, LatestVersion, FirstListed, Fetch, ListLatest, DownloadObjects,
     CheckCache, ParseMetadata, GetScriptFails, RunScript, ScriptEnds, ForceDownload,
     Invalidate, Inspect, Release
<1>17. QED
  BY <1>16 DEF Goal, Honest, InfoIsTrue

LEMMA QuietFollows ==
  ASSUME NEW w \in Workers, Quiet(w)'
  PROVE  DirectoryIs(w)'
  BY DEF Quiet, DirectoryIs

\* The steps of get_script that leave the directory alone.
LEMMA DirectoryStays ==
  ASSUME IInv, AloneInv, Next, NEW w \in Workers,
         \/ Pull(w) \/ DiscardClone(w) \/ CloneFresh(w) \/ Checkout(w) \/ CopyOut(w)
         \/ Fetch(w) \/ DownloadObjects(w) \/ CheckCache(w) \/ ParseMetadata(w)
         \/ RunScript(w)
  PROVE  DirectoryIs(w)'
<1> USE DEF Steps, InGetScript
<1>1. TypeOK /\ job[w] \in JobType /\ clone \in CloneType
  BY DEF IInv, TypeOK
<1>2. DirectoryIs(w)
  BY DEF AloneInv, DirectoryFollows
<1>3. cache' = cache /\ gaps' = gaps
  BY DEF Pull, DiscardClone, CloneFresh, Checkout, CopyOut, Fetch, DownloadObjects,
     CheckCache, ParseMetadata, RunScript
<1>4. \A v : IsCacheValid(v)' = IsCacheValid(v)
  BY <1>3 DEF IsCacheValid
<1>5. CASE Pull(w) \/ DiscardClone(w) \/ CloneFresh(w) \/ Checkout(w)
  <2>1. PICK to \in {"cloning", "list", "checkout", "copyout"},
             from \in {"updating", "cloning", "checkout"} :
          /\ Goto(w, from, to)
          /\ from = "checkout" \/ to = "cloning" \/ to = job[w].goal
    BY <1>1, <1>5 DEF Pull, DiscardClone, CloneFresh, Checkout, JobType
  <2>2. /\ job[w].pc = from /\ job'[w].pc = to /\ Ver(w)' = Ver(w)
        /\ job'[w].goal = job[w].goal
    BY <1>1, <2>1, GotoEffect DEF Moves, Ver
  <2>3. to = "list" \/ job[w].goal = "list" \/ ~IsCacheValid(Ver(w))
    BY <1>1, <1>2, <2>1, <2>2 DEF DirectoryIs, JobType
  <2>4. from = "checkout" => ~IsCacheValid(Ver(w))
    BY <1>2, <2>2 DEF DirectoryIs
  <2>5. QED
    BY <1>4, <2>1, <2>2, <2>3, <2>4 DEF DirectoryIs
<1>6. CASE CopyOut(w) \/ Fetch(w) \/ DownloadObjects(w)
  <2>1. ASSUME NEW v \in 0..MaxRelease, NEW files \in SUBSET Files, NEW from,
               GotoWith(w, from, Downloaded(w, v, files))
        PROVE  /\ job[w].pc = from /\ job'[w].pc = "clearing" /\ job'[w].temp = v
               /\ job'[w].left = files /\ Ver(w)' = Ver(w)
    BY <1>1, <2>1, DownloadedJob, GotoWithEffect DEF Ver, Moves
  <2>2. /\ clone.head \in 0..MaxRelease /\ Ver(w) \in 0..MaxRelease
        /\ Works => clone.head # 0
    BY <1>1 DEF CloneType, JobType, Ver, IInv, CloneIsInOrder, Versions
  <2>3. job[w].pc \in {"copyout", "fetching", "downloading"} =>
          Ver(w) # 0 /\ ~IsCacheValid(Ver(w))
    BY <1>2 DEF IInv, RequestsAreInOrder, InOrder, DirectoryIs
  <2>4. /\ job'[w].pc = "clearing" /\ job'[w].temp # 0 /\ Ver(w)' = Ver(w)
        /\ "meta" \in job'[w].left /\ ~IsCacheValid(Ver(w))
    BY <1>6, <2>1, <2>2, <2>3, FilesOfVersion DEF CopyOut, Fetch, DownloadObjects
  <2>5. QED
    BY <1>4, <2>4 DEF DirectoryIs
<1>7. CASE CheckCache(w)
  <2> DEFINE to == IF IsCacheValid(Ver(w)) THEN "ready" ELSE Download[repository]
  <2>1. to \in {"ready", "updating", "fetching", "downloading"}
    BY <1>1, CacheAssumption DEF TypeOK, Download
  <2>2. GotoWith(w, "checking", Checked(w, to))
    BY <1>7 DEF CheckCache
  <2> HIDE DEF to
  <2>3. job'[w].pc = to /\ Ver(w)' = Ver(w)
    BY <1>1, <2>1, <2>2, CheckedJob, GotoWithEffect DEF Ver
  <2>4. CASE IsCacheValid(Ver(w))
    <3>1. Ver(w) \in Versions
      BY <1>7, WantedIsVersion DEF CheckCache, GotoWith, IInv, RequestsAreInOrder, InOrder
    <3>2. cache[Ver(w)] \in EntryType
      BY <1>1, <3>1 DEF TypeOK
    <3>3. LET d == cache[Ver(w)]
          IN /\ d.info = "saved" /\ d.meta /\ d.age = 0
             /\ IF d.entry = 0 THEN Ver(w) \in gaps ELSE d.entry = d.hash
      BY <2>4, <3>1 DEF IsCacheValid, AloneInv, InfoIsTrue
    <3>4. to = "ready"
      BY <2>4 DEF to
    <3>5. QED
      BY <1>3, <2>3, <3>3, <3>4 DEF DirectoryIs
  <2>5. CASE ~IsCacheValid(Ver(w))
    <3>1. to # "ready"
      BY <1>1, <2>5, CacheAssumption DEF to, TypeOK, Download
    <3>2. QED
      BY <1>4, <2>1, <2>3, <2>5, <3>1 DEF DirectoryIs
  <2>6. QED
    BY <2>4, <2>5
<1>8. CASE ParseMetadata(w)
  <2>1. job[w].pc = "parsing" /\ job'[w].pc = "saving" /\ Ver(w)' = Ver(w)
    BY <1>1, <1>8, GotoEffect DEF ParseMetadata, Moves, Ver
  <2>2. QED
    BY <1>2, <1>3, <2>1 DEF DirectoryIs
<1>9. CASE RunScript(w)
  <2> DEFINE to == IF cache[Ver(w)].meta /\ cache[Ver(w)].entry # 0
                     THEN "running" ELSE "idle"
  <2>1. Goto(w, "ready", to)
    BY <1>9 DEF RunScript
  <2>2. /\ job[w].pc = "ready" /\ job'[w].pc = to
        /\ to = "running" => Ver(w)' = Ver(w)
    BY <1>1, <2>1, GotoEffect DEF Moves, Ver
  <2>3. QED
    BY <1>2, <1>3, <2>2 DEF DirectoryIs
<1>10. QED
  BY <1>5, <1>6, <1>7, <1>8, <1>9

\* The steps that fill the directory.
LEMMA DirectoryFills ==
  ASSUME IInv, AloneInv, Next, NEW w \in Workers,
         \/ ClearCache(w) \/ MakeDir(w) \/ CopySingle(w)
         \/ (\E f \in Files : CopyFile(w, f))
         \/ SaveCacheInfo(w)
  PROVE  DirectoryIs(w)'
<1> USE DEF Steps, InGetScript
<1>1. TypeOK /\ job[w] \in JobType
  BY DEF IInv, TypeOK
<1>2. DirectoryIs(w)
  BY DEF AloneInv, DirectoryFollows
<1>3. CASE ClearCache(w)
  <2>1. /\ job[w].pc = "clearing" /\ job'[w].pc = "making" /\ Ver(w)' = Ver(w)
        /\ job'[w].temp = job[w].temp /\ job'[w].left = job[w].left
    BY <1>1, <1>3, GotoEffect DEF ClearCache, Moves, Ver
  <2>2. cache'[Ver(w)] = NoEntry
    BY <1>3, ClearCacheEffect
  <2>3. QED
    BY <1>2, <2>1, <2>2 DEF DirectoryIs
<1>4. CASE MakeDir(w)
  <2>1. /\ job[w].pc = "making" /\ job'[w].pc = "copying" /\ Ver(w)' = Ver(w)
        /\ job'[w].temp = job[w].temp /\ job'[w].left = job[w].left
    BY <1>1, <1>4, GotoEffect DEF MakeDir, Moves, Ver
  <2>2. cache[Ver(w)].info = "none" /\ job[w].temp # 0 /\ "meta" \in job[w].left
    BY <1>2, <2>1 DEF DirectoryIs, NoEntry
  <2>3. cache'[Ver(w)].info = "none"
    BY <1>4, <2>2, MakeDirEffect
  <2>4. Ver(w) \notin gaps' => "entry" \in job[w].left
    BY <1>4 DEF MakeDir
  <2>5. QED
    BY <2>1, <2>2, <2>3, <2>4 DEF DirectoryIs
<1>5. CASE CopySingle(w)
  <2> DEFINE files == IF cache[Ver(w)].meta THEN {} ELSE {"meta"}
             to == IF files = {} THEN "parsing" ELSE "copying"
  <2>1. files \in SUBSET Files /\ GotoWith(w, "clearing", Copying(w, files))
    BY <1>5 DEF CopySingle, Files
  <2>2. /\ job[w].pc = "clearing" /\ job'[w].pc = to /\ Ver(w)' = Ver(w)
        /\ job'[w].left = files
        /\ files # {} => job'[w].temp = job[w].temp
    BY <1>1, <2>1, CopyingJob, GotoWithEffect DEF Moves, Ver
  <2>3. /\ job[w].temp # 0 /\ cache'[Ver(w)].meta = cache[Ver(w)].meta
        /\ Ver(w) \in gaps'
    BY <1>2, <1>5, <2>2, CopySingleEffect DEF DirectoryIs
  <2>4. to = "parsing" => cache'[Ver(w)].meta
    BY <2>3
  <2>5. to = "copying" => files # {} /\ "meta" \in files
    OBVIOUS
  <2> HIDE DEF files
  <2>6. QED
    BY <2>2, <2>3, <2>4, <2>5 DEF DirectoryIs
<1>6. ASSUME NEW f \in Files, CopyFile(w, f) PROVE DirectoryIs(w)'
  <2> DEFINE d == cache[Ver(w)]
             e == cache'[Ver(w)]
             rest == job[w].left \ {f}
             to == IF rest = {} THEN "parsing" ELSE "copying"
  <2>1. rest \in SUBSET Files /\ GotoWith(w, "copying", Copying(w, rest))
    BY <1>1, <1>6 DEF CopyFile, JobType
  <2>2. /\ job[w].pc = "copying" /\ job'[w].pc = to /\ Ver(w)' = Ver(w)
        /\ job'[w].left = rest
        /\ rest # {} => job'[w].temp = job[w].temp
    BY <1>1, <2>1, CopyingJob, GotoWithEffect DEF Moves, Ver
  <2>3. /\ job[w].temp # 0
        /\ "meta" \in job[w].left \/ d.meta
        /\ Ver(w) \notin gaps =>
             d.info = "none" /\ ("entry" \in job[w].left \/ d.entry # 0)
    BY <1>2, <2>2 DEF DirectoryIs
  <2>4. /\ e.entry = IF f = "entry" THEN job[w].temp ELSE d.entry
        /\ e.meta = (f = "meta" \/ d.meta)
        /\ e.info = d.info
    BY <1>6, CopyFileEffect
  <2>5. gaps' = gaps
    BY <1>6 DEF CopyFile
  <2>6. /\ "meta" \in rest \/ e.meta
        /\ Ver(w) \notin gaps' => e.info = "none" /\ ("entry" \in rest \/ e.entry # 0)
    BY <2>3, <2>4, <2>5
  <2> HIDE DEF rest
  <2>7. QED
    BY <2>2, <2>3, <2>6 DEF DirectoryIs
<1>7. CASE SaveCacheInfo(w)
  <2>1. job[w].pc = "saving" /\ job'[w].pc = "ready" /\ Ver(w)' = Ver(w)
    BY <1>1, <1>7, GotoEffect DEF SaveCacheInfo, Moves, Ver
  <2>2. /\ cache[Ver(w)].entry # 0 \/ Ver(w) \in gaps
        /\ cache[Ver(w)].meta /\ gaps' = gaps
    BY <1>2, <1>7, <2>1 DEF DirectoryIs, SaveCacheInfo
  <2>3. QED
    BY <1>7, <2>1, <2>2, SaveCacheInfoEffect DEF DirectoryIs
<1>8. QED
  BY <1>3, <1>4, <1>6, <1>7, <1>5

\* The cleanup of the worker itself, and time.
LEMMA DirectoryAges ==
  ASSUME IInv, AloneInv, Next, NEW w \in Workers,
         \/ CleanupOldCache(w) \/ CleanupFails(w) \/ Release \/ \E v \in Versions : Ages(v)
  PROVE  DirectoryIs(w)'
<1> DEFINE d == cache[Ver(w)]
           e == cache'[Ver(w)]
<1>1. DirectoryIs(w) /\ job' = job /\ Ver(w)' = Ver(w)
  BY DEF AloneInv, DirectoryFollows, CleanupOldCache, CleanupFails, Release, Ages, Ver
<1>2. CASE Quiet(w)
  BY <1>1, <1>2, QuietFollows DEF Quiet
<1>3. CASE ~Quiet(w)
  <2>1. Ver(w) \in Versions /\ d \in EntryType
    <3>1. Ver(w) # 0
      BY <1>3 DEF Quiet, IInv, TypeOK, JobType, Steps, InGetScript, RequestsAreInOrder,
         InOrder
    <3>2. QED
      BY <3>1, WantedIsVersion DEF IInv, TypeOK
  <2>2. CASE Release
    <3>1. cache' = cache /\ gaps' = gaps
      BY <2>2 DEF Release
    <3>2. QED
      BY <1>1, <3>1 DEF DirectoryIs, IsCacheValid, Ver
  <2>3. CASE CleanupOldCache(w) \/ CleanupFails(w)
    <3>1. job[w].pc \in {"running", "fetching"}
      BY <1>3, <2>3 DEF Quiet, CleanupOldCache, CleanupFails, MayCleanUp
    <3>2. Shrinks(Old)
      BY <2>3, RemovalEffect DEF IInv
    <3>3. CASE job[w].pc = "running"
      <4>1. Ver(w) \notin Old
        BY <1>1, <2>1, <3>3 DEF DirectoryIs, Old, IsOld, EntryType
      <4>2. e = d
        BY <2>1, <3>2, <4>1 DEF Shrinks
      <4>3. QED
        BY <1>1, <3>3, <4>2 DEF DirectoryIs
    <3>4. CASE job[w].pc = "fetching"
      <4>1. ~IsCacheValid(Ver(w))'
        <5>1. CASE e = d
          BY <1>1, <3>4, <5>1 DEF DirectoryIs, IsCacheValid
        <5>2. CASE e = NoEntry
          BY <1>1, <5>2 DEF IsCacheValid, NoEntry
        <5>3. CASE e \in Remains(d) /\ Ver(w) \in Old
          <6>1. e.info = "none" \/ (e.info = d.info /\ e.age = d.age)
            BY <2>1, <5>3, RemainsOf
          <6>2. d.info = "none" \/ d.age = 2
            BY <5>3 DEF Old, IsOld
          <6>3. QED
            BY <1>1, <6>1, <6>2 DEF IsCacheValid
        <5>4. QED
          BY <2>1, <3>2, <5>1, <5>2, <5>3 DEF Shrinks
      <4>2. QED
        BY <1>1, <3>4, <4>1 DEF DirectoryIs
    <3>5. QED
      BY <3>1, <3>3, <3>4
  <2>4. ASSUME NEW v \in Versions, Ages(v) PROVE DirectoryIs(w)'
    <3>1. gaps' = gaps
      BY <2>4 DEF Ages
    <3>2. CASE v # Ver(w)
      <4>1. e = d
        BY <2>1, <2>4, <3>2, AgesEffect DEF Puts
      <4>2. QED
        BY <1>1, <3>1, <4>1 DEF DirectoryIs, IsCacheValid
    <3>3. CASE v = Ver(w)
      <4>1. /\ e.dir = d.dir /\ e.entry = d.entry /\ e.meta = d.meta
            /\ e.info = d.info /\ e.hash = d.hash /\ e.age = d.age + 1
        BY <2>4, <3>3, AgesEffect
      <4>2. /\ d.info = "saved" /\ d.age \in 0..1
            /\ job[w].pc \in {"ready", "running"} => d.age = 0
        BY <2>1, <2>4, <3>3 DEF Ages, EntryType
      <4>3. ~IsCacheValid(Ver(w))'
        BY <1>1, <4>1, <4>2 DEF IsCacheValid
      <4>4. d # NoEntry
        BY <4>2 DEF NoEntry
      <4>5. QED
        BY <1>1, <3>1, <4>1, <4>2, <4>3, <4>4 DEF DirectoryIs
    <3>4. QED
      BY <3>2, <3>3
  <2>5. QED
    BY <2>2, <2>3, <2>4
<1>4. QED
  BY <1>2, <1>3

LEMMA AloneStep ==
  ASSUME IInv, AloneInv, Next, OneWorker
  PROVE  AloneInv'
<1>1. ASSUME NEW w \in Workers PROVE DirectoryIs(w)'
  <2>1. CASE \E u \in Workers : WorkerStep(u)
    <3>1. WorkerStep(w)
      BY <2>1 DEF OneWorker
    <3>2. QED
      BY <3>1, QuietOrBusy, QuietFollows, DirectoryStays, DirectoryFills, DirectoryAges
  <2>2. CASE Release \/ \E v \in Versions : Ages(v)
    BY <2>2, DirectoryAges
  <2>3. QED
    BY <2>1, <2>2 DEF Next
<1>2. QED
  BY <1>1, InfoStep DEF AloneInv, DirectoryFollows

LEMMA AloneInvariance ==
  ASSUME OneWorker
  PROVE  Spec => []AloneInv
<1>1. Init => AloneInv
  <2>1. ASSUME Init
        PROVE  /\ \A v \in Versions : cache[v].info = "none"
               /\ \A w \in Workers : job[w].pc = "idle"
    BY <2>1 DEF Init, NoEntry, NoJob
  <2>2. QED
    BY <2>1 DEF AloneInv, InfoIsTrue, DirectoryFollows, DirectoryIs
<1>2. IInv /\ AloneInv /\ [Next]_vars => AloneInv'
  <2>1. ASSUME AloneInv, UNCHANGED vars PROVE AloneInv'
    BY <2>1 DEF AloneInv, InfoIsTrue, DirectoryFollows, DirectoryIs, IsCacheValid, Ver, vars
  <2>2. QED
    BY <2>1, AloneStep
<1>3. QED
  BY <1>1, <1>2, Invariance, PTL DEF Spec

\* What get_script returns is whole, whatever was cut short before it
\* (ReadyScriptIsWhole), for a worker that has the directory for itself.
THEOREM ReadyScriptsAreWhole ==
  ASSUME OneWorker
  PROVE  Spec => []ReadyScriptIsWhole
<1>1. AloneInv => ReadyScriptIsWhole
  BY DEF AloneInv, DirectoryFollows, DirectoryIs, ReadyScriptIsWhole
<1>2. QED
  BY <1>1, AloneInvariance, PTL

\* The files a script was started from stay until it ends
\* (RunningScriptKeepsFiles), for a worker that has the directory for itself.
THEOREM RunningScriptsKeepTheirFiles ==
  ASSUME OneWorker
  PROVE  Spec => []RunningScriptKeepsFiles
<1>1. AloneInv => RunningScriptKeepsFiles
  BY DEF AloneInv, DirectoryFollows, DirectoryIs, RunningScriptKeepsFiles
<1>2. QED
  BY <1>1, AloneInvariance, PTL
=============================================================================
