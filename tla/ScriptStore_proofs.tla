--------------------------- MODULE ScriptStore_proofs ---------------------------
(***************************************************************************)
(* ScriptCache implements ScriptStore for a worker that has the directory  *)
(* for itself.  Every step is put in terms of Held and Using, one version  *)
(* at a time (the As... lemmas turn that into a step of the store), by     *)
(* means of the invariants that ScriptCache_proofs proves: between         *)
(* "clearing" and "saving" the directory of the version wanted does not    *)
(* count, a directory that is removed or cut short does not count after    *)
(* it, and what is in use is neither old nor in an invalidation.           *)
(***************************************************************************)
EXTENDS ScriptCache_proofs

----------------------------------------------------------------------------
(* The steps of the store, one version at a time *)

\* The directory of version v counts: get_script would take it, and it has no gap.
Counts(v) == v \notin gaps /\ IsCacheValid(v)

LEMMA OnlyUser ==
  ASSUME OneWorker, NEW w \in Workers
  PROVE  /\ Workers = {w}
         /\ Store!Used = Using(w)
         /\ \A v : Held(v) = IF Counts(v) \/ v \in Using(w) THEN {cache[v].entry} ELSE {}
         /\ \A v : Held(v)' = IF Counts(v)' \/ v \in Using(w)'
                                THEN {cache'[v].entry} ELSE {}
<1>1. Workers = {w}
  BY DEF OneWorker
<1>2. Store!Used = Using(w)
  BY <1>1 DEF Store!Used
<1>3. \A v : Held(v) = IF Counts(v) \/ v \in Using(w) THEN {cache[v].entry} ELSE {}
  BY <1>1 DEF Held, Counts, Using
<1>4. \A v : Held(v)' = IF Counts(v)' \/ v \in Using(w)' THEN {cache'[v].entry} ELSE {}
  BY <1>1 DEF Held, Counts, Using
<1>5. QED
  BY <1>1, <1>2, <1>3, <1>4

\* Version u has the directory it had, with or without a gap as before.
Keeps(u) == cache'[u] = cache[u] /\ (u \in gaps' <=> u \in gaps)

\* It goes on counting as it did.
LEMMA SameDirectory ==
  ASSUME OneWorker, NEW w \in Workers, NEW u, Keeps(u)
  PROVE  /\ Counts(u)' <=> Counts(u)
         /\ (u \in Using(w)' <=> u \in Using(w)) => Held(u)' = Held(u)
<1>1. Counts(u)' <=> Counts(u)
  BY DEF Counts, IsCacheValid, Keeps
<1>2. QED
  BY <1>1, OnlyUser DEF Keeps

LEMMA AsStutter ==
  ASSUME OneWorker, NEW w \in Workers, Using(w)' = Using(w),
         \A u \in Versions : Held(u)' = Held(u)
  PROVE  UNCHANGED Store!vars
  BY DEF Store!vars, OneWorker

LEMMA AsFind ==
  ASSUME OneWorker, NEW w \in Workers, NEW v \in Versions,
         Using(w) = {}, Using(w)' = {v}, Held(v) # {},
         \A u \in Versions : Held(u)' = Held(u)
  PROVE  Store!Next
<1>1. Store!Find(w, v)
  BY DEF Store!Find, OneWorker
<1>2. QED
  BY <1>1 DEF Store!Next

LEMMA AsDeliver ==
  ASSUME OneWorker, NEW w \in Workers, NEW v \in Versions, NEW c \in Versions,
         Using(w) = {}, Using(w)' = {v}, Held(v) = {},
         \A u \in Versions : Held(u)' = IF u = v THEN {c} ELSE Held(u)
  PROVE  Store!Next
<1>1. Store!Deliver(w, v, c)
  BY DEF Store!Deliver, OneWorker
<1>2. QED
  BY <1>1 DEF Store!Next

LEMMA AsGiveUp ==
  ASSUME OneWorker, NEW w \in Workers, Using(w)' = {}, cache' = cache, gaps' = gaps
  PROVE  Store!Next
<1>1. \A v : Keeps(v)
  BY DEF Keeps
<1>2. \A v \in Versions : v \notin Using(w) => Held(v)' = Held(v)
  BY <1>1, SameDirectory
<1>3. CASE \A v \in Versions : v \in Using(w) => Held(v)' = Held(v)
  <2>1. Store!GiveUp(w)
    BY <1>2, <1>3 DEF Store!GiveUp, OneWorker
  <2>2. QED
    BY <2>1 DEF Store!Next
<1>4. CASE \E v \in Versions : v \in Using(w) /\ Held(v)' # Held(v)
  <2>1. PICK v \in Versions : v \in Using(w) /\ Held(v)' # Held(v)
    BY <1>4
  <2>2. \A u : u \in Using(w) <=> u = v
    BY <2>1 DEF Using
  <2>3. Held(v)' = {}
    BY <1>1, <2>1, OnlyUser DEF Keeps
  <2>4. Store!GiveUp(w)
    BY <1>2, <2>2, <2>3 DEF Store!GiveUp, OneWorker
  <2>5. QED
    BY <2>4 DEF Store!Next
<1>5. QED
  BY <1>3, <1>4

LEMMA AsRemove ==
  ASSUME OneWorker, NEW w \in Workers, NEW gone \in SUBSET Versions,
         gone \cap Using(w) = {}, Using(w)' = Using(w),
         \A u \in Versions : Held(u)' = IF u \in gone THEN {} ELSE Held(u)
  PROVE  Store!Next
<1>1. Store!Remove(gone)
  BY OnlyUser DEF Store!Remove, OneWorker
<1>2. QED
  BY <1>1 DEF Store!Next

----------------------------------------------------------------------------
(* The steps of ScriptCache *)

\* A directory that changes without counting, before or after, changes nothing.
LEMMA AsStutterUnseen ==
  ASSUME OneWorker, NEW w \in Workers, NEW v \in Versions, Puts(v),
         \A u \in Versions \ {v} : u \in gaps' <=> u \in gaps,
         Using(w) = {}, Using(w)' = {}, ~Counts(v), ~Counts(v)'
  PROVE  UNCHANGED Store!vars
<1>1. Held(v)' = Held(v)
  BY OnlyUser
<1>2. ASSUME NEW u \in Versions, u # v PROVE Held(u)' = Held(u)
  BY <1>2, SameDirectory DEF Puts, Keeps
<1>3. QED
  BY <1>1, <1>2, AsStutter

\* The steps of get_script that fill the directory; the last one delivers.
LEMMA FillingIsStore ==
  ASSUME IInv, AloneInv, OneWorker, NEW w \in Workers,
         \/ ClearCache(w) \/ MakeDir(w) \/ CopySingle(w)
         \/ (\E f \in Files : CopyFile(w, f))
         \/ SaveCacheInfo(w)
  PROVE  [Store!Next]_(Store!vars)
<1> USE DEF Steps, InGetScript
<1>1. TypeOK /\ job[w] \in JobType /\ DirectoryIs(w)
  BY DEF IInv, TypeOK, AloneInv, DirectoryFollows
<1>2. CASE ClearCache(w)
  <2>1. job[w].pc = "clearing" /\ job'[w].pc = "making"
    BY <1>1, <1>2, GotoEffect DEF ClearCache, Moves
  <2>2. Using(w) = {} /\ Using(w)' = {}
    BY <2>1 DEF Using
  <2>3. ~Counts(Ver(w))
    BY <1>1, <2>1 DEF DirectoryIs, Counts
  <2>4. Ver(w) \in Versions /\ Puts(Ver(w)) /\ cache'[Ver(w)] = NoEntry
    BY <1>2, ClearCacheEffect
  <2>5. \A u : u # Ver(w) => (u \in gaps' <=> u \in gaps)
    BY <1>2 DEF ClearCache, Drop
  <2> DEFINE v == Ver(w)
  <2> HIDE DEF v
  <2>6. ASSUME NEW u, cache'[u] = NoEntry PROVE ~Counts(u)'
    BY <2>6 DEF Counts, IsCacheValid, NoEntry
  <2>7. QED
    BY <2>2, <2>3, <2>4, <2>5, <2>6, AsStutterUnseen
<1>3. CASE MakeDir(w) \/ CopySingle(w) \/ \E f \in Files : CopyFile(w, f)
  <2>1. /\ job[w].pc \in {"making", "clearing", "copying"}
        /\ job'[w].pc \in {"copying", "parsing"}
    <3>1. CASE MakeDir(w)
      BY <1>1, <3>1, GotoEffect DEF MakeDir, Moves
    <3>2. CASE CopySingle(w) \/ \E f \in Files : CopyFile(w, f)
      <4>1. PICK files \in SUBSET Files, from \in {"clearing", "copying"} :
              GotoWith(w, from, Copying(w, files))
        BY <1>1, <3>2 DEF CopySingle, CopyFile, JobType, Files
      <4>2. QED
        BY <1>1, <4>1, CopyingJob, GotoWithEffect DEF Moves
    <3>3. QED
      BY <1>3, <3>1, <3>2
  <2>2. Using(w) = {} /\ Using(w)' = {}
    BY <2>1 DEF Using
  <2>3. /\ Ver(w) \in Versions /\ Puts(Ver(w))
        /\ \A u \in Versions \ {Ver(w)} : u \in gaps' <=> u \in gaps
    BY <1>3, MakeDirEffect, CopyFileEffect, CopySingleEffect DEF MakeDir, CopyFile
  <2>4. /\ Ver(w) \in gaps \/ ~IsCacheValid(Ver(w))
        /\ Ver(w) \in gaps' \/ cache'[Ver(w)].info = "none"
    <3>1. CASE CopySingle(w)
      BY <1>1, <3>1, CopySingleEffect DEF CopySingle, GotoWith, DirectoryIs
    <3>2. CASE MakeDir(w) \/ \E f \in Files : CopyFile(w, f)
      <4>1. Ver(w) \in gaps \/ cache[Ver(w)].info = "none"
        <5>1. job[w].pc \in {"making", "copying"}
          BY <3>2 DEF MakeDir, CopyFile, Goto, GotoWith
        <5>2. job[w].pc = "making" => cache[Ver(w)] = NoEntry
          BY <1>1 DEF DirectoryIs
        <5>3. job[w].pc = "copying" => Ver(w) \in gaps \/ cache[Ver(w)].info = "none"
          BY <1>1 DEF DirectoryIs
        <5>4. QED
          BY <5>1, <5>2, <5>3 DEF NoEntry
      <4>2. cache'[Ver(w)].info = cache[Ver(w)].info
        BY <3>2, MakeDirEffect, CopyFileEffect
      <4>3. Ver(w) \in gaps => Ver(w) \in gaps'
        BY <3>2 DEF MakeDir, CopyFile
      <4>4. QED
        BY <4>1, <4>2, <4>3 DEF IsCacheValid
    <3>3. QED
      BY <1>3, <3>1, <3>2
  <2>5. PICK v \in Versions : v = Ver(w)
    BY <2>3
  <2>6. ~Counts(v) /\ ~Counts(v)'
    <3>1. ~Counts(v)
      BY <2>4, <2>5 DEF Counts
    <3>2. v \in gaps' \/ cache'[v].info = "none"
      BY <2>4, <2>5
    <3>3. QED
      BY <3>1, <3>2 DEF Counts, IsCacheValid
  <2>7. QED
    BY <2>2, <2>3, <2>5, <2>6, AsStutterUnseen
<1>4. CASE SaveCacheInfo(w)
  <2>1. job[w].pc = "saving" /\ job'[w].pc = "ready" /\ Ver(w)' = Ver(w)
    BY <1>1, <1>4, GotoEffect DEF SaveCacheInfo, Moves, Ver
  <2>2. gaps' = gaps
    BY <1>4 DEF SaveCacheInfo
  <2>3. PICK v \in Versions :
          /\ v = Ver(w) /\ Puts(v)
          /\ cache'[v].dir /\ cache'[v].entry = cache[v].entry
          /\ cache'[v].meta = cache[v].meta /\ cache'[v].info = "saved"
          /\ cache'[v].hash = cache[v].entry /\ cache'[v].age = 0
    BY <1>4, SaveCacheInfoEffect
  <2>4. \A u \in Versions \ {v} : Keeps(u)
    BY <2>2, <2>3 DEF Puts, Keeps
  <2>5. CASE v \in gaps
    <3>1. Using(w) = {} /\ Using(w)' = {}
      BY <2>1, <2>2, <2>3, <2>5 DEF Using
    <3>2. ~Counts(v) /\ ~Counts(v)'
      BY <2>2, <2>5 DEF Counts
    <3>3. QED
      BY <2>2, <2>3, <3>1, <3>2, AsStutterUnseen
  <2>6. CASE v \notin gaps
    <3>1. Using(w) = {} /\ Using(w)' = {v}
      BY <2>1, <2>2, <2>3, <2>6 DEF Using
    <3>2. cache[v].info = "none" /\ cache[v].entry # 0 /\ cache[v].meta
      BY <1>1, <2>1, <2>3, <2>6 DEF DirectoryIs
    <3>3. ~Counts(v)
      BY <3>2 DEF Counts, IsCacheValid
    <3>4. Held(v) = {} /\ Held(v)' = {cache[v].entry}
      BY <2>3, <3>1, <3>3, OnlyUser
    <3>5. cache[v].entry \in Versions
      BY <1>1, <3>2, CacheAssumption DEF TypeOK, EntryType, Versions
    <3>6. ASSUME NEW u \in Versions, u # v PROVE Held(u)' = Held(u)
      BY <2>4, <3>1, <3>6, SameDirectory
    <3>7. QED
      BY <3>1, <3>4, <3>5, <3>6, AsDeliver
  <2>7. QED
    BY <2>5, <2>6
<1>5. QED
  BY <1>2, <1>3, <1>4

\* A step that leaves the directories alone begins a use only where the cache is
\* valid, ends one, or changes nothing.
LEMMA SameCacheIsStore ==
  ASSUME OneWorker, NEW w \in Workers, cache' = cache, gaps' = gaps,
         \/ Using(w)' = {}
         \/ Using(w)' = Using(w)
         \/ Using(w) = {} /\ Using(w)' = {Ver(w)} /\ Ver(w) \in Versions /\ Counts(Ver(w))
  PROVE  [Store!Next]_(Store!vars)
<1>1. \A u : Keeps(u)
  BY DEF Keeps
<1>2. CASE Using(w)' = {}
  BY <1>2, AsGiveUp
<1>3. CASE Using(w)' = Using(w)
  BY <1>1, <1>3, SameDirectory, AsStutter
<1>4. CASE /\ Using(w) = {} /\ Using(w)' = {Ver(w)}
           /\ Ver(w) \in Versions /\ Counts(Ver(w))
  <2>1. PICK v \in Versions : v = Ver(w)
    BY <1>4
  <2>2. Held(v) = {cache[v].entry} /\ Held(v)' = Held(v)
    BY <1>1, <1>4, <2>1, OnlyUser, SameDirectory DEF Keeps
  <2>3. \A u \in Versions : Held(u)' = Held(u)
    BY <1>1, <1>4, <2>1, <2>2, SameDirectory
  <2>4. QED
    BY <1>4, <2>1, <2>2, <2>3, AsFind
<1>5. QED
  BY <1>2, <1>3, <1>4

LEMMA QuietUses ==
  ASSUME NEW w \in Workers
  PROVE  /\ job[w].pc \notin {"ready", "running"} => Using(w) = {}
         /\ job'[w].pc \notin {"ready", "running"} => Using(w)' = {}
  BY DEF Using

LEMMA UsedIsVersion ==
  ASSUME IInv, NEW w \in Workers, job[w].pc \in {"ready", "running"}
  PROVE  Ver(w) \in Versions
  BY WantedIsVersion DEF IInv, RequestsAreInOrder, InOrder

LEMMA GetScriptIsStore ==
  ASSUME IInv, OneWorker, NEW w \in Workers, cache' = cache, gaps' = gaps,
         \/ Quiet(w)'
         \/ Pull(w) \/ DiscardClone(w) \/ CloneFresh(w) \/ Checkout(w) \/ CopyOut(w)
         \/ Fetch(w) \/ DownloadObjects(w) \/ CheckCache(w) \/ ParseMetadata(w)
         \/ RunScript(w)
  PROVE  [Store!Next]_(Store!vars)
<1> USE DEF Steps, InGetScript
<1>1. TypeOK /\ job[w] \in JobType
  BY DEF IInv, TypeOK
<1>2. CASE Quiet(w)'
  BY <1>2, QuietUses, SameCacheIsStore DEF Quiet
<1>3. CASE Pull(w) \/ DiscardClone(w) \/ CloneFresh(w) \/ Checkout(w) \/ ParseMetadata(w)
  <2>1. PICK to \in {"list", "cloning", "checkout", "copyout", "saving"}, from \in Steps :
          Goto(w, from, to)
    BY <1>1, <1>3 DEF Pull, DiscardClone, CloneFresh, Checkout, ParseMetadata, JobType
  <2>2. job'[w].pc = to
    BY <1>1, <2>1, GotoLands
  <2>3. QED
    BY <2>1, <2>2, QuietUses, SameCacheIsStore
<1>4. CASE CopyOut(w) \/ Fetch(w) \/ DownloadObjects(w)
  <2>1. PICK v \in 0..MaxRelease, files \in SUBSET Files, from \in Steps :
          GotoWith(w, from, Downloaded(w, v, files))
    BY <1>1, <1>4, FilesOfVersion
       DEF CopyOut, Fetch, DownloadObjects, TypeOK, CloneType, JobType, Ver
  <2>2. job'[w].pc = "clearing"
    BY <1>1, <2>1, DownloadedJob, GotoWithEffect
  <2>3. QED
    BY <2>1, <2>2, QuietUses, SameCacheIsStore
<1>5. CASE CheckCache(w)
  <2> DEFINE to == IF IsCacheValid(Ver(w)) THEN "ready" ELSE Download[repository]
  <2>1. to \in {"ready", "updating", "fetching", "downloading"}
    BY <1>1, CacheAssumption DEF TypeOK, Download
  <2>2. GotoWith(w, "checking", Checked(w, to))
    BY <1>5 DEF CheckCache
  <2>3. to = "ready" => IsCacheValid(Ver(w))
    BY <1>1, CacheAssumption DEF TypeOK, Download
  <2> HIDE DEF to
  <2>4. job[w].pc = "checking" /\ job'[w].pc = to /\ Ver(w)' = Ver(w)
    BY <1>1, <2>1, <2>2, CheckedJob, GotoWithEffect DEF Ver, Moves
  <2>5. CASE to = "ready"
    <3>1. /\ Using(w) = {}
          /\ Using(w)' = IF Ver(w) \in gaps THEN {} ELSE {Ver(w)}
      BY <2>4, <2>5 DEF Using
    <3>2. Ver(w) \in Versions
      BY <2>4, WantedIsVersion DEF IInv, RequestsAreInOrder, InOrder
    <3>3. QED
      BY <2>3, <2>5, <3>1, <3>2, SameCacheIsStore DEF Counts
  <2>6. CASE to # "ready"
    BY <2>1, <2>2, <2>4, <2>6, QuietUses, SameCacheIsStore
  <2>7. QED
    BY <2>5, <2>6
<1>6. CASE RunScript(w)
  <2>1. PICK to \in {"running", "idle"} : Goto(w, "ready", to)
    BY <1>6 DEF RunScript
  <2>2. /\ job[w].pc = "ready" /\ job'[w].pc = to
        /\ to = "running" => Ver(w)' = Ver(w)
    BY <1>1, <2>1, GotoEffect DEF Moves, Ver
  <2>3. Using(w)' = {} \/ Using(w)' = Using(w)
    BY <2>2 DEF Using
  <2>4. QED
    BY <2>1, <2>3, SameCacheIsStore
<1>7. QED
  BY <1>2, <1>3, <1>4, <1>5, <1>6

\* A directory that is cut short does not count after it, and one that is removed
\* does not either: what is removed without being in use is removed from the store.
LEMMA ShrinkingIsStore ==
  ASSUME TypeOK, OneWorker, NEW w \in Workers, NEW from, Shrinks(from),
         Using(w)' = Using(w), from \cap Using(w) = {}
  PROVE  Store!Next
<1> DEFINE gone == {u \in Versions : Held(u)' # Held(u)}
<1>1. ASSUME NEW u \in Versions, Held(u)' # Held(u) PROVE Held(u)' = {} /\ u \in from
  <2>1. ~Keeps(u)
    BY <1>1, SameDirectory
  <2>2. u \in from /\ (cache'[u] = NoEntry \/ u \in gaps')
    BY <2>1 DEF Shrinks, Keeps
  <2>3. ~Counts(u)'
    BY <2>2 DEF Counts, IsCacheValid, NoEntry
  <2>4. u \notin Using(w)'
    BY <2>2
  <2>5. QED
    BY <2>2, <2>3, <2>4, OnlyUser
<1>2. gone \cap Using(w) = {}
  BY <1>1
<1>3. \A u \in Versions : Held(u)' = IF u \in gone THEN {} ELSE Held(u)
  BY <1>1
<1> HIDE DEF gone
<1>4. gone \in SUBSET Versions
  BY DEF gone
<1>5. QED
  BY <1>2, <1>3, <1>4, AsRemove

\* Neither an invalidation, at which nothing is in use, nor the cleanup takes what
\* is in use.
LEMMA RemovalIsStore ==
  ASSUME IInv, AloneInv, OneWorker, NEW w \in Workers,
         \/ (InvalidateCache(w) \/ InvalidateFails(w)) /\ Quiet(w)'
         \/ CleanupOldCache(w) \/ CleanupFails(w)
  PROVE  Store!Next
<1>1. TypeOK
  BY DEF IInv
<1>2. CASE (InvalidateCache(w) \/ InvalidateFails(w)) /\ Quiet(w)'
  <2>1. job[w].pc \in {"forcing", "invalidating"}
    BY <1>2 DEF InvalidateCache, InvalidateFails, Goto
  <2>2. Using(w) = {} /\ Using(w)' = {}
    BY <1>2, <2>1, QuietUses DEF Quiet
  <2>3. QED
    BY <1>1, <1>2, <2>2, RemovalEffect, ShrinkingIsStore
<1>3. CASE CleanupOldCache(w) \/ CleanupFails(w)
  <2>1. Shrinks(Old) /\ job' = job
    BY <1>1, <1>3, RemovalEffect DEF CleanupOldCache, CleanupFails
  <2>2. CASE job[w].pc \notin {"ready", "running"}
    BY <1>1, <2>1, <2>2, QuietUses, ShrinkingIsStore
  <2>3. CASE job[w].pc \in {"ready", "running"}
    <3>1. Ver(w) \in Versions /\ cache[Ver(w)] \in EntryType
      BY <1>1, <2>3, UsedIsVersion DEF TypeOK
    <3>2. cache[Ver(w)].info = "saved" /\ cache[Ver(w)].age < 2
      BY <2>3 DEF AloneInv, DirectoryFollows, DirectoryIs
    <3>3. Ver(w) \notin Old
      BY <3>1, <3>2 DEF Old, IsOld, EntryType
    <3>4. Ver(w) \in gaps' <=> Ver(w) \in gaps
      BY <2>1, <3>1, <3>3 DEF Shrinks
    <3>5. Using(w)' = Using(w)
      BY <2>1, <3>4 DEF Using, Ver
    <3>6. Old \cap Using(w) = {}
      BY <3>3 DEF Using
    <3>7. QED
      BY <1>1, <2>1, <3>5, <3>6, ShrinkingIsStore
  <2>4. QED
    BY <2>2, <2>3
<1>4. QED
  BY <1>2, <1>3

LEMMA AgesIsStore ==
  ASSUME IInv, OneWorker, NEW w \in Workers, NEW v \in Versions, Ages(v)
  PROVE  [Store!Next]_(Store!vars)
<1>1. Using(w)' = Using(w) /\ gaps' = gaps /\ cache[v].age \in Nat
  BY DEF IInv, TypeOK, EntryType, Ages, Using, Ver
<1>2. /\ Puts(v) /\ cache'[v].entry = cache[v].entry
      /\ cache'[v].age = cache[v].age + 1
  BY AgesEffect
<1>3. ASSUME NEW u \in Versions, u # v PROVE Held(u)' = Held(u)
  BY <1>1, <1>2, <1>3, SameDirectory DEF Puts, Keeps
<1>4. CASE v \in Using(w)
  <2>1. v \in Using(w)'
    BY <1>1, <1>4
  <2>2. Held(v) = {cache[v].entry}
    BY <1>4, OnlyUser
  <2>3. Held(v)' = {cache'[v].entry}
    BY <2>1, OnlyUser
  <2>4. \A u \in Versions : Held(u)' = Held(u)
    BY <1>2, <1>3, <2>2, <2>3
  <2>5. QED
    BY <1>1, <2>4, AsStutter
<1>5. CASE v \notin Using(w)
  <2>1. ~Counts(v)'
    BY <1>1, <1>2 DEF Counts, IsCacheValid
  <2>2. Held(v)' = {}
    BY <1>1, <1>5, <2>1, OnlyUser
  <2>3. \A u \in Versions : Held(u)' = IF u \in {v} THEN {} ELSE Held(u)
    BY <1>3, <2>2
  <2>4. QED
    BY <1>1, <1>5, <2>3, AsRemove
<1>6. QED
  BY <1>4, <1>5

LEMMA CrashIsStore ==
  ASSUME IInv, AloneInv, OneWorker, NEW w \in Workers, Crash(w)
  PROVE  [Store!Next]_(Store!vars)
<1>1. TypeOK /\ DirectoryIs(w)
  BY DEF IInv, AloneInv, DirectoryFollows
<1>2. Using(w)' = {}
  <2>1. job'[w].pc = "idle"
    BY <1>1 DEF Crash, NoJob, TypeOK
  <2>2. QED
    BY <2>1, QuietUses
<1>3. CASE cache' = cache /\ gaps' = gaps
  BY <1>2, <1>3, SameCacheIsStore
<1>4. CASE job[w].pc \in {"forcing", "invalidating"} /\ Shrinks(Versions)
  <2>1. Using(w) = {}
    BY <1>4, QuietUses
  <2>2. QED
    BY <1>1, <1>2, <1>4, <2>1, ShrinkingIsStore
<1>5. CASE /\ job[w].pc = "clearing" /\ gaps' = gaps
           /\ Ver(w) \in Versions /\ Puts(Ver(w))
           /\ cache'[Ver(w)] \in Remains(cache[Ver(w)])
  <2>1. PICK v \in Versions : v = Ver(w)
    BY <1>5
  <2> DEFINE d == cache[v]
             r == cache'[v]
  <2>2. ~IsCacheValid(v)
    BY <1>1, <1>5, <2>1 DEF DirectoryIs
  <2>3. /\ d.dir /\ r.entry \in {0, d.entry} /\ (r.meta => d.meta)
        /\ (r.info = d.info /\ r.hash = d.hash /\ r.age = d.age) \/ r.info = "none"
    BY <1>1, <1>5, <2>1, RemainsOf DEF TypeOK
  <2>4. ~Counts(v)'
    <3>1. ASSUME v \notin gaps, r.meta, r.info = "saved", r.age = 0 PROVE FALSE
      <4>1. d.dir /\ d.meta /\ d.info = "saved" /\ d.age = 0
        BY <2>3, <3>1
      <4>2. d.entry = d.hash
        BY <3>1, <4>1 DEF AloneInv, InfoIsTrue
      <4>3. QED
        BY <2>2, <4>1, <4>2 DEF IsCacheValid
    <3>2. QED
      BY <1>5, <3>1 DEF Counts, IsCacheValid
  <2>5. QED
    BY <1>2, <1>5, <2>1, <2>2, <2>4, QuietUses, AsStutterUnseen DEF Counts
<1>6. CASE /\ job[w].pc = "saving" /\ gaps' = gaps
           /\ Ver(w) \in Versions /\ Puts(Ver(w))
           /\ cache'[Ver(w)].info = "torn"
  <2>1. PICK v \in Versions : v = Ver(w)
    BY <1>6
  <2>2. v \in gaps \/ cache[v].info = "none"
    BY <1>1, <1>6, <2>1 DEF DirectoryIs
  <2>3. ~Counts(v) /\ ~Counts(v)'
    BY <1>6, <2>1, <2>2 DEF Counts, IsCacheValid
  <2>4. QED
    BY <1>2, <1>6, <2>1, <2>3, QuietUses, AsStutterUnseen
<1>7. QED
  BY <1>3, <1>4, <1>5, <1>6, CrashEffect DEF Crash

LEMMA StoreStep ==
  ASSUME IInv, AloneInv, Next, OneWorker, Workers # {}
  PROVE  [Store!Next]_(Store!vars)
<1>1. PICK w \in Workers : TRUE
  OBVIOUS
<1>2. CASE Release
  <2>1. cache' = cache /\ gaps' = gaps /\ Using(w)' = Using(w)
    BY <1>2 DEF Release, Using, Ver
  <2>2. QED
    BY <2>1, SameCacheIsStore
<1>3. CASE \E v \in Versions : Ages(v)
  BY <1>3, AgesIsStore
<1>4. CASE WorkerStep(w)
  <2>1. CASE InvalidateCache(w) \/ InvalidateFails(w)
    <3>1. job[w].pc \in {"forcing", "invalidating"}
      BY <2>1 DEF InvalidateCache, InvalidateFails, Goto
    <3>2. Quiet(w)'
      BY <1>4, <3>1, QuietOrBusy DEF Quiet, Goto, GotoWith, Pull, DiscardClone,
         CloneFresh, Checkout, CopyOut, Fetch, DownloadObjects, CheckCache, ClearCache,
         MakeDir, CopyFile, CopySingle, ParseMetadata, SaveCacheInfo, RunScript,
         CleanupOldCache, CleanupFails, MayCleanUp
    <3>3. QED
      BY <2>1, <3>2, RemovalIsStore
  <2>2. CASE CleanupOldCache(w) \/ CleanupFails(w)
    BY <2>2, RemovalIsStore
  <2>3. CASE Crash(w)
    BY <2>3, CrashIsStore
  <2>4. CASE \/ ClearCache(w) \/ MakeDir(w) \/ CopySingle(w)
             \/ (\E f \in Files : CopyFile(w, f))
             \/ SaveCacheInfo(w)
    BY <2>4, FillingIsStore
  <2>5. CASE ~(\/ InvalidateCache(w) \/ InvalidateFails(w) \/ Crash(w)
               \/ CleanupOldCache(w) \/ CleanupFails(w)
               \/ ClearCache(w) \/ MakeDir(w) \/ CopySingle(w)
               \/ (\E f \in Files : CopyFile(w, f)) \/ SaveCacheInfo(w))
    <3>1. cache' = cache /\ gaps' = gaps
      BY <1>4, <2>5 DEF WorkerStep, Request, Pull, DiscardClone, CloneFresh, CloneFails,
         LatestTag, Checkout, CopyOut, LatestVersion, FirstListed, Fetch, ListLatest,
         DownloadObjects, CheckCache, ParseMetadata, GetScriptFails, RunScript,
         ScriptEnds, ForceDownload, Invalidate, Inspect
    <3>2. QED
      BY <1>4, <2>5, <3>1, QuietOrBusy, GetScriptIsStore
  <2>6. QED
    BY <2>1, <2>2, <2>3, <2>4, <2>5
<1>5. QED
  BY <1>2, <1>3, <1>4 DEF Next, OneWorker

\* Without a worker a directory may only expire.
LEMMA NobodyIsStore ==
  ASSUME IInv, Next, Workers = {}
  PROVE  [Store!Next]_(Store!vars)
<1>1. TypeOK /\ Store!Used = {} /\ gaps' = gaps
  BY DEF IInv, Store!Used, Next, Release, Ages
<1>2. /\ \A v : Held(v) = IF Counts(v) THEN {cache[v].entry} ELSE {}
      /\ \A v : Held(v)' = IF Counts(v)' THEN {cache'[v].entry} ELSE {}
  BY DEF Held, Counts
<1>3. ASSUME NEW u \in Versions, cache'[u] = cache[u] PROVE Held(u)' = Held(u)
  <2>1. Counts(u)' <=> Counts(u)
    BY <1>1, <1>3 DEF Counts, IsCacheValid
  <2>2. QED
    BY <1>2, <1>3, <2>1
<1>4. CASE Release
  <2>1. \A u \in Versions : Held(u)' = Held(u)
    BY <1>3, <1>4 DEF Release
  <2>2. QED
    BY <2>1 DEF Store!vars
<1>5. ASSUME NEW v \in Versions, Ages(v) PROVE Store!Next
  <2>1. Puts(v) /\ cache'[v].age = cache[v].age + 1 /\ cache[v].age \in Nat
    BY <1>1, <1>5, AgesEffect DEF TypeOK, EntryType
  <2>2. ~Counts(v)'
    BY <2>1 DEF Counts, IsCacheValid
  <2>3. \A u \in Versions : Held(u)' = IF u \in {v} THEN {} ELSE Held(u)
    BY <1>2, <1>3, <2>1, <2>2 DEF Puts
  <2>4. Store!Remove({v})
    BY <1>1, <2>3 DEF Store!Remove
  <2>5. QED
    BY <2>4 DEF Store!Next
<1>6. QED
  BY <1>4, <1>5 DEF Next

----------------------------------------------------------------------------

LEMMA StoreStutter ==
  ASSUME UNCHANGED vars
  PROVE  UNCHANGED Store!vars
  BY DEF vars, Store!vars, Held, Using, Ver, IsCacheValid

LEMMA StoreInit ==
  ASSUME Init
  PROVE  Store!Init
<1>1. \A w \in Workers : Using(w) = {}
  BY DEF Init, Using, NoJob
<1>2. \A v \in Versions : Held(v) = {}
  BY <1>1 DEF Init, Held, IsCacheValid, NoEntry
<1>3. QED
  BY <1>1, <1>2 DEF Store!Init

\* A worker that has the cache directory for itself, whatever it is configured for
\* and whenever it fails, crashes or cleans up, makes a store of it that delivers
\* scripts in one step, keeps those in use and changes none in place: every step
\* of CacheManager and ScriptDownloader is one of ScriptStore or none at all, of
\* the versions whose directory has no gap.
THEOREM ScriptCacheIsAStore ==
  ASSUME OneWorker
  PROVE  Spec => ImplementsScriptStore
<1>1. Init => Store!Init
  BY StoreInit
<1>2. IInv /\ AloneInv /\ [Next]_vars => [Store!Next]_(Store!vars)
  BY StoreStep, NobodyIsStore, StoreStutter
<1>3. Spec => []IInv
  BY Invariance
<1>4. Spec => []AloneInv
  BY AloneInvariance
<1>5. QED
  BY <1>1, <1>2, <1>3, <1>4, PTL DEF Spec, ImplementsScriptStore, Store!Spec

=============================================================================
