----------------------- MODULE WorkspaceFreshnessProofs -----------------------
(***************************************************************************)
(* Theorems about what a workspace serves: no chunks of another text hide  *)
(* behind a digest, a conversion replaces only what it started from, an    *)
(* import keeps what it committed and the startup reconcile repairs what a *)
(* crash left, for every set of entries, tasks and changesets.             *)
(***************************************************************************)
EXTENDS WorkspaceAtomicityProofs

----------------------------------------------------------------------------
(* Who changes what *)

\* A task's step is about itself alone.
OthersKept(t) ==
    \A u \in Task \ {t} :
        /\ pc'[u] = pc[u] /\ change'[u] = change[u] /\ seen'[u] = seen[u] /\ by'[u] = by[u]
        /\ refs'[u] = refs[u] /\ states'[u] = states[u] /\ jobs'[u] = jobs[u]

LEMMA OthersStay ==
    ASSUME TypeOK, NEW t \in Task
    PROVE  Ask(t) \/ Lock(t) \/ Step(t) \/ (\E c \in Collection : ImportFile(c, t)) => OthersKept(t)
<1> USE DEF gates, commits, syncs, imports, world, durable, Goto, OthersKept
<1>0. /\ pc \in [Task -> Phase] /\ change \in [Task -> ChangeRecord] /\ seen \in [Task -> [Stem -> File]]
      /\ jobs \in [Task -> [Stem -> Job]] /\ refs \in [Task -> SUBSET Stem] /\ states \in [Task -> [Stem -> Row]]
      /\ by \in [Task -> Collection \cup {Nobody}]
  BY DEF TypeOK
<1>1. \A ch : /\ Plan(t, ch) \/ Submit(t, ch)
              /\ by' = by \/ \E c : by' = [by EXCEPT ![t] = c]
             => OthersKept(t)
  BY <1>0 DEF Plan, Submit
<1>2. Ask(t) => OthersKept(t)
  BY <1>0, <1>1 DEF Ask, Request, RkRequest, WipeRequest, SyncRefs, ResetFiles
<1>3. Lock(t) => OthersKept(t)
  BY <1>0 DEF Lock, Acquire, RkLock, WipeLock, WipeRefuse, SyncLock, SyncRefuse
<1>4. Commit(t) => OthersKept(t)
  <2>1. Finish(t) => \A u \in Task \ {t} :
          /\ pc'[u] = pc[u] /\ change'[u] = change[u] /\ seen'[u] = seen[u] /\ by'[u] = by[u]
          /\ refs'[u] = refs[u] /\ states'[u] = states[u] /\ jobs'[u] = jobs[u]
    BY <1>0 DEF Finish
  <2> QED
    BY <1>0, <2>1 DEF Commit, Converted, ConversionEnds, Resolve, Refuse, Vacate, Land, Transact, RollBack,
       Claim, Settle
<1>5. Index(t) \/ IndexFailure(t) => OthersKept(t)
  BY <1>0 DEF Index, IndexFailure, Upsert, StoreChunks, Stamp, IndexFails, SetJob
<1>6. Rechunk(t) \/ Wipe(t) \/ ResetRows(t) => OthersKept(t)
  BY <1>0 DEF Rechunk, RkRefuse, RkDone, Wipe, WipeRows, WipeFiles, ResetRows
<1>7. Reconcile(t) => OthersKept(t)
  BY <1>0 DEF Reconcile, SyncStates, Sync, SyncDone, SyncGone, SyncFresh, SyncIndex, Visit, SetJob
<1>8. (\E c \in Collection : ImportFile(c, t)) => OthersKept(t)
  BY <1>0, <1>1 DEF ImportFile
<1> QED
  BY <1>2, <1>3, <1>4, <1>5, <1>6, <1>7, <1>8 DEF Step

\* What the steps below need of the types.
LEMMA FilesTyped ==
    ASSUME FilesInv
    PROVE  /\ pc \in [Task -> Phase] /\ change \in [Task -> ChangeRecord] /\ seen \in [Task -> [Stem -> File]]
           /\ jobs \in [Task -> [Stem -> Job]] /\ refs \in [Task -> SUBSET Stem]
           /\ states \in [Task -> [Stem -> Row]] /\ by \in [Task -> Collection \cup {Nobody}]
           /\ disk \in [Stem -> File] /\ journal \in [Stem -> File] /\ rows \in [Stem -> Row]
           /\ clock \in Nat /\ mode \in {"boot", "up"} /\ landed \in [Collection -> SUBSET Stem]
           /\ importing \in [Collection -> {"idle", "planning", "uploading"}]
  BY DEF FilesInv, TypeOK

\* Only an install, its rollback and a wipe change files.
LEMMA DiskMoves ==
    ASSUME FilesInv, ~AdminReset, NEW t \in Task
    PROVE  Ask(t) \/ Lock(t) \/ Step(t) =>
             UNCHANGED disk \/ Vacate(t) \/ Land(t) \/ RollBack(t) \/ WipeFiles(t)
<1> USE DEF gates, commits, syncs, imports, world, durable
<1>1. Ask(t) => UNCHANGED disk
  BY DEF Ask, Request, Plan, Submit, RkRequest, WipeRequest, SyncRefs, ResetFiles
<1>2. Lock(t) => UNCHANGED disk
  BY DEF Lock, Acquire, RkLock, WipeLock, WipeRefuse, SyncLock, SyncRefuse
<1>3. Commit(t) => UNCHANGED disk \/ Vacate(t) \/ Land(t) \/ RollBack(t)
  BY DEF Commit, Converted, ConversionEnds, Resolve, Refuse, Transact, Claim, Settle
<1>4. Index(t) \/ IndexFailure(t) \/ Rechunk(t) \/ ResetRows(t) \/ Reconcile(t) => UNCHANGED disk
  BY DEF Index, IndexFailure, Upsert, StoreChunks, Stamp, IndexFails, Rechunk, RkRefuse, RkDone, ResetRows,
     Reconcile, SyncStates, Sync, SyncDone, SyncGone, SyncFresh, SyncIndex, Visit
<1>5. Wipe(t) => UNCHANGED disk \/ WipeFiles(t)
  BY DEF Wipe, WipeRows
<1> QED
  BY <1>1, <1>2, <1>3, <1>4, <1>5 DEF Step

\* A bulk import changes neither files nor what another task than its upload's is at.
LEMMA ImportMoves ==
    ASSUME FilesInv, NEW c \in Collection
    PROVE  ClaimStore(c) \/ CancelImport(c) \/ Import(c) =>
             /\ UNCHANGED <<disk, rows, journal, jobs, refs, states, mode, skipped, clock, lock, inflight>>
             /\ \A u \in Task : \/ pc'[u] = pc[u] /\ change'[u] = change[u] /\ seen'[u] = seen[u] /\ by'[u] = by[u]
                                \/ pc[u] = "idle" /\ pc'[u] = "converting" /\ mode = "up"
<1> USE DEF gates, commits, syncs, imports, world, durable, Goto
<1>1. ASSUME NEW t \in Task, ImportFile(c, t)
      PROVE  /\ UNCHANGED <<disk, rows, journal, jobs, refs, states, mode, skipped, clock, lock, inflight>>
             /\ \A u \in Task : \/ pc'[u] = pc[u] /\ change'[u] = change[u] /\ seen'[u] = seen[u] /\ by'[u] = by[u]
                                \/ pc[u] = "idle" /\ pc'[u] = "converting" /\ mode = "up"
  <2>1. PICK ch \in left[c] :
          \/ Plan(t, ch) /\ by' = [by EXCEPT ![t] = c]
          \/ UNCHANGED <<durable, gates, pc, commits, jobs, syncs, by, landed, importing, world>>
    BY <1>1 DEF ImportFile
  <2>2. CASE Plan(t, ch) /\ by' = [by EXCEPT ![t] = c]
    BY <2>2, FilesTyped DEF Plan, Idle
  <2>3. CASE UNCHANGED <<durable, gates, pc, commits, jobs, syncs, by, landed, importing, world>>
    BY <2>3
  <2> QED
    BY <2>1, <2>2, <2>3
<1> QED
  BY <1>1 DEF ClaimStore, CancelImport, Import, PlanImport, FinishImport

\* The one way into an install.
LEMMA EntersInstall ==
    ASSUME FilesInv, NEW t \in Task, pc'[t] = "vacating"
    PROVE  Ask(t) \/ Lock(t) \/ Step(t) =>
             \/ Resolve(t)
             \/ pc[t] = "vacating" /\ UNCHANGED <<change, seen, disk>>
<1> USE DEF gates, commits, syncs, imports, world, durable, Goto
<1>1. Ask(t) => FALSE
  BY FilesTyped DEF Ask, Request, Plan, Submit, RkRequest, WipeRequest, SyncRefs, ResetFiles
<1>2. Lock(t) => FALSE
  BY FilesTyped DEF Lock, Acquire, RkLock, WipeLock, WipeRefuse, SyncLock, SyncRefuse
<1>3. Commit(t) => Resolve(t)
  BY FilesTyped DEF Commit, Converted, ConversionEnds, Refuse, Finish, Vacate, Land, RollBack, Transact, Claim, Settle
<1>4. Index(t) \/ IndexFailure(t) => pc[t] = "vacating" /\ UNCHANGED <<change, seen, disk>>
  BY DEF Index, IndexFailure, Upsert, StoreChunks, Stamp, IndexFails
<1>5. Rechunk(t) \/ ResetRows(t) \/ Wipe(t) => FALSE
  BY FilesTyped DEF Rechunk, RkRefuse, RkDone, ResetRows, Wipe, WipeRows, WipeFiles
<1>6. Reconcile(t) => FALSE
  BY FilesTyped DEF Reconcile, SyncStates, Sync, SyncDone, SyncGone, SyncFresh, SyncIndex, Visit
<1> QED
  BY <1>1, <1>2, <1>3, <1>4, <1>5, <1>6 DEF Step

----------------------------------------------------------------------------
(* Conversions and imports *)

\* A change is refused under the lock unless what it replaces is what it started from.
LEMMA UpdatesKept ==
    ASSUME FilesInv, ~AdminReset, NoLostUpdate, [Next]_vars
    PROVE  NoLostUpdate'
<1> SUFFICES ASSUME NEW u \in Task, pc'[u] = "vacating" PROVE Unchanged(u)'
  BY DEF NoLostUpdate
<1>0. pc[u] = "vacating" => Unchanged(u)
  BY DEF NoLostUpdate
<1>1. ASSUME pc[u] = "vacating", change'[u] = change[u], seen'[u] = seen[u], disk' = disk PROVE Unchanged(u)'
  BY <1>0, <1>1 DEF Unchanged
<1>2. CASE UNCHANGED vars
  BY <1>1, <1>2 DEF vars, durable, commits
<1>3. CASE Crash
  BY <1>3 DEF Crash
<1>4. ASSUME NEW t \in Task, Ask(t) \/ Lock(t) \/ Step(t) PROVE Unchanged(u)'
  <2>1. CASE u = t
    <3>1. CASE Resolve(t)
      <4>1. Unchanged(t) /\ UNCHANGED <<change, seen, disk>>
        BY <3>1 DEF Resolve, commits, durable
      <4> QED
        BY <2>1, <4>1 DEF Unchanged
    <3>2. CASE pc[t] = "vacating" /\ UNCHANGED <<change, seen, disk>>
      BY <1>1, <2>1, <3>2
    <3> QED
      BY <1>4, <2>1, <3>1, <3>2, EntersInstall
  <2>2. CASE u # t
    <3>1. pc[u] = "vacating" /\ change'[u] = change[u] /\ seen'[u] = seen[u]
      BY <1>4, <2>2, OthersStay DEF FilesInv, OthersKept
    <3>2. pc[t] \notin Inside
      BY <2>2, <3>1, Holder DEF Inside
    <3>3. UNCHANGED disk
      BY <1>4, <3>2, DiskMoves DEF Vacate, Land, RollBack, WipeFiles, Inside
    <3> QED
      BY <1>1, <3>1, <3>3
  <2> QED
    BY <2>1, <2>2
<1>5. ASSUME NEW c \in Collection, ClaimStore(c) \/ CancelImport(c) \/ Import(c) PROVE Unchanged(u)'
  BY <1>1, <1>5, ImportMoves
<1> QED
  BY <1>2, <1>3, <1>4, <1>5 DEF Next

\* What a bulk import claims the store for, and whose upload a task is.
ImportsClaim ==
    /\ \A c \in Collection : importing[c] # "idle" <=> c \in claims
    /\ \A c \in Collection : landed[c] # {} => c \in claims
    /\ \A t \in Task, c \in Collection :
         by[t] = c => importing[c] = "uploading" /\ pc[t] \in Committing \cup {"converting", "waiting"}

\* Whoever removes a whole scope does so while no import has committed anything.
TreesWait ==
    \A t \in Task :
        \/ pc[t] \in {"vacating"} \cup Undoing /\ change[t].tree
        \/ pc[t] \in {"wipe_rows", "wipe_files"}
        => \A c \in Collection : landed[c] = {}

\* A task is an import's upload until its changeset is over.
KeepsImport(t) ==
    \/ by'[t] = Nobody
    \/ by'[t] = by[t] /\ pc'[t] = pc[t]
    \/ by'[t] = by[t] /\ pc[t] \notin Committing \cup {"converting", "waiting"}
    \/ by'[t] = by[t] /\ pc'[t] \in Committing \cup {"converting", "waiting"}

\* The steps of tasks neither claim the store nor release it.
LEMMA TasksClaimNothing ==
    ASSUME FilesInv, NEW t \in Task
    PROVE  Ask(t) \/ Lock(t) \/ Step(t) =>
             UNCHANGED <<claims, importing>> /\ (UNCHANGED landed \/ Claim(t)) /\ KeepsImport(t)
<1> USE DEF gates, commits, syncs, imports, world, durable, Goto, Committing, KeepsImport
<1>1. Ask(t) \/ Lock(t) => UNCHANGED <<claims, importing, landed, by>>
  BY DEF Ask, Request, Plan, Submit, RkRequest, WipeRequest, SyncRefs, ResetFiles,
     Lock, Acquire, RkLock, WipeLock, WipeRefuse, SyncLock, SyncRefuse
<1>2. Ask(t) => pc[t] = "idle"
  BY FilesTyped DEF Ask, Request, Plan, Submit, RkRequest, WipeRequest, SyncRefs, ResetFiles, Idle
<1>3. Lock(t) => \/ pc[t] \notin Committing \cup {"converting", "waiting"}
                 \/ pc'[t] \in Committing \cup {"converting", "waiting"}
  BY FilesTyped DEF Lock, Acquire, RkLock, WipeLock, WipeRefuse, SyncLock, SyncRefuse
<1>4. Commit(t) => /\ UNCHANGED <<claims, importing>>
                   /\ (UNCHANGED landed \/ Claim(t))
                   /\ \/ by'[t] = by[t] /\ pc'[t] \in Committing \cup {"converting", "waiting"}
                      \/ by'[t] = Nobody
  BY FilesTyped DEF Commit, Converted, ConversionEnds, Resolve, Refuse, Finish, Vacate, Land, RollBack, Transact,
     Claim, Settle
<1>5. Index(t) \/ IndexFailure(t) => UNCHANGED <<claims, importing, landed, by, pc>>
  BY DEF Index, IndexFailure, Upsert, StoreChunks, Stamp, IndexFails
<1>6. Rechunk(t) \/ ResetRows(t) \/ Wipe(t) =>
        UNCHANGED <<claims, importing, landed, by>> /\ pc[t] \notin Committing \cup {"converting", "waiting"}
  BY FilesTyped DEF Rechunk, RkRefuse, RkDone, ResetRows, Wipe, WipeRows, WipeFiles
<1>7. Reconcile(t) =>
        UNCHANGED <<claims, importing, landed, by>> /\ pc[t] \notin Committing \cup {"converting", "waiting"}
  BY FilesTyped DEF Reconcile, SyncStates, Sync, SyncDone, SyncGone, SyncFresh, SyncIndex, Visit
<1> QED
  BY <1>1, <1>2, <1>3, <1>4, <1>5, <1>6, <1>7 DEF Step

\* The ways into removing a scope.
LEMMA TreesEntered ==
    ASSUME FilesInv, NEW t \in Task,
           \/ pc'[t] \in {"vacating"} \cup Undoing /\ change'[t].tree
           \/ pc'[t] \in {"wipe_rows", "wipe_files"}
    PROVE  Ask(t) \/ Lock(t) \/ Step(t) =>
             \/ pc[t] \in {"vacating"} \cup Undoing /\ change[t].tree
             \/ pc[t] \in {"wipe_rows", "wipe_files"}
             \/ Resolve(t) /\ change[t].tree
             \/ WipeLock(t)
<1> USE DEF gates, commits, syncs, imports, world, durable, Goto, Undoing
<1>1. Ask(t) => FALSE
  BY FilesTyped DEF Ask, Request, Plan, Submit, RkRequest, WipeRequest, SyncRefs, ResetFiles
<1>2. Lock(t) => WipeLock(t)
  BY FilesTyped DEF Lock, Acquire, RkLock, WipeRefuse, SyncLock, SyncRefuse
<1>3. Commit(t) => \/ pc[t] \in {"vacating"} \cup Undoing /\ change[t].tree
                   \/ Resolve(t) /\ change[t].tree
  BY FilesTyped DEF Commit, Converted, ConversionEnds, Refuse, Finish, Resolve, Vacate, Land, RollBack, Transact,
     Claim, Settle
<1>4. Index(t) \/ IndexFailure(t) \/ Wipe(t) => UNCHANGED <<change, pc>> \/ pc[t] \in {"wipe_rows", "wipe_files"}
  BY DEF Index, IndexFailure, Upsert, StoreChunks, Stamp, IndexFails, Wipe, WipeRows, WipeFiles
<1>5. Rechunk(t) \/ ResetRows(t) => FALSE
  BY FilesTyped DEF Rechunk, RkRefuse, RkDone, ResetRows
<1>6. Reconcile(t) => FALSE
  BY FilesTyped DEF Reconcile, SyncStates, Sync, SyncDone, SyncGone, SyncFresh, SyncIndex, Visit
<1> QED
  BY <1>1, <1>2, <1>3, <1>4, <1>5, <1>6 DEF Step

ImportsInv == ImportsClaim /\ TreesWait

\* An import's own steps keep its claim, its uploads and what it committed together.
LEMMA ImportsOwn ==
    ASSUME FilesInv, ImportsInv, NEW c \in Collection
    PROVE  ClaimStore(c) \/ CancelImport(c) \/ Import(c) => ImportsInv'
<1> USE DEF gates, commits, syncs, imports, world, durable
<1>0. Nobody \notin Collection /\ by \in [Task -> Collection \cup {Nobody}]
      /\ importing \in [Collection -> {"idle", "planning", "uploading"}]
      /\ landed \in [Collection -> SUBSET Stem]
  BY TaskAssumption, FilesTyped
<1>1. ASSUME UNCHANGED <<pc, change, by>>, \A d \in Collection : landed'[d] \subseteq landed[d] PROVE TreesWait'
  BY <1>1 DEF ImportsInv, TreesWait
<1>2. CASE ClaimStore(c)
  BY <1>0, <1>1, <1>2 DEF ClaimStore, ImportsInv, ImportsClaim
<1>3. CASE CancelImport(c)
  BY <1>0, <1>1, <1>3 DEF CancelImport, ImportsInv, ImportsClaim
<1>4. CASE PlanImport(c)
  BY <1>0, <1>1, <1>4 DEF PlanImport, ImportsInv, ImportsClaim
<1>5. CASE FinishImport(c)
  <2>1. TreesWait'
    BY <1>0, <1>1, <1>5 DEF FinishImport
  <2>2. ImportsClaim'
    BY <1>0, <1>5 DEF FinishImport, ImportsInv, ImportsClaim
  <2> QED
    BY <2>1, <2>2 DEF ImportsInv
<1>6. ASSUME NEW t \in Task, ImportFile(c, t) PROVE ImportsInv'
  <2>1. PICK ch \in left[c] :
          \/ Plan(t, ch) /\ by' = [by EXCEPT ![t] = c]
          \/ UNCHANGED <<durable, gates, pc, commits, jobs, syncs, by, landed, importing, world>>
    BY <1>6 DEF ImportFile
  <2>2. importing[c] = "uploading"
    BY <1>6 DEF ImportFile
  <2>3. CASE Plan(t, ch) /\ by' = [by EXCEPT ![t] = c]
    <3>1. /\ pc' = [pc EXCEPT ![t] = "converting"] /\ change' = [change EXCEPT ![t] = ch]
          /\ UNCHANGED <<claims, importing, landed>> /\ pc \in [Task -> Phase]
          /\ change \in [Task -> ChangeRecord]
      BY <2>3, FilesTyped DEF Plan, Goto
    <3>2. TreesWait'
      BY <3>1 DEF ImportsInv, TreesWait, Undoing
    <3>3. ImportsClaim'
      BY <1>0, <2>2, <2>3, <3>1 DEF ImportsInv, ImportsClaim, Committing
    <3> QED
      BY <3>2, <3>3 DEF ImportsInv
  <2>4. CASE UNCHANGED <<durable, gates, pc, commits, jobs, syncs, by, landed, importing, world>>
    BY <1>1, <2>4 DEF ImportsInv, ImportsClaim
  <2> QED
    BY <2>1, <2>3, <2>4
<1> QED
  BY <1>2, <1>3, <1>4, <1>5, <1>6 DEF Import

\* A task enters a change of a directory or a wipe only while no import runs, and no
\* import commits anything before it left again.
LEMMA ImportsTasks ==
    ASSUME FilesInv, ImportsInv, NEW t \in Task
    PROVE  Ask(t) \/ Lock(t) \/ Step(t) => ImportsInv'
<1> SUFFICES ASSUME Ask(t) \/ Lock(t) \/ Step(t) PROVE ImportsInv'
  OBVIOUS
<1>0. /\ Nobody \notin Collection /\ by \in [Task -> Collection \cup {Nobody}]
      /\ landed \in [Collection -> SUBSET Stem]
  BY TaskAssumption, FilesTyped
<1>1. UNCHANGED <<claims, importing>> /\ (UNCHANGED landed \/ Claim(t)) /\ KeepsImport(t)
  BY TasksClaimNothing
<1>2. \A u \in Task \ {t} : pc'[u] = pc[u] /\ change'[u] = change[u] /\ by'[u] = by[u]
  BY OthersStay DEF FilesInv, OthersKept
<1>3. \A c \in Collection : landed'[c] # {} => landed[c] # {} \/ (Claim(t) /\ by[t] = c)
  BY <1>0, <1>1 DEF Claim
<1>4. ImportsClaim'
  <2>1. \A u \in Task, c \in Collection :
          by'[u] = c => importing[c] = "uploading" /\ pc'[u] \in Committing \cup {"converting", "waiting"}
    BY <1>0, <1>1, <1>2 DEF ImportsInv, ImportsClaim, KeepsImport
  <2>2. \A c \in Collection : landed'[c] # {} => c \in claims
    BY <1>3 DEF ImportsInv, ImportsClaim
  <2> QED
    BY <1>1, <2>1, <2>2 DEF ImportsInv, ImportsClaim
<1>5. TreesWait'
  <2> SUFFICES ASSUME NEW u \in Task, NEW c \in Collection, landed'[c] # {},
                      \/ pc'[u] \in {"vacating"} \cup Undoing /\ change'[u].tree
                      \/ pc'[u] \in {"wipe_rows", "wipe_files"}
               PROVE  FALSE
    BY DEF TreesWait
  <2>1. CASE u # t
    <3>1. \/ pc[u] \in {"vacating"} \cup Undoing /\ change[u].tree
          \/ pc[u] \in {"wipe_rows", "wipe_files"}
      BY <1>2, <2>1
    <3>2. pc[t] \notin Inside
      BY <2>1, <3>1, Holder DEF Inside, Undoing
    <3>3. landed[c] # {}
      BY <1>3, <3>2 DEF Claim, Inside
    <3> QED
      BY <3>1, <3>3 DEF ImportsInv, TreesWait
  <2>2. CASE u = t
    <3>1. ~Claim(t)
      BY <2>2, FilesTyped DEF Claim, Goto, Undoing
    <3>2. landed[c] # {} /\ claims # {}
      BY <1>3, <3>1 DEF ImportsInv, ImportsClaim
    <3>3. \/ pc[t] \in {"vacating"} \cup Undoing /\ change[t].tree
          \/ pc[t] \in {"wipe_rows", "wipe_files"}
          \/ Resolve(t) /\ change[t].tree
          \/ WipeLock(t)
      BY <2>2, TreesEntered
    <3>4. ~(Resolve(t) /\ change[t].tree) /\ ~WipeLock(t)
      BY <3>2 DEF Resolve, WipeLock, Admitted, ScopeBusy
    <3> QED
      BY <3>2, <3>3, <3>4 DEF ImportsInv, TreesWait
  <2> QED
    BY <2>1, <2>2
<1> QED
  BY <1>4, <1>5 DEF ImportsInv

\* What an import committed is taken away only entry by entry, under the lock.
LEMMA ImportsNext ==
    ASSUME FilesInv, ImportsInv, ~AdminReset, [Next]_vars
    PROVE  /\ ImportsInv'
           /\ \A c \in Collection, s \in Stem :
                s \in landed[c] /\ OnDisk(s) /\ ~OnDisk(s)'
                => \E t \in Task : lock = t /\ pc[t] \in {"vacating", "landing", "transacting"}
                                   /\ ~change[t].tree
<1> DEFINE Kept == \A c \in Collection, s \in Stem :
                s \in landed[c] /\ OnDisk(s) /\ ~OnDisk(s)'
                => \E t \in Task : lock = t /\ pc[t] \in {"vacating", "landing", "transacting"}
                                   /\ ~change[t].tree
<1>1. UNCHANGED disk => Kept
  BY DEF OnDisk
<1>2. CASE UNCHANGED vars
  <2>1. UNCHANGED <<disk, claims, importing, landed, by, pc, change>>
    BY <1>2 DEF vars, durable, gates, commits, imports
  <2> QED
    BY <1>1, <2>1 DEF ImportsInv, ImportsClaim, TreesWait
<1>3. CASE Crash
  <2>1. ImportsInv'
    BY <1>3, TaskAssumption DEF Crash, ImportsInv, ImportsClaim, TreesWait, Undoing
  <2> QED
    BY <1>1, <1>3, <2>1 DEF Crash, durable
<1>4. ASSUME NEW t \in Task, Ask(t) \/ Lock(t) \/ Step(t) PROVE ImportsInv' /\ Kept
  <2>1. ImportsInv'
    BY <1>4, ImportsTasks
  <2>2. CASE Vacate(t) \/ Land(t) \/ RollBack(t)
    <3>1. pc[t] \in {"vacating", "landing", "transacting"} /\ lock = t
      BY <2>2 DEF Vacate, Land, RollBack, FilesInv, InflightInv, LockHeld, Inside
    <3>2. change[t].tree => \A c \in Collection : landed[c] = {}
      BY <3>1 DEF ImportsInv, TreesWait, Undoing
    <3> QED
      BY <2>1, <3>1, <3>2
  <2>3. CASE WipeFiles(t)
    <3>1. \A c \in Collection : landed[c] = {}
      BY <2>3 DEF WipeFiles, ImportsInv, TreesWait
    <3> QED
      BY <2>1, <3>1
  <2> QED
    BY <1>1, <1>4, <2>1, <2>2, <2>3, DiskMoves
<1>5. ASSUME NEW c \in Collection, ClaimStore(c) \/ CancelImport(c) \/ Import(c) PROVE ImportsInv' /\ Kept
  <2>1. UNCHANGED disk
    BY <1>5, ImportMoves
  <2> QED
    BY <1>1, <1>5, <2>1, ImportsOwn
<1> QED
  BY <1>2, <1>3, <1>4, <1>5 DEF Next

\* Unless an admin resets the workspace, a conversion that took its time never replaces
\* what somebody wrote meanwhile: whatever the requests, the install of an upload or of a
\* text original finds what the conversion started from (_commit's second resolve).
THEOREM UpdatesAreKept ==
    ASSUME ~AdminReset
    PROVE  Spec => []NoLostUpdate
<1>1. Init => NoLostUpdate
  BY DEF Init, AtRest, NoLostUpdate
<1>2. FilesInv /\ NoLostUpdate /\ [Next]_vars => NoLostUpdate'
  BY UpdatesKept
<1> QED
  BY <1>1, <1>2, FilesAlways, PTL DEF Spec

\* Under the same proviso no wipe and no change of a directory takes away what a bulk
\* import still running has committed, however the imports, the wipes and the directory
\* operations of any number of tasks interleave.
THEOREM ImportsAreKept ==
    ASSUME ~AdminReset
    PROVE  Spec => ImportKept
<1>1. Init => ImportsInv
  BY TaskAssumption DEF Init, AtRest, ImportsInv, ImportsClaim, TreesWait, Undoing
<1>2. FilesInv /\ ImportsInv /\ [Next]_vars => ImportsInv'
  BY ImportsNext
<1>3. FilesInv /\ ImportsInv /\ [Next]_vars =>
        [\A c \in Collection, s \in Stem :
           s \in landed[c] /\ OnDisk(s) /\ ~OnDisk(s)'
           => \E t \in Task : lock = t /\ pc[t] \in {"vacating", "landing", "transacting"}
                              /\ ~change[t].tree]_vars
  BY ImportsNext
<1> QED
  BY <1>1, <1>2, <1>3, FilesAlways, PTL DEF Spec, ImportKept

----------------------------------------------------------------------------
(* What rows, files and indexes say of one another *)

Stored(t, s) == jobs[t][s].stage \in {"store", "stamp"}

\* Every stat was left by a write so far, and a row has none of the write under way.
StatsPast ==
    /\ \A s \in Stem : disk[s].stat <= clock /\ journal[s].stat <= clock /\ rows[s].stat <= clock
    /\ \A t \in Task, s \in Stem : jobs[t][s].stage # "none" => jobs[t][s].stat <= clock
    /\ \A t \in Task : pc[t] = "transacting" =>
         /\ \A s \in Stem : journal[s].stat < clock /\ rows[s].stat < clock
         /\ \A u \in Task, s \in Stem : jobs[u][s].stage # "none" => jobs[u][s].stat < clock

\* No two rows are one document.
RowsApart == \A r, s \in Stem : HasRow(s) /\ rows[r].id = rows[s].id => r = s

\* The document an index writes to is its entry's own, or none of a covered entry.
JobRows ==
    \A t \in Task, s \in Stem : Stored(t, s) =>
        /\ jobs[t][s].id # Nil
        /\ \A r \in Stem : rows[r].id = jobs[t][s].id => IF s \in Covered THEN r = s ELSE r \notin Covered

\* While an entry is indexed, its row is there, marked as not indexed.
BlankRows ==
    \A t \in Task, s \in Covered : Stored(t, s) =>
        /\ rows[s].id = jobs[t][s].id /\ rows[s].digest = Nil
        /\ jobs[t][s].stage = "stamp" => rows[s].chunks = jobs[t][s].text

\* A digest is the one of the text the chunks are of.
SoundRows ==
    \A s \in Covered : rows[s].digest # Nil => HasRow(s) /\ rows[s].chunks = rows[s].digest

\* What is indexed under the lock is on disk.
VisitedHold ==
    \A t \in Task, s \in Stem : pc[t] \in Visiting /\ jobs[t][s].stage # "none" =>
        disk[s] = [text |-> jobs[t][s].text, stat |-> jobs[t][s].stat]

StampsInv == StatsPast /\ RowsApart /\ JobRows /\ BlankRows /\ SoundRows /\ VisitedHold

\* A step that changes neither files nor rows, and starts indexing nothing but files.
Steady ==
    /\ UNCHANGED <<disk, rows, clock>>
    /\ journal' = journal \/ journal' = [s \in Stem |-> NoFile]
    /\ \A u \in Task : pc[u] \in Undoing \/ pc'[u] \in Undoing =>
         pc'[u] = pc[u] /\ change'[u] = change[u] /\ journal' = journal
    /\ \A u \in Task : pc'[u] \in Visiting => pc[u] # "indexing"
    /\ \A u \in Task, s \in Stem : jobs'[u][s].stage # "none" =>
         \/ jobs'[u][s] = jobs[u][s]
         \/ jobs'[u][s] = Started(s) /\ \A v \in Task : pc'[v] \notin Undoing

\* The steps that are not steady.
LEMMA SteadyOrNot ==
    ASSUME FilesInv, ~AdminReset, NEW t \in Task
    PROVE  Ask(t) \/ Lock(t) \/ Step(t) =>
             \/ Steady \/ Vacate(t) \/ Land(t) \/ RollBack(t) \/ Transact(t) \/ Index(t)
             \/ WipeRows(t) \/ WipeFiles(t)
             \/ \E s \in Stem : SyncGone(t, s) \/ SyncFresh(t, s)
<1> USE DEF gates, commits, syncs, imports, world, durable, Goto, Undoing, Visiting
<1>0. NoJob.stage = "none"
  BY DEF NoJob
<1>1. ASSUME NEW x, x \notin Undoing, pc[t] \notin Undoing, x \in Visiting => pc[t] # "indexing",
             pc' = [pc EXCEPT ![t] = x], UNCHANGED <<disk, rows, clock, journal, jobs>>,
             \A u \in Task \ {t} : change'[u] = change[u]
      PROVE  Steady
  <2>1. \A u \in Task \ {t} : pc'[u] = pc[u]
    BY <1>1, FilesTyped
  <2>2. pc'[t] = x
    BY <1>1, FilesTyped
  <2>3. \A u \in Task : pc[u] \in Visiting => pc[u] # "indexing"
    OBVIOUS
  <2> QED
    BY <1>1, <2>1, <2>2, <2>3 DEF Steady
<1>2. Ask(t) => Steady
  <2>1. ASSUME Request(t) PROVE Steady
    <3>1. PICK ch \in Changes : Plan(t, ch) \/ Submit(t, ch)
      BY <2>1 DEF Request
    <3> QED
      BY <1>1, <3>1, FilesTyped DEF Plan, Submit, Idle
  <2>2. RkRequest(t) \/ WipeRequest(t) \/ SyncRefs(t) => Steady
    <3>1. SyncRefs(t) => pc[t] = "idle"
      BY DEF SyncRefs, Idle
    <3> QED
      BY <1>1, <3>1, FilesTyped DEF RkRequest, WipeRequest, SyncRefs, Idle
  <2> QED
    BY <2>1, <2>2 DEF Ask, ResetFiles
<1>3. Lock(t) => Steady
  <2>1. ASSUME RkLock(t) PROVE Steady
    <3>1. \A v \in Task : pc[v] \notin Inside
      BY <2>1, TaskAssumption DEF RkLock, FilesInv, InflightInv, LockHeld
    <3>2. \A v \in Task : pc'[v] \notin Undoing /\ pc[v] \notin Undoing
      BY <2>1, <3>1, FilesTyped DEF RkLock, Inside
    <3>3. \A u \in Task : pc'[u] \in Visiting => pc[u] # "indexing"
      BY <2>1, FilesTyped DEF RkLock
    <3> QED
      BY <1>0, <2>1, <3>2, <3>3, FilesTyped DEF RkLock, Steady
  <2> QED
    BY <1>1, <2>1, FilesTyped DEF Lock, Acquire, WipeLock, WipeRefuse, SyncLock, SyncRefuse
<1>4. Commit(t) => Steady \/ Vacate(t) \/ Land(t) \/ RollBack(t) \/ Transact(t)
  <2>1. ASSUME Claim(t) PROVE Steady
    <3>1. \A v \in Task \ {t} : pc[v] \notin Inside
      BY <2>1, Holder DEF Claim, Inside
    <3>2. \A v \in Task : pc'[v] \notin Undoing /\ pc[v] \notin Undoing
      BY <2>1, <3>1, FilesTyped DEF Claim, Inside
    <3>3. \A u \in Task : pc'[u] \in Visiting => pc[u] # "indexing"
      BY <2>1, FilesTyped DEF Claim
    <3> QED
      BY <1>0, <2>1, <3>2, <3>3, FilesTyped DEF Claim, Steady
  <2> QED
    BY <1>1, <2>1, FilesTyped DEF Commit, Converted, ConversionEnds, Resolve, Refuse, Finish, Settle
<1>5. IndexFailure(t) => Steady
  BY <1>0, FilesTyped DEF IndexFailure, IndexFails, SetJob, Steady
<1>6. Rechunk(t) => Steady
  BY <1>1, FilesTyped DEF Rechunk, RkRefuse, RkDone
<1>7. Wipe(t) => WipeRows(t) \/ WipeFiles(t)
  BY DEF Wipe
<1>8. ResetRows(t) => FALSE
  BY DEF ResetRows, FilesInv, RowsInv, BootAlone
<1>9. Reconcile(t) => Steady \/ \E s \in Stem : SyncGone(t, s) \/ SyncFresh(t, s)
  <2>1. ASSUME NEW s \in Stem, SyncIndex(t, s) PROVE Steady
    <3>1. \A v \in Task : pc[v] \notin Undoing
      BY <2>1, Holder DEF SyncIndex, Visit, Inside
    <3> QED
      BY <1>0, <2>1, <3>1, FilesTyped DEF SyncIndex, Visit, SetJob, Steady
  <2> QED
    BY <1>1, <2>1, FilesTyped DEF Reconcile, SyncStates, Sync, SyncDone
<1> QED
  BY <1>2, <1>3, <1>4, <1>5, <1>6, <1>7, <1>8, <1>9 DEF Step

\* A bulk import's own steps are steady, and so is no step.
LEMMA ImportSteady ==
    ASSUME FilesInv
    PROVE  UNCHANGED vars \/ (\E c \in Collection : ClaimStore(c) \/ CancelImport(c) \/ Import(c)) => Steady
<1> USE DEF Undoing, Visiting
<1>1. UNCHANGED vars => Steady
  BY DEF vars, durable, gates, commits, imports, world, Steady
<1>2. ASSUME NEW c \in Collection, ClaimStore(c) \/ CancelImport(c) \/ Import(c) PROVE Steady
  <2>1. /\ UNCHANGED <<disk, rows, journal, jobs, clock>>
        /\ \A u \in Task : \/ pc'[u] = pc[u] /\ change'[u] = change[u]
                           \/ pc[u] = "idle" /\ pc'[u] = "converting"
    BY <1>2, ImportMoves
  <2> QED
    BY <2>1 DEF Steady
<1> QED
  BY <1>1, <1>2

\* A steady step keeps it all.
LEMMA SteadyStamps ==
    ASSUME FilesInv, StampsInv, Steady
    PROVE  StampsInv'
<1>0. Covered' = Covered /\ Covered \subseteq Stem
  BY DEF Covered
<1>1. \A u \in Task, s \in Stem : Stored(u, s)' => Stored(u, s) /\ jobs'[u][s] = jobs[u][s]
  <2> SUFFICES ASSUME NEW u \in Task, NEW s \in Stem, jobs'[u][s].stage \in {"store", "stamp"}
               PROVE  jobs'[u][s] = jobs[u][s]
    BY DEF Stored
  <2>1. Started(s).stage = "chunk"
    BY DEF Started
  <2> QED
    BY <2>1 DEF Steady
<1>2. StatsPast'
  <2>1. NoFile.stat <= clock /\ \A s \in Stem : Started(s).stat = disk[s].stat
    BY FilesTyped DEF NoFile, Started
  <2>2. \A s \in Stem : disk'[s].stat <= clock' /\ journal'[s].stat <= clock' /\ rows'[s].stat <= clock'
    BY <2>1 DEF StampsInv, StatsPast, Steady
  <2>3. \A u \in Task, s \in Stem : jobs'[u][s].stage # "none" => jobs'[u][s].stat <= clock'
    BY <2>1 DEF StampsInv, StatsPast, Steady
  <2>4. ASSUME NEW t \in Task, pc'[t] = "transacting"
        PROVE  /\ \A s \in Stem : journal'[s].stat < clock' /\ rows'[s].stat < clock'
               /\ \A u \in Task, s \in Stem : jobs'[u][s].stage # "none" => jobs'[u][s].stat < clock'
    <3>1. pc[t] = "transacting" /\ journal' = journal
      BY <2>4 DEF Steady, Undoing
    <3>2. \A u \in Task, s \in Stem : jobs'[u][s].stage # "none" => jobs'[u][s] = jobs[u][s]
      BY <2>4 DEF Steady, Undoing
    <3> QED
      BY <3>1, <3>2 DEF StampsInv, StatsPast, Steady
  <2> QED
    BY <2>2, <2>3, <2>4 DEF StatsPast
<1>3. RowsApart'
  BY DEF StampsInv, RowsApart, Steady, HasRow
<1>4. JobRows' /\ BlankRows'
  BY <1>0, <1>1 DEF StampsInv, JobRows, BlankRows, Steady
<1>5. SoundRows'
  BY <1>0 DEF StampsInv, SoundRows, Steady, HasRow
<1>6. VisitedHold'
  <2> SUFFICES ASSUME NEW u \in Task, NEW s \in Stem, pc'[u] \in Visiting, jobs'[u][s].stage # "none"
               PROVE  disk'[s] = [text |-> jobs'[u][s].text, stat |-> jobs'[u][s].stat]
    BY DEF VisitedHold
  <2>1. CASE jobs'[u][s] = jobs[u][s]
    <3>1. pc[u] \in Visiting
      BY <2>1 DEF FilesInv, InflightInv, JobsOwned, Steady, Visiting
    <3> QED
      BY <2>1, <3>1 DEF StampsInv, VisitedHold, Steady
  <2>2. CASE jobs'[u][s] = Started(s)
    <3>1. disk[s] \in File
      BY FilesTyped
    <3> QED
      BY <2>2, <3>1 DEF Started, File, Steady
  <2> QED
    BY <2>1, <2>2 DEF Steady
<1> QED
  BY <1>2, <1>3, <1>4, <1>5, <1>6 DEF StampsInv

\* What an index under way leaves alone, whatever it makes of the rows: `job` is the
\* indexing of s it goes on with.
LEMMA IndexLeaves ==
    ASSUME FilesInv, StampsInv, NEW t \in Task, NEW s \in Stem, NEW job,
           UNCHANGED <<disk, journal, clock, pc>>, jobs' = [jobs EXCEPT ![t][s] = job],
           job.stage # "none" => /\ jobs[t][s].stage # "none"
                                 /\ job.text = jobs[t][s].text /\ job.stat = jobs[t][s].stat,
           \A r \in Stem : \/ rows'[r].stat \in {0, rows[r].stat}
                           \/ jobs[t][s].stage # "none" /\ rows'[r].stat = jobs[t][s].stat
    PROVE  StatsPast' /\ VisitedHold'
<1>1. \A u \in Task, r \in Stem : jobs'[u][r] = IF u = t /\ r = s THEN job ELSE jobs[u][r]
  BY FilesTyped
<1>2. \A u \in Task, r \in Stem : jobs'[u][r].stage # "none" =>
        /\ jobs[u][r].stage # "none"
        /\ jobs'[u][r].text = jobs[u][r].text /\ jobs'[u][r].stat = jobs[u][r].stat
  BY <1>1
<1>3. \A r \in Stem : rows[r].stat \in Nat /\ journal[r].stat \in Nat /\ clock \in Nat
  BY FilesTyped DEF Row, File
<1>4. \A r \in Stem : rows'[r].stat <= clock
  BY <1>3 DEF StampsInv, StatsPast
<1>5. \A u \in Task : pc[u] = "transacting" => \A r \in Stem : rows'[r].stat < clock
  BY <1>3 DEF StampsInv, StatsPast
<1>6. StatsPast'
  BY <1>2, <1>4, <1>5 DEF StampsInv, StatsPast
<1>7. VisitedHold'
  BY <1>2 DEF StampsInv, VisitedHold
<1> QED
  BY <1>6, <1>7

\* The upsert marks the row as not indexed, and a new row is nobody's yet.
LEMMA UpsertStamps ==
    ASSUME FilesInv, StampsInv, NEW t \in Task, NEW s \in Stem
    PROVE  Upsert(t, s) => StampsInv'
<1> SUFFICES ASSUME Upsert(t, s) PROVE StampsInv'
  OBVIOUS
<1> DEFINE i == IF HasRow(s) THEN rows[s].id ELSE CHOOSE j \in FreshIds : TRUE
           row == [id |-> i, digest |-> Nil, stat |-> 0, chunks |-> rows[s].chunks]
           job == [jobs[t][s] EXCEPT !.stage = "store", !.id = i]
<1>0. /\ jobs[t][s] \in Job /\ rows[s] \in Row /\ Covered \subseteq Stem /\ Covered' = Covered
      /\ jobs[t][s].stage = "chunk"
  BY FilesTyped DEF Covered, Upsert
<1>1. /\ i \in RowId /\ i # Nil
      /\ HasRow(s) => i = rows[s].id
      /\ ~HasRow(s) => /\ \A r \in Stem : rows[r].id # i
                       /\ \A u \in Task, r \in Stem : jobs[u][r].id # i
  <2>1. CASE HasRow(s)
    BY <1>0, <2>1 DEF HasRow, Row
  <2>2. CASE ~HasRow(s)
    <3>1. FreshIds # {}
      BY <2>2 DEF Upsert
    <3>2. (CHOOSE j \in FreshIds : TRUE) \in FreshIds
      BY <3>1
    <3>3. i \in FreshIds
      BY <2>2, <3>2
    <3> HIDE DEF i
    <3> QED
      BY <2>2, <3>3, ContentAssumption DEF FreshIds
  <2> QED
    BY <2>1, <2>2
<1>2. /\ rows' = [rows EXCEPT ![s] = row] /\ jobs' = [jobs EXCEPT ![t][s] = job]
      /\ UNCHANGED <<disk, journal, clock, pc>>
  BY DEF Upsert, SetJob, gates, commits, world
<1>3. row.id = i /\ row.digest = Nil /\ row.stat = 0
  OBVIOUS
<1>4. job.stage = "store" /\ job.id = i /\ job.text = jobs[t][s].text /\ job.stat = jobs[t][s].stat
  BY <1>0 DEF Job
<1> HIDE DEF row, job, i
<1>5. \A r \in Stem : rows'[r] = IF r = s THEN row ELSE rows[r]
  BY <1>2, FilesTyped
<1>6. \A u \in Task, r \in Stem : jobs'[u][r] = IF u = t /\ r = s THEN job ELSE jobs[u][r]
  BY <1>2, FilesTyped
<1>7. StatsPast' /\ VisitedHold'
  BY <1>0, <1>2, <1>3, <1>4, <1>5, IndexLeaves
<1>8. RowsApart'
  BY <1>1, <1>3, <1>5 DEF StampsInv, RowsApart, HasRow
<1>9. JobRows'
  <2> SUFFICES ASSUME NEW u \in Task, NEW q \in Stem, Stored(u, q)'
               PROVE  /\ jobs'[u][q].id # Nil
                      /\ \A r \in Stem : rows'[r].id = jobs'[u][q].id => IF q \in Covered THEN r = q ELSE r \notin Covered
    BY <1>0 DEF JobRows
  <2>1. CASE u = t /\ q = s
    BY <1>1, <1>3, <1>4, <1>5, <1>6, <2>1 DEF StampsInv, RowsApart, HasRow
  <2>2. CASE ~(u = t /\ q = s)
    <3>1. jobs'[u][q] = jobs[u][q] /\ Stored(u, q)
      BY <1>6, <2>2 DEF Stored
    <3>2. \A r \in Stem : rows'[r].id = jobs[u][q].id => rows[r].id = jobs[u][q].id
      BY <1>1, <1>3, <1>5
    <3> QED
      BY <3>1, <3>2 DEF StampsInv, JobRows
  <2> QED
    BY <2>1, <2>2
<1>10. BlankRows'
  <2> SUFFICES ASSUME NEW u \in Task, NEW q \in Covered, Stored(u, q)'
               PROVE  /\ rows'[q].id = jobs'[u][q].id /\ rows'[q].digest = Nil
                      /\ jobs'[u][q].stage = "stamp" => rows'[q].chunks = jobs'[u][q].text
    BY <1>0 DEF BlankRows
  <2>1. CASE q = s
    <3>1. u = t
      BY <1>0, <1>6, <2>1, IndexersApart DEF FilesInv, OneIndexer, Stored
    <3> QED
      BY <1>3, <1>4, <1>5, <1>6, <2>1, <3>1
  <2>2. CASE q # s
    <3>1. jobs'[u][q] = jobs[u][q] /\ rows'[q] = rows[q]
      BY <1>0, <1>5, <1>6, <2>2
    <3> QED
      BY <3>1 DEF StampsInv, BlankRows, Stored
  <2> QED
    BY <2>1, <2>2
<1>11. SoundRows'
  BY <1>0, <1>3, <1>5 DEF StampsInv, SoundRows, HasRow
<1> QED
  BY <1>7, <1>8, <1>9, <1>10, <1>11 DEF StampsInv

\* Storing chunks and stamping reach no covered row but the one of the entry indexed.
LEMMA StoredAlone ==
    ASSUME FilesInv, StampsInv, NEW t \in Task, NEW s \in Stem, Stored(t, s)
    PROVE  /\ \A r \in Covered : r \in Holders(jobs[t][s].id) <=> r = s
           /\ \A u \in Task : Stored(u, s) /\ s \in Covered => u = t
<1>1. Covered \subseteq Stem
  BY DEF Covered
<1>2. \A r \in Covered : r \in Holders(jobs[t][s].id) => r = s
  BY <1>1 DEF Holders, StampsInv, JobRows
<1>3. s \in Covered => s \in Holders(jobs[t][s].id)
  BY DEF Holders, StampsInv, BlankRows
<1>4. \A u \in Task : Stored(u, s) /\ s \in Covered => u = t
  BY IndexersApart DEF FilesInv, OneIndexer, Stored
<1> QED
  BY <1>2, <1>3, <1>4

\* The documents of rows and of indexes stay what they are when neither gets a new one.
LEMMA IdsStay ==
    ASSUME StampsInv, \A r \in Stem : rows'[r].id = rows[r].id,
           \A u \in Task, r \in Stem : Stored(u, r)' => Stored(u, r) /\ jobs'[u][r].id = jobs[u][r].id
    PROVE  RowsApart' /\ JobRows'
<1>1. Covered' = Covered
  BY DEF Covered
<1>2. RowsApart'
  BY DEF StampsInv, RowsApart, HasRow
<1>3. JobRows'
  BY <1>1 DEF StampsInv, JobRows
<1> QED
  BY <1>2, <1>3

\* Chunks are stored in the entry's row alone.
LEMMA StoreStamps ==
    ASSUME FilesInv, StampsInv, NEW t \in Task, NEW s \in Stem
    PROVE  StoreChunks(t, s) => StampsInv'
<1> SUFFICES ASSUME StoreChunks(t, s) PROVE StampsInv'
  OBVIOUS
<1> DEFINE job == [jobs[t][s] EXCEPT !.stage = "stamp"]
<1>0. /\ jobs[t][s] \in Job /\ Covered \subseteq Stem /\ Covered' = Covered
      /\ Stored(t, s) /\ jobs[t][s].stage = "store"
  BY FilesTyped DEF Covered, StoreChunks, Stored
<1>1. job.stage = "stamp" /\ job.id = jobs[t][s].id /\ job.text = jobs[t][s].text /\ job.stat = jobs[t][s].stat
  BY <1>0 DEF Job
<1>2. jobs' = [jobs EXCEPT ![t][s] = job] /\ UNCHANGED <<disk, journal, clock, pc>>
  BY DEF StoreChunks, SetJob, gates, commits, world
<1> HIDE DEF job
<1>3. \A u \in Task, r \in Stem : jobs'[u][r] = IF u = t /\ r = s THEN job ELSE jobs[u][r]
  BY <1>2, FilesTyped
<1>4. \A r \in Stem : /\ rows'[r].id = rows[r].id /\ rows'[r].stat = rows[r].stat /\ rows'[r].digest = rows[r].digest
                      /\ r \in Holders(jobs[t][s].id) => rows'[r].chunks = jobs[t][s].text
                      /\ r \notin Holders(jobs[t][s].id) => rows'[r] = rows[r]
  <2>1. \A r \in Stem : rows[r] \in Row
    BY FilesTyped
  <2> QED
    BY <2>1 DEF StoreChunks, Row
<1>5. StatsPast' /\ VisitedHold'
  BY <1>0, <1>1, <1>2, <1>4, IndexLeaves
<1>6. RowsApart' /\ JobRows'
  BY <1>0, <1>1, <1>3, <1>4, IdsStay DEF Stored
<1>7. BlankRows'
  <2> SUFFICES ASSUME NEW u \in Task, NEW q \in Covered, Stored(u, q)'
               PROVE  /\ rows'[q].id = jobs'[u][q].id /\ rows'[q].digest = Nil
                      /\ jobs'[u][q].stage = "stamp" => rows'[q].chunks = jobs'[u][q].text
    BY <1>0 DEF BlankRows
  <2>1. CASE q = s
    <3>1. u = t /\ q \in Holders(jobs[t][s].id)
      BY <1>0, <1>3, <2>1, StoredAlone DEF Stored
    <3> QED
      BY <1>0, <1>1, <1>3, <1>4, <2>1, <3>1 DEF StampsInv, BlankRows, Stored
  <2>2. CASE q # s
    <3>1. jobs'[u][q] = jobs[u][q] /\ rows'[q] = rows[q]
      BY <1>0, <1>3, <1>4, <2>2, StoredAlone
    <3> QED
      BY <3>1 DEF StampsInv, BlankRows, Stored
  <2> QED
    BY <2>1, <2>2
<1>8. SoundRows'
  <2> SUFFICES ASSUME NEW r \in Covered, rows[r].digest # Nil
               PROVE  rows[r].id # Nil /\ rows'[r].chunks = rows[r].digest
    BY <1>0, <1>4 DEF SoundRows, HasRow
  <2>1. r \notin Holders(jobs[t][s].id)
    BY <1>0, StoredAlone DEF StampsInv, BlankRows
  <2> QED
    BY <1>0, <1>4, <2>1 DEF StampsInv, SoundRows, HasRow
<1> QED
  BY <1>5, <1>6, <1>7, <1>8 DEF StampsInv

\* The stamp is the one of the text the chunks are of.
LEMMA StampStamps ==
    ASSUME FilesInv, StampsInv, NEW t \in Task, NEW s \in Stem
    PROVE  Stamp(t, s) => StampsInv'
<1> SUFFICES ASSUME Stamp(t, s) PROVE StampsInv'
  OBVIOUS
<1>0. /\ Covered \subseteq Stem /\ Covered' = Covered /\ NoJob.stage = "none"
      /\ Stored(t, s) /\ jobs[t][s].stage = "stamp"
  BY DEF Covered, Stamp, Stored, NoJob
<1>2. jobs' = [jobs EXCEPT ![t][s] = NoJob] /\ UNCHANGED <<disk, journal, clock, pc>>
  BY DEF Stamp, SetJob, gates, commits, world
<1>3. \A u \in Task, r \in Stem : jobs'[u][r] = IF u = t /\ r = s THEN NoJob ELSE jobs[u][r]
  BY <1>2, FilesTyped
<1>4. \A r \in Stem :
        /\ rows'[r].id = rows[r].id /\ rows'[r].chunks = rows[r].chunks
        /\ r \in Holders(jobs[t][s].id) => rows'[r].digest = jobs[t][s].text /\ rows'[r].stat = jobs[t][s].stat
        /\ r \notin Holders(jobs[t][s].id) => rows'[r] = rows[r]
  <2>1. \A r \in Stem : rows[r] \in Row
    BY FilesTyped
  <2> QED
    BY <2>1 DEF Stamp, Row
<1>5. StatsPast' /\ VisitedHold'
  BY <1>0, <1>2, <1>4, IndexLeaves
<1>6. RowsApart' /\ JobRows'
  BY <1>0, <1>3, <1>4, IdsStay DEF Stored
<1>7. BlankRows'
  <2> SUFFICES ASSUME NEW u \in Task, NEW q \in Covered, Stored(u, q)'
               PROVE  /\ rows'[q].id = jobs'[u][q].id /\ rows'[q].digest = Nil
                      /\ jobs'[u][q].stage = "stamp" => rows'[q].chunks = jobs'[u][q].text
    BY <1>0 DEF BlankRows
  <2>1. q # s
    BY <1>0, <1>3, StoredAlone DEF Stored
  <2>2. jobs'[u][q] = jobs[u][q] /\ rows'[q] = rows[q]
    BY <1>0, <1>3, <1>4, <2>1, StoredAlone
  <2> QED
    BY <2>2 DEF StampsInv, BlankRows, Stored
<1>8. SoundRows'
  <2> SUFFICES ASSUME NEW r \in Covered, rows'[r].digest # Nil
               PROVE  rows[r].id # Nil /\ rows[r].chunks = rows'[r].digest
    BY <1>0, <1>4 DEF SoundRows, HasRow
  <2>1. CASE r = s
    BY <1>0, <1>4, <2>1, StoredAlone DEF StampsInv, BlankRows, JobRows
  <2>2. CASE r # s
    BY <1>0, <1>4, <2>2, StoredAlone DEF StampsInv, SoundRows, HasRow
  <2> QED
    BY <2>1, <2>2
<1> QED
  BY <1>5, <1>6, <1>7, <1>8 DEF StampsInv

\* What files lie where changes no row and no index.
LEMMA DiskStamps ==
    ASSUME FilesInv, StampsInv, NEW t \in Task
    PROVE  Vacate(t) \/ Land(t) \/ RollBack(t) \/ WipeFiles(t) => StampsInv'
<1> SUFFICES ASSUME Vacate(t) \/ Land(t) \/ RollBack(t) \/ WipeFiles(t) PROVE StampsInv'
  OBVIOUS
<1> USE DEF gates, commits, syncs, imports, world, durable, Goto
<1>0. /\ UNCHANGED <<rows, jobs>> /\ Covered' = Covered
      /\ pc[t] \in Inside /\ pc'[t] \in {"landing", "transacting", "idle"}
      /\ \A u \in Task \ {t} : pc'[u] = pc[u]
  BY FilesTyped DEF Vacate, Land, RollBack, WipeFiles, Finish, Inside, Covered
<1>1. \A u \in Task \ {t} : pc[u] \notin Inside
  BY <1>0, Holder
<1>2. VisitedHold'
  BY <1>0, <1>1 DEF VisitedHold, Visiting, Inside
<1>3. (RowsApart /\ JobRows /\ BlankRows /\ SoundRows)'
  BY <1>0 DEF StampsInv, RowsApart, JobRows, BlankRows, SoundRows, HasRow, Stored
<1>4. clock \in Nat /\ NoFile.stat = 0
  BY FilesTyped DEF NoFile
<1>5. CASE ~Land(t)
  <2>1. \A u \in Task : pc'[u] # "transacting"
    BY <1>0, <1>1, <1>5, FilesTyped DEF Vacate, RollBack, WipeFiles, Finish, Inside
  <2>2. clock' = clock
    BY <1>5 DEF Vacate, RollBack, WipeFiles, Finish
  <2>3. \A s \in Stem : disk'[s] \in {disk[s], journal[s], NoFile} /\ journal'[s] \in {disk[s], journal[s], NoFile}
    BY <1>5 DEF Vacate, Vacated, RollBack, WipeFiles
  <2>4. \A s \in Stem : disk'[s].stat <= clock /\ journal'[s].stat <= clock
    BY <1>4, <2>3 DEF StampsInv, StatsPast
  <2>5. StatsPast'
    BY <1>0, <2>1, <2>2, <2>4 DEF StampsInv, StatsPast
  <2> QED
    BY <1>2, <1>3, <2>5 DEF StampsInv
<1>6. CASE Land(t)
  <2>1. clock' = clock + 1 /\ journal' = journal
    BY <1>6 DEF Land
  <2>2. \A s \in Stem : disk'[s].stat <= clock'
    <3> SUFFICES ASSUME NEW s \in Stem PROVE Landed(change[t], journal, disk, clock')[s].stat <= clock'
      BY <1>6 DEF Land
    <3>1. \A r \in Stem : journal[r].stat \in Nat /\ journal[r].stat <= clock
      BY FilesTyped DEF StampsInv, StatsPast, File
    <3>2. ASSUME NEW m \in change[t].moves PROVE MovedFile(change[t], m, journal, clock').stat <= clock'
      <4>1. m[1] \in Stem
        BY FilesTyped DEF ChangeRecord
      <4> QED
        BY <1>4, <2>1, <3>1, <4>1 DEF MovedFile
    <3>3. (\E m \in change[t].moves : m[2] = s) => (CHOOSE m \in change[t].moves : m[2] = s) \in change[t].moves
      OBVIOUS
    <3>4. disk[s].stat \in Nat /\ disk[s].stat <= clock
      BY FilesTyped DEF StampsInv, StatsPast, File
    <3> QED
      BY <1>4, <2>1, <3>2, <3>3, <3>4 DEF Landed
  <2>3. \A s \in Stem : journal[s].stat < clock' /\ rows[s].stat < clock'
    <3>1. \A s \in Stem : journal[s].stat \in Nat /\ rows[s].stat \in Nat
      BY FilesTyped DEF File, Row
    <3> QED
      BY <1>4, <2>1, <3>1 DEF StampsInv, StatsPast
  <2>4. \A u \in Task, s \in Stem : jobs[u][s].stage # "none" => jobs[u][s].stat < clock'
    <3>1. \A u \in Task, s \in Stem : jobs[u][s].stat \in Nat
      BY FilesTyped DEF Job
    <3> QED
      BY <1>4, <2>1, <3>1 DEF StampsInv, StatsPast
  <2>5. \A s \in Stem : journal[s].stat <= clock' /\ rows[s].stat <= clock'
    <3>1. \A s \in Stem : journal[s].stat \in Nat /\ rows[s].stat \in Nat
      BY FilesTyped DEF File, Row
    <3> QED
      BY <1>4, <2>1, <2>3, <3>1
  <2>6. \A u \in Task, s \in Stem : jobs[u][s].stage # "none" => jobs[u][s].stat <= clock'
    <3>1. \A u \in Task, s \in Stem : jobs[u][s].stat \in Nat
      BY FilesTyped DEF Job
    <3> QED
      BY <1>4, <2>1, <2>4, <3>1
  <2>7. StatsPast'
    BY <1>0, <2>1, <2>2, <2>3, <2>4, <2>5, <2>6 DEF StatsPast
  <2> QED
    BY <1>2, <1>3, <2>7 DEF StampsInv
<1> QED
  BY <1>5, <1>6

\* Where a row is once a changeset's transaction committed: it came along with a moved
\* entry, it was dropped, or it stayed.
LEMMA RekeyedFrom ==
    ASSUME NEW ch \in Changes \cup Archive, NEW old \in [Stem -> Row], NEW s \in Stem
    PROVE  \/ \E m \in ch.moves : m[2] = s /\ old[m[1]].id # Nil /\ Rekeyed(ch, old)[s] = old[m[1]]
           \/ s \in Leaving(ch) /\ Rekeyed(ch, old)[s] = NoRow
           \/ /\ s \notin Leaving(ch) /\ Rekeyed(ch, old)[s] = old[s]
              /\ \A m \in ch.moves : m[2] = s => old[m[1]].id = Nil
<1>1. ASSUME NEW m \in ch.moves, m[2] = s, old[m[1]].id # Nil
      PROVE  Rekeyed(ch, old)[s] = old[m[1]]
  <2>1. (CHOOSE n \in ch.moves : n[2] = s) = m
    <3>1. \A n \in ch.moves : n[2] = s => n = m
      BY <1>1, MovesAssumption
    <3> QED
      BY <1>1, <3>1
  <2> QED
    BY <1>1, <2>1 DEF Rekeyed
<1>2. CASE \A m \in ch.moves : m[2] = s => old[m[1]].id = Nil
  BY <1>2 DEF Rekeyed
<1> QED
  BY <1>1, <1>2

\* A transaction moves rows whole.
LEMMA TransactStamps ==
    ASSUME FilesInv, StampsInv, NEW t \in Task
    PROVE  Transact(t) => StampsInv'
<1> SUFFICES ASSUME Transact(t) PROVE StampsInv'
  OBVIOUS
<1> USE DEF gates, commits, syncs, imports, world, Goto
<1> DEFINE ch == change[t]
<1>0. /\ UNCHANGED <<disk, journal, clock, jobs>> /\ rows' = Rekeyed(ch, rows) /\ Covered' = Covered
      /\ pc[t] = "transacting" /\ pc'[t] = "claiming" /\ \A u \in Task \ {t} : pc'[u] = pc[u]
      /\ Covered \subseteq Stem /\ rows \in [Stem -> Row]
  BY FilesTyped DEF Transact, Covered
<1>1. \A u \in Task \ {t} : pc[u] \notin Inside
  BY <1>0, Holder DEF Inside
<1>2. ch \in Changes \cup Archive
  BY <1>0 DEF FilesInv, InflightInv, KnownChanges, Committing
<1>m. \A m \in ch.moves : m[1] \in Stem /\ m[2] \in Stem /\ m[1] \in Leaving(ch) /\ m[1] \in Touched(ch)
                          /\ (m[2] \in Covered => m[1] \in Covered)
  <2>1. ch \in ChangeRecord
    BY FilesTyped
  <2>2. \A m \in ch.moves : m[2] \in Covered => m[1] \in Covered
    BY <1>2, MovesAssumption
  <2> QED
    BY <2>1, <2>2 DEF ChangeRecord, Leaving, Touched
<1> HIDE DEF ch
<1>3. \A s \in Stem :
        \/ \E m \in ch.moves : m[2] = s /\ rows[m[1]].id # Nil /\ rows'[s] = rows[m[1]]
        \/ rows'[s] = NoRow
        \/ s \notin Leaving(ch) /\ rows'[s] = rows[s]
  BY <1>0, <1>2, RekeyedFrom
<1>4. VisitedHold'
  BY <1>0, <1>1 DEF VisitedHold, Visiting, Inside
<1>n. NoRow.id = Nil /\ NoRow.digest = Nil /\ NoRow.stat = 0
  BY DEF NoRow
<1>5. StatsPast'
  <2>1. \A u \in Task : pc'[u] # "transacting"
    BY <1>0, <1>1 DEF Inside
  <2>2. \A s \in Stem : rows'[s].stat <= clock
    <3>1. clock \in Nat
      BY FilesTyped
    <3> QED
      BY <1>3, <1>m, <1>n, <3>1 DEF StampsInv, StatsPast
  <2> QED
    BY <1>0, <2>1, <2>2 DEF StampsInv, StatsPast
<1>6. RowsApart'
  <2> SUFFICES ASSUME NEW r \in Stem, NEW s \in Stem, rows'[s].id # Nil, rows'[r].id = rows'[s].id
               PROVE  r = s
    BY DEF RowsApart, HasRow
  <2>1. \A x, y \in Stem : rows[x].id # Nil /\ rows[x].id = rows[y].id => x = y
    BY DEF StampsInv, RowsApart, HasRow
  <2>2. \A x \in Stem : rows'[x].id # Nil =>
          \/ \E m \in ch.moves : m[2] = x /\ rows'[x] = rows[m[1]]
          \/ x \notin Leaving(ch) /\ rows'[x] = rows[x]
    BY <1>3, <1>n
  <2>3. CASE \E m \in ch.moves : m[2] = r /\ rows'[r] = rows[m[1]]
    <3>1. PICK m \in ch.moves : m[2] = r /\ rows'[r] = rows[m[1]]
      BY <2>3
    <3>2. CASE \E n \in ch.moves : n[2] = s /\ rows'[s] = rows[n[1]]
      <4>1. PICK n \in ch.moves : n[2] = s /\ rows'[s] = rows[n[1]]
        BY <3>2
      <4>2. n[1] = m[1]
        BY <1>m, <2>1, <3>1, <4>1
      <4>3. n = m
        BY <1>2, <4>2, MovesAssumption
      <4> QED
        BY <3>1, <4>1, <4>3
    <3>3. CASE s \notin Leaving(ch) /\ rows'[s] = rows[s]
      BY <1>m, <2>1, <3>1, <3>3
    <3> QED
      BY <2>2, <3>2, <3>3
  <2>4. CASE r \notin Leaving(ch) /\ rows'[r] = rows[r]
    <3>1. CASE \E n \in ch.moves : n[2] = s /\ rows'[s] = rows[n[1]]
      BY <1>m, <2>1, <2>4, <3>1
    <3>2. CASE s \notin Leaving(ch) /\ rows'[s] = rows[s]
      BY <2>1, <2>4, <3>2
    <3> QED
      BY <2>2, <3>1, <3>2
  <2> QED
    BY <2>2, <2>3, <2>4
<1>7. ASSUME NEW u \in Task, NEW q \in Covered, Stored(u, q)
      PROVE  q \notin Touched(ch) /\ rows'[q] = rows[q]
  <2>1. q \notin Touched(ch)
    BY <1>0, <1>7, IndexedIsThere DEF Stored, Critical, Installing, ch
  <2>2. q \notin Leaving(ch) /\ \A m \in ch.moves : m[2] # q
    BY <2>1 DEF Touched
  <2> QED
    BY <1>0, <2>1, <2>2 DEF Rekeyed
<1>8. JobRows'
  <2> SUFFICES ASSUME NEW u \in Task, NEW q \in Stem, Stored(u, q), NEW r \in Stem, rows'[r].id = jobs[u][q].id
               PROVE  IF q \in Covered THEN r = q ELSE r \notin Covered
    BY <1>0 DEF JobRows, Stored, StampsInv
  <2>1. /\ jobs[u][q].id # Nil
        /\ \A x \in Stem : rows[x].id = jobs[u][q].id => IF q \in Covered THEN x = q ELSE x \notin Covered
    BY DEF StampsInv, JobRows
  <2>2. CASE \E m \in ch.moves : m[2] = r /\ rows'[r] = rows[m[1]]
    <3>1. PICK m \in ch.moves : m[2] = r /\ rows'[r] = rows[m[1]]
      BY <2>2
    <3>2. IF q \in Covered THEN m[1] = q ELSE m[1] \notin Covered
      BY <1>m, <2>1, <3>1
    <3>3. q \notin Covered
      BY <1>m, <1>7, <3>2
    <3> QED
      BY <1>m, <3>1, <3>2, <3>3
  <2>3. CASE rows'[r] = rows[r]
    BY <2>1, <2>3
  <2> QED
    BY <1>3, <1>n, <2>1, <2>2, <2>3
<1>9. BlankRows'
  BY <1>0, <1>7 DEF StampsInv, BlankRows, Stored
<1>10. SoundRows'
  BY <1>0, <1>3, <1>m, <1>n DEF StampsInv, SoundRows, HasRow
<1> QED
  BY <1>4, <1>5, <1>6, <1>8, <1>9, <1>10 DEF StampsInv

\* Nothing is indexed while the casebase is wiped.
LEMMA WipeStamps ==
    ASSUME FilesInv, StampsInv, NEW t \in Task
    PROVE  WipeRows(t) => StampsInv'
<1> SUFFICES ASSUME WipeRows(t) PROVE StampsInv'
  OBVIOUS
<1> USE DEF gates, commits, syncs, imports, world, Goto
<1>0. /\ UNCHANGED <<disk, journal, clock, jobs>> /\ rows' = [s \in Stem |-> NoRow] /\ Covered' = Covered
      /\ pc[t] = "wipe_rows" /\ pc'[t] = "wipe_files" /\ \A u \in Task \ {t} : pc'[u] = pc[u]
      /\ Covered \subseteq Stem
  BY FilesTyped DEF WipeRows, Covered
<1>1. \A u \in Task \ {t} : pc[u] \notin Inside
  BY <1>0, Holder DEF Inside
<1>n. NoRow.id = Nil /\ NoRow.digest = Nil /\ NoRow.stat = 0
  BY DEF NoRow
<1>2. \A u \in Task, s \in Covered : ~Stored(u, s)
  <2> SUFFICES ASSUME NEW u \in Task, NEW s \in Covered, Stored(u, s) PROVE FALSE
    OBVIOUS
  <2>1. pc[u] = "indexing" /\ s \in Written(change[u])
    BY <1>0, <1>1 DEF Stored, FilesInv, InflightInv, JobsOwned, Inside
  <2> QED
    BY <1>0, <2>1 DEF FilesInv, InflightInv, Claimed, Cleared
<1>3. VisitedHold'
  BY <1>0, <1>1 DEF VisitedHold, Visiting, Inside
<1>4. StatsPast'
  <2>1. \A u \in Task : pc'[u] # "transacting"
    BY <1>0, <1>1 DEF Inside
  <2>2. clock \in Nat
    BY FilesTyped
  <2> QED
    BY <1>0, <1>n, <2>1, <2>2 DEF StampsInv, StatsPast
<1>5. JobRows' /\ BlankRows'
  BY <1>0, <1>n, <1>2 DEF StampsInv, JobRows, BlankRows, Stored
<1>6. RowsApart' /\ SoundRows'
  BY <1>0, <1>n DEF RowsApart, SoundRows, HasRow
<1> QED
  BY <1>3, <1>4, <1>5, <1>6 DEF StampsInv

\* A sync visits no entry that is being indexed.
LEMMA VisitsFree ==
    ASSUME FilesInv, NEW t \in Task, NEW s \in Covered, Visit(t, s)
    PROVE  \A u \in Task : jobs[u][s].stage = "none"
<1> SUFFICES ASSUME NEW u \in Task, jobs[u][s].stage # "none" PROVE FALSE
  OBVIOUS
<1>1. s \in Stem /\ pc[t] = "syncing" /\ s \in refs[t] /\ jobs[t][s].stage = "none"
  BY DEF Covered, Visit, NoJob
<1>2. pc[u] = "indexing" /\ s \in Written(change[u])
  <2>1. u # t
    BY <1>1
  <2>2. pc[u] \notin Inside
    BY <1>1, <2>1, Holder DEF Inside
  <2> QED
    BY <1>1, <2>2 DEF FilesInv, InflightInv, JobsOwned, Inside
<1> QED
  BY <1>1, <1>2 DEF FilesInv, InflightInv, Claimed, Cleared

\* A sync drops a row or refreshes its stat.
LEMMA VisitStamps ==
    ASSUME FilesInv, StampsInv, NEW t \in Task, NEW s \in Stem
    PROVE  SyncGone(t, s) \/ SyncFresh(t, s) => StampsInv'
<1> SUFFICES ASSUME SyncGone(t, s) \/ SyncFresh(t, s) PROVE StampsInv'
  OBVIOUS
<1> USE DEF gates, commits, syncs, imports, world
<1>0. /\ UNCHANGED <<disk, journal, clock, jobs, pc>> /\ Covered' = Covered
      /\ pc[t] = "syncing" /\ Covered \subseteq Stem /\ Visit(t, s)
  BY DEF SyncGone, SyncFresh, Visit, Covered
<1>n. NoRow.id = Nil /\ NoRow.digest = Nil /\ NoRow.stat = 0
  BY DEF NoRow
<1>1. /\ \A r \in Stem \ {s} : rows'[r] = rows[r]
      /\ \/ rows'[s] = NoRow
         \/ /\ rows'[s].id = rows[s].id /\ rows'[s].digest = rows[s].digest /\ rows'[s].chunks = rows[s].chunks
            /\ rows'[s].stat \in {rows[s].stat, disk[s].stat}
  <2>1. CASE SyncGone(t, s)
    BY <2>1, FilesTyped DEF SyncGone
  <2>2. CASE SyncFresh(t, s)
    <3>1. rows' = rows \/ rows' = [rows EXCEPT ![s].stat = disk[s].stat]
      BY <2>2 DEF SyncFresh
    <3>2. rows[s] \in Row
      BY FilesTyped
    <3> QED
      BY <3>1, <3>2, FilesTyped DEF Row
  <2> QED
    BY <2>1, <2>2
<1>2. VisitedHold'
  BY <1>0 DEF StampsInv, VisitedHold
<1>3. StatsPast'
  <2>1. \A u \in Task : pc[u] # "transacting"
    BY <1>0, Holder DEF Inside
  <2>2. clock \in Nat
    BY FilesTyped
  <2>3. \A r \in Stem : rows'[r].stat <= clock
    BY <1>1, <1>n, <2>2 DEF StampsInv, StatsPast
  <2> QED
    BY <1>0, <2>1, <2>3 DEF StampsInv, StatsPast
<1>4. RowsApart' /\ JobRows'
  <2>1. \A r \in Stem : rows'[r].id # Nil => rows'[r].id = rows[r].id
    BY <1>1, <1>n
  <2> QED
    BY <1>0, <2>1 DEF StampsInv, RowsApart, JobRows, HasRow, Stored
<1>5. BlankRows'
  BY <1>0, <1>1, VisitsFree DEF StampsInv, BlankRows, Stored
<1>6. SoundRows'
  BY <1>0, <1>1, <1>n DEF StampsInv, SoundRows, HasRow
<1> QED
  BY <1>2, <1>3, <1>4, <1>5, <1>6 DEF StampsInv

\* A new process indexes nothing.
LEMMA RestStamps ==
    /\ Init => StampsInv
    /\ FilesInv /\ StampsInv /\ Crash => StampsInv'
<1>1. /\ NoJob.stage = "none" /\ NoFile.stat = 0 /\ NoRow.id = Nil /\ NoRow.digest = Nil /\ NoRow.stat = 0
      /\ Covered \subseteq Stem
  BY DEF NoJob, NoFile, NoRow, Covered
<1>2. ASSUME Init PROVE StampsInv
  <2>1. \A s \in Stem : disk[s].stat <= 1
    BY <1>1, <1>2 DEF Init
  <2> QED
    BY <1>1, <1>2, <2>1 DEF Init, AtRest, StampsInv, StatsPast, RowsApart, JobRows, BlankRows, SoundRows,
       VisitedHold, HasRow, Stored, Visiting
<1>3. ASSUME FilesInv, StampsInv, Crash PROVE StampsInv'
  <2>1. /\ UNCHANGED <<disk, rows, clock>> /\ journal' = [s \in Stem |-> NoFile]
        /\ jobs' = [t \in Task |-> [s \in Stem |-> NoJob]] /\ pc' = [t \in Task |-> "idle"]
        /\ Covered' = Covered /\ clock \in Nat
    BY <1>3, FilesTyped DEF Crash, durable, Covered
  <2> QED
    BY <1>1, <1>3, <2>1 DEF StampsInv, StatsPast, RowsApart, JobRows, BlankRows, SoundRows, VisitedHold,
       HasRow, Stored, Visiting
<1> QED
  BY <1>2, <1>3

\* Every step keeps the stamps true.
LEMMA StampsNext ==
    ASSUME FilesInv, StampsInv, ~AdminReset, [Next]_vars
    PROVE  StampsInv'
<1>1. Steady => StampsInv'
  BY SteadyStamps
<1>2. ASSUME NEW t \in Task, Ask(t) \/ Lock(t) \/ Step(t) PROVE StampsInv'
  <2>1. Index(t) => StampsInv'
    BY UpsertStamps, StoreStamps, StampStamps DEF Index
  <2> QED
    BY <1>1, <1>2, <2>1, SteadyOrNot, DiskStamps, TransactStamps, WipeStamps, VisitStamps
<1> QED
  BY <1>1, <1>2, ImportSteady, RestStamps DEF Next

----------------------------------------------------------------------------
(* The startup reconcile knows the rows as they are *)

Syncing == {"sy_states", "sy_wait", "syncing"}

\* Without an admin's reindex a sync runs before the server is up, and so the rows it
\* read are the rows there are, as far as it has not visited them.
SyncsBoot ==
    \A t \in Task :
        /\ pc[t] \in Syncing => mode = "boot"
        /\ pc[t] \in {"sy_wait", "syncing"} => \A s \in refs[t] \cap Covered : states[t][s] = rows[s]
        /\ pc[t] = "syncing" => \A s \in refs[t] : jobs[t][s].stage = "none"

\* During the startup reconcile no other task moves.
LEMMA BootMoves ==
    ASSUME FilesInv, ~AdminReset, NEW t \in Task, mode = "boot", pc[t] = "idle"
    PROVE  Ask(t) \/ Lock(t) \/ Step(t) => SyncRefs(t) /\ \A u \in Task : pc[u] = "idle"
<1>1. Ask(t) => SyncRefs(t) /\ \A u \in Task : pc[u] = "idle"
  BY DEF Ask, Request, Plan, Submit, RkRequest, WipeRequest, SyncRefs, ResetFiles, Idle
<1>2. Lock(t) => FALSE
  BY DEF Lock, Acquire, RkLock, WipeLock, WipeRefuse, SyncLock, SyncRefuse
<1>3. Commit(t) => FALSE
  BY DEF Commit, Converted, ConversionEnds, Resolve, Refuse, Vacate, Land, RollBack, Transact, Claim, Settle
<1>4. Index(t) \/ IndexFailure(t) => FALSE
  <2>1. \A s \in Stem : jobs[t][s].stage = "none"
    BY DEF FilesInv, InflightInv, JobsOwned
  <2> QED
    BY <2>1 DEF Index, IndexFailure, Upsert, StoreChunks, Stamp, IndexFails
<1>5. Rechunk(t) \/ Wipe(t) \/ Reconcile(t) \/ ResetRows(t) => FALSE
  BY DEF Rechunk, RkRefuse, RkDone, Wipe, WipeRows, WipeFiles, ResetRows, Reconcile, SyncStates, Sync, SyncDone,
     SyncGone, SyncFresh, SyncIndex, Visit
<1> QED
  BY <1>1, <1>2, <1>3, <1>4, <1>5 DEF Step

\* The steps of a task that lead into a sync or go on with it.
LEMMA SyncPhases ==
    ASSUME FilesInv, NEW t \in Task, pc'[t] \in Syncing
    PROVE  Ask(t) \/ Lock(t) \/ Step(t) =>
             \/ SyncRefs(t) \/ SyncStates(t) \/ SyncLock(t) \/ Index(t) \/ IndexFailure(t)
             \/ \E s \in Stem : SyncGone(t, s) \/ SyncFresh(t, s) \/ SyncIndex(t, s)
<1> USE DEF gates, commits, syncs, imports, world, durable, Goto, Syncing
<1>1. Ask(t) => SyncRefs(t)
  BY FilesTyped DEF Ask, Request, Plan, Submit, RkRequest, WipeRequest, ResetFiles
<1>2. Lock(t) => SyncLock(t)
  BY FilesTyped DEF Lock, Acquire, RkLock, WipeLock, WipeRefuse, SyncRefuse
<1>3. Commit(t) => FALSE
  BY FilesTyped DEF Commit, Converted, ConversionEnds, Resolve, Refuse, Finish, Vacate, Land, RollBack, Transact,
     Claim, Settle
<1>4. Rechunk(t) \/ Wipe(t) \/ ResetRows(t) => FALSE
  BY FilesTyped DEF Rechunk, RkRefuse, RkDone, Wipe, WipeRows, WipeFiles, ResetRows
<1>5. SyncDone(t) => FALSE
  BY FilesTyped DEF SyncDone
<1> QED
  BY <1>1, <1>2, <1>3, <1>4, <1>5 DEF Step, Reconcile, Sync

\* An index under the sync's lock is of an entry it has visited, and changes no row it
\* has yet to visit.
LEMMA SyncIndexes ==
    ASSUME FilesInv, StampsInv, SyncsBoot, NEW t \in Task, pc[t] = "syncing"
    PROVE  Index(t) \/ IndexFailure(t) =>
             /\ UNCHANGED <<pc, refs, states, mode>>
             /\ \A s \in refs[t] \cap Covered : rows'[s] = rows[s]
             /\ \A s \in refs[t] : jobs'[t][s].stage = "none"
<1> USE DEF gates, commits, syncs, imports, world, durable
<1> SUFFICES ASSUME NEW q \in Stem, Upsert(t, q) \/ StoreChunks(t, q) \/ Stamp(t, q) \/ IndexFails(t, q)
             PROVE  /\ UNCHANGED <<pc, refs, states, mode>>
                    /\ \A s \in refs[t] \cap Covered : rows'[s] = rows[s]
                    /\ \A s \in refs[t] : jobs'[t][s].stage = "none"
  BY DEF Index, IndexFailure
<1>0. refs[t] \subseteq Stem /\ Covered \subseteq Stem
  BY FilesTyped DEF Covered
<1>1. UNCHANGED <<pc, refs, states, mode>>
  BY DEF Upsert, StoreChunks, Stamp, IndexFails
<1>2. jobs[t][q].stage # "none"
  BY DEF Upsert, StoreChunks, Stamp, IndexFails
<1>3. q \notin refs[t]
  BY <1>2 DEF SyncsBoot
<1>4. \A s \in Stem \ {q} : jobs'[t][s] = jobs[t][s]
  <2>1. PICK job : jobs' = [jobs EXCEPT ![t][q] = job]
    BY DEF Upsert, StoreChunks, Stamp, IndexFails, SetJob
  <2> QED
    BY <2>1, FilesTyped
<1>5. \A s \in refs[t] : jobs'[t][s].stage = "none"
  BY <1>0, <1>3, <1>4 DEF SyncsBoot
<1>6. \A s \in refs[t] \cap Covered : rows'[s] = rows[s]
  <2>1. CASE Upsert(t, q)
    BY <1>0, <1>3, <2>1, FilesTyped DEF Upsert
  <2>2. CASE StoreChunks(t, q) \/ Stamp(t, q)
    <3>1. Stored(t, q)
      BY <2>2 DEF StoreChunks, Stamp, Stored
    <3>2. \A s \in Covered \ {q} : s \in Stem /\ s \notin Holders(jobs[t][q].id)
      BY <1>0, <3>1, StoredAlone
    <3>3. StoreChunks(t, q) => \A s \in Covered \ {q} : rows'[s] = rows[s]
      BY <3>2 DEF StoreChunks
    <3>4. Stamp(t, q) => \A s \in Covered \ {q} : rows'[s] = rows[s]
      BY <3>2 DEF Stamp
    <3> QED
      BY <1>3, <2>2, <3>3, <3>4
  <2>3. CASE IndexFails(t, q)
    BY <2>3 DEF IndexFails
  <2> QED
    BY <2>1, <2>2, <2>3
<1> QED
  BY <1>1, <1>5, <1>6

\* Every step keeps what a sync knows.
LEMMA SyncsNext ==
    ASSUME FilesInv, StampsInv, SyncsBoot, ~AdminReset, ~LiveReindex, [Next]_vars
    PROVE  SyncsBoot'
<1> USE DEF gates, commits, syncs, imports, world, durable
<1> SUFFICES ASSUME NEW u \in Task, pc'[u] \in Syncing
             PROVE  /\ mode' = "boot"
                    /\ pc'[u] \in {"sy_wait", "syncing"} => \A s \in refs'[u] \cap Covered : states'[u][s] = rows'[s]
                    /\ pc'[u] = "syncing" => \A s \in refs'[u] : jobs'[u][s].stage = "none"
  BY DEF SyncsBoot, Syncing, Covered
<1> DEFINE Goal == /\ mode' = "boot"
                   /\ pc'[u] \in {"sy_wait", "syncing"} => \A s \in refs'[u] \cap Covered : states'[u][s] = rows'[s]
                   /\ pc'[u] = "syncing" => \A s \in refs'[u] : jobs'[u][s].stage = "none"
<1>0. Covered \subseteq Stem /\ refs[u] \subseteq Stem
  BY FilesTyped DEF Covered
<1>1. ASSUME UNCHANGED <<rows, jobs, refs, states, mode>>, pc'[u] = pc[u] PROVE Goal
  BY <1>1 DEF SyncsBoot
<1>2. CASE UNCHANGED vars
  BY <1>1, <1>2 DEF vars
<1>3. CASE Crash
  BY <1>3 DEF Crash, Syncing
<1>4. ASSUME NEW c \in Collection, ClaimStore(c) \/ CancelImport(c) \/ Import(c) PROVE Goal
  BY <1>1, <1>4, ImportMoves DEF Syncing
<1>5. ASSUME NEW t \in Task, t # u, Ask(t) \/ Lock(t) \/ Step(t) PROVE Goal
  <2>1. pc[u] = pc'[u]
    BY <1>5, OthersStay DEF FilesInv, OthersKept
  <2>2. mode = "boot" /\ pc[t] = "idle"
    BY <1>5, <2>1 DEF SyncsBoot, FilesInv, RowsInv, BootAlone, Syncing
  <2> QED
    BY <1>5, <2>1, <2>2, BootMoves DEF Syncing
<1>6. CASE Ask(u) \/ Lock(u) \/ Step(u)
  <2>1. CASE SyncRefs(u)
    BY <2>1, FilesTyped DEF SyncRefs, Goto
  <2>2. CASE SyncStates(u)
    BY <2>2, FilesTyped DEF SyncStates, Goto, SyncsBoot, Syncing
  <2>3. CASE SyncLock(u)
    <3>1. \A s \in Stem : jobs[u][s].stage = "none"
      BY <2>3 DEF SyncLock, FilesInv, InflightInv, JobsOwned
    <3> QED
      BY <1>0, <2>3, <3>1, FilesTyped DEF SyncLock, Goto, SyncsBoot, Syncing
  <2>4. CASE Index(u) \/ IndexFailure(u)
    <3>1. UNCHANGED pc
      BY <2>4 DEF Index, IndexFailure, Upsert, StoreChunks, Stamp, IndexFails
    <3>2. pc[u] = "syncing"
      <4>1. \E s \in Stem : jobs[u][s].stage # "none"
        BY <2>4 DEF Index, IndexFailure, Upsert, StoreChunks, Stamp, IndexFails
      <4> QED
        BY <3>1, <4>1 DEF FilesInv, InflightInv, JobsOwned, Syncing
    <3> QED
      BY <2>4, <3>2, SyncIndexes DEF SyncsBoot, Syncing
  <2>5. ASSUME NEW s \in Stem, SyncGone(u, s) \/ SyncFresh(u, s) \/ SyncIndex(u, s) PROVE Goal
    <3>1. /\ UNCHANGED <<pc, states, mode>> /\ pc[u] = "syncing" /\ refs'[u] = refs[u] \ {s}
          /\ \A r \in Stem \ {s} : rows'[r] = rows[r] /\ jobs'[u][r] = jobs[u][r]
      BY <2>5, FilesTyped DEF SyncGone, SyncFresh, SyncIndex, Visit, SetJob
    <3> QED
      BY <1>0, <3>1 DEF SyncsBoot, Syncing
  <2> QED
    BY <1>6, <2>1, <2>2, <2>3, <2>4, <2>5, SyncPhases
<1> QED
  BY <1>2, <1>3, <1>4, <1>5, <1>6 DEF Next

----------------------------------------------------------------------------
(* Stats tell texts apart *)

\* A stem's file, as a rollback of the install under way would leave it.
Before(s) == IF \E t \in Undoable : s \in Touched(change[t]) THEN journal[s] ELSE disk[s]

LEMMA BeforeThen ==
    ASSUME NEW t \in Task, \A u \in Task \ {t} : pc[u] \notin Undoing
    PROVE  \A s \in Stem : Before(s) = IF pc[t] \in Undoing /\ s \in Touched(change[t]) THEN journal[s] ELSE disk[s]
  BY DEF Before, Undoable, Undoing

LEMMA BeforeStays ==
    ASSUME UNCHANGED disk,
           \A u \in Task : pc[u] \in Undoing \/ pc'[u] \in Undoing =>
              pc'[u] = pc[u] /\ change'[u] = change[u] /\ journal' = journal
    PROVE  \A s \in Stem : Before(s)' = Before(s)
<1>1. Undoable' = Undoable /\ \A u \in Undoable : change'[u] = change[u] /\ journal' = journal
  BY DEF Undoable, Undoing
<1>2. \A u \in Undoable : Touched(change[u])' = Touched(change[u])
  BY <1>1 DEF Touched, Written, Leaving
<1> QED
  BY <1>1, <1>2 DEF Before

\* Only a transaction that commits and a wipe change what there is to come back to.
LEMMA BeforeKept ==
    ASSUME FilesInv, ~AdminReset, NEW t \in Task, ~Transact(t), ~WipeFiles(t)
    PROVE  Ask(t) \/ Lock(t) \/ Step(t) => \A s \in Stem : Before(s)' = Before(s)
<1> USE DEF gates, commits, syncs, imports, world, durable, Goto
<1>1. Steady => \A s \in Stem : Before(s)' = Before(s)
  BY BeforeStays DEF Steady
<1>2. Index(t) \/ WipeRows(t) \/ (\E s \in Stem : SyncGone(t, s) \/ SyncFresh(t, s))
      => \A s \in Stem : Before(s)' = Before(s)
  <2> SUFFICES ASSUME Index(t) \/ WipeRows(t) \/ (\E s \in Stem : SyncGone(t, s) \/ SyncFresh(t, s))
               PROVE  \A s \in Stem : Before(s)' = Before(s)
    OBVIOUS
  <2>1. UNCHANGED <<disk, journal, change>> /\ (UNCHANGED pc \/ WipeRows(t))
    BY DEF Index, Upsert, StoreChunks, Stamp, WipeRows, SyncGone, SyncFresh, Visit
  <2>2. \A u \in Task : pc[u] \in Undoing \/ pc'[u] \in Undoing => pc'[u] = pc[u]
    BY <2>1, FilesTyped DEF WipeRows, Undoing
  <2> QED
    BY <2>1, <2>2, BeforeStays
<1>3. ASSUME Vacate(t) \/ Land(t) \/ RollBack(t) PROVE \A s \in Stem : Before(s)' = Before(s)
  <2>1. /\ \A u \in Task \ {t} : pc'[u] = pc[u] /\ pc[u] \notin Undoing
        /\ pc[t] \in {"vacating"} \cup Undoing /\ change[t] \in ChangeRecord
        /\ disk \in [Stem -> File] /\ journal \in [Stem -> File]
    BY <1>3, Holder, FilesTyped DEF Vacate, Land, RollBack, Finish, Inside, Undoing
  <2>2. \A s \in Stem : Before(s) = IF pc[t] \in Undoing /\ s \in Touched(change[t]) THEN journal[s] ELSE disk[s]
    BY <2>1, BeforeThen
  <2>3. \A s \in Stem : Before(s)' = IF pc'[t] \in Undoing /\ s \in Touched(change'[t]) THEN journal'[s] ELSE disk'[s]
    <3>1. Undoable' = {u \in Task : pc'[u] \in {"landing", "transacting"}}
      BY DEF Undoable
    <3>2. \A u \in Task : Touched(change[u])' = Touched(change'[u])
      BY DEF Touched, Written, Leaving
    <3> QED
      BY <2>1, <3>1, <3>2 DEF Before, Undoing
  <2>4. CASE Vacate(t)
    <3>1. /\ pc[t] = "vacating" /\ pc'[t] = "landing" /\ change' = change /\ disk' = Vacated(change[t], disk)
          /\ \A s \in Stem : s \in Touched(change[t]) => journal'[s] = disk[s]
      BY <2>4, FilesTyped DEF Vacate
    <3> QED
      BY <2>1, <2>2, <2>3, <3>1, InstallLocal DEF Undoing
  <2>5. CASE Land(t)
    <3>1. /\ pc[t] = "landing" /\ pc'[t] = "transacting" /\ UNCHANGED <<change, journal>>
          /\ disk' = Landed(change[t], journal, disk, clock')
      BY <2>5, FilesTyped DEF Land
    <3> QED
      BY <2>1, <2>2, <2>3, <3>1, InstallLocal DEF Undoing
  <2>6. CASE RollBack(t)
    <3>1. /\ pc[t] \in Undoing /\ pc'[t] = "idle"
          /\ disk' = [s \in Stem |-> IF s \in Touched(change[t]) THEN journal[s] ELSE disk[s]]
      BY <2>6, FilesTyped DEF RollBack, Finish, Undoing
    <3> QED
      BY <2>2, <2>3, <3>1 DEF Undoing
  <2> QED
    BY <1>3, <2>4, <2>5, <2>6
<1> QED
  BY <1>1, <1>2, <1>3, SteadyOrNot

\* What a change lands on is free once it has left what it leaves, whoever else ran
\* since it was checked.
FreeStill ==
    \A t \in Task : pc[t] \in {"vacating"} \cup Undoing =>
        \A m \in change[t].moves : Before(m[2]).text # Nil => m[2] \in Leaving(change[t])

\* The steps into an install and within it.
LEMMA InstallPhases ==
    ASSUME FilesInv, NEW t \in Task, pc'[t] \in {"vacating"} \cup Undoing
    PROVE  Ask(t) \/ Lock(t) \/ Step(t) =>
             /\ ~Transact(t) /\ ~WipeFiles(t)
             /\ \/ Resolve(t)
                \/ pc[t] \in {"vacating"} \cup Undoing /\ UNCHANGED change
<1> USE DEF gates, commits, syncs, imports, world, durable, Goto, Undoing
<1>1. Ask(t) \/ Lock(t) => FALSE
  BY FilesTyped DEF Ask, Request, Plan, Submit, RkRequest, WipeRequest, SyncRefs, ResetFiles,
     Lock, Acquire, RkLock, WipeLock, WipeRefuse, SyncLock, SyncRefuse
<1>2. Commit(t) => /\ ~Transact(t)
                   /\ \/ Resolve(t)
                      \/ pc[t] \in {"vacating"} \cup Undoing /\ UNCHANGED change
  BY FilesTyped DEF Commit, Converted, ConversionEnds, Refuse, Finish, Vacate, Land, RollBack, Transact, Claim, Settle
<1>3. Index(t) \/ IndexFailure(t) => pc[t] \in {"vacating"} \cup Undoing /\ UNCHANGED change
  BY DEF Index, IndexFailure, Upsert, StoreChunks, Stamp, IndexFails
<1>4. Rechunk(t) \/ ResetRows(t) \/ Wipe(t) \/ Reconcile(t) => FALSE
  <2>1. Rechunk(t) \/ ResetRows(t) \/ Wipe(t) => FALSE
    BY FilesTyped DEF Rechunk, RkRefuse, RkDone, ResetRows, Wipe, WipeRows, WipeFiles
  <2>2. Reconcile(t) => FALSE
    BY FilesTyped DEF Reconcile, SyncStates, Sync, SyncDone, SyncGone, SyncFresh, SyncIndex, Visit
  <2> QED
    BY <2>1, <2>2
<1>5. ~Transact(t) /\ ~WipeFiles(t)
  BY FilesTyped DEF Transact, WipeFiles
<1> QED
  BY <1>1, <1>2, <1>3, <1>4, <1>5 DEF Step

\* Every step keeps the places free.
LEMMA FreeNext ==
    ASSUME FilesInv, FreeStill, ~AdminReset, [Next]_vars
    PROVE  FreeStill'
<1> SUFFICES ASSUME NEW u \in Task, pc'[u] \in {"vacating"} \cup Undoing, NEW m \in change'[u].moves,
                    Before(m[2])'.text # Nil
             PROVE  m[2] \in Leaving(change'[u])
  BY DEF FreeStill, Leaving
<1>1. ASSUME pc[u] \in {"vacating"} \cup Undoing, change'[u] = change[u], \A s \in Stem : Before(s)' = Before(s)
      PROVE  m[2] \in Leaving(change'[u])
  <2>1. m[2] \in Stem
    BY <1>1, FilesTyped DEF ChangeRecord
  <2> QED
    BY <1>1, <2>1 DEF FreeStill
<1>2. CASE UNCHANGED vars
  BY <1>1, <1>2, BeforeStays, ImportSteady DEF Steady, vars, commits
<1>3. CASE Crash
  BY <1>3 DEF Crash, Undoing
<1>5. ASSUME NEW c \in Collection, ClaimStore(c) \/ CancelImport(c) \/ Import(c) PROVE m[2] \in Leaving(change'[u])
  <2>1. pc'[u] = pc[u] /\ change'[u] = change[u]
    BY <1>5, ImportMoves DEF Undoing
  <2>2. Steady
    BY <1>5, ImportSteady
  <2> QED
    BY <1>1, <2>1, <2>2, BeforeStays DEF Steady
<1>4. ASSUME NEW t \in Task, Ask(t) \/ Lock(t) \/ Step(t) PROVE m[2] \in Leaving(change'[u])
  <2>1. CASE t # u
    <3>1. pc[u] = pc'[u] /\ change'[u] = change[u]
      BY <1>4, <2>1, OthersStay DEF FilesInv, OthersKept
    <3>2. pc[t] \notin Inside
      BY <2>1, <3>1, Holder DEF Inside, Undoing
    <3>3. ~Transact(t) /\ ~WipeFiles(t)
      BY <3>2 DEF Transact, WipeFiles, Inside
    <3> QED
      BY <1>1, <1>4, <3>1, <3>3, BeforeKept
  <2>2. CASE t = u
    <3>1. ~Transact(t) /\ ~WipeFiles(t)
      BY <1>4, <2>2, InstallPhases
    <3>2. \A s \in Stem : Before(s)' = Before(s)
      BY <1>4, <3>1, BeforeKept
    <3>3. CASE Resolve(t)
      <4>1. /\ pc[t] = "resolving" /\ change' = change /\ Valid(change[t])
        BY <3>3 DEF Resolve, commits
      <4>2. \A v \in Task : pc[v] \notin Undoing
        BY <4>1, Holder DEF Inside, Undoing
      <4>3. change[t] \in ChangeRecord /\ change[t] \in Changes \cup Archive
        BY <4>1, FilesTyped DEF FilesInv, InflightInv, KnownChanges, Committing
      <4>4. m[2] \in Stem /\ m[2] \in change[t].free
        BY <2>2, <4>1, <4>3, MovesAssumption DEF ChangeRecord
      <4>5. Before(m[2]) = disk[m[2]]
        BY <4>2, <4>4, BeforeThen
      <4> QED
        BY <2>2, <3>2, <4>1, <4>4, <4>5 DEF Valid, OnDisk
    <3>4. CASE pc[t] \in {"vacating"} \cup Undoing /\ UNCHANGED change
      BY <1>1, <2>2, <3>2, <3>4
    <3> QED
      BY <1>4, <2>2, <3>3, <3>4, InstallPhases
  <2> QED
    BY <2>1, <2>2
<1> QED
  BY <1>2, <1>3, <1>4, <1>5 DEF Next

\* The stat of a file tells whether its row's digest is the one of its text.
StatsTell ==
    \A s \in Covered :
        Before(s).text # Nil /\ rows[s].digest # Nil /\ rows[s].stat = Before(s).stat
        => rows[s].digest = Before(s).text

FreshInv == StampsInv /\ SyncsBoot /\ FreeStill /\ StatsTell

\* Nothing lands on what the same changeset leaves.
Untangled == \A ch \in Changes \cup Archive : \A m \in ch.moves : m[2] \notin Leaving(ch)

\* What lies in the middle of an install on a stem it touches: a file just written, one
\* moved there, or the one it was.
LEMMA InstalledFrom ==
    ASSUME FilesInv, NEW t \in Task, pc[t] \in Undoing,
           NEW s \in Covered, s \in Touched(change[t]), disk[s].text # Nil
    PROVE  \/ pc[t] = "transacting" /\ disk[s].stat = clock
           \/ /\ pc[t] = "transacting"
              /\ \E m \in change[t].moves : m[2] = s /\ journal[m[1]].text # Nil /\ disk[s] = journal[m[1]]
           \/ /\ s \notin Leaving(change[t]) /\ disk[s] = journal[s]
              /\ pc[t] = "transacting" =>
                   \A m \in change[t].moves : m[2] = s => journal[m[1]].text = Nil
<1> DEFINE ch == change[t]
           left1 == Vacated(ch, journal)
<1>0. s \in Stem /\ NoFile.text = Nil
  BY DEF Covered, NoFile
<1>1. left1[s] = IF s \in Leaving(ch) THEN NoFile ELSE journal[s]
  BY <1>0 DEF Vacated
<1>2. CASE pc[t] = "landing"
  <2>1. disk[s] = left1[s]
    BY <1>2 DEF FilesInv, RowsInv, Installed
  <2> HIDE DEF left1
  <2> QED
    BY <1>0, <1>1, <1>2, <2>1
<1>3. CASE pc[t] = "transacting"
  <2>1. disk[s] = Landed(ch, journal, left1, clock)[s]
    BY <1>3 DEF FilesInv, RowsInv, Installed
  <2> HIDE DEF left1
  <2>2. CASE ch.put[s] # Nil
    BY <1>0, <1>3, <2>1, <2>2 DEF Landed
  <2>3. ASSUME ch.put[s] = Nil, NEW m \in ch.moves, m[2] = s, journal[m[1]].text # Nil
        PROVE  disk[s].stat = clock \/ disk[s] = journal[m[1]]
    <3>1. ch \in Changes \cup Archive
      BY <1>3 DEF FilesInv, InflightInv, KnownChanges, Committing
    <3>2. (CHOOSE n \in ch.moves : n[2] = s) = m
      <4>1. \A n \in ch.moves : n[2] = s => n = m
        BY <2>3, <3>1, MovesAssumption
      <4> QED
        BY <2>3, <4>1
    <3> HIDE DEF ch
    <3>3. disk[s] = MovedFile(ch, m, journal, clock)
      BY <1>0, <2>1, <2>3, <3>2 DEF Landed
    <3> QED
      BY <3>3 DEF MovedFile
  <2>4. CASE ch.put[s] = Nil /\ \A m \in ch.moves : m[2] = s => journal[m[1]].text = Nil
    <3>1. disk[s] = left1[s]
      BY <1>0, <2>1, <2>4 DEF Landed
    <3> QED
      BY <1>0, <1>1, <2>4, <3>1
  <2> QED
    BY <1>3, <2>2, <2>3, <2>4
<1> QED
  BY <1>2, <1>3 DEF Undoing

\* An index stamps what is on disk.
LEMMA IndexTells ==
    ASSUME FilesInv, FreshInv, NEW t \in Task
    PROVE  Index(t) => StatsTell'
<1> USE DEF gates, commits, syncs, imports, world
<1> SUFFICES ASSUME NEW q \in Stem, Upsert(t, q) \/ StoreChunks(t, q) \/ Stamp(t, q), NEW s \in Covered,
                    Before(s)'.text # Nil, rows'[s].digest # Nil, rows'[s].stat = Before(s)'.stat
             PROVE  rows'[s].digest = Before(s)'.text
  BY DEF Index, StatsTell, Covered
<1>0. s \in Stem
  BY DEF Covered
<1>1. UNCHANGED <<disk, journal, pc, change>>
  BY DEF Upsert, StoreChunks, Stamp
<1>2. Before(s)' = Before(s)
  BY <1>0, <1>1, BeforeStays
<1>3. ASSUME rows'[s].digest = rows[s].digest, rows'[s].stat = rows[s].stat PROVE rows'[s].digest = Before(s)'.text
  BY <1>2, <1>3 DEF FreshInv, StatsTell
<1>4. CASE Upsert(t, q)
  <2>1. q # s
    BY <1>0, <1>4, FilesTyped DEF Upsert
  <2> QED
    BY <1>0, <1>3, <1>4, <2>1, FilesTyped DEF Upsert
<1>5. CASE StoreChunks(t, q)
  <2>1. rows[s] \in Row
    BY <1>0, FilesTyped
  <2> QED
    BY <1>0, <1>3, <1>5, <2>1 DEF StoreChunks, Row
<1>6. CASE Stamp(t, q)
  <2>1. Stored(t, q)
    BY <1>6 DEF Stamp, Stored
  <2>2. CASE q # s
    <3>1. s \notin Holders(jobs[t][q].id)
      BY <2>1, <2>2, StoredAlone DEF FreshInv
    <3> QED
      BY <1>0, <1>3, <1>6, <3>1 DEF Stamp
  <2>3. CASE q = s
    <3>1. s \in Holders(jobs[t][s].id)
      BY <2>1, <2>3, StoredAlone DEF FreshInv
    <3>2. rows[s] \in Row
      BY <1>0, FilesTyped
    <3>3. rows'[s].digest = jobs[t][s].text
      BY <1>0, <1>6, <2>3, <3>1, <3>2 DEF Stamp, Row
    <3>4. disk[s] = [text |-> jobs[t][s].text, stat |-> jobs[t][s].stat]
      <4>1. jobs[t][s].stage # "none"
        BY <2>1, <2>3 DEF Stored
      <4>2. pc[t] = "indexing" \/ pc[t] \in Visiting
        BY <1>0, <4>1 DEF FilesInv, InflightInv, JobsOwned, Visiting
      <4>3. CASE pc[t] = "indexing"
        BY <1>0, <4>1, <4>3 DEF FilesInv, InflightInv, PendingKept, Pending
      <4>4. CASE pc[t] \in Visiting
        BY <1>0, <4>1, <4>4 DEF FreshInv, StampsInv, VisitedHold
      <4> QED
        BY <4>2, <4>3, <4>4
    <3>5. Before(s) = disk[s]
      <4>1. \A u \in Task : pc[u] \in Undoing => s \notin Touched(change[u])
        BY <2>1, <2>3, IndexedIsThere DEF Stored, Critical, Installing, Undoing
      <4> QED
        BY <4>1 DEF Before, Undoable, Undoing
    <3> QED
      BY <1>2, <3>3, <3>4, <3>5
  <2> QED
    BY <2>2, <2>3
<1> QED
  BY <1>4, <1>5, <1>6

\* What a sync takes for indexed has the digest of the text on disk.
LEMMA FreshIsFresh ==
    ASSUME FilesInv, FreshInv, NEW t \in Task, NEW s \in Covered, SyncFresh(t, s)
    PROVE  Before(s) = disk[s] /\ rows[s].digest # Nil /\ rows[s].digest = disk[s].text
<1>0. s \in Stem /\ pc[t] = "syncing" /\ s \in refs[t]
  BY DEF Covered, SyncFresh, Visit
<1>1. Known(t, s) = rows[s]
  BY <1>0 DEF Known, FreshInv, SyncsBoot
<1>2. Before(s) = disk[s]
  <2>1. \A u \in Task : pc[u] \notin Undoing
    BY <1>0, Holder DEF Inside, Undoing
  <2> QED
    BY <1>0, <2>1, BeforeThen
<1>3. /\ rows[s].stat = disk[s].stat \/ rows[s].digest = disk[s].text
      /\ rows[s].digest # Nil /\ OnDisk(s)
  BY <1>1 DEF SyncFresh, Fresh
<1> QED
  BY <1>2, <1>3 DEF FreshInv, StatsTell, OnDisk

\* A sync refreshes a stat where the digest was the one of the text.
LEMMA VisitTells ==
    ASSUME FilesInv, FreshInv, NEW t \in Task, NEW q \in Stem
    PROVE  SyncGone(t, q) \/ SyncFresh(t, q) => StatsTell'
<1> USE DEF gates, commits, syncs, imports, world
<1> SUFFICES ASSUME SyncGone(t, q) \/ SyncFresh(t, q), NEW s \in Covered,
                    Before(s)'.text # Nil, rows'[s].digest # Nil, rows'[s].stat = Before(s)'.stat
             PROVE  rows'[s].digest = Before(s)'.text
  BY DEF StatsTell, Covered
<1>0. s \in Stem
  BY DEF Covered
<1>1. UNCHANGED <<disk, journal, pc, change>> /\ Visit(t, q) /\ pc[t] = "syncing"
  BY DEF SyncGone, SyncFresh, Visit
<1>2. Before(s)' = Before(s)
  BY <1>0, <1>1, BeforeStays
<1>3. ASSUME rows'[s] = rows[s] PROVE rows'[s].digest = Before(s)'.text
  BY <1>2, <1>3 DEF FreshInv, StatsTell
<1>4. CASE q # s
  <2>1. rows'[s] = rows[s]
    <3>1. \/ rows' = rows \/ rows' = [rows EXCEPT ![q] = NoRow]
          \/ rows' = [rows EXCEPT ![q].stat = disk[q].stat]
      BY DEF SyncGone, SyncFresh
    <3> QED
      BY <1>0, <1>4, <3>1, FilesTyped
  <2> QED
    BY <1>3, <2>1
<1>5. CASE q = s /\ SyncGone(t, q)
  BY <1>0, <1>5, FilesTyped DEF SyncGone, NoRow
<1>6. CASE q = s /\ SyncFresh(t, q)
  <2>1. rows'[s] = rows[s] \/ rows' = [rows EXCEPT ![s].stat = disk[s].stat]
    BY <1>6 DEF SyncFresh
  <2>2. rows' = [rows EXCEPT ![s].stat = disk[s].stat] => rows'[s].digest = rows[s].digest
    BY <1>0, FilesTyped DEF Row
  <2> QED
    BY <1>2, <1>3, <1>6, <2>1, <2>2, FreshIsFresh
<1> QED
  BY <1>4, <1>5, <1>6

\* A transaction that commits keeps each digest with its text: what was written is newer
\* than every row, what was moved took its row along, and what a row stayed at stayed.
LEMMA TransactTells ==
    ASSUME FilesInv, FreshInv, NEW t \in Task
    PROVE  Transact(t) => StatsTell'
<1> USE DEF gates, commits, syncs, imports, world, Goto
<1> SUFFICES ASSUME Transact(t), NEW s \in Covered,
                    Before(s)'.text # Nil, rows'[s].digest # Nil, rows'[s].stat = Before(s)'.stat
             PROVE  rows'[s].digest = Before(s)'.text
  BY DEF StatsTell, Covered
<1> DEFINE ch == change[t]
<1>0. /\ s \in Stem /\ UNCHANGED <<disk, journal>> /\ rows' = Rekeyed(ch, rows)
      /\ pc[t] = "transacting" /\ pc'[t] = "claiming" /\ \A u \in Task \ {t} : pc'[u] = pc[u] /\ pc[u] \notin Undoing
      /\ rows \in [Stem -> Row] /\ ch \in ChangeRecord
  <2>1. pc[t] \in Inside
    BY DEF Transact, Inside
  <2> QED
    BY <2>1, Holder, FilesTyped DEF Transact, Covered, Inside, Undoing
<1>1. ch \in Changes \cup Archive
  BY <1>0 DEF FilesInv, InflightInv, KnownChanges, Committing
<1>2. Before(s)' = disk[s]
  BY <1>0 DEF Before, Undoable, Undoing
<1>3. \A r \in Stem : Before(r) = IF r \in Touched(ch) THEN journal[r] ELSE disk[r]
  BY <1>0, BeforeThen DEF Undoing
<1>m. \A m \in ch.moves : m[1] \in Stem /\ m[1] \in Touched(ch) /\ m[2] \in Touched(ch)
                          /\ (m[2] \in Covered => m[1] \in Covered)
  <2>1. \A m \in ch.moves : m[2] \in Covered => m[1] \in Covered
    BY <1>1, MovesAssumption
  <2> QED
    BY <1>0, <2>1 DEF ChangeRecord, Leaving, Touched
<1>p. \A r \in Touched(ch) \cap Covered : rows[r].id # Nil => journal[r].text # Nil
  BY <1>0 DEF FilesInv, RowsInv, RowsParked, HasRow
<1> HIDE DEF ch
<1>4. \/ \E m \in ch.moves : m[2] = s /\ rows[m[1]].id # Nil /\ rows'[s] = rows[m[1]]
      \/ rows'[s] = NoRow
      \/ s \notin Leaving(ch) /\ rows'[s] = rows[s]
  BY <1>0, <1>1, RekeyedFrom
<1>n. NoRow.digest = Nil
  BY DEF NoRow
<1>5. CASE s \notin Touched(ch)
  <2>1. rows'[s] = rows[s]
    BY <1>m, <1>4, <1>5, <1>n
  <2> QED
    BY <1>0, <1>2, <1>3, <1>5, <2>1 DEF FreshInv, StatsTell
<1>6. CASE s \in Touched(ch)
  <2>1. \E r \in Stem : rows'[s] = rows[r]
    BY <1>0, <1>4, <1>m, <1>n
  <2>2. disk[s].stat # clock
    <3>1. PICK r \in Stem : rows'[s] = rows[r]
      BY <2>1
    <3>2. rows[r].stat < clock /\ rows[r].stat \in Nat /\ clock \in Nat
      BY <1>0, FilesTyped DEF FreshInv, StampsInv, StatsPast, Row
    <3> QED
      BY <1>2, <3>1, <3>2
  <2>3. \/ \E m \in ch.moves : m[2] = s /\ journal[m[1]].text # Nil /\ disk[s] = journal[m[1]]
        \/ /\ s \notin Leaving(ch) /\ disk[s] = journal[s]
           /\ \A m \in ch.moves : m[2] = s => journal[m[1]].text = Nil
    BY <1>0, <1>2, <1>6, <2>2, InstalledFrom DEF ch, Undoing
  <2>4. ASSUME NEW m \in ch.moves, m[2] = s, journal[m[1]].text # Nil, disk[s] = journal[m[1]]
        PROVE  rows'[s].digest = disk[s].text
    <3>1. CASE \E n \in ch.moves : n[2] = s /\ rows[n[1]].id # Nil /\ rows'[s] = rows[n[1]]
      <4>1. rows'[s] = rows[m[1]]
        BY <1>1, <2>4, <3>1, MovesAssumption
      <4>2. m[1] \in Covered /\ Before(m[1]) = disk[s]
        BY <1>3, <1>m, <2>4
      <4> QED
        BY <1>2, <4>1, <4>2 DEF FreshInv, StatsTell
    <3>2. CASE s \notin Leaving(ch) /\ rows'[s] = rows[s]
      <4>1. rows[s].id # Nil
        BY <3>2 DEF FreshInv, StampsInv, SoundRows, HasRow
      <4>2. Before(s).text # Nil
        BY <1>0, <1>3, <1>6, <1>p, <4>1
      <4>3. s \in Leaving(ch)
        BY <1>0, <2>4, <4>2 DEF FreshInv, FreeStill, Undoing, ch
      <4> QED
        BY <3>2, <4>3
    <3> QED
      BY <1>4, <1>n, <3>1, <3>2
  <2>5. ASSUME s \notin Leaving(ch), disk[s] = journal[s], \A m \in ch.moves : m[2] = s => journal[m[1]].text = Nil
        PROVE  rows'[s].digest = disk[s].text
    <3>1. \A m \in ch.moves : m[2] = s => rows[m[1]].id = Nil
      BY <1>m, <1>p, <2>5
    <3>2. rows'[s] = rows[s]
      BY <1>4, <1>n, <3>1
    <3>3. Before(s) = disk[s]
      BY <1>0, <1>3, <2>5
    <3> QED
      BY <1>2, <3>2, <3>3 DEF FreshInv, StatsTell
  <2> QED
    BY <1>2, <2>3, <2>4, <2>5
<1> QED
  BY <1>5, <1>6

\* A crash in the middle of an install leaves files without rows, or older than the rows
\* know, as long as nothing lands on what the same changeset leaves.
LEMMA CrashTells ==
    ASSUME FilesInv, FreshInv, MaxCrashes = 0 \/ Untangled
    PROVE  Crash => StatsTell'
<1> SUFFICES ASSUME Crash, NEW s \in Covered,
                    Before(s)'.text # Nil, rows'[s].digest # Nil, rows'[s].stat = Before(s)'.stat
             PROVE  rows'[s].digest = Before(s)'.text
  BY DEF StatsTell, Covered
<1>0. /\ s \in Stem /\ UNCHANGED <<disk, rows>> /\ pc' = [t \in Task |-> "idle"] /\ Untangled
      /\ rows[s].digest # Nil
  <2>1. crashes \in Nat /\ crashes < MaxCrashes
    BY DEF Crash, FilesInv, TypeOK
  <2> QED
    BY <2>1 DEF Crash, Covered, durable
<1>1. Before(s)' = disk[s]
  BY <1>0 DEF Before, Undoable
<1>2. CASE Before(s) = disk[s]
  BY <1>0, <1>1, <1>2 DEF FreshInv, StatsTell
<1>3. CASE Before(s) # disk[s]
  <2>1. PICK t \in Task : pc[t] \in Undoing /\ s \in Touched(change[t])
    BY <1>3 DEF Before, Undoable, Undoing
  <2>2. Before(s) = journal[s]
    BY <2>1 DEF Before, Undoable, Undoing
  <2>3. pc[t] = "transacting" => disk[s].stat # clock
    <3>1. pc[t] = "transacting" => rows[s].stat < clock /\ rows[s].stat \in Nat /\ clock \in Nat
      BY <1>0, FilesTyped DEF FreshInv, StampsInv, StatsPast, Row
    <3> QED
      BY <1>0, <1>1, <3>1
  <2>4. PICK m \in change[t].moves : m[2] = s
    BY <1>1, <1>3, <2>1, <2>2, <2>3, InstalledFrom
  <2>5. rows[s].id # Nil
    BY <1>0 DEF FreshInv, StampsInv, SoundRows, HasRow
  <2>6. journal[s].text # Nil
    BY <1>0, <2>1, <2>5 DEF FilesInv, RowsInv, RowsParked, HasRow, Undoing
  <2>7. s \in Leaving(change[t])
    BY <2>1, <2>2, <2>4, <2>6 DEF FreshInv, FreeStill
  <2>8. change[t] \in Changes \cup Archive
    BY <2>1 DEF FilesInv, InflightInv, KnownChanges, Committing, Undoing
  <2> QED
    BY <1>0, <2>4, <2>7, <2>8 DEF Untangled
<1> QED
  BY <1>2, <1>3

\* A wipe takes rows first, then files.
LEMMA WipeTells ==
    ASSUME FilesInv, FreshInv, NEW t \in Task
    PROVE  WipeRows(t) \/ WipeFiles(t) => StatsTell'
<1> USE DEF Goto
<1>1. ASSUME WipeRows(t) PROVE StatsTell'
  <2>1. \A s \in Stem : rows'[s].digest = Nil
    BY <1>1 DEF WipeRows, NoRow
  <2> QED
    BY <2>1 DEF StatsTell, Covered
<1>2. ASSUME WipeFiles(t) PROVE StatsTell'
  <2>1. pc[t] = "wipe_files" /\ pc[t] \in Inside /\ pc' = [pc EXCEPT ![t] = "idle"] /\ rows' = rows
    BY <1>2 DEF WipeFiles, Inside
  <2>2. \A u \in Task : pc[u] \notin Undoing /\ pc'[u] \notin Undoing
    BY <2>1, Holder, FilesTyped DEF Inside, Undoing
  <2>3. \A s \in Stem : Before(s) = disk[s] /\ Before(s)' = disk'[s]
    BY <2>2 DEF Before, Undoable, Undoing
  <2>4. \A s \in Stem : disk'[s] \in {disk[s], NoFile}
    BY <1>2 DEF WipeFiles
  <2>5. Covered' = Covered /\ Covered \subseteq Stem /\ NoFile.text = Nil
    BY DEF Covered, NoFile
  <2> QED
    BY <2>1, <2>3, <2>4, <2>5 DEF FreshInv, StatsTell
<1> QED
  BY <1>1, <1>2

\* A state nobody has installed anything in yet has no digest.
LEMMA RestFresh ==
    /\ Init => FreshInv
    /\ FilesInv /\ FreshInv /\ Crash => SyncsBoot' /\ FreeStill'
<1>1. Init => FreshInv
  <2>1. \A s \in Stem : NoRow.digest = Nil
    BY DEF NoRow
  <2> QED
    BY <2>1, RestStamps DEF Init, AtRest, FreshInv, SyncsBoot, FreeStill, StatsTell, Syncing, Undoing, Covered
<1>2. Crash => SyncsBoot' /\ FreeStill'
  BY DEF Crash, SyncsBoot, FreeStill, Syncing, Undoing
<1> QED
  BY <1>1, <1>2

\* Every step keeps digests, stats and texts together.
LEMMA FreshNext ==
    ASSUME FilesInv, FreshInv, ~AdminReset, ~LiveReindex, MaxCrashes = 0 \/ Untangled, [Next]_vars
    PROVE  FreshInv'
<1>1. StampsInv' /\ SyncsBoot' /\ FreeStill'
  BY StampsNext, SyncsNext, FreeNext DEF FreshInv
<1>2. ASSUME UNCHANGED rows, \A s \in Stem : Before(s)' = Before(s) PROVE StatsTell'
  BY <1>2 DEF FreshInv, StatsTell, Covered
<1>3. Steady => StatsTell'
  BY <1>2, BeforeStays DEF Steady
<1>4. ASSUME NEW t \in Task, Ask(t) \/ Lock(t) \/ Step(t) PROVE StatsTell'
  <2>1. Vacate(t) \/ Land(t) \/ RollBack(t) => StatsTell'
    <3>1. Vacate(t) \/ Land(t) \/ RollBack(t) => UNCHANGED rows /\ ~Transact(t) /\ ~WipeFiles(t)
      BY FilesTyped DEF Vacate, Land, RollBack, Transact, WipeFiles, Goto, Finish
    <3> QED
      BY <1>2, <1>4, <3>1, BeforeKept
  <2> QED
    BY <1>3, <1>4, <2>1, SteadyOrNot, IndexTells, VisitTells, TransactTells, WipeTells
<1>5. StatsTell'
  BY <1>3, <1>4, ImportSteady, CrashTells DEF Next
<1> QED
  BY <1>1, <1>5 DEF FreshInv

\* What a digest or a stat vouches for are the chunks of the text on disk.
LEMMA FreshTells == FilesInv /\ FreshInv => NoSilentStale
<1> SUFFICES ASSUME FilesInv, FreshInv, NEW s \in Covered, OnDisk(s), Quiet(s), rows[s].digest # Nil,
                    rows[s].stat = disk[s].stat \/ rows[s].digest = disk[s].text
             PROVE  rows[s].chunks = disk[s].text
  BY DEF NoSilentStale
<1>1. Before(s) = disk[s]
  BY DEF Before, Undoable, Quiet, Installing
<1>2. rows[s].digest = disk[s].text
  BY <1>1 DEF FreshInv, StatsTell, OnDisk
<1> QED
  BY <1>2 DEF FreshInv, StampsInv, SoundRows

\* Unless an admin resets the workspace or reindexes it while the server is up, nothing a
\* change overlapped with is silently out of date: a row the next reconcile would take for
\* indexed holds the chunks of the text on disk, and no conversion replaced what it had not
\* seen. Where the process may crash, no changeset lands anything on what it leaves (a swap
\* of two entries), for its files could carry stats their rows know.
THEOREM NothingIsStale ==
    ASSUME ~AdminReset, ~LiveReindex, MaxCrashes = 0 \/ Untangled
    PROVE  Spec => []NothingStale
<1>1. Init => FreshInv
  BY RestFresh
<1>2. FilesInv /\ FreshInv /\ [Next]_vars => FreshInv'
  BY FreshNext
<1>3. FilesInv /\ FreshInv => NoSilentStale
  BY FreshTells
<1>4. NoSilentStale /\ NoLostUpdate => NothingStale
  BY DEF NothingStale
<1> QED
  BY <1>1, <1>2, <1>3, <1>4, FilesAlways, UpdatesAreKept, PTL DEF Spec

----------------------------------------------------------------------------
(* The startup reconcile repairs what it finds *)

\* What a sync has visited and not failed to index is indexed, or being indexed.
RepairsSoFar ==
    \A t \in Task, s \in Covered : OnDisk(s) =>
        /\ pc[t] \in {"sy_states", "sy_wait"} => s \in refs[t]
        /\ pc[t] = "syncing" =>
             \/ s \in refs[t] \cup skipped
             \/ jobs[t][s].stage # "none"
             \/ HasRow(s) /\ rows[s].digest # Nil /\ rows[s].chunks = disk[s].text

\* An index under a sync ends with its entry indexed, or noted as failed.
LEMMA SyncIndexRepairs ==
    ASSUME FilesInv, FreshInv, RepairsSoFar, NEW t \in Task, pc[t] = "syncing", NEW s \in Covered, OnDisk(s)
    PROVE  Index(t) \/ IndexFailure(t) =>
             \/ s \in refs'[t] \cup skipped'
             \/ jobs'[t][s].stage # "none"
             \/ rows'[s].id # Nil /\ rows'[s].digest # Nil /\ rows'[s].chunks = disk[s].text
<1> USE DEF gates, commits, syncs, imports, world, durable
<1> SUFFICES ASSUME NEW q \in Stem, Upsert(t, q) \/ StoreChunks(t, q) \/ Stamp(t, q) \/ IndexFails(t, q)
             PROVE  \/ s \in refs'[t] \cup skipped'
                    \/ jobs'[t][s].stage # "none"
                    \/ rows'[s].id # Nil /\ rows'[s].digest # Nil /\ rows'[s].chunks = disk[s].text
  BY DEF Index, IndexFailure
<1>0. s \in Stem /\ mode = "boot" /\ refs' = refs
  BY DEF Covered, FreshInv, SyncsBoot, Syncing, Upsert, StoreChunks, Stamp, IndexFails
<1>1. CASE q # s
  <2>1. jobs'[t][s] = jobs[t][s]
    <3>1. PICK job : jobs' = [jobs EXCEPT ![t][q] = job]
      BY DEF Upsert, StoreChunks, Stamp, IndexFails, SetJob
    <3> QED
      BY <1>0, <1>1, <3>1, FilesTyped
  <2>2. rows'[s] = rows[s]
    <3>1. Stored(t, q) => s \notin Holders(jobs[t][q].id)
      BY <1>1, StoredAlone DEF FreshInv
    <3>2. Upsert(t, q) \/ IndexFails(t, q) => rows'[s] = rows[s]
      BY <1>0, <1>1, FilesTyped DEF Upsert, IndexFails
    <3>3. StoreChunks(t, q) => rows'[s] = rows[s]
      BY <1>0, <3>1 DEF StoreChunks, Stored
    <3>4. Stamp(t, q) => rows'[s] = rows[s]
      BY <1>0, <3>1 DEF Stamp, Stored
    <3> QED
      BY <3>2, <3>3, <3>4
  <2>3. skipped \subseteq skipped'
    BY DEF Upsert, StoreChunks, Stamp, IndexFails
  <2> QED
    BY <1>0, <2>1, <2>2, <2>3 DEF RepairsSoFar, HasRow
<1>2. CASE q = s /\ (Upsert(t, q) \/ StoreChunks(t, q))
  <2>1. jobs[t][s] \in Job
    BY <1>0, FilesTyped
  <2>2. CASE Upsert(t, s)
    <3>1. PICK i : jobs' = [jobs EXCEPT ![t][s] = [jobs[t][s] EXCEPT !.stage = "store", !.id = i]]
      BY <2>2 DEF Upsert, SetJob
    <3> DEFINE job == [jobs[t][s] EXCEPT !.stage = "store", !.id = i]
    <3>2. job.stage # "none"
      BY <2>1 DEF Job
    <3> HIDE DEF job
    <3>3. jobs' = [jobs EXCEPT ![t][s] = job]
      BY <3>1 DEF job
    <3>4. jobs'[t][s] = job
      BY <1>0, <3>3, FilesTyped
    <3> QED
      BY <3>2, <3>4
  <2>3. CASE StoreChunks(t, s)
    <3> DEFINE job == [jobs[t][s] EXCEPT !.stage = "stamp"]
    <3>1. job.stage # "none"
      BY <2>1 DEF Job
    <3> HIDE DEF job
    <3>2. jobs' = [jobs EXCEPT ![t][s] = job]
      BY <2>3 DEF StoreChunks, SetJob, job
    <3>3. jobs'[t][s] = job
      BY <1>0, <3>2, FilesTyped
    <3> QED
      BY <3>1, <3>3
  <2> QED
    BY <1>2, <2>2, <2>3
<1>3. CASE q = s /\ Stamp(t, q)
  <2>1. Stored(t, s) /\ jobs[t][s].stage = "stamp"
    BY <1>3 DEF Stamp, Stored
  <2>2. s \in Holders(jobs[t][s].id)
    BY <1>0, <2>1, StoredAlone DEF FreshInv
  <2>3. rows[s].id # Nil /\ rows[s].chunks = jobs[t][s].text
    <3>1. jobs[t][s].id # Nil
      BY <1>0, <2>1 DEF FreshInv, StampsInv, JobRows
    <3>2. rows[s].id = jobs[t][s].id /\ rows[s].chunks = jobs[t][s].text
      BY <2>1 DEF FreshInv, StampsInv, BlankRows
    <3> QED
      BY <3>1, <3>2
  <2>6. disk[s].text = jobs[t][s].text /\ jobs[t][s].text # Nil
    <3>1. pc[t] \in Visiting /\ jobs[t][s].stage # "none"
      BY <2>1 DEF Visiting
    <3>2. disk[s] = [text |-> jobs[t][s].text, stat |-> jobs[t][s].stat]
      BY <1>0, <3>1 DEF FreshInv, StampsInv, VisitedHold
    <3>3. disk[s].text = jobs[t][s].text
      BY <3>2
    <3> QED
      BY <3>3 DEF OnDisk
  <2>4. rows[s] \in Row
    BY <1>0, FilesTyped
  <2>5. rows'[s].id = rows[s].id /\ rows'[s].chunks = rows[s].chunks /\ rows'[s].digest = jobs[t][s].text
    BY <1>0, <1>3, <2>2, <2>4 DEF Stamp, Row
  <2> QED
    BY <2>3, <2>6, <2>5
<1>4. CASE q = s /\ IndexFails(t, q)
  BY <1>0, <1>4 DEF IndexFails
<1> QED
  BY <1>1, <1>2, <1>3, <1>4

\* Every step keeps what is repaired so far.
LEMMA RepairsNext ==
    ASSUME FilesInv, FreshInv, RepairsSoFar, ~AdminReset, [Next]_vars
    PROVE  RepairsSoFar'
<1> USE DEF gates, commits, syncs, imports, world, durable
<1> SUFFICES ASSUME NEW u \in Task, pc'[u] \in Syncing, NEW s \in Covered, disk'[s].text # Nil
             PROVE  /\ pc'[u] \in {"sy_states", "sy_wait"} => s \in refs'[u]
                    /\ pc'[u] = "syncing" =>
                         \/ s \in refs'[u] \cup skipped'
                         \/ jobs'[u][s].stage # "none"
                         \/ rows'[s].id # Nil /\ rows'[s].digest # Nil /\ rows'[s].chunks = disk'[s].text
  BY DEF RepairsSoFar, Syncing, Covered, OnDisk, HasRow
<1> DEFINE Goal == /\ pc'[u] \in {"sy_states", "sy_wait"} => s \in refs'[u]
                   /\ pc'[u] = "syncing" =>
                         \/ s \in refs'[u] \cup skipped'
                         \/ jobs'[u][s].stage # "none"
                         \/ rows'[s].id # Nil /\ rows'[s].digest # Nil /\ rows'[s].chunks = disk'[s].text
<1>0. s \in Stem /\ refs[u] \subseteq Stem
  BY FilesTyped DEF Covered
<1>1. ASSUME UNCHANGED <<disk, rows, jobs, refs, skipped>>, pc'[u] = pc[u] PROVE Goal
  BY <1>1 DEF RepairsSoFar, OnDisk, HasRow
<1>2. CASE UNCHANGED vars
  BY <1>1, <1>2 DEF vars
<1>3. CASE Crash
  BY <1>3 DEF Crash, Syncing
<1>4. ASSUME NEW c \in Collection, ClaimStore(c) \/ CancelImport(c) \/ Import(c) PROVE Goal
  BY <1>1, <1>4, ImportMoves DEF Syncing
<1>5. ASSUME NEW t \in Task, t # u, Ask(t) \/ Lock(t) \/ Step(t) PROVE Goal
  <2>1. pc[u] = pc'[u]
    BY <1>5, OthersStay DEF FilesInv, OthersKept
  <2>2. mode = "boot" /\ pc[t] = "idle"
    BY <1>5, <2>1 DEF FreshInv, SyncsBoot, FilesInv, RowsInv, BootAlone, Syncing
  <2> QED
    BY <1>5, <2>1, <2>2, BootMoves DEF Syncing
<1>6. CASE Ask(u) \/ Lock(u) \/ Step(u)
  <2>1. CASE SyncRefs(u)
    BY <1>0, <2>1, FilesTyped DEF SyncRefs, Goto, OnDisk
  <2>2. CASE SyncStates(u)
    BY <1>0, <2>2, FilesTyped DEF SyncStates, Goto, RepairsSoFar, OnDisk
  <2>3. CASE SyncLock(u)
    BY <1>0, <2>3, FilesTyped DEF SyncLock, Goto, RepairsSoFar, OnDisk
  <2>4. CASE Index(u) \/ IndexFailure(u)
    <3>1. UNCHANGED <<pc, disk>>
      BY <2>4 DEF Index, IndexFailure, Upsert, StoreChunks, Stamp, IndexFails
    <3>2. pc[u] = "syncing"
      <4>1. \E r \in Stem : jobs[u][r].stage # "none"
        BY <2>4 DEF Index, IndexFailure, Upsert, StoreChunks, Stamp, IndexFails
      <4> QED
        BY <3>1, <4>1 DEF FilesInv, InflightInv, JobsOwned, Syncing
    <3> QED
      BY <2>4, <3>1, <3>2, SyncIndexRepairs DEF OnDisk
  <2>5. ASSUME NEW q \in Stem, SyncGone(u, q) \/ SyncFresh(u, q) \/ SyncIndex(u, q) PROVE Goal
    <3>1. /\ UNCHANGED <<pc, disk, skipped>> /\ pc[u] = "syncing" /\ refs'[u] = refs[u] \ {q}
          /\ \A r \in Stem \ {q} : rows'[r] = rows[r] /\ jobs'[u][r] = jobs[u][r]
      BY <2>5, FilesTyped DEF SyncGone, SyncFresh, SyncIndex, Visit, SetJob
    <3>2. CASE q # s
      BY <1>0, <3>1, <3>2 DEF RepairsSoFar, OnDisk, HasRow
    <3>3. CASE q = s /\ SyncGone(u, s)
      BY <3>1, <3>3 DEF SyncGone, OnDisk
    <3>4. CASE q = s /\ SyncFresh(u, s)
      <4>1. rows[s].digest # Nil /\ rows[s].digest = disk[s].text
        BY <3>4, FreshIsFresh
      <4>2. rows[s].id # Nil /\ rows[s].chunks = disk[s].text
        BY <4>1 DEF FreshInv, StampsInv, SoundRows, HasRow
      <4>3. rows'[s].id = rows[s].id /\ rows'[s].digest = rows[s].digest /\ rows'[s].chunks = rows[s].chunks
        <5>1. rows' = rows \/ rows' = [rows EXCEPT ![s].stat = disk[s].stat]
          BY <3>4 DEF SyncFresh
        <5> QED
          BY <1>0, <5>1, FilesTyped DEF Row
      <4> QED
        BY <3>1, <4>1, <4>2, <4>3
    <3>5. CASE q = s /\ SyncIndex(u, s)
      <4>1. jobs'[u][s] = Started(s) /\ Started(s).stage # "none"
        BY <1>0, <3>5, FilesTyped DEF SyncIndex, SetJob, Started
      <4> QED
        BY <3>1, <4>1
    <3> QED
      BY <2>5, <3>2, <3>3, <3>4, <3>5
  <2> QED
    BY <1>6, <2>1, <2>2, <2>3, <2>4, <2>5, SyncPhases
<1> QED
  BY <1>2, <1>3, <1>4, <1>5, <1>6 DEF Next

\* The server goes up when the startup reconcile is done.
LEMMA BootEnds ==
    ASSUME FilesInv, ~AdminReset, mode = "boot", mode' = "up", [Next]_vars
    PROVE  \E t \in Task : SyncDone(t)
<1> USE DEF gates, commits, syncs, imports, world, durable
<1>1. mode # "up"
  OBVIOUS
<1>2. ~(UNCHANGED vars) /\ ~Crash
  BY <1>1 DEF vars, Crash
<1>3. \A c \in Collection : ~(ClaimStore(c) \/ CancelImport(c) \/ Import(c))
  BY <1>1, ImportMoves
<1>4. ASSUME NEW t \in Task, Ask(t) \/ Lock(t) \/ Step(t), ~SyncDone(t) PROVE mode' = mode
  <2>1. Ask(t) => mode' = mode
    BY DEF Ask, Request, Plan, Submit, RkRequest, WipeRequest, SyncRefs, ResetFiles
  <2>2. Lock(t) => mode' = mode
    BY DEF Lock, Acquire, RkLock, WipeLock, WipeRefuse, SyncLock, SyncRefuse
  <2>3. Commit(t) => mode' = mode
    BY DEF Commit, Converted, ConversionEnds, Resolve, Refuse, Finish, Vacate, Land, RollBack, Transact, Claim,
       Settle
  <2>4. Index(t) \/ IndexFailure(t) => mode' = mode
    BY DEF Index, IndexFailure, Upsert, StoreChunks, Stamp, IndexFails
  <2>5. Rechunk(t) \/ Wipe(t) \/ ResetRows(t) => mode' = mode
    BY DEF Rechunk, RkRefuse, RkDone, Wipe, WipeRows, WipeFiles, ResetRows
  <2>6. Reconcile(t) => mode' = mode
    BY <1>4 DEF Reconcile, SyncStates, Sync, SyncGone, SyncFresh, SyncIndex, Visit
  <2> QED
    BY <1>4, <2>1, <2>2, <2>3, <2>4, <2>5, <2>6 DEF Step
<1> QED
  BY <1>1, <1>2, <1>3, <1>4 DEF Next

\* When the startup reconcile hands over to the server, every covered description whose
\* indexing did not fail is indexed with the text on disk, and every covered row has its file.
LEMMA HandsOver ==
    ASSUME FilesInv, FreshInv, RepairsSoFar, ~AdminReset, mode = "boot", mode' = "up", [Next]_vars
    PROVE  /\ \A s \in Covered \ skipped : OnDisk(s) =>
                HasRow(s) /\ rows[s].digest # Nil /\ rows[s].chunks = disk[s].text
           /\ \A s \in Covered : HasRow(s) => OnDisk(s)
<1>1. PICK t \in Task : SyncDone(t)
  BY BootEnds
<1>2. pc[t] = "syncing" /\ refs[t] = {} /\ \A s \in Stem : jobs[t][s].stage = "none"
  BY <1>1 DEF SyncDone, NoJob
<1>3. ASSUME NEW s \in Covered \ skipped, OnDisk(s)
      PROVE  HasRow(s) /\ rows[s].digest # Nil /\ rows[s].chunks = disk[s].text
  BY <1>2, <1>3 DEF RepairsSoFar, Covered
<1>4. ASSUME NEW s \in Covered, HasRow(s) PROVE OnDisk(s)
  BY <1>2, <1>4 DEF FilesInv, RowsInv, BootRefs
<1> QED
  BY <1>3, <1>4

\* When the startup reconcile hands over to the server, every covered description on disk
\* whose indexing did not fail is indexed, and every covered row has its file.
CoveredRepairs ==
    [][mode = "boot" /\ mode' = "up" =>
         /\ \A s \in Covered \ skipped : OnDisk(s) =>
              HasRow(s) /\ rows[s].digest # Nil /\ rows[s].chunks = disk[s].text
         /\ \A s \in Covered : HasRow(s) => OnDisk(s)]_vars

\* Unless an admin resets the workspace or reindexes it while the server is up, the startup
\* reconcile repairs what it finds, wherever crashes left the files and the rows: of every
\* entry whose changes are checked against the entries in flight it hands over an index
\* of the text on disk, or the note that indexing it failed.
THEOREM StartupRepairs ==
    ASSUME ~AdminReset, ~LiveReindex, MaxCrashes = 0 \/ Untangled
    PROVE  Spec => CoveredRepairs
<1>1. Init => FreshInv
  BY RestFresh
<1>2. Init => RepairsSoFar
  BY DEF Init, AtRest, RepairsSoFar
<1>3. FilesInv /\ FreshInv /\ [Next]_vars => FreshInv'
  BY FreshNext
<1>4. FilesInv /\ FreshInv /\ RepairsSoFar /\ [Next]_vars => RepairsSoFar'
  BY RepairsNext
<1>5. FilesInv /\ FreshInv /\ RepairsSoFar /\ [Next]_vars =>
        [mode = "boot" /\ mode' = "up" =>
         /\ \A s \in Covered \ skipped : OnDisk(s) =>
              HasRow(s) /\ rows[s].digest # Nil /\ rows[s].chunks = disk[s].text
         /\ \A s \in Covered : HasRow(s) => OnDisk(s)]_vars
  BY HandsOver
<1> QED
  BY <1>1, <1>2, <1>3, <1>4, <1>5, FilesAlways, PTL DEF Spec, CoveredRepairs

\* Under the same proviso what was committed lasts, in a workspace whose entries are all
\* checked against the ones in flight: the startup reconcile repairs every one of them,
\* and no wipe or directory operation takes the files of an import still running.
THEOREM CommitsAreLasting ==
    ASSUME ~AdminReset, ~LiveReindex, MaxCrashes = 0 \/ Untangled, Covered = Stem
    PROVE  Spec => CommitsLast
<1>1. [mode = "boot" /\ mode' = "up" =>
         /\ \A s \in Covered \ skipped : OnDisk(s) =>
              HasRow(s) /\ rows[s].digest # Nil /\ rows[s].chunks = disk[s].text
         /\ \A s \in Covered : HasRow(s) => OnDisk(s)]_vars
      => [mode = "boot" /\ mode' = "up" =>
           /\ \A s \in Stem \ skipped : OnDisk(s) =>
                HasRow(s) /\ rows[s].digest # Nil /\ rows[s].chunks = disk[s].text
           /\ \A s \in Stem : HasRow(s) => OnDisk(s)]_vars
  OBVIOUS
<1> QED
  BY <1>1, StartupRepairs, ImportsAreKept, PTL DEF CommitsLast, BootRepairs, CoveredRepairs
=============================================================================
