---------------------- MODULE WorkspaceAtomicityProofs ----------------------
(***************************************************************************)
(* A document row has its file, and a changeset is all or nothing, for     *)
(* every set of stems, tasks and changesets the planner could have made.   *)
(***************************************************************************)
EXTENDS WorkspaceAtomicity, WorkspaceProofs

Starting == {"idle", "sy_states", "sy_wait", "syncing"}
Visiting == {"rechunking", "syncing"}
Critical == Installing \cup {"wipe_files"}

\* The startup reconcile is alone.
BootAlone ==
    /\ mode = "boot" => /\ \A t \in Task : pc[t] \in Starting
                        /\ \A t, u \in Task : pc[t] # "idle" /\ pc[u] # "idle" => t = u
    /\ \A t \in Task : pc[t] # "ar_rows"

\* What is indexed is a text, and under the lock it is on disk.
JobsHold ==
    \A t \in Task, s \in Stem : jobs[t][s].stage # "none" =>
        jobs[t][s].text # Nil /\ (pc[t] \in Visiting => OnDisk(s))

\* The files a changeset touches are what its steps so far made of those it found.
Installed ==
    \A t \in Task :
        /\ pc[t] = "landing" => \A s \in Touched(change[t]) : disk[s] = Vacated(change[t], journal)[s]
        /\ pc[t] = "transacting" =>
             \A s \in Touched(change[t]) :
                disk[s] = Landed(change[t], journal, Vacated(change[t], journal), clock)[s]
        /\ pc[t] = "claiming" => \A s \in Written(change[t]) : OnDisk(s)

\* While the files move, a row has the file that was found, and then its file.
RowsParked ==
    \A t \in Task : pc[t] \in {"landing", "transacting"} =>
        \A s \in Touched(change[t]) \cap Covered : HasRow(s) => journal[s].text # Nil

RowsLanded ==
    \A t \in Task : pc[t] = "claiming" =>
        \A s \in Touched(change[t]) \cap Covered : HasRow(s) => OnDisk(s)

\* A wipe removes files no row is about.
RowsWiped == \A t \in Task : pc[t] = "wipe_files" => \A s \in Covered : ~HasRow(s)

\* The startup reconcile has every row without a file before it.
BootRefs ==
    \A t \in Task : mode = "boot" /\ pc[t] \in {"sy_wait", "syncing"} =>
        \A s \in Covered : HasRow(s) => OnDisk(s) \/ s \in refs[t]

RowsInv == /\ BootAlone /\ JobsHold /\ Installed /\ RowsParked /\ RowsLanded
           /\ RowsWiped /\ BootRefs /\ NoOrphan

FilesInv == TypeOK /\ InflightInv /\ RowsInv

----------------------------------------------------------------------------
(* Steps that change neither files nor rows *)

\* A task that is in the middle of an install or a wipe stays there.
CriticalStay ==
    \A u \in Task : pc[u] \in Critical \/ pc'[u] \in Critical => pc'[u] = pc[u] /\ change'[u] = change[u]

\* Neither a file nor a row nor an install changes.
Still == CriticalStay /\ UNCHANGED <<disk, rows, journal>>

\* What is about files and rows stays true.
LEMMA RowsStand ==
    ASSUME RowsInv, UNCHANGED <<disk, rows, journal, mode, clock>>, CriticalStay
    PROVE  (Installed /\ RowsParked /\ RowsLanded /\ RowsWiped /\ NoOrphan)'
<1> USE DEF CriticalStay, Critical, Installing, HasRow, OnDisk
<1>1. Installed'
  BY DEF RowsInv, Installed
<1>2. (RowsParked /\ RowsLanded /\ RowsWiped)'
  BY DEF RowsInv, RowsParked, RowsLanded, RowsWiped, Covered
<1>3. NoOrphan'
  <2>1. Covered' = Covered /\ \A s \in Covered : Quiet(s)' => Quiet(s)
    BY DEF Covered, Quiet
  <2> QED
    BY <2>1 DEF RowsInv, NoOrphan
<1> QED
  BY <1>1, <1>2, <1>3

\* An index goes on, or starts from a text on disk.
LEMMA JobsStand ==
    ASSUME FilesInv, UNCHANGED disk,
           \A u \in Task : pc'[u] \in Visiting => pc[u] = pc'[u] \/ pc[u] \in {"rk_wait", "sy_wait"},
           \A u \in Task, s \in Stem : jobs'[u][s].stage # "none" =>
              \/ jobs[u][s].stage # "none" /\ jobs'[u][s].text = jobs[u][s].text
              \/ jobs'[u][s] = Started(s) /\ OnDisk(s)
    PROVE  JobsHold'
<1> SUFFICES ASSUME NEW u \in Task, NEW s \in Stem, jobs'[u][s].stage # "none"
             PROVE  jobs'[u][s].text # Nil /\ (pc'[u] \in Visiting => disk[s].text # Nil)
  BY DEF JobsHold, OnDisk
<1>1. CASE jobs[u][s].stage # "none" /\ jobs'[u][s].text = jobs[u][s].text
  <2>1. pc[u] \in {"indexing", "rechunking", "syncing"}
    BY <1>1 DEF FilesInv, InflightInv, JobsOwned
  <2> QED
    BY <1>1, <2>1 DEF FilesInv, RowsInv, JobsHold, OnDisk, Visiting
<1>2. CASE jobs'[u][s] = Started(s) /\ OnDisk(s)
  BY <1>2 DEF Started, OnDisk
<1> QED
  BY <1>1, <1>2

\* A server that is up stays up.
LEMMA UpStand ==
    ASSUME mode = "up", mode' = "up", \A u \in Task : pc'[u] # "ar_rows"
    PROVE  BootAlone' /\ BootRefs'
  BY DEF BootAlone, BootRefs

\* What a request, a lock or the end of an operation changes is none of it.
LEMMA QuietStep ==
    ASSUME FilesInv, mode = "up", UNCHANGED <<disk, rows, journal, mode, clock>>, CriticalStay,
           \A u \in Task : pc'[u] # "ar_rows",
           \A u \in Task : pc'[u] \in Visiting => pc[u] = pc'[u] \/ pc[u] \in {"rk_wait", "sy_wait"},
           \A u \in Task, s \in Stem : jobs'[u][s].stage # "none" =>
              \/ jobs[u][s].stage # "none" /\ jobs'[u][s].text = jobs[u][s].text
              \/ jobs'[u][s] = Started(s) /\ OnDisk(s)
    PROVE  RowsInv'
<1>1. JobsHold'
  BY JobsStand
<1>2. (Installed /\ RowsParked /\ RowsLanded /\ RowsWiped /\ NoOrphan)'
  BY RowsStand DEF FilesInv
<1>3. (BootAlone /\ BootRefs)'
  BY UpStand
<1> QED
  BY <1>1, <1>2, <1>3 DEF RowsInv

\* Outside the startup reconcile's phases the server is up.
LEMMA UpThen ==
    ASSUME FilesInv, NEW t \in Task, pc[t] \notin Starting
    PROVE  mode = "up"
  BY DEF FilesInv, TypeOK, RowsInv, BootAlone

\* Requests, and the steps of a changeset outside its install.
LEMMA RequestsRows ==
    ASSUME FilesInv, ~AdminReset, NEW t \in Task
    PROVE  (\/ Request(t) \/ RkRequest(t) \/ WipeRequest(t) \/ ResetFiles(t)
            \/ Converted(t) \/ ConversionEnds(t) \/ Acquire(t) \/ Resolve(t) \/ Refuse(t) \/ Settle(t)
            \/ RkLock(t) \/ RkRefuse(t) \/ RkDone(t) \/ WipeLock(t) \/ WipeRefuse(t)) => RowsInv' /\ Still
<1> USE DEF gates, commits, syncs, imports, world, durable, Goto, Critical, Installing, Visiting, CriticalStay, Still
<1>0. pc \in [Task -> Phase] /\ change \in [Task -> ChangeRecord] /\ jobs \in [Task -> [Stem -> Job]]
  BY DEF FilesInv, TypeOK
<1>r. \A u \in Task : pc[u] # "ar_rows"
  BY DEF FilesInv, RowsInv, BootAlone
<1>1. ASSUME NEW x, x \notin Critical \cup {"ar_rows"} \cup Visiting, pc' = [pc EXCEPT ![t] = x],
             pc[t] \notin Critical, mode = "up",
             UNCHANGED <<disk, rows, journal, mode, clock, jobs>>, \A u \in Task \ {t} : change'[u] = change[u]
      PROVE  RowsInv' /\ Still
  BY <1>0, <1>r, <1>1, QuietStep
<1>2. ASSUME Request(t) PROVE RowsInv' /\ Still
  <2>1. PICK ch \in Changes : Plan(t, ch) \/ Submit(t, ch)
    BY <1>2 DEF Request
  <2>2. PICK x \in {"converting", "waiting"} : pc' = [pc EXCEPT ![t] = x]
    BY <2>1 DEF Plan, Submit
  <2>3. /\ pc[t] = "idle" /\ mode = "up" /\ UNCHANGED <<disk, rows, journal, mode, clock, jobs>>
        /\ change' = [change EXCEPT ![t] = ch]
    BY <2>1 DEF Plan, Submit, Idle
  <2> QED
    BY <1>0, <1>1, <2>2, <2>3
<1>3. ASSUME RkRequest(t) \/ WipeRequest(t) PROVE RowsInv' /\ Still
  BY <1>1, <1>3 DEF RkRequest, WipeRequest, Idle
<1>4. ASSUME ResetFiles(t) PROVE RowsInv' /\ Still
  BY <1>4 DEF ResetFiles
<1>5. ASSUME Converted(t) \/ Acquire(t) PROVE RowsInv' /\ Still
  <2>1. pc[t] \notin Starting
    BY <1>5 DEF Converted, Acquire, Starting
  <2>2. mode = "up"
    BY <2>1, UpThen
  <2> QED
    BY <1>1, <1>5, <2>2 DEF Converted, Acquire
<1>6. ASSUME ConversionEnds(t) \/ Refuse(t) \/ Settle(t) PROVE RowsInv' /\ Still
  <2>1. pc[t] \notin Starting
    BY <1>6 DEF ConversionEnds, Refuse, Settle, Starting
  <2>2. mode = "up"
    BY <2>1, UpThen
  <2>3. /\ pc' = [pc EXCEPT ![t] = "idle"] /\ UNCHANGED <<disk, rows, journal, mode, clock, jobs>>
        /\ change' = [change EXCEPT ![t] = NoChange] /\ pc[t] \in {"converting", "resolving", "indexing"}
    BY <1>6 DEF ConversionEnds, Refuse, Settle, Finish
  <2> QED
    BY <1>0, <1>1, <2>2, <2>3
<1>7. ASSUME Resolve(t) PROVE RowsInv' /\ Still
  <2>1. pc[t] \notin Starting
    BY <1>7 DEF Resolve, Starting
  <2>2. mode = "up"
    BY <2>1, UpThen
  <2> QED
    BY <1>1, <1>7, <2>2 DEF Resolve
<1>8. ASSUME RkLock(t) PROVE RowsInv' /\ Still
  <2>1. pc[t] \notin Starting
    BY <1>8 DEF RkLock, Starting
  <2>2. mode = "up"
    BY <2>1, UpThen
  <2>3. /\ pc' = [pc EXCEPT ![t] = "rechunking"] /\ pc[t] = "rk_wait"
        /\ UNCHANGED <<disk, rows, journal, mode, clock, change>>
        /\ jobs' = [jobs EXCEPT ![t] = [s \in Stem |-> IF s \in refs[t] THEN Started(s) ELSE NoJob]]
        /\ \A s \in refs[t] : OnDisk(s)
    BY <1>8 DEF RkLock
  <2>4. NoJob.stage = "none"
    BY DEF NoJob
  <2>5. \A u \in Task, s \in Stem : jobs'[u][s].stage # "none" =>
              \/ jobs[u][s].stage # "none" /\ jobs'[u][s].text = jobs[u][s].text
              \/ jobs'[u][s] = Started(s) /\ OnDisk(s)
    BY <1>0, <2>3, <2>4
  <2> QED
    BY <1>0, <1>r, <2>2, <2>3, <2>5, QuietStep
<1>9. ASSUME RkRefuse(t) \/ RkDone(t) \/ WipeLock(t) \/ WipeRefuse(t) PROVE RowsInv' /\ Still
  <2>1. pc[t] \notin Starting
    BY <1>9 DEF RkRefuse, RkDone, WipeLock, WipeRefuse, Starting
  <2>2. mode = "up"
    BY <2>1, UpThen
  <2>3. PICK x \in {"idle", "wipe_rows"} : pc' = [pc EXCEPT ![t] = x]
    BY <1>9 DEF RkRefuse, RkDone, WipeLock, WipeRefuse
  <2> QED
    BY <1>1, <1>9, <2>2, <2>3 DEF RkRefuse, RkDone, WipeLock, WipeRefuse
<1> QED
  BY <1>2, <1>3, <1>4, <1>5, <1>6, <1>7, <1>8, <1>9

\* An index that fails, and a bulk import between its uploads.
LEMMA NothingMoves ==
    ASSUME FilesInv, UNCHANGED <<disk, rows, journal, mode, clock, pc, change, refs>>,
           \A u \in Task, s \in Stem : jobs'[u][s].stage # "none" =>
              jobs[u][s].stage # "none" /\ jobs'[u][s].text = jobs[u][s].text
    PROVE  RowsInv'
<1>1. JobsHold'
  BY JobsStand
<1>2. (Installed /\ RowsParked /\ RowsLanded /\ RowsWiped /\ NoOrphan)'
  BY RowsStand DEF FilesInv, CriticalStay
<1>3. (BootAlone /\ BootRefs)'
  BY DEF FilesInv, RowsInv, BootAlone, BootRefs, Covered, HasRow, OnDisk
<1> QED
  BY <1>1, <1>2, <1>3 DEF RowsInv

\* A bulk import's own steps.
LEMMA ImportRows ==
    ASSUME FilesInv, NEW c \in Collection
    PROVE  ClaimStore(c) \/ CancelImport(c) \/ Import(c) => RowsInv' /\ Still
<1> USE DEF gates, commits, syncs, imports, world, durable, Goto, Still, CriticalStay
<1>1. ASSUME ClaimStore(c) \/ CancelImport(c) \/ PlanImport(c) \/ FinishImport(c) PROVE RowsInv' /\ Still
  BY <1>1, NothingMoves DEF ClaimStore, CancelImport, PlanImport, FinishImport
<1>2. ASSUME NEW t \in Task, ImportFile(c, t) PROVE RowsInv' /\ Still
  <2>1. PICK ch \in left[c] :
          \/ Plan(t, ch)
          \/ UNCHANGED <<durable, gates, pc, commits, jobs, syncs, by, landed, importing, world>>
    BY <1>2 DEF ImportFile
  <2>2. CASE Plan(t, ch)
    <3>1. /\ pc[t] = "idle" /\ mode = "up" /\ UNCHANGED <<disk, rows, journal, mode, clock, jobs>>
          /\ change' = [change EXCEPT ![t] = ch] /\ pc' = [pc EXCEPT ![t] = "converting"]
      BY <2>2 DEF Plan, Idle
    <3>2. \A u \in Task : pc[u] # "ar_rows"
      BY DEF FilesInv, RowsInv, BootAlone
    <3>3. pc \in [Task -> Phase] /\ change \in [Task -> ChangeRecord]
      BY DEF FilesInv, TypeOK
    <3> QED
      BY <3>1, <3>2, <3>3, QuietStep DEF CriticalStay, Critical, Installing, Visiting
  <2>3. CASE UNCHANGED <<durable, gates, pc, commits, jobs, syncs, by, landed, importing, world>>
    BY <2>3, NothingMoves
  <2> QED
    BY <2>1, <2>2, <2>3
<1> QED
  BY <1>1, <1>2 DEF Import

----------------------------------------------------------------------------
(* Steps that change rows *)

\* Inside the lock a task is alone.
LEMMA Holder ==
    ASSUME FilesInv, NEW t \in Task, pc[t] \in Inside
    PROVE  \A u \in Task \ {t} : pc[u] \notin Inside
  BY DEF FilesInv, InflightInv, LockHeld

\* An index under way is of a text on disk, and of no stem an install or a wipe is at.
LEMMA IndexedIsThere ==
    ASSUME FilesInv, NEW t \in Task, NEW s \in Covered, jobs[t][s].stage # "none"
    PROVE  OnDisk(s) /\ \A u \in Task : pc[u] \in Critical => pc[u] # "wipe_files" /\ s \notin Touched(change[u])
<1>1. s \in Stem
  BY DEF Covered
<1>2. CASE pc[t] = "indexing"
  <2>1. Pending(t, s)
    BY <1>2 DEF Pending
  <2>2. OnDisk(s)
    <3>1. disk[s] = [text |-> jobs[t][s].text, stat |-> jobs[t][s].stat]
      BY <2>1 DEF FilesInv, InflightInv, PendingKept
    <3>2. jobs[t][s].text # Nil
      BY <1>1 DEF FilesInv, RowsInv, JobsHold
    <3> QED
      BY <3>1, <3>2 DEF OnDisk
  <2>3. s \in inflight
    BY <1>1, <1>2 DEF FilesInv, InflightInv, JobsOwned, Claimed
  <2>4. \A u \in Task : pc[u] # "wipe_files"
    BY <2>3 DEF FilesInv, InflightInv, Cleared
  <2> QED
    BY <2>1, <2>2, <2>4, PendingUntouched DEF FilesInv, Critical
<1>3. CASE pc[t] # "indexing"
  <2>1. pc[t] \in Visiting /\ pc[t] \in Inside
    BY <1>1, <1>3 DEF FilesInv, InflightInv, JobsOwned, Visiting, Inside
  <2>2. OnDisk(s)
    BY <1>1, <2>1 DEF FilesInv, RowsInv, JobsHold
  <2>3. \A u \in Task : pc[u] \notin Critical
    BY <2>1, Holder DEF Critical, Installing, Inside, Visiting
  <2> QED
    BY <2>2, <2>3
<1> QED
  BY <1>2, <1>3

\* A row that is new has its file, and nobody is at it.
LEMMA RowsGrow ==
    ASSUME FilesInv, UNCHANGED <<disk, journal, mode, clock, pc, change>>,
           \A s \in Covered : HasRow(s)' =>
              \/ HasRow(s)
              \/ \E t \in Task : jobs[t][s].stage # "none"
    PROVE  (Installed /\ RowsParked /\ RowsLanded /\ RowsWiped /\ NoOrphan)'
<1>1. \A s \in Covered : HasRow(s)' =>
        \/ HasRow(s)
        \/ /\ OnDisk(s)
           /\ \A u \in Task : pc[u] \in Critical => pc[u] # "wipe_files" /\ s \notin Touched(change[u])
  BY IndexedIsThere
<1>2. Installed'
  BY DEF FilesInv, RowsInv, Installed, OnDisk
<1>3. (RowsParked /\ RowsLanded /\ RowsWiped)'
  BY <1>1 DEF FilesInv, RowsInv, RowsParked, RowsLanded, RowsWiped, Covered, Critical, Installing, OnDisk
<1>4. NoOrphan'
  <2>1. Covered' = Covered /\ \A s \in Covered : Quiet(s)' => Quiet(s)
    BY DEF Covered, Quiet
  <2> QED
    BY <1>1, <2>1 DEF FilesInv, RowsInv, NoOrphan, OnDisk
<1> QED
  BY <1>2, <1>3, <1>4

\* An index under way.
LEMMA IndexRows ==
    ASSUME FilesInv, NEW t \in Task
    PROVE  Index(t) \/ IndexFailure(t) => RowsInv'
<1> USE DEF gates, commits, syncs, imports, world, durable
<1>0. jobs \in [Task -> [Stem -> Job]] /\ rows \in [Stem -> Row]
  BY DEF FilesInv, TypeOK
<1>n. NoJob.stage = "none"
  BY DEF NoJob
<1> SUFFICES ASSUME NEW s \in Stem
             PROVE  Upsert(t, s) \/ StoreChunks(t, s) \/ Stamp(t, s) \/ IndexFails(t, s) => RowsInv'
  BY DEF Index, IndexFailure
<1>1. ASSUME NEW job, jobs' = [jobs EXCEPT ![t][s] = job], jobs[t][s].stage # "none",
             job.stage = "none" \/ job.text = jobs[t][s].text
      PROVE  \A u \in Task, r \in Stem : jobs'[u][r].stage # "none" =>
               jobs[u][r].stage # "none" /\ jobs'[u][r].text = jobs[u][r].text
  BY <1>0, <1>1
<1>2. ASSUME UNCHANGED <<disk, journal, mode, clock, pc, change, refs>>, jobs[t][s].stage # "none",
             \A r \in Stem : HasRow(r)' => HasRow(r) \/ r = s,
             \A u \in Task, r \in Stem : jobs'[u][r].stage # "none" =>
               jobs[u][r].stage # "none" /\ jobs'[u][r].text = jobs[u][r].text
      PROVE  RowsInv'
  <2>1. JobsHold'
    BY <1>2, JobsStand
  <2>2. Covered \subseteq Stem /\ Covered' = Covered
    BY DEF Covered
  <2>3. (Installed /\ RowsParked /\ RowsLanded /\ RowsWiped /\ NoOrphan)'
    BY <1>2, <2>2, RowsGrow
  <2>4. BootAlone'
    BY <1>2 DEF FilesInv, RowsInv, BootAlone
  <2>5. BootRefs'
    <3>1. s \in Covered => OnDisk(s)
      BY <1>2, IndexedIsThere
    <3> QED
      BY <1>2, <2>2, <3>1 DEF FilesInv, RowsInv, BootRefs, OnDisk
  <2> QED
    BY <2>1, <2>3, <2>4, <2>5 DEF RowsInv
<1>3. ASSUME Upsert(t, s) PROVE RowsInv'
  <2> DEFINE i == IF HasRow(s) THEN rows[s].id ELSE CHOOSE j \in FreshIds : TRUE
             job == [jobs[t][s] EXCEPT !.stage = "store", !.id = i]
             row == [id |-> i, digest |-> Nil, stat |-> 0, chunks |-> rows[s].chunks]
  <2>1. /\ jobs[t][s].stage = "chunk" /\ rows' = [rows EXCEPT ![s] = row]
        /\ jobs' = [jobs EXCEPT ![t][s] = job] /\ UNCHANGED <<disk, journal, mode, clock, pc, change, refs>>
    BY <1>3 DEF Upsert, SetJob
  <2>2. job.text = jobs[t][s].text
    BY <1>0 DEF Job
  <2> HIDE DEF job, row
  <2>3. \A u \in Task, r \in Stem : jobs'[u][r].stage # "none" =>
               jobs[u][r].stage # "none" /\ jobs'[u][r].text = jobs[u][r].text
    BY <1>1, <2>1, <2>2
  <2>4. \A r \in Stem : HasRow(r)' => HasRow(r) \/ r = s
    BY <1>0, <2>1 DEF HasRow
  <2> QED
    BY <1>2, <2>1, <2>3, <2>4
<1>4. ASSUME StoreChunks(t, s) PROVE RowsInv'
  <2> DEFINE job == [jobs[t][s] EXCEPT !.stage = "stamp"]
  <2>1. /\ jobs[t][s].stage = "store" /\ jobs' = [jobs EXCEPT ![t][s] = job]
        /\ UNCHANGED <<disk, journal, mode, clock, pc, change, refs>>
        /\ rows' = [r \in Stem |-> IF r \in Holders(jobs[t][s].id)
                                  THEN [rows[r] EXCEPT !.chunks = jobs[t][s].text] ELSE rows[r]]
    BY <1>4 DEF StoreChunks, SetJob
  <2>2. job.text = jobs[t][s].text
    BY <1>0 DEF Job
  <2> HIDE DEF job
  <2>3. \A u \in Task, r \in Stem : jobs'[u][r].stage # "none" =>
               jobs[u][r].stage # "none" /\ jobs'[u][r].text = jobs[u][r].text
    BY <1>1, <2>1, <2>2
  <2>4. \A r \in Stem : HasRow(r)' => HasRow(r) \/ r = s
    BY <1>0, <2>1 DEF HasRow, Row
  <2> QED
    BY <1>2, <2>1, <2>3, <2>4
<1>5. ASSUME Stamp(t, s) PROVE RowsInv'
  <2>1. /\ jobs[t][s].stage = "stamp" /\ jobs' = [jobs EXCEPT ![t][s] = NoJob]
        /\ UNCHANGED <<disk, journal, mode, clock, pc, change, refs>>
        /\ rows' = [r \in Stem |-> IF r \in Holders(jobs[t][s].id)
                                  THEN [rows[r] EXCEPT !.digest = jobs[t][s].text, !.stat = jobs[t][s].stat]
                                  ELSE rows[r]]
    BY <1>5 DEF Stamp, SetJob
  <2>3. \A u \in Task, r \in Stem : jobs'[u][r].stage # "none" =>
               jobs[u][r].stage # "none" /\ jobs'[u][r].text = jobs[u][r].text
    BY <1>1, <1>n, <2>1
  <2>4. \A r \in Stem : HasRow(r)' => HasRow(r) \/ r = s
    BY <1>0, <2>1 DEF HasRow, Row
  <2> QED
    BY <1>2, <2>1, <2>3, <2>4
<1>6. ASSUME IndexFails(t, s) PROVE RowsInv'
  <2>1. /\ jobs[t][s].stage # "none" /\ jobs' = [jobs EXCEPT ![t][s] = NoJob]
        /\ UNCHANGED <<disk, rows, journal, mode, clock, pc, change, refs>>
    BY <1>6 DEF IndexFails, SetJob
  <2>2. \A u \in Task, r \in Stem : jobs'[u][r].stage # "none" =>
               jobs[u][r].stage # "none" /\ jobs'[u][r].text = jobs[u][r].text
    BY <1>1, <1>n, <2>1
  <2> QED
    BY <2>1, <2>2, NothingMoves
<1> QED
  BY <1>3, <1>4, <1>5, <1>6

\* The walk of the disk, the query and the lock of a sync.
LEMMA SyncRows ==
    ASSUME FilesInv, NEW t \in Task
    PROVE  SyncRefs(t) \/ SyncStates(t) \/ SyncLock(t) \/ SyncRefuse(t) => RowsInv' /\ Still
<1> USE DEF gates, commits, syncs, imports, world, durable, Goto, Still, CriticalStay, Critical, Installing
<1>0. pc \in [Task -> Phase] /\ refs \in [Task -> SUBSET Stem] /\ mode \in {"boot", "up"}
  BY DEF FilesInv, TypeOK
<1>1. ASSUME NEW x \in {"sy_states", "sy_wait", "syncing", "idle"}, pc' = [pc EXCEPT ![t] = x],
             pc[t] \in {"idle", "sy_states", "sy_wait"}, x = "syncing" => pc[t] = "sy_wait",
             x # "idle" /\ mode = "boot" => \A u \in Task \ {t} : pc[u] = "idle",
             UNCHANGED <<disk, rows, journal, mode, clock, jobs, change>>,
             mode = "boot" /\ x \in {"sy_wait", "syncing"} =>
                \A s \in Covered : HasRow(s) => OnDisk(s) \/ s \in refs'[t],
             \A u \in Task \ {t} : refs'[u] = refs[u]
      PROVE  RowsInv' /\ Still
  <2>1. JobsHold'
    BY <1>0, <1>1, JobsStand DEF Visiting
  <2>2. (Installed /\ RowsParked /\ RowsLanded /\ RowsWiped /\ NoOrphan)'
    BY <1>0, <1>1, RowsStand DEF FilesInv, CriticalStay, Critical, Installing
  <2>3. BootAlone'
    BY <1>0, <1>1 DEF FilesInv, RowsInv, BootAlone, Starting
  <2>4. BootRefs'
    BY <1>0, <1>1 DEF FilesInv, RowsInv, BootRefs, Covered, HasRow, OnDisk
  <2> QED
    BY <1>0, <1>1, <2>1, <2>2, <2>3, <2>4 DEF RowsInv
<1>2. mode = "boot" /\ pc[t] # "idle" => \A u \in Task \ {t} : pc[u] = "idle"
  BY DEF FilesInv, RowsInv, BootAlone
<1>3. ASSUME SyncRefs(t) PROVE RowsInv' /\ Still
  BY <1>0, <1>1, <1>3 DEF SyncRefs, Idle
<1>4. ASSUME SyncStates(t) PROVE RowsInv' /\ Still
  <2>1. Covered \subseteq Stem
    BY DEF Covered
  <2> QED
    BY <1>0, <1>1, <1>2, <1>4, <2>1 DEF SyncStates
<1>5. ASSUME SyncLock(t) PROVE RowsInv' /\ Still
  <2>1. mode = "boot" => \A s \in Covered : HasRow(s) => OnDisk(s) \/ s \in refs[t]
    BY <1>5 DEF SyncLock, FilesInv, RowsInv, BootRefs
  <2> QED
    BY <1>0, <1>1, <1>2, <1>5, <2>1 DEF SyncLock
<1>6. ASSUME SyncRefuse(t) PROVE RowsInv' /\ Still
  BY <1>0, <1>1, <1>6 DEF SyncRefuse
<1> QED
  BY <1>3, <1>4, <1>5, <1>6

\* The visits of a sync and its end, which hands over to the server.
LEMMA VisitRows ==
    ASSUME FilesInv, NEW t \in Task
    PROVE  Sync(t) \/ SyncDone(t) => RowsInv'
<1> USE DEF gates, commits, syncs, imports, world, durable, Goto
<1>0. /\ pc \in [Task -> Phase] /\ refs \in [Task -> SUBSET Stem] /\ mode \in {"boot", "up"}
      /\ rows \in [Stem -> Row] /\ jobs \in [Task -> [Stem -> Job]]
  BY DEF FilesInv, TypeOK
<1>c. Covered \subseteq Stem /\ Covered' = Covered
  BY DEF Covered
<1>1. ASSUME NEW s \in Stem, Visit(t, s), \A r \in Stem : HasRow(r)' => HasRow(r),
             HasRow(s)' => OnDisk(s),
             \A u \in Task, r \in Stem : jobs'[u][r].stage # "none" =>
               \/ jobs[u][r].stage # "none" /\ jobs'[u][r].text = jobs[u][r].text
               \/ jobs'[u][r] = Started(r) /\ OnDisk(r)
      PROVE  RowsInv'
  <2>1. JobsHold'
    BY <1>1, JobsStand DEF Visit
  <2>2. (Installed /\ RowsParked /\ RowsLanded /\ RowsWiped /\ NoOrphan)'
    BY <1>1, <1>c, RowsGrow DEF Visit
  <2>3. BootAlone'
    BY <1>1 DEF Visit, FilesInv, RowsInv, BootAlone
  <2>4. BootRefs'
    BY <1>0, <1>1, <1>c DEF Visit, FilesInv, RowsInv, BootRefs, OnDisk
  <2> QED
    BY <2>1, <2>2, <2>3, <2>4 DEF RowsInv
<1>2. ASSUME NEW s \in Stem, SyncGone(t, s) PROVE RowsInv'
  BY <1>0, <1>1, <1>2 DEF SyncGone, HasRow, NoRow
<1>3. ASSUME NEW s \in Stem, SyncFresh(t, s) PROVE RowsInv'
  <2>1. rows' = rows \/ rows' = [rows EXCEPT ![s].stat = disk[s].stat]
    BY <1>3 DEF SyncFresh
  <2>2. \A r \in Stem : HasRow(r)' => HasRow(r)
    BY <1>0, <2>1 DEF HasRow, Row
  <2> QED
    BY <1>1, <1>3, <2>2 DEF SyncFresh
<1>4. ASSUME NEW s \in Stem, SyncIndex(t, s) PROVE RowsInv'
  BY <1>0, <1>1, <1>4 DEF SyncIndex, SetJob, HasRow
<1>5. ASSUME SyncDone(t) PROVE RowsInv'
  <2>1. /\ UNCHANGED <<disk, rows, journal, clock, jobs, change, refs>> /\ mode' = "up"
        /\ pc[t] = "syncing" /\ pc' = [pc EXCEPT ![t] = "idle"] /\ refs[t] = {}
    BY <1>5 DEF SyncDone
  <2>2. JobsHold'
    BY <1>0, <2>1, JobsStand DEF Visiting
  <2>3. BootAlone' /\ BootRefs'
    BY <1>0, <2>1 DEF FilesInv, RowsInv, BootAlone, BootRefs
  <2>4. (Installed /\ RowsParked /\ RowsLanded /\ RowsWiped)'
    BY <1>0, <2>1, <1>c DEF FilesInv, RowsInv, Installed, RowsParked, RowsLanded, RowsWiped, OnDisk, HasRow
  <2>5. NoOrphan'
    <3>1. CASE mode = "boot"
      BY <1>c, <2>1, <3>1 DEF FilesInv, RowsInv, BootRefs, NoOrphan, HasRow, OnDisk
    <3>2. CASE mode = "up"
      <4>1. \A s \in Covered : Quiet(s)' => Quiet(s)
        BY <1>0, <2>1 DEF Quiet, Installing
      <4> QED
        BY <1>c, <2>1, <3>2, <4>1 DEF FilesInv, RowsInv, NoOrphan, HasRow, OnDisk
    <3> QED
      BY <1>0, <3>1, <3>2
  <2> QED
    BY <2>2, <2>3, <2>4, <2>5 DEF RowsInv
<1> QED
  BY <1>2, <1>3, <1>4, <1>5 DEF Sync

----------------------------------------------------------------------------
(* The install: only the lock's holder moves files *)

\* A step of the lock's holder meets no other task inside, and the server is up.
LEMMA InstallJobs ==
    ASSUME FilesInv, NEW t \in Task, pc[t] \in Inside \ Visiting,
           NEW x \in Phase \ (Visiting \cup {"ar_rows"}), pc' = [pc EXCEPT ![t] = x],
           mode' = mode,
           \A u \in Task, s \in Stem : jobs'[u][s].stage # "none" =>
              \/ jobs[u][s].stage # "none" /\ jobs'[u][s].text = jobs[u][s].text
              \/ jobs'[u][s] = Started(s) /\ OnDisk(s)
    PROVE  /\ JobsHold' /\ BootAlone' /\ BootRefs' /\ mode = "up"
           /\ pc'[t] = x /\ \A u \in Task \ {t} : pc'[u] = pc[u] /\ pc[u] \notin Inside
<1>0. pc \in [Task -> Phase]
  BY DEF FilesInv, TypeOK
<1>1. \A u \in Task \ {t} : pc'[u] = pc[u] /\ pc[u] \notin Inside
  BY <1>0, Holder
<1>2. mode = "up"
  BY UpThen DEF Starting, Inside, Visiting
<1>3. JobsHold'
  <2> SUFFICES ASSUME NEW u \in Task, NEW s \in Stem, jobs'[u][s].stage # "none"
               PROVE  jobs'[u][s].text # Nil /\ pc'[u] \notin Visiting
    BY DEF JobsHold
  <2>1. pc'[u] \notin Visiting
    BY <1>0, <1>1 DEF Visiting, Inside
  <2>2. jobs'[u][s].text # Nil
    <3>1. CASE jobs[u][s].stage # "none" /\ jobs'[u][s].text = jobs[u][s].text
      BY <3>1 DEF FilesInv, RowsInv, JobsHold
    <3>2. CASE jobs'[u][s] = Started(s) /\ OnDisk(s)
      BY <3>2 DEF Started, OnDisk
    <3> QED
      BY <3>1, <3>2
  <2> QED
    BY <2>1, <2>2
<1>4. \A u \in Task : pc'[u] # "ar_rows"
  BY <1>0, <1>1 DEF FilesInv, RowsInv, BootAlone
<1> QED
  BY <1>0, <1>1, <1>2, <1>3, <1>4, UpStand

\* What is quiet after a step of the lock's holder was not touched by it.
LEMMA InstallQuiet ==
    ASSUME FilesInv, NEW t \in Task, pc[t] \in {"vacating"} \cup Installing,
           NEW s \in Covered, s \notin Touched(change[t])
    PROVE  mode = "up" /\ Quiet(s) /\ (HasRow(s) => OnDisk(s))
<1>1. mode = "up"
  BY UpThen DEF Starting, Installing
<1>2. \A u \in Task \ {t} : pc[u] \notin Installing \cup {"wipe_files"}
  BY Holder DEF Inside, Installing
<1>3. Quiet(s)
  BY <1>2 DEF Quiet, Installing
<1> QED
  BY <1>1, <1>3 DEF FilesInv, RowsInv, NoOrphan

\* A text put, or moved with its source, is a text.
LEMMA LandedText ==
    ASSUME NEW ch \in ChangeRecord, NEW parked \in [Stem -> File], NEW files \in [Stem -> File],
           NEW now \in Nat, NEW s \in Stem,
           \/ ch.put[s] # Nil
           \/ \E m \in ch.moves : m[2] = s /\ parked[m[1]].text # Nil /\ \A n \in ch.moves : n[2] = s => n = m
           \/ files[s].text # Nil /\ ~ \E m \in ch.moves : m[2] = s /\ parked[m[1]].text # Nil
    PROVE  Landed(ch, parked, files, now)[s].text # Nil
<1>1. CASE ch.put[s] # Nil
  BY <1>1 DEF Landed
<1>2. ASSUME ch.put[s] = Nil, NEW m \in ch.moves, m[2] = s, parked[m[1]].text # Nil,
             \A n \in ch.moves : n[2] = s => n = m
      PROVE  Landed(ch, parked, files, now)[s].text # Nil
  <2>1. (CHOOSE n \in ch.moves : n[2] = s) = m
    BY <1>2
  <2>2. Landed(ch, parked, files, now)[s] = MovedFile(ch, m, parked, now)
    BY <1>2, <2>1 DEF Landed
  <2>3. parked[m[1]].text \in Content
    BY <1>2 DEF ChangeRecord, File, Text
  <2>4. Rewrite[parked[m[1]].text] # Nil
    BY <2>3, RewriteAssumption, ContentAssumption
  <2> QED
    BY <1>2, <2>2, <2>4 DEF MovedFile
<1>3. CASE /\ ch.put[s] = Nil /\ files[s].text # Nil
           /\ ~ \E m \in ch.moves : m[2] = s /\ parked[m[1]].text # Nil
  BY <1>3 DEF Landed
<1> QED
  BY <1>1, <1>2, <1>3

\* The steps of an install keep files and rows together.
LEMMA CommitRows ==
    ASSUME FilesInv, NEW t \in Task
    PROVE  Vacate(t) \/ Land(t) \/ Transact(t) \/ RollBack(t) \/ Claim(t) => RowsInv'
<1> USE DEF gates, commits, syncs, imports, world, durable, Goto
<1> DEFINE ch == change[t]
<1>0. /\ pc \in [Task -> Phase] /\ change \in [Task -> ChangeRecord] /\ jobs \in [Task -> [Stem -> Job]]
      /\ disk \in [Stem -> File] /\ journal \in [Stem -> File] /\ rows \in [Stem -> Row] /\ clock \in Nat
      /\ ch \in ChangeRecord
  BY DEF FilesInv, TypeOK
<1>c. Covered \subseteq Stem /\ Covered' = Covered /\ Written(ch) \subseteq Touched(ch) /\ Touched(ch) \subseteq Stem
  BY <1>0, TouchedTyped DEF Covered, Touched
<1>s. \A s \in Stem \ Touched(ch) : s \notin Leaving(ch) /\ ch.put[s] = Nil /\ \A m \in ch.moves : m[2] # s
  BY <1>0 DEF Touched, Written
<1>1. ASSUME NEW x \in {"landing", "transacting", "claiming", "idle", "indexing"}, pc' = [pc EXCEPT ![t] = x],
             pc[t] \in {"vacating"} \cup Installing, mode' = mode,
             change' = IF x = "idle" THEN [change EXCEPT ![t] = NoChange] ELSE change,
             \A u \in Task, s \in Stem : jobs'[u][s].stage # "none" =>
                \/ jobs[u][s].stage # "none" /\ jobs'[u][s].text = jobs[u][s].text
                \/ jobs'[u][s] = Started(s) /\ OnDisk(s),
             x = "landing" => \A s \in Touched(ch) : disk'[s] = Vacated(ch, journal')[s],
             x = "transacting" => \A s \in Touched(ch) :
                disk'[s] = Landed(ch, journal', Vacated(ch, journal'), clock')[s],
             x = "claiming" => \A s \in Written(ch) : disk'[s].text # Nil,
             x \in {"landing", "transacting"} => \A s \in Touched(ch) \cap Covered :
                rows'[s].id # Nil => journal'[s].text # Nil,
             x \in {"claiming", "idle", "indexing"} => \A s \in Touched(ch) \cap Covered :
                rows'[s].id # Nil => disk'[s].text # Nil,
             \A s \in Stem \ Touched(ch) : disk'[s] = disk[s] /\ rows'[s] = rows[s]
      PROVE  RowsInv'
  <2>0. x \in Phase \ (Visiting \cup {"ar_rows"}) /\ pc[t] \in Inside \ Visiting
    BY <1>1 DEF Phase, Visiting, Inside, Installing
  <2>1. /\ JobsHold' /\ BootAlone' /\ BootRefs' /\ mode = "up"
        /\ pc'[t] = x /\ \A u \in Task \ {t} : pc'[u] = pc[u] /\ pc[u] \notin Inside
    BY <1>1, <2>0, InstallJobs
  <2>2. \A u \in Task : pc'[u] \in Critical => u = t /\ x # "idle" /\ change'[u] = ch
    BY <1>1, <2>1 DEF Critical, Installing, Inside
  <2>3. (Installed /\ RowsParked /\ RowsLanded)'
    BY <1>1, <1>c, <2>1, <2>2 DEF Installed, RowsParked, RowsLanded, HasRow, OnDisk, Critical, Installing
  <2>4. RowsWiped'
    BY <1>1, <2>1, <2>2 DEF RowsWiped, Critical
  <2>5. NoOrphan'
    <3> SUFFICES ASSUME NEW s \in Covered, rows'[s].id # Nil, Quiet(s)'
                 PROVE  disk'[s].text # Nil
      BY <1>c DEF NoOrphan, HasRow, OnDisk
    <3>1. CASE s \in Touched(ch)
      <4>1. x \notin Installing
        BY <1>1, <2>1, <3>1 DEF Quiet, Installing
      <4>2. CASE x \in {"idle", "indexing"}
        BY <1>1, <3>1, <4>2
      <4> QED
        BY <1>1, <4>1, <4>2 DEF Installing
    <3>2. CASE s \notin Touched(ch)
      <4>1. HasRow(s) => OnDisk(s)
        BY <1>1, <3>2, InstallQuiet
      <4> QED
        BY <1>1, <1>c, <3>2, <4>1 DEF HasRow, OnDisk
    <3> QED
      BY <3>1, <3>2
  <2> QED
    BY <2>1, <2>3, <2>4, <2>5 DEF RowsInv
<1>2. ASSUME Vacate(t) PROVE RowsInv'
  <2>1. /\ pc[t] = "vacating" /\ pc' = [pc EXCEPT ![t] = "landing"] /\ UNCHANGED <<rows, mode, change, jobs>>
        /\ journal' = [s \in Stem |-> IF s \in Touched(ch) THEN disk[s] ELSE NoFile]
        /\ disk' = Vacated(ch, disk)
    BY <1>2 DEF Vacate
  <2>2. \A s \in Touched(ch) : disk'[s] = Vacated(ch, journal')[s] /\ journal'[s] = disk[s]
    BY <1>c, <2>1 DEF Vacated
  <2>3. \A s \in Stem \ Touched(ch) : disk'[s] = disk[s] /\ rows'[s] = rows[s]
    BY <1>s, <2>1 DEF Vacated
  <2>4. \A s \in Covered : HasRow(s) => OnDisk(s)
    <3>1. mode = "up"
      BY <2>1, UpThen DEF Starting
    <3>2. \A u \in Task : pc[u] \notin Installing \cup {"wipe_files"}
      BY <2>1, Holder DEF Inside, Installing
    <3> QED
      BY <3>1, <3>2 DEF FilesInv, RowsInv, NoOrphan, Quiet
  <2>5. \A s \in Touched(ch) \cap Covered : rows'[s].id # Nil => journal'[s].text # Nil
    BY <2>1, <2>2, <2>4 DEF HasRow, OnDisk
  <2> QED
    BY <1>1, <2>1, <2>2, <2>3, <2>5
<1>3. ASSUME Land(t) PROVE RowsInv'
  <2>1. /\ pc[t] = "landing" /\ pc' = [pc EXCEPT ![t] = "transacting"]
        /\ UNCHANGED <<rows, mode, change, jobs, journal>> /\ disk' = Landed(ch, journal, disk, clock')
    BY <1>3 DEF Land
  <2>2. \A s \in Touched(ch) : disk[s] = Vacated(ch, journal)[s]
    BY <2>1 DEF FilesInv, RowsInv, Installed
  <2>3. \A s \in Touched(ch) : disk'[s] = Landed(ch, journal, Vacated(ch, journal), clock')[s]
    BY <1>c, <2>1, <2>2 DEF Landed
  <2>4. \A s \in Stem \ Touched(ch) : disk'[s] = disk[s] /\ rows'[s] = rows[s]
    BY <1>s, <2>1 DEF Landed
  <2>5. \A s \in Touched(ch) \cap Covered : rows'[s].id # Nil => journal'[s].text # Nil
    BY <2>1 DEF FilesInv, RowsInv, RowsParked, HasRow
  <2> QED
    BY <1>1, <2>1, <2>3, <2>4, <2>5 DEF Installing
<1>4. ASSUME Transact(t) PROVE RowsInv'
  <2>1. /\ pc[t] = "transacting" /\ pc' = [pc EXCEPT ![t] = "claiming"]
        /\ UNCHANGED <<disk, mode, change, jobs, journal, clock>> /\ rows' = Rekeyed(ch, rows)
    BY <1>4 DEF Transact
  <2>2. \A s \in Touched(ch) : disk[s] = Landed(ch, journal, Vacated(ch, journal), clock)[s]
    BY <2>1 DEF FilesInv, RowsInv, Installed
  <2>3. \A s \in Touched(ch) \cap Covered : rows[s].id # Nil => journal[s].text # Nil
    BY <2>1 DEF FilesInv, RowsInv, RowsParked, HasRow
  <2>4. Vacated(ch, journal) \in [Stem -> File]
    BY <1>0, LandedTyped
  <2>5. ch \in Changes \cup Archive
    BY <2>1 DEF FilesInv, InflightInv, KnownChanges, Committing
  <2>6. ASSUME NEW s \in Touched(ch) \cap Covered, rows'[s].id # Nil
        PROVE  disk'[s].text # Nil
    <3>1. ASSUME NEW m \in ch.moves, m[2] = s, rows[m[1]].id # Nil
          PROVE  Landed(ch, journal, Vacated(ch, journal), clock)[s].text # Nil
      <4>1. m[1] \in Covered /\ \A n \in ch.moves : n[2] = s => n = m
        BY <2>5, <3>1, MovesAssumption
      <4>2. m[1] \in Touched(ch)
        BY DEF Touched, Leaving
      <4>3. journal[m[1]].text # Nil
        BY <2>3, <3>1, <4>1, <4>2
      <4> QED
        BY <1>0, <1>c, <2>4, <3>1, <4>1, <4>3, LandedText
    <3>2. CASE ~ \E m \in ch.moves : m[2] = s /\ rows[m[1]].id # Nil
      <4>1. s \notin Leaving(ch) /\ rows[s].id # Nil
        BY <1>c, <2>1, <2>6, <3>2 DEF Rekeyed, NoRow
      <4>2. Vacated(ch, journal)[s] = journal[s] /\ journal[s].text # Nil
        BY <1>c, <2>3, <4>1 DEF Vacated
      <4>3. \A m, n \in ch.moves : m[2] = s /\ n[2] = s => m = n
        BY <2>5, MovesAssumption
      <4>4. Landed(ch, journal, Vacated(ch, journal), clock)[s].text # Nil
        <5>1. CASE \E m \in ch.moves : m[2] = s /\ journal[m[1]].text # Nil
          <6>1. PICK m \in ch.moves : m[2] = s /\ journal[m[1]].text # Nil
            BY <5>1
          <6>2. \A n \in ch.moves : n[2] = s => n = m
            BY <4>3, <6>1
          <6>3. s \in Stem /\ \E n \in ch.moves : /\ n[2] = s /\ journal[n[1]].text # Nil
                                                  /\ \A k \in ch.moves : k[2] = s => k = n
            BY <1>c, <6>1, <6>2
          <6> HIDE DEF ch
          <6> QED
            BY <1>0, <2>4, <6>3, LandedText
        <5>2. CASE ~ \E m \in ch.moves : m[2] = s /\ journal[m[1]].text # Nil
          BY <1>0, <1>c, <2>4, <4>2, <5>2, LandedText
        <5> QED
          BY <5>1, <5>2
      <4> QED
        BY <2>1, <2>2, <4>4
    <3> QED
      BY <2>1, <2>2, <3>1, <3>2
  <2>7. \A s \in Written(ch) : disk'[s].text # Nil
    <3> SUFFICES ASSUME NEW s \in Written(ch) PROVE disk[s].text # Nil
      BY <2>1
    <3>1. ch.put[s] # Nil /\ s \in Stem /\ s \in Touched(ch)
      BY <1>c DEF Written
    <3>2. Landed(ch, journal, Vacated(ch, journal), clock)[s].text # Nil
      BY <1>0, <2>4, <3>1, LandedText
    <3> QED
      BY <2>2, <3>1, <3>2
  <2>8. \A s \in Stem \ Touched(ch) : disk'[s] = disk[s] /\ rows'[s] = rows[s]
    BY <1>s, <2>1 DEF Rekeyed
  <2> QED
    BY <1>1, <2>1, <2>6, <2>7, <2>8 DEF Installing
<1>5. ASSUME RollBack(t) PROVE RowsInv'
  <2>1. /\ pc[t] \in {"landing", "transacting"} /\ pc' = [pc EXCEPT ![t] = "idle"]
        /\ UNCHANGED <<rows, mode, jobs>> /\ change' = [change EXCEPT ![t] = NoChange]
        /\ disk' = [s \in Stem |-> IF s \in Touched(ch) THEN journal[s] ELSE disk[s]]
    BY <1>5 DEF RollBack, Finish
  <2>2. \A s \in Touched(ch) \cap Covered : rows'[s].id # Nil => disk'[s].text # Nil
    BY <1>c, <2>1 DEF FilesInv, RowsInv, RowsParked, HasRow
  <2>3. \A s \in Stem \ Touched(ch) : disk'[s] = disk[s] /\ rows'[s] = rows[s]
    BY <2>1
  <2> QED
    BY <1>1, <2>1, <2>2, <2>3 DEF Installing
<1>6. ASSUME Claim(t) PROVE RowsInv'
  <2>1. /\ pc[t] = "claiming" /\ pc' = [pc EXCEPT ![t] = "indexing"] /\ UNCHANGED <<disk, rows, mode, change>>
        /\ jobs' = [jobs EXCEPT ![t] = [s \in Stem |-> IF s \in Written(ch) THEN Started(s) ELSE NoJob]]
    BY <1>6 DEF Claim
  <2>2. \A s \in Written(ch) : OnDisk(s)
    BY <2>1 DEF FilesInv, RowsInv, Installed
  <2>3. \A u \in Task, s \in Stem : jobs'[u][s].stage # "none" =>
                \/ jobs[u][s].stage # "none" /\ jobs'[u][s].text = jobs[u][s].text
                \/ jobs'[u][s] = Started(s) /\ OnDisk(s)
    BY <1>0, <2>1, <2>2 DEF NoJob
  <2>4. \A s \in Touched(ch) \cap Covered : rows'[s].id # Nil => disk'[s].text # Nil
    BY <2>1 DEF FilesInv, RowsInv, RowsLanded, HasRow, OnDisk
  <2> QED
    BY <1>1, <2>1, <2>3, <2>4 DEF Installing
<1> QED
  BY <1>2, <1>3, <1>4, <1>5, <1>6

\* A wipe drops every row before the first file.
LEMMA WipeKeepsRows ==
    ASSUME FilesInv, NEW t \in Task
    PROVE  WipeRows(t) \/ WipeFiles(t) \/ ResetRows(t) => RowsInv'
<1> USE DEF gates, commits, syncs, imports, world, durable, Goto
<1>c. Covered \subseteq Stem /\ Covered' = Covered
  BY DEF Covered
<1>1. ASSUME NEW x \in {"wipe_files", "idle"}, pc' = [pc EXCEPT ![t] = x],
             pc[t] \in {"wipe_rows", "wipe_files"}, UNCHANGED <<mode, change, jobs>>,
             \A s \in Covered : rows'[s].id = Nil
      PROVE  RowsInv'
  <2>0. x \in Phase \ (Visiting \cup {"ar_rows"}) /\ pc[t] \in Inside \ Visiting
    BY <1>1 DEF Phase, Visiting, Inside, Installing
  <2>1. /\ JobsHold' /\ BootAlone' /\ BootRefs' /\ mode = "up"
        /\ pc'[t] = x /\ \A u \in Task \ {t} : pc'[u] = pc[u] /\ pc[u] \notin Inside
    BY <1>1, <2>0, InstallJobs
  <2>2. \A u \in Task : pc'[u] \notin Installing
    BY <1>1, <2>1 DEF Installing, Inside
  <2>3. (Installed /\ RowsParked /\ RowsLanded /\ RowsWiped /\ NoOrphan)'
    BY <1>1, <1>c, <2>2 DEF Installed, RowsParked, RowsLanded, RowsWiped, NoOrphan, HasRow, Installing
  <2> QED
    BY <2>1, <2>3 DEF RowsInv
<1>2. ASSUME WipeRows(t) PROVE RowsInv'
  BY <1>1, <1>2, <1>c DEF WipeRows, NoRow
<1>3. ASSUME WipeFiles(t) PROVE RowsInv'
  <2>1. /\ pc[t] = "wipe_files" /\ pc' = [pc EXCEPT ![t] = "idle"] /\ UNCHANGED <<rows, mode, change, jobs>>
    BY <1>3 DEF WipeFiles
  <2> QED
    BY <1>1, <1>c, <2>1 DEF FilesInv, RowsInv, RowsWiped, HasRow
<1>4. ~ResetRows(t)
  BY DEF ResetRows, FilesInv, RowsInv, BootAlone
<1> QED
  BY <1>2, <1>3, <1>4

\* A process that has just started is at rest.
LEMMA RestRows == (Init => RowsInv) /\ (Crash => RowsInv')
<1>1. NoJob.stage = "none"
  BY DEF NoJob
<1>2. Init => RowsInv
  BY <1>1 DEF Init, AtRest, RowsInv, BootAlone, JobsHold, Installed, RowsParked, RowsLanded, RowsWiped,
     BootRefs, NoOrphan, Starting
<1>3. Crash => RowsInv'
  BY <1>1 DEF Crash, RowsInv, BootAlone, JobsHold, Installed, RowsParked, RowsLanded, RowsWiped,
     BootRefs, NoOrphan, Starting
<1> QED
  BY <1>2, <1>3

\* Every step keeps files and rows together.
LEMMA RowsNext ==
    ASSUME ~AdminReset, FilesInv, [Next]_vars
    PROVE  RowsInv'
<1>1. CASE UNCHANGED vars
  <2>1. UNCHANGED <<disk, rows, journal, mode, clock, pc, change, refs, jobs>>
    BY <1>1 DEF vars, durable, gates, commits, syncs, world
  <2> QED
    BY <2>1, NothingMoves
<1>2. CASE Crash
  BY <1>2, RestRows
<1>3. ASSUME NEW t \in Task, Ask(t) \/ Lock(t) \/ Step(t)
      PROVE  RowsInv'
  <2>1. CASE Ask(t)
    BY <2>1, RequestsRows, SyncRows DEF Ask
  <2>2. CASE Lock(t)
    BY <2>2, RequestsRows, SyncRows DEF Lock
  <2>3. CASE Commit(t)
    BY <2>3, RequestsRows, CommitRows DEF Commit
  <2>4. CASE Index(t) \/ IndexFailure(t)
    BY <2>4, IndexRows
  <2>5. CASE Rechunk(t)
    BY <2>5, RequestsRows DEF Rechunk
  <2>6. CASE Wipe(t) \/ ResetRows(t)
    BY <2>6, WipeKeepsRows DEF Wipe
  <2>7. CASE Reconcile(t)
    BY <2>7, SyncRows, VisitRows DEF Reconcile
  <2> QED
    BY <1>3, <2>1, <2>2, <2>3, <2>4, <2>5, <2>6, <2>7 DEF Step
<1>4. ASSUME NEW c \in Collection, ClaimStore(c) \/ CancelImport(c) \/ Import(c)
      PROVE  RowsInv'
  BY <1>4, ImportRows
<1> QED
  BY <1>1, <1>2, <1>3, <1>4 DEF Next

\* The strengthened invariant holds throughout.
LEMMA FilesAlways ==
    ASSUME ~AdminReset
    PROVE  Spec => []FilesInv
<1>1. Init => FilesInv
  BY TypeInit, RestInflight, RestRows DEF FilesInv
<1>2. FilesInv /\ [Next]_vars => FilesInv'
  BY TypeNext, InflightNext, RowsNext DEF FilesInv
<1> QED
  BY <1>1, <1>2, PTL DEF Spec

\* Unless an admin resets the workspace, a document row has its file while the server is
\* up: a failed or rolled back changeset, a wipe that stops halfway, a crash and the
\* startup reconcile leave no row retrieval would answer from without its file.
THEOREM RowsHaveFiles ==
    ASSUME ~AdminReset
    PROVE  Spec => []NoOrphan
<1>1. FilesInv => NoOrphan
  BY DEF FilesInv, RowsInv
<1> QED
  BY <1>1, FilesAlways, PTL

----------------------------------------------------------------------------
(* Refinement: every step is one of the promise's steps, or none *)

Undoing == {"landing", "transacting"}

\* The files as they would be after a rollback, once the lock's holder is known.
LEMMA CommittedThen ==
    ASSUME NEW t \in Task, \A u \in Task \ {t} : pc[u] \notin Undoing
    PROVE  Committed = [s \in Stem |-> IF pc[t] \in Undoing /\ s \in Touched(change[t])
                                       THEN journal[s].text ELSE disk[s].text]
  BY DEF Committed, Undoable, Undoing

\* Installs that stay where they are leave the texts as they are.
LEMMA TextsStay ==
    ASSUME UNCHANGED <<disk, journal>>,
           \A u \in Task : pc[u] \in Undoing \/ pc'[u] \in Undoing => pc'[u] = pc[u] /\ change'[u] = change[u]
    PROVE  Committed' = Committed
<1>1. Undoable' = Undoable /\ \A u \in Undoable : change'[u] = change[u]
  BY DEF Undoable, Undoing
<1>2. \A u \in Undoable : Touched(change[u])' = Touched(change[u])
  BY <1>1 DEF Touched, Written, Leaving
<1> QED
  BY <1>1, <1>2 DEF Committed

\* A step that changes neither files nor rows is none of the promise's.
LEMMA StillStutters ==
    ASSUME Still
    PROVE  UNCHANGED <<Committed, Identities>>
<1>1. Committed' = Committed
  BY TextsStay DEF Still, CriticalStay, Critical, Installing, Undoing
<1> QED
  BY <1>1 DEF Still, Identities

\* The index of a description gives it a document at most.
LEMMA IndexRefines ==
    ASSUME FilesInv, Covered = Stem, NEW t \in Task, NEW s \in Stem
    PROVE  Upsert(t, s) \/ StoreChunks(t, s) \/ Stamp(t, s) \/ IndexFails(t, s)
           => UNCHANGED <<Committed, Identities>> \/ Promise!Insert(s)
<1> USE DEF gates, commits, syncs, imports, world, durable
<1>0. jobs \in [Task -> [Stem -> Job]] /\ rows \in [Stem -> Row]
  BY DEF FilesInv, TypeOK
<1>1. ASSUME UNCHANGED <<disk, journal, pc, change>> PROVE Committed' = Committed
  BY <1>1, TextsStay
<1>2. ASSUME Upsert(t, s) PROVE UNCHANGED <<Committed, Identities>> \/ Promise!Insert(s)
  <2> DEFINE i == IF HasRow(s) THEN rows[s].id ELSE CHOOSE j \in FreshIds : TRUE
  <2>1. /\ jobs[t][s].stage = "chunk" /\ UNCHANGED <<disk, journal, pc, change>>
        /\ rows' = [rows EXCEPT ![s] = [id |-> i, digest |-> Nil, stat |-> 0, chunks |-> rows[s].chunks]]
        /\ HasRow(s) \/ FreshIds # {}
    BY <1>2 DEF Upsert
  <2>2. Committed' = Committed
    BY <1>1, <2>1
  <2>3. CASE HasRow(s)
    <3>1. i = rows[s].id
      BY <2>3
    <3> HIDE DEF i
    <3>2. Identities' = Identities
      BY <1>0, <2>1, <3>1 DEF Identities
    <3> QED
      BY <2>2, <3>2
  <2>4. CASE ~HasRow(s)
    <3>1. i \in FreshIds
      BY <2>1, <2>4
    <3>2. i \in RowId \ {Identities[r] : r \in Stem}
      BY <3>1 DEF FreshIds, Identities
    <3> HIDE DEF i
    <3>3. Identities' = [Identities EXCEPT ![s] = i]
      BY <1>0, <2>1 DEF Identities
    <3>4. OnDisk(s) /\ \A u \in Task : pc[u] \in Critical => s \notin Touched(change[u])
      BY <2>1, IndexedIsThere
    <3>5. Committed[s] # Nil /\ Identities[s] = Nil
      BY <2>4, <3>4 DEF Committed, Identities, Undoable, Critical, Installing, OnDisk, HasRow
    <3> QED
      BY <2>2, <3>2, <3>3, <3>5 DEF Promise!Insert
  <2> QED
    BY <2>3, <2>4
<1>3. ASSUME StoreChunks(t, s) \/ Stamp(t, s) \/ IndexFails(t, s)
      PROVE  UNCHANGED <<Committed, Identities>>
  <2>1. UNCHANGED <<disk, journal, pc, change>>
    BY <1>3 DEF StoreChunks, Stamp, IndexFails
  <2>2. \A r \in Stem : rows'[r].id = rows[r].id
    <3>1. CASE StoreChunks(t, s)
      BY <1>0, <3>1 DEF StoreChunks, Row
    <3>2. CASE Stamp(t, s)
      BY <1>0, <3>2 DEF Stamp, Row
    <3>3. CASE IndexFails(t, s)
      BY <3>3 DEF IndexFails
    <3> QED
      BY <1>3, <3>1, <3>2, <3>3
  <2> QED
    BY <1>1, <2>1, <2>2 DEF Identities
<1> QED
  BY <1>2, <1>3

\* A sync sweeps a document whose description is gone, and gives none away.
LEMMA SyncRefines ==
    ASSUME FilesInv, NEW t \in Task
    PROVE  Sync(t) \/ SyncDone(t)
           => UNCHANGED <<Committed, Identities>> \/ \E s \in Stem : Promise!Sweep(s)
<1> USE DEF gates, commits, syncs, imports, world, durable, Goto
<1>0. rows \in [Stem -> Row] /\ pc \in [Task -> Phase]
  BY DEF FilesInv, TypeOK
<1>1. ASSUME NEW s \in Stem, Visit(t, s)
      PROVE  Committed' = Committed /\ Committed[s] = disk[s].text
  <2>1. pc[t] = "syncing" /\ UNCHANGED <<disk, journal, pc, change>>
    BY <1>1 DEF Visit
  <2>2. \A u \in Task : pc[u] \notin Undoing
    BY <2>1, Holder DEF Inside, Undoing
  <2> QED
    BY <2>1, <2>2, TextsStay DEF Committed, Undoable, Undoing
<1>2. ASSUME NEW s \in Stem, SyncGone(t, s) PROVE Promise!Sweep(s)
  <2>1. Identities' = [Identities EXCEPT ![s] = Nil]
    BY <1>0, <1>2 DEF SyncGone, Identities, NoRow
  <2>2. Committed' = Committed /\ Committed[s] = Nil
    BY <1>1, <1>2 DEF SyncGone, OnDisk
  <2> QED
    BY <2>1, <2>2 DEF Promise!Sweep
<1>3. ASSUME NEW s \in Stem, SyncFresh(t, s) \/ SyncIndex(t, s)
      PROVE  UNCHANGED <<Committed, Identities>>
  <2>1. rows' = rows \/ rows' = [rows EXCEPT ![s].stat = disk[s].stat]
    BY <1>3 DEF SyncFresh, SyncIndex
  <2>2. \A r \in Stem : rows'[r].id = rows[r].id
    BY <1>0, <2>1 DEF Row
  <2> QED
    BY <1>1, <1>3, <2>2 DEF SyncFresh, SyncIndex, Identities
<1>4. ASSUME SyncDone(t) PROVE UNCHANGED <<Committed, Identities>>
  BY <1>0, <1>4, StillStutters DEF SyncDone, Still, CriticalStay, Critical, Installing
<1> QED
  BY <1>2, <1>3, <1>4 DEF Sync

\* What the transaction leaves is what the promise makes of the changeset.
LEMMA TransactApplies ==
    ASSUME FilesInv, NEW t \in Task, Transact(t)
    PROVE  Promise!Apply(change[t])
<1> USE DEF gates, commits, syncs, imports, world, durable, Goto
<1> DEFINE ch == change[t]
<1>0. /\ pc \in [Task -> Phase] /\ disk \in [Stem -> File] /\ journal \in [Stem -> File]
      /\ rows \in [Stem -> Row] /\ clock \in Nat /\ ch \in ChangeRecord
  BY DEF FilesInv, TypeOK
<1>1. /\ pc[t] = "transacting" /\ pc' = [pc EXCEPT ![t] = "claiming"]
      /\ UNCHANGED <<disk, change, journal>> /\ rows' = Rekeyed(ch, rows)
  BY DEF Transact
<1>2. \A u \in Task \ {t} : pc[u] \notin Undoing
  BY <1>1, Holder DEF Inside, Undoing
<1>3. \A s \in Stem : Committed[s] = IF s \in Touched(ch) THEN journal[s].text ELSE disk[s].text
  BY <1>1, <1>2, CommittedThen DEF Undoing
<1>4. Committed' = [s \in Stem |-> disk[s].text]
  BY <1>0, <1>1, <1>2 DEF Committed, Undoable, Undoing
<1>5. \A s \in Touched(ch) : disk[s] = Landed(ch, journal, Vacated(ch, journal), clock)[s]
  BY <1>1 DEF FilesInv, RowsInv, Installed
<1>6. \A m, n \in ch.moves : m[2] = n[2] => m = n
  BY <1>1, MovesAssumption DEF FilesInv, InflightInv, KnownChanges, Committing
<1>7. \A m \in ch.moves : m[1] \in Stem /\ m[2] \in Stem /\ m[1] \in Touched(ch) /\ m[2] \in Touched(ch)
  BY <1>0 DEF Touched, Leaving, ChangeRecord
<1>8. \A s \in Stem : s \notin Touched(ch) =>
        s \notin Leaving(ch) /\ ch.put[s] = Nil /\ \A m \in ch.moves : m[2] # s
  BY <1>0 DEF Touched, Written
<1>9. Promise!Left(ch) = Leaving(ch)
  BY DEF Promise!Left, Leaving
<1>10. \A s \in Stem : Promise!Source(ch, s) = {m[1] : m \in {n \in ch.moves : n[2] = s}}
  BY DEF Promise!Source
<1> HIDE DEF ch
<1>11. Committed' \in [Stem -> Content \cup {Nil}]
  BY <1>0, <1>4 DEF File, Text
<1>12. ASSUME NEW s \in Stem PROVE Committed'[s] \in Promise!Texts(ch, s)
  <2>1. Committed'[s] = disk[s].text
    BY <1>4
  <2>2. CASE s \notin Touched(ch)
    <3>1. Promise!Source(ch, s) = {}
      BY <1>8, <1>10, <2>2
    <3>2. Promise!Texts(ch, s) = {Committed[s]}
      BY <1>8, <1>9, <2>2, <3>1 DEF Promise!Texts
    <3> QED
      BY <1>3, <2>1, <2>2, <3>2
  <2>3. CASE s \in Touched(ch) /\ ch.put[s] # Nil
    <3>0. disk[s] = [text |-> ch.put[s], stat |-> clock]
      BY <1>5, <2>3 DEF Landed
    <3>1. disk[s].text = ch.put[s]
      BY <3>0
    <3> QED
      BY <2>1, <2>3, <3>1 DEF Promise!Texts
  <2>4. ASSUME s \in Touched(ch), ch.put[s] = Nil,
               NEW m \in ch.moves, m[2] = s, journal[m[1]].text # Nil
        PROVE  Committed'[s] \in Promise!Texts(ch, s)
    <3>1. (CHOOSE n \in ch.moves : n[2] = s) = m
      BY <1>6, <2>4
    <3>2. disk[s] = MovedFile(ch, m, journal, clock)
      BY <1>5, <2>4, <3>1 DEF Landed
    <3>3. m[1] \in Promise!Source(ch, s) /\ Committed[m[1]] = journal[m[1]].text
      BY <1>3, <1>7, <1>10, <2>4
    <3>4. Promise!Texts(ch, s) = {Committed[r] : r \in Promise!Source(ch, s)} \cup
             (IF s \in ch.rewrites THEN {Rewrite[Committed[r]] : r \in Promise!Source(ch, s)} ELSE {})
      BY <2>4, <3>3 DEF Promise!Texts
    <3>5. CASE disk[s].text = journal[m[1]].text
      BY <2>1, <3>3, <3>4, <3>5
    <3>6. CASE s \in ch.rewrites /\ disk[s].text = Rewrite[journal[m[1]].text]
      BY <2>1, <3>3, <3>4, <3>6
    <3> QED
      BY <2>4, <3>2, <3>5, <3>6 DEF MovedFile
  <2>5. CASE /\ s \in Touched(ch) /\ ch.put[s] = Nil
             /\ ~ \E m \in ch.moves : m[2] = s /\ journal[m[1]].text # Nil
    <3>1. ~ \E r \in Promise!Source(ch, s) : Committed[r] # Nil
      BY <1>3, <1>7, <1>10, <2>5
    <3>2. disk[s] = Vacated(ch, journal)[s]
      BY <1>5, <2>5 DEF Landed
    <3>3. disk[s].text = IF s \in Leaving(ch) THEN Nil ELSE Committed[s]
      BY <1>3, <2>5, <3>2 DEF Vacated, NoFile
    <3> QED
      BY <1>9, <2>1, <2>5, <3>1, <3>3 DEF Promise!Texts
  <2> QED
    BY <2>2, <2>3, <2>4, <2>5
<1>13. ASSUME NEW s \in Stem PROVE Identities'[s] = Promise!Identity(ch, s)
  <2>1. Identities'[s] = Rekeyed(ch, rows)[s].id /\ \A r \in Stem : Identities[r] = rows[r].id
    BY <1>1 DEF Identities, ch
  <2>2. ASSUME NEW m \in ch.moves, m[2] = s, rows[m[1]].id # Nil
        PROVE  Identities'[s] = Promise!Identity(ch, s)
    <3>1. (CHOOSE n \in ch.moves : n[2] = s) = m
      BY <1>6, <2>2
    <3>2. Identities'[s] = rows[m[1]].id
      BY <2>1, <2>2, <3>1 DEF Rekeyed
    <3>3. Promise!Source(ch, s) = {m[1]} /\ Identities[m[1]] # Nil
      BY <1>6, <1>7, <1>10, <2>1, <2>2
    <3>4. (CHOOSE r \in Promise!Source(ch, s) : Identities[r] # Nil) = m[1]
      BY <3>3
    <3> QED
      BY <1>7, <2>1, <3>2, <3>3, <3>4 DEF Promise!Identity
  <2>3. CASE ~ \E m \in ch.moves : m[2] = s /\ rows[m[1]].id # Nil
    <3>1. ~ \E r \in Promise!Source(ch, s) : Identities[r] # Nil
      BY <1>7, <1>10, <2>1, <2>3
    <3>2. Identities'[s] = IF s \in Leaving(ch) THEN Nil ELSE Identities[s]
      BY <2>1, <2>3 DEF Rekeyed, NoRow
    <3> QED
      BY <1>9, <3>1, <3>2 DEF Promise!Identity
  <2> QED
    BY <2>2, <2>3
<1>14. Identities' = [s \in Stem |-> Promise!Identity(ch, s)]
  BY <1>13 DEF Identities
<1> QED
  BY <1>11, <1>12, <1>14 DEF Promise!Apply, ch

\* The other steps of an install: until the transaction nothing has happened.
LEMMA InstallRefines ==
    ASSUME FilesInv, NEW t \in Task
    PROVE  Vacate(t) \/ Land(t) \/ RollBack(t) \/ Claim(t) => UNCHANGED <<Committed, Identities>>
<1> USE DEF gates, commits, syncs, imports, world, durable, Goto
<1> DEFINE ch == change[t]
<1>0. /\ pc \in [Task -> Phase] /\ change \in [Task -> ChangeRecord]
      /\ disk \in [Stem -> File] /\ journal \in [Stem -> File] /\ ch \in ChangeRecord
  BY DEF FilesInv, TypeOK
<1>l. \A s \in Stem : s \notin Touched(ch) =>
        s \notin Leaving(ch) /\ ch.put[s] = Nil /\ \A m \in ch.moves : m[2] # s
  BY <1>0 DEF Touched, Written
<1>1. ASSUME NEW x \in {"landing", "transacting", "idle", "indexing"}, pc' = [pc EXCEPT ![t] = x],
             pc[t] \in {"vacating"} \cup Installing, rows' = rows, x \in Undoing => change' = change,
             \A s \in Stem : (IF x \in Undoing /\ s \in Touched(ch) THEN journal'[s].text ELSE disk'[s].text)
                = IF pc[t] \in Undoing /\ s \in Touched(ch) THEN journal[s].text ELSE disk[s].text
      PROVE  UNCHANGED <<Committed, Identities>>
  <2>1. \A u \in Task \ {t} : pc[u] \notin Undoing /\ pc'[u] = pc[u]
    BY <1>0, <1>1, Holder DEF Inside, Installing, Undoing
  <2>2. Committed = [s \in Stem |-> IF pc[t] \in Undoing /\ s \in Touched(ch)
                                    THEN journal[s].text ELSE disk[s].text]
    BY <2>1, CommittedThen
  <2>3. Committed' = [s \in Stem |-> IF x \in Undoing /\ s \in Touched(ch)
                                     THEN journal'[s].text ELSE disk'[s].text]
    <3>1. Undoable' = IF x \in Undoing THEN {t} ELSE {}
      BY <1>0, <1>1, <2>1 DEF Undoable, Undoing
    <3>2. CASE x \in Undoing
      BY <1>1, <3>1, <3>2 DEF Committed
    <3>3. CASE x \notin Undoing
      BY <3>1, <3>3 DEF Committed
    <3> QED
      BY <3>2, <3>3
  <2> HIDE DEF ch
  <2>4. Committed' = Committed
    BY <1>1, <2>2, <2>3
  <2> QED
    BY <1>1, <2>4 DEF Identities
<1>2. ASSUME Vacate(t) PROVE UNCHANGED <<Committed, Identities>>
  <2>1. /\ pc[t] = "vacating" /\ pc' = [pc EXCEPT ![t] = "landing"] /\ UNCHANGED <<rows, change>>
        /\ journal' = [s \in Stem |-> IF s \in Touched(ch) THEN disk[s] ELSE NoFile]
        /\ disk' = Vacated(ch, disk)
    BY <1>2 DEF Vacate
  <2>2. \A s \in Stem : (IF s \in Touched(ch) THEN journal'[s].text ELSE disk'[s].text) = disk[s].text
    BY <1>l, <2>1 DEF Vacated
  <2> QED
    BY <1>1, <2>1, <2>2 DEF Undoing
<1>3. ASSUME Land(t) PROVE UNCHANGED <<Committed, Identities>>
  <2>1. /\ pc[t] = "landing" /\ pc' = [pc EXCEPT ![t] = "transacting"]
        /\ UNCHANGED <<rows, change, journal>> /\ disk' = Landed(ch, journal, disk, clock')
    BY <1>3 DEF Land
  <2>2. \A s \in Stem : s \notin Touched(ch) => disk'[s] = disk[s]
    BY <1>l, <2>1 DEF Landed
  <2> QED
    BY <1>1, <2>1, <2>2 DEF Undoing, Installing
<1>4. ASSUME RollBack(t) PROVE UNCHANGED <<Committed, Identities>>
  <2>1. /\ pc[t] \in Undoing /\ pc' = [pc EXCEPT ![t] = "idle"] /\ rows' = rows
        /\ disk' = [s \in Stem |-> IF s \in Touched(ch) THEN journal[s] ELSE disk[s]]
    BY <1>4 DEF RollBack, Finish, Undoing
  <2> HIDE DEF ch
  <2> QED
    BY <1>1, <2>1 DEF Undoing, Installing
<1>5. ASSUME Claim(t) PROVE UNCHANGED <<Committed, Identities>>
  BY <1>1, <1>5 DEF Claim, Undoing, Installing
<1> QED
  BY <1>2, <1>3, <1>4, <1>5

\* A wipe is the promise's two steps.
LEMMA WipeRefines ==
    ASSUME FilesInv, Covered = Stem, NEW t \in Task
    PROVE  WipeRows(t) \/ WipeFiles(t)
           => UNCHANGED <<Committed, Identities>> \/ Promise!WipeDocuments \/ Promise!WipeTexts
<1> USE DEF gates, commits, syncs, imports, world, durable, Goto
<1>0. pc \in [Task -> Phase] /\ disk \in [Stem -> File]
  BY DEF FilesInv, TypeOK
<1>1. ASSUME WipeRows(t) PROVE Promise!WipeDocuments
  <2>1. Committed' = Committed
    BY <1>0, <1>1, TextsStay DEF WipeRows, Undoing
  <2>2. Identities' = [s \in Stem |-> Nil]
    BY <1>1 DEF WipeRows, Identities, NoRow
  <2> QED
    BY <2>1, <2>2 DEF Promise!WipeDocuments
<1>2. ASSUME WipeFiles(t) PROVE UNCHANGED <<Committed, Identities>> \/ Promise!WipeTexts
  <2>1. PICK kept \in {{}, Stem} : disk' = [s \in Stem |-> IF s \in kept THEN disk[s] ELSE NoFile]
    BY <1>2 DEF WipeFiles
  <2>2. /\ pc[t] = "wipe_files" /\ pc' = [pc EXCEPT ![t] = "idle"] /\ UNCHANGED <<rows, change>>
    BY <1>2 DEF WipeFiles
  <2>3. \A u \in Task : pc[u] \notin Undoing /\ pc'[u] \notin Undoing
    BY <1>0, <2>2, Holder DEF Inside, Undoing
  <2>4. Committed = [s \in Stem |-> disk[s].text] /\ Committed' = [s \in Stem |-> disk'[s].text]
    BY <2>3 DEF Committed, Undoable, Undoing
  <2>5. Identities' = Identities
    BY <2>2 DEF Identities
  <2>6. Identities = [s \in Stem |-> Nil]
    BY <2>2 DEF FilesInv, RowsInv, RowsWiped, HasRow, Identities
  <2>7. CASE kept = {}
    BY <2>1, <2>4, <2>5, <2>6, <2>7 DEF NoFile, Promise!WipeTexts
  <2>8. CASE kept = Stem
    BY <1>0, <2>1, <2>4, <2>5, <2>8
  <2> QED
    BY <2>1, <2>7, <2>8
<1> QED
  BY <1>1, <1>2

\* Every step is one of the promise's, or none.
LEMMA StepRefines ==
    ASSUME ~AdminReset, MaxCrashes = 0, Covered = Stem, FilesInv, [Next]_vars
    PROVE  [Promise!Next]_(Promise!vars)
<1> USE DEF Promise!vars
<1>1. CASE UNCHANGED vars
  BY <1>1, StillStutters DEF Still, CriticalStay, vars, durable, commits
<1>2. ~Crash
  BY DEF Crash, FilesInv, TypeOK
<1>3. ASSUME NEW t \in Task, Ask(t) \/ Lock(t) \/ Step(t)
      PROVE  [Promise!Next]_(Promise!vars)
  <2>1. CASE Ask(t)
    BY <2>1, RequestsRows, SyncRows, StillStutters DEF Ask
  <2>2. CASE Lock(t)
    BY <2>2, RequestsRows, SyncRows, StillStutters DEF Lock
  <2>3. CASE Commit(t)
    <3>1. CASE Transact(t)
      <4>1. change[t] \in Changes \cup Archive
        BY <3>1 DEF Transact, FilesInv, InflightInv, KnownChanges, Committing
      <4> QED
        BY <3>1, <4>1, TransactApplies DEF Promise!Next
    <3>2. CASE Vacate(t) \/ Land(t) \/ RollBack(t) \/ Claim(t)
      BY <3>2, InstallRefines
    <3> QED
      BY <2>3, <3>1, <3>2, RequestsRows, StillStutters DEF Commit
  <2>4. CASE Index(t) \/ IndexFailure(t)
    BY <2>4, IndexRefines DEF Index, IndexFailure, Promise!Next
  <2>5. CASE Rechunk(t)
    BY <2>5, RequestsRows, StillStutters DEF Rechunk
  <2>6. CASE Wipe(t)
    BY <2>6, WipeRefines DEF Wipe, Promise!Next
  <2>7. ~ResetRows(t)
    BY DEF ResetRows, FilesInv, RowsInv, BootAlone
  <2>8. CASE SyncStates(t)
    BY <2>8, SyncRows, StillStutters
  <2>9. CASE Sync(t) \/ SyncDone(t)
    BY <2>9, SyncRefines DEF Promise!Next
  <2> QED
    BY <1>3, <2>1, <2>2, <2>3, <2>4, <2>5, <2>6, <2>7, <2>8, <2>9 DEF Step, Reconcile
<1>4. ASSUME NEW c \in Collection, ClaimStore(c) \/ CancelImport(c) \/ Import(c)
      PROVE  [Promise!Next]_(Promise!vars)
  BY <1>4, ImportRows, StillStutters
<1> QED
  BY <1>1, <1>2, <1>3, <1>4 DEF Next

\* Without crashes and resets, and where every stem is one that changesets check against
\* the entries in flight, the gateway keeps its promise: a changeset takes all its effects
\* in one step, or none, whatever else is indexed, synced, rechunked or wiped meanwhile.
THEOREM ChangesetsAreAtomic ==
    ASSUME ~AdminReset, MaxCrashes = 0, Covered = Stem
    PROVE  Spec => AllOrNothing
<1>1. Init => Promise!Init
  <2> SUFFICES ASSUME Init PROVE Promise!Init
    OBVIOUS
  <2>1. disk \in [Stem -> File]
    BY TypeInit DEF TypeOK
  <2>2. Committed = [s \in Stem |-> disk[s].text]
    BY DEF Init, AtRest, Committed, Undoable
  <2>3. Identities = [s \in Stem |-> Nil]
    BY DEF Init, Identities, NoRow
  <2> QED
    BY <2>1, <2>2, <2>3 DEF Promise!Init, File, Text
<1>2. FilesInv /\ [Next]_vars => [Promise!Next]_(Promise!vars)
  BY StepRefines
<1> QED
  BY <1>1, <1>2, FilesAlways, PTL DEF Spec, AllOrNothing, Promise!Spec
============================================================================
