-------------------------- MODULE WorkspaceProofs --------------------------
(* Theorems about Workspace, for every set of stems, tasks and changesets. *)
EXTENDS Workspace, TLAPS

(***************************************************************************)
(* Type correctness                                                        *)
(***************************************************************************)

\* What has no value yet is of the type of what has.
LEMMA NothingTyped ==
    /\ NoFile \in File
    /\ NoRow \in Row
    /\ NoJob \in Job
    /\ NoChange \in ChangeRecord
  BY DEF NoFile, File, NoRow, Row, NoJob, Job, NoChange, ChangeRecord, Text

\* The stems a change touches are stems.
LEMMA TouchedTyped ==
    ASSUME NEW ch \in ChangeRecord
    PROVE  Written(ch) \subseteq Stem /\ Leaving(ch) \subseteq Stem /\ Touched(ch) \subseteq Stem
  BY DEF Written, Leaving, Touched, ChangeRecord

\* Vacating and landing leave files.
LEMMA LandedTyped ==
    ASSUME NEW ch \in ChangeRecord, NEW parked \in [Stem -> File],
           NEW files \in [Stem -> File], NEW now \in Nat
    PROVE  Vacated(ch, files) \in [Stem -> File] /\ Landed(ch, parked, files, now) \in [Stem -> File]
<1>1. Vacated(ch, files) \in [Stem -> File]
  BY NothingTyped DEF Vacated
<1>2. ASSUME NEW m \in ch.moves
      PROVE  MovedFile(ch, m, parked, now) \in File
  <2>1. m[1] \in Stem
    BY <1>2 DEF ChangeRecord
  <2>2. parked[m[1]] \in File
    BY <2>1
  <2>3. CASE parked[m[1]].text # Nil
    <3>1. Rewrite[parked[m[1]].text] \in Text
      BY <2>2, <2>3, RewriteAssumption DEF File, Text
    <3> QED BY <2>2, <3>1 DEF MovedFile, File
  <2>4. CASE parked[m[1]].text = Nil
    BY <2>2, <2>4 DEF MovedFile
  <2> QED BY <2>3, <2>4
<1>3. ASSUME NEW s \in Stem
      PROVE  Landed(ch, parked, files, now)[s] \in File
  <2>1. ch.put[s] \in Text
    BY DEF ChangeRecord
  <2>2. CASE ch.put[s] # Nil
    BY <2>1, <2>2 DEF Landed, File
  <2>3. CASE ch.put[s] = Nil /\ \E m \in ch.moves : m[2] = s /\ parked[m[1]].text # Nil
    <3>1. (CHOOSE m \in ch.moves : m[2] = s) \in ch.moves
      BY <2>3
    <3> QED BY <2>3, <3>1, <1>2 DEF Landed
  <2>4. CASE ch.put[s] = Nil /\ ~ \E m \in ch.moves : m[2] = s /\ parked[m[1]].text # Nil
    BY <2>4 DEF Landed
  <2> QED BY <2>2, <2>3, <2>4
<1> QED BY <1>1, <1>3 DEF Landed

\* Re-keying leaves rows.
LEMMA RekeyedTyped ==
    ASSUME NEW ch \in ChangeRecord, NEW old \in [Stem -> Row]
    PROVE  Rekeyed(ch, old) \in [Stem -> Row]
<1>1. ASSUME NEW s \in Stem
      PROVE  Rekeyed(ch, old)[s] \in Row
  <2>1. CASE \E m \in ch.moves : m[2] = s /\ old[m[1]].id # Nil
    <3>1. (CHOOSE m \in ch.moves : m[2] = s) \in Stem \X Stem
      BY <2>1 DEF ChangeRecord
    <3> QED BY <2>1, <3>1 DEF Rekeyed
  <2>2. CASE ~ \E m \in ch.moves : m[2] = s /\ old[m[1]].id # Nil
    BY <2>2, NothingTyped DEF Rekeyed
  <2> QED BY <2>1, <2>2
<1> QED BY <1>1 DEF Rekeyed

\* A new process knows nothing.
LEMMA RestTyped ==
    /\ [t \in Task |-> [s \in Stem |-> NoFile]] \in [Task -> [Stem -> File]]
    /\ [s \in Stem |-> NoFile] \in [Stem -> File]
    /\ [t \in Task |-> [s \in Stem |-> NoJob]] \in [Task -> [Stem -> Job]]
    /\ [s \in Stem |-> NoJob] \in [Stem -> Job]
    /\ [t \in Task |-> [s \in Stem |-> NoRow]] \in [Task -> [Stem -> Row]]
    /\ [s \in Stem |-> NoRow] \in [Stem -> Row]
    /\ [t \in Task |-> NoChange] \in [Task -> ChangeRecord]
  BY NothingTyped

\* The first state is typed.
LEMMA TypeInit == Init => TypeOK
<1> SUFFICES ASSUME Init PROVE TypeOK
  OBVIOUS
<1>1. PICK files \in Seeds :
        disk = [s \in Stem |-> IF files[s] = Nil THEN NoFile ELSE [text |-> files[s], stat |-> 1]]
  BY DEF Init
<1>2. files \in [Stem -> Text]
  BY SeedsAssumption
<1>3. disk \in [Stem -> File]
  BY <1>1, <1>2, NothingTyped DEF File
<1> QED BY <1>3, RestTyped DEF Init, AtRest, TypeOK, Phase

\* An index of one stem keeps the types.
LEMMA IndexTyped ==
    ASSUME TypeOK, NEW t \in Task, NEW s \in Stem,
           Upsert(t, s) \/ StoreChunks(t, s) \/ Stamp(t, s) \/ IndexFails(t, s)
    PROVE  TypeOK'
<1> USE DEF TypeOK, gates, commits, syncs, imports, world, SetJob
<1>0. jobs[t][s] \in Job /\ rows[s] \in Row
  OBVIOUS
<1>1. CASE Upsert(t, s)
  <2> DEFINE i == IF HasRow(s) THEN rows[s].id ELSE CHOOSE j \in FreshIds : TRUE
  <2>1. i \in RowId
    <3>1. CASE HasRow(s)
      BY <1>0, <3>1 DEF HasRow, Row
    <3>2. CASE ~HasRow(s)
      <4>1. FreshIds # {}
        BY <1>1, <3>2 DEF Upsert
      <4>2. (CHOOSE j \in FreshIds : TRUE) \in FreshIds
        BY <4>1
      <4>3. FreshIds \subseteq RowId
        BY DEF FreshIds
      <4> QED BY <3>2, <4>2, <4>3
    <3> QED BY <3>1, <3>2
  <2>2. [jobs[t][s] EXCEPT !.stage = "store", !.id = i] \in Job
    BY <1>0, <2>1 DEF Job
  <2>3. [id |-> i, digest |-> Nil, stat |-> 0, chunks |-> rows[s].chunks] \in Row
    BY <1>0, <2>1 DEF Row, Text
  <2>4. /\ rows' = [rows EXCEPT ![s] = [id |-> i, digest |-> Nil, stat |-> 0, chunks |-> rows[s].chunks]]
        /\ jobs' = [jobs EXCEPT ![t][s] = [jobs[t][s] EXCEPT !.stage = "store", !.id = i]]
    BY <1>1 DEF Upsert
  <2> HIDE DEF i
  <2>5. rows' \in [Stem -> Row] /\ jobs' \in [Task -> [Stem -> Job]]
    BY <2>2, <2>3, <2>4
  <2> QED BY <1>1, <2>5 DEF Upsert
<1>2. CASE StoreChunks(t, s)
  <2>1. [jobs[t][s] EXCEPT !.stage = "stamp"] \in Job
    BY <1>0 DEF Job
  <2>2. \A r \in Stem : [rows[r] EXCEPT !.chunks = jobs[t][s].text] \in Row
    BY <1>0 DEF Row, Job
  <2> QED BY <1>2, <2>1, <2>2 DEF StoreChunks
<1>3. CASE Stamp(t, s)
  <2>1. \A r \in Stem : [rows[r] EXCEPT !.digest = jobs[t][s].text, !.stat = jobs[t][s].stat] \in Row
    BY <1>0 DEF Row, Job
  <2> QED BY <1>3, <2>1, NothingTyped DEF Stamp
<1>4. CASE IndexFails(t, s)
  BY <1>4, NothingTyped DEF IndexFails, durable
<1> QED BY <1>1, <1>2, <1>3, <1>4

\* An index starts from a typed job.
LEMMA StartedTyped == TypeOK => \A s \in Stem : Started(s) \in Job
<1> SUFFICES ASSUME TypeOK, NEW s \in Stem PROVE Started(s) \in Job
  OBVIOUS
<1>1. disk[s] \in File
  BY DEF TypeOK
<1> QED BY <1>1 DEF Started, Job, File

\* Every step keeps the types.
LEMMA TypeNext == TypeOK /\ [Next]_vars => TypeOK'
<1> SUFFICES ASSUME TypeOK, [Next]_vars PROVE TypeOK'
  OBVIOUS
<1> USE DEF TypeOK, durable, gates, commits, syncs, imports, world, Goto, Phase
<1>1. CASE UNCHANGED vars
  BY <1>1 DEF vars
<1>2. CASE Crash
  BY <1>2, RestTyped DEF Crash
<1>3. ASSUME NEW t \in Task, NEW ch \in ChangeRecord, Plan(t, ch)
      PROVE  /\ change' \in [Task -> ChangeRecord] /\ seen' \in [Task -> [Stem -> File]]
             /\ pc' \in [Task -> Phase]
  BY <1>3, NothingTyped DEF Plan
<1>4. ASSUME NEW t \in Task, Ask(t)
      PROVE  TypeOK'
  <2>1. CASE Request(t)
    <3>1. PICK ch \in Changes : Plan(t, ch) \/ Submit(t, ch)
      BY <2>1 DEF Request
    <3>2. ch \in ChangeRecord
      BY ChangesAssumption
    <3>3. CASE Plan(t, ch)
      BY <2>1, <3>2, <3>3, <1>3 DEF Request, Plan
    <3>4. CASE Submit(t, ch)
      BY <2>1, <3>2, <3>4 DEF Request, Submit
    <3> QED BY <3>1, <3>3, <3>4
  <2>2. CASE RkRequest(t)
    BY <2>2 DEF RkRequest
  <2>3. CASE WipeRequest(t)
    BY <2>3 DEF WipeRequest
  <2>4. CASE SyncRefs(t)
    BY <2>4 DEF SyncRefs
  <2>5. CASE ResetFiles(t)
    BY <2>5, RestTyped DEF ResetFiles
  <2> QED BY <1>4, <2>1, <2>2, <2>3, <2>4, <2>5 DEF Ask
<1>5. ASSUME NEW t \in Task, Lock(t)
      PROVE  TypeOK'
  <2>1. CASE Acquire(t)
    BY <2>1 DEF Acquire
  <2>2. CASE RkLock(t)
    BY <2>2, StartedTyped, NothingTyped DEF RkLock
  <2>3. CASE WipeLock(t)
    BY <2>3 DEF WipeLock
  <2>4. CASE WipeRefuse(t)
    BY <2>4 DEF WipeRefuse
  <2>5. CASE SyncLock(t)
    BY <2>5 DEF SyncLock
  <2>6. CASE SyncRefuse(t)
    BY <2>6, RestTyped DEF SyncRefuse
  <2> QED BY <1>5, <2>1, <2>2, <2>3, <2>4, <2>5, <2>6 DEF Lock
<1>6. ASSUME NEW t \in Task, Commit(t)
      PROVE  TypeOK'
  <2>0. change[t] \in ChangeRecord
    OBVIOUS
  <2>1. CASE Converted(t)
    BY <2>1 DEF Converted
  <2>2. CASE ConversionEnds(t) \/ Refuse(t)
    BY <2>2, RestTyped, NothingTyped DEF ConversionEnds, Refuse, Finish
  <2>3. CASE Resolve(t)
    BY <2>3 DEF Resolve
  <2>4. CASE Vacate(t)
    <3>1. Vacated(change[t], disk) \in [Stem -> File]
      BY <2>0, LandedTyped, 0 \in Nat
    <3>2. journal' \in [Stem -> File]
      BY <2>4, NothingTyped DEF Vacate
    <3> QED BY <2>4, <3>1, <3>2 DEF Vacate
  <2>5. CASE Land(t)
    <3>1. clock' \in Nat
      BY <2>5 DEF Land
    <3>2. Landed(change[t], journal, disk, clock') \in [Stem -> File]
      BY <2>0, <3>1, LandedTyped
    <3> QED BY <2>5, <3>1, <3>2 DEF Land
  <2>6. CASE Transact(t)
    <3>1. Rekeyed(change[t], rows) \in [Stem -> Row]
      BY <2>0, RekeyedTyped
    <3> QED BY <2>6, <3>1 DEF Transact
  <2>7. CASE RollBack(t)
    <3>1. disk' \in [Stem -> File] /\ journal' \in [Stem -> File]
      BY <2>7, RestTyped DEF RollBack
    <3> QED BY <2>7, <3>1, RestTyped, NothingTyped DEF RollBack, Finish
  <2>8. CASE Claim(t)
    <3>1. Written(change[t]) \subseteq Stem
      BY <2>0, TouchedTyped
    <3>2. jobs' \in [Task -> [Stem -> Job]] /\ journal' \in [Stem -> File]
      BY <2>8, StartedTyped, NothingTyped DEF Claim
    <3>3. landed' \in [Collection -> SUBSET Stem] /\ inflight' \subseteq Stem
      BY <2>8, <3>1 DEF Claim
    <3> QED BY <2>8, <3>2, <3>3 DEF Claim
  <2>9. CASE Settle(t)
    BY <2>9, RestTyped, NothingTyped DEF Settle, Finish
  <2> QED BY <1>6, <2>1, <2>2, <2>3, <2>4, <2>5, <2>6, <2>7, <2>8, <2>9 DEF Commit
<1>7. ASSUME NEW t \in Task, Rechunk(t) \/ Wipe(t) \/ ResetRows(t)
      PROVE  TypeOK'
  <2>1. CASE Rechunk(t)
    BY <2>1 DEF Rechunk, RkRefuse, RkDone
  <2>2. CASE WipeRows(t) \/ ResetRows(t)
    BY <2>2, RestTyped DEF WipeRows, ResetRows
  <2>3. CASE WipeFiles(t)
    BY <2>3, NothingTyped DEF WipeFiles
  <2> QED BY <1>7, <2>1, <2>2, <2>3 DEF Wipe
<1>8. ASSUME NEW t \in Task, Reconcile(t)
      PROVE  TypeOK'
  <2>1. CASE SyncStates(t)
    BY <2>1 DEF SyncStates
  <2>2. CASE SyncDone(t)
    BY <2>2, RestTyped DEF SyncDone
  <2>3. ASSUME NEW s \in Stem, SyncGone(t, s)
        PROVE  TypeOK'
    BY <2>3, NothingTyped DEF SyncGone, Visit
  <2>4. ASSUME NEW s \in Stem, SyncFresh(t, s)
        PROVE  TypeOK'
    <3>1. disk[s] \in File /\ rows[s] \in Row
      OBVIOUS
    <3>2. [rows[s] EXCEPT !.stat = disk[s].stat] \in Row
      BY <3>1 DEF Row, File
    <3>3. rows' \in [Stem -> Row]
      BY <2>4, <3>2 DEF SyncFresh
    <3> QED BY <2>4, <3>3 DEF SyncFresh, Visit
  <2>5. ASSUME NEW s \in Stem, SyncIndex(t, s)
        PROVE  TypeOK'
    BY <2>5, StartedTyped DEF SyncIndex, Visit, SetJob
  <2> QED BY <1>8, <2>1, <2>2, <2>3, <2>4, <2>5 DEF Reconcile, Sync
<1>9. ASSUME NEW c \in Collection,
             ClaimStore(c) \/ CancelImport(c) \/ PlanImport(c) \/ FinishImport(c)
      PROVE  TypeOK'
  BY <1>9, ChangesAssumption DEF ClaimStore, CancelImport, PlanImport, FinishImport
<1>10. ASSUME NEW c \in Collection, NEW t \in Task, ImportFile(c, t)
       PROVE  TypeOK'
  <2>1. PICK ch \in left[c] :
          /\ left' = [left EXCEPT ![c] = @ \ {ch}]
          /\ \/ Plan(t, ch) /\ by' = [by EXCEPT ![t] = c]
             \/ UNCHANGED <<durable, gates, pc, commits, jobs, syncs, by, landed,
                            importing, world>>
    BY <1>10 DEF ImportFile
  <2>2. ch \in ChangeRecord /\ left' \in [Collection -> SUBSET ChangeRecord]
    BY <2>1
  <2>3. CASE Plan(t, ch) /\ by' = [by EXCEPT ![t] = c]
    BY <2>2, <2>3, <1>3 DEF Plan
  <2>4. CASE UNCHANGED <<durable, gates, pc, commits, jobs, syncs, by, landed,
                         importing, world>>
    BY <2>2, <2>4
  <2> QED BY <2>1, <2>3, <2>4
<1>11. ASSUME NEW t \in Task, Index(t) \/ IndexFailure(t)
       PROVE  TypeOK'
  BY <1>11, IndexTyped DEF Index, IndexFailure
<1> QED
  BY <1>1, <1>2, <1>4, <1>5, <1>6, <1>7, <1>8, <1>9, <1>10, <1>11 DEF Next, Step, Import

\* Every variable keeps its type in every behaviour.
THEOREM TypeCorrect == Spec => []TypeOK
<1>1. Init => TypeOK
  BY TypeInit
<1>2. TypeOK /\ [Next]_vars => TypeOK'
  BY TypeNext
<1> QED BY <1>1, <1>2, PTL DEF Spec


(***************************************************************************)
(* What is indexed without the lock stays on disk                          *)
(***************************************************************************)

\* A changeset admitted touches no covered stem in flight.
LEMMA AdmittedClears ==
    ASSUME TypeOK, NEW ch \in Changes \cup Archive, Admitted(ch)
    PROVE  Touched(ch) \cap Covered \cap inflight = {}
<1> SUFFICES ASSUME NEW s \in Touched(ch), s \in Covered, s \in inflight PROVE FALSE
  OBVIOUS
<1>1. s \in Stem
  BY DEF Covered
<1>2. s \in ch.guards \/ (ch.tree /\ s \in ch.below)
  BY DEF Covered
<1>3. CASE s \in ch.guards
  BY <1>1, <1>3, OwnedAssumption DEF Admitted, Busy
<1>4. CASE ch.tree /\ s \in ch.below
  BY <1>4 DEF Admitted, ScopeBusy
<1> QED BY <1>2, <1>3, <1>4

\* An index pending on a covered stem keeps it out of what the lock's holder changes.
LEMMA PendingUntouched ==
    ASSUME InflightInv, NEW t \in Task, pc[t] \in {"vacating"} \cup Installing,
           NEW u \in Task, NEW s \in Covered, Pending(u, s)
    PROVE  s \notin Touched(change[t])
<1>1. s \in Stem
  BY DEF Covered
<1>2. s \in inflight
  BY <1>1 DEF InflightInv, JobsOwned, Claimed, Pending
<1> QED BY <1>2 DEF InflightInv, Cleared

\* An install changes the files of the stems it touches alone.
LEMMA InstallLocal ==
    ASSUME NEW ch \in ChangeRecord, NEW s \in Stem, s \notin Touched(ch),
           NEW parked, NEW files, NEW now
    PROVE  Vacated(ch, files)[s] = files[s] /\ Landed(ch, parked, files, now)[s] = files[s]
<1>1. s \notin Leaving(ch) /\ ch.put[s] = Nil
  BY DEF Touched, Written
<1>2. \A m \in ch.moves : m[2] # s
  BY DEF Touched
<1> QED BY <1>1, <1>2 DEF Vacated, Landed

\* The claims are accounted for as long as the same changesets are being indexed.
LEMMA ClaimedKept ==
    ASSUME InflightInv, inflight' = inflight,
           \A u \in Task : /\ pc'[u] = "indexing" <=> pc[u] = "indexing"
                           /\ pc[u] = "indexing" => change'[u] = change[u]
    PROVE  Claimed'
<1>1. \A u \in Task : pc'[u] = "indexing" => Written(change'[u]) = Written(change[u])
  BY DEF Written
<1> QED BY <1>1 DEF InflightInv, Claimed, Covered

\* What is indexed under the lock stays unclaimed as long as nothing is claimed and
\* no task enters the lock or gets more to visit.
LEMMA VisitedKept ==
    ASSUME InflightInv, inflight' = inflight,
           \A u \in Task : pc'[u] \in {"rechunking", "syncing"} =>
               /\ pc[u] = pc'[u] /\ refs'[u] \subseteq refs[u]
               /\ \A s \in Stem : jobs'[u][s].stage # "none" => jobs[u][s].stage # "none" \/ s \in refs[u]
    PROVE  \A u \in Task, s \in Stem :
             pc'[u] \in {"rechunking", "syncing"} /\ (s \in refs'[u] \/ jobs'[u][s].stage # "none")
             => s \notin inflight'
  BY DEF InflightInv, Cleared

\* An index in progress changes neither what is claimed nor what lies on disk.
LEMMA IndexInflight ==
    ASSUME TypeOK, InflightInv, NEW t \in Task, Index(t) \/ IndexFailure(t)
    PROVE  InflightInv'
<1> USE DEF gates, commits, syncs, imports, world, SetJob, durable
<1>1. PICK s \in Stem : Upsert(t, s) \/ StoreChunks(t, s) \/ Stamp(t, s) \/ IndexFails(t, s)
  BY DEF Index, IndexFailure
<1>2. UNCHANGED <<disk, gates, pc, commits, syncs, by, imports>>
  BY <1>1 DEF Upsert, StoreChunks, Stamp, IndexFails
<1>3. jobs[t][s] \in Job
  BY DEF TypeOK
<1>4. ASSUME NEW job, jobs' = [jobs EXCEPT ![t][s] = job],
             job.stage # "none" => /\ jobs[t][s].stage # "none"
                                   /\ job.text = jobs[t][s].text /\ job.stat = jobs[t][s].stat
      PROVE  \A u \in Task, r \in Stem : jobs'[u][r].stage # "none" =>
               /\ jobs[u][r].stage # "none"
               /\ jobs'[u][r].text = jobs[u][r].text /\ jobs'[u][r].stat = jobs[u][r].stat
  BY <1>4 DEF TypeOK
<1>5. \A u \in Task, r \in Stem : jobs'[u][r].stage # "none" =>
        /\ jobs[u][r].stage # "none"
        /\ jobs'[u][r].text = jobs[u][r].text /\ jobs'[u][r].stat = jobs[u][r].stat
  <2>1. CASE Upsert(t, s)
    <3>1. PICK i : jobs' = [jobs EXCEPT ![t][s] = [jobs[t][s] EXCEPT !.stage = "store", !.id = i]]
      BY <2>1 DEF Upsert
    <3>2. jobs[t][s].stage # "none"
      BY <2>1 DEF Upsert
    <3> DEFINE job == [jobs[t][s] EXCEPT !.stage = "store", !.id = i]
    <3>3. job.text = jobs[t][s].text /\ job.stat = jobs[t][s].stat
      BY <1>3 DEF Job
    <3> HIDE DEF job
    <3>4. jobs' = [jobs EXCEPT ![t][s] = job]
      BY <3>1 DEF job
    <3> QED BY <3>2, <3>3, <3>4, <1>4
  <2>2. CASE StoreChunks(t, s)
    <3>1. jobs[t][s].stage # "none"
      BY <2>2 DEF StoreChunks
    <3> DEFINE job == [jobs[t][s] EXCEPT !.stage = "stamp"]
    <3>2. job.text = jobs[t][s].text /\ job.stat = jobs[t][s].stat
      BY <1>3 DEF Job
    <3> HIDE DEF job
    <3>3. jobs' = [jobs EXCEPT ![t][s] = job]
      BY <2>2 DEF StoreChunks, job
    <3> QED BY <3>1, <3>2, <3>3, <1>4
  <2>3. CASE Stamp(t, s) \/ IndexFails(t, s)
    <3>1. jobs' = [jobs EXCEPT ![t][s] = NoJob] /\ NoJob.stage = "none"
      BY <2>3 DEF Stamp, IndexFails, NoJob
    <3> QED BY <3>1, <1>4
  <2> QED BY <1>1, <2>1, <2>2, <2>3
<1>6. (LockHeld /\ KnownChanges /\ Claimed)'
  BY <1>2, ClaimedKept DEF InflightInv, LockHeld, KnownChanges
<1>9. Cleared'
  BY <1>2, <1>5 DEF InflightInv, Cleared
<1>7. JobsOwned'
  BY <1>2, <1>5 DEF InflightInv, JobsOwned
<1>8. PendingKept'
  <2> SUFFICES ASSUME NEW u \in Task, NEW r \in Covered, Pending(u, r)'
               PROVE  disk'[r] = [text |-> jobs'[u][r].text, stat |-> jobs'[u][r].stat]
    BY DEF PendingKept, Covered
  <2>1. r \in Stem
    BY DEF Covered
  <2>2. Pending(u, r)
    BY <1>2, <1>5, <2>1 DEF Pending
  <2> QED BY <1>2, <1>5, <2>1, <2>2 DEF InflightInv, PendingKept, Pending
<1> QED BY <1>6, <1>7, <1>8, <1>9 DEF InflightInv


\* The steps of a changeset: only admitted ones touch files, only under the lock,
\* and what they write is claimed before the lock is released.
LEMMA CommitInflight ==
    ASSUME TypeOK, InflightInv, NEW t \in Task, Commit(t)
    PROVE  InflightInv'
<1> USE DEF gates, commits, syncs, imports, world, durable, Goto, Inside, Installing, Committing
<1>0. /\ pc \in [Task -> Phase] /\ change \in [Task -> ChangeRecord]
      /\ lock \in Task \cup {Nobody} /\ inflight \subseteq Stem
      /\ disk \in [Stem -> File] /\ jobs \in [Task -> [Stem -> Job]]
      /\ left \in [Collection -> SUBSET ChangeRecord]
  BY DEF TypeOK
<1>c. Covered \subseteq Stem
  BY DEF Covered
<1>1. CASE Converted(t)
  BY <1>0, <1>c, <1>1 DEF Converted, InflightInv, LockHeld, KnownChanges, JobsOwned,
     Claimed, Cleared, PendingKept, Pending
<1>2. CASE ConversionEnds(t) \/ Refuse(t)
  <2>1. /\ pc' = [pc EXCEPT ![t] = "idle"] /\ UNCHANGED <<disk, inflight, jobs, refs, left>>
        /\ change' = [change EXCEPT ![t] = NoChange]
        /\ lock' = IF lock = t THEN Nobody ELSE lock
        /\ pc[t] \in {"converting", "resolving"}
    BY <1>2 DEF ConversionEnds, Refuse, Finish
  <2>2. LockHeld'
    BY <1>0, <2>1, TaskAssumption DEF InflightInv, LockHeld
  <2>3. KnownChanges'
    BY <1>0, <2>1 DEF InflightInv, KnownChanges
  <2>4. (JobsOwned /\ Claimed /\ Cleared)'
    BY <1>0, <2>1 DEF InflightInv, JobsOwned, Claimed, Cleared
  <2>5. PendingKept'
    BY <1>0, <1>c, <2>1 DEF InflightInv, PendingKept, Pending
  <2> QED BY <2>2, <2>3, <2>4, <2>5 DEF InflightInv
<1>3. CASE Resolve(t)
  <2>1. Touched(change[t]) \cap Covered \cap inflight = {}
    BY <1>3, AdmittedClears DEF Resolve, InflightInv, KnownChanges
  <2> QED BY <1>0, <1>c, <1>3, <2>1 DEF Resolve, InflightInv, LockHeld,
     KnownChanges, JobsOwned, Claimed, Cleared, PendingKept, Pending
<1>4. CASE Vacate(t) \/ Land(t) \/ Transact(t) \/ RollBack(t)
  <2>1. /\ change[t] \in ChangeRecord
        /\ pc[t] \in {"vacating"} \cup Installing
        /\ UNCHANGED <<inflight, claims, jobs, refs, left>>
    BY <1>0, <1>4 DEF Vacate, Land, Transact, RollBack, Finish
  <2>2. ASSUME NEW s \in Stem, s \notin Touched(change[t])
        PROVE  disk'[s] = disk[s]
    BY <1>4, <2>1, <2>2, InstallLocal DEF Vacate, Land, Transact, RollBack
  <2>3. PendingKept'
    <3> SUFFICES ASSUME NEW u \in Task, NEW s \in Covered, Pending(u, s)'
                 PROVE  disk'[s] = [text |-> jobs'[u][s].text, stat |-> jobs'[u][s].stat]
      BY DEF PendingKept, Covered
    <3>1. Pending(u, s)
      BY <1>0, <1>4, <2>1 DEF Pending, Vacate, Land, Transact, RollBack, Finish
    <3>2. disk'[s] = disk[s]
      BY <1>c, <2>1, <2>2, <3>1, PendingUntouched
    <3> QED BY <2>1, <3>1, <3>2 DEF InflightInv, PendingKept
  <2>4. (LockHeld /\ KnownChanges)'
    BY <1>0, <1>4, <2>1, TaskAssumption DEF Vacate, Land, Transact, RollBack, Finish, InflightInv,
       LockHeld, KnownChanges
  <2>5. JobsOwned'
    BY <1>0, <1>4, <2>1 DEF Vacate, Land, Transact, RollBack, Finish, InflightInv, JobsOwned
  <2>7. Claimed'
    BY <1>0, <1>4, <2>1, ClaimedKept DEF Vacate, Land, Transact, RollBack, Finish
  <2>6. Cleared'
    BY <1>0, <1>4, <2>1 DEF Vacate, Land, Transact, RollBack, Finish, InflightInv, Cleared
  <2> QED BY <2>3, <2>4, <2>5, <2>6, <2>7 DEF InflightInv
<1>5. CASE Claim(t)
  <2>1. /\ lock = t
        /\ \A u \in Task : pc[u] \in Inside => u = t
    BY <1>5 DEF Claim, InflightInv, LockHeld
  <2>2. /\ pc' = [pc EXCEPT ![t] = "indexing"] /\ UNCHANGED <<disk, change, refs, left>>
        /\ inflight' = inflight \cup Written(change[t])
        /\ \A u \in Task \ {t}, s \in Stem : jobs'[u][s] = jobs[u][s]
        /\ \A s \in Stem : jobs'[t][s] = IF s \in Written(change[t]) THEN Started(s) ELSE NoJob
    BY <1>0, <1>5 DEF Claim
  <2>3. Written(change[t]) \cap Covered \cap inflight = {}
    BY <1>5 DEF Claim, InflightInv, Cleared, Touched
  <2>4. (LockHeld /\ KnownChanges)'
    BY <1>0, <2>1, <2>2, <1>5 DEF Claim, InflightInv, LockHeld, KnownChanges
  <2>5. JobsOwned'
    BY <1>0, <2>1, <2>2 DEF InflightInv, JobsOwned, NoJob
  <2>6. Claimed'
    BY <1>0, <2>2, <2>3 DEF InflightInv, Claimed
  <2>7. Cleared'
    BY <1>0, <2>1, <2>2 DEF InflightInv, Cleared
  <2>8. PendingKept'
    <3> SUFFICES ASSUME NEW u \in Task, NEW s \in Covered, Pending(u, s)'
                 PROVE  disk'[s] = [text |-> jobs'[u][s].text, stat |-> jobs'[u][s].stat]
      BY DEF PendingKept, Covered
    <3>1. CASE u = t
      <4>1. jobs'[t][s] = Started(s)
        BY <1>c, <2>2, <3>1 DEF Pending, NoJob
      <4>2. disk[s] \in File
        BY <1>0, <1>c
      <4> QED BY <2>2, <3>1, <4>1, <4>2 DEF Started, File
    <3>2. CASE u # t
      BY <1>0, <1>c, <2>2, <3>2 DEF Pending, InflightInv, PendingKept
    <3> QED BY <3>1, <3>2
  <2> QED BY <2>4, <2>5, <2>6, <2>7, <2>8 DEF InflightInv
<1>6. CASE Settle(t)
  <2>1. /\ pc' = [pc EXCEPT ![t] = "idle"] /\ UNCHANGED <<disk, jobs, refs, left>>
        /\ inflight' = inflight \ Written(change[t]) /\ pc[t] = "indexing"
        /\ change' = [change EXCEPT ![t] = NoChange]
        /\ \A s \in Stem : jobs[t][s] = NoJob
        /\ lock' = IF lock = t THEN Nobody ELSE lock
    BY <1>6 DEF Settle, Finish
  <2>2. (LockHeld /\ KnownChanges)'
    BY <1>0, <2>1, TaskAssumption DEF InflightInv, LockHeld, KnownChanges
  <2>3. JobsOwned'
    BY <1>0, <2>1 DEF InflightInv, JobsOwned, NoJob
  <2>4. Claimed'
    BY <1>0, <2>1 DEF InflightInv, Claimed
  <2>5. Cleared'
    BY <1>0, <2>1 DEF InflightInv, Cleared
  <2>6. PendingKept'
    BY <1>0, <1>c, <2>1 DEF InflightInv, PendingKept, Pending
  <2> QED BY <2>2, <2>3, <2>4, <2>5, <2>6 DEF InflightInv
<1> QED BY <1>1, <1>2, <1>3, <1>4, <1>5, <1>6 DEF Commit

\* The other operations: they claim nothing, and a wipe waits for what is claimed.
LEMMA OthersInflight ==
    ASSUME TypeOK, InflightInv, NEW t \in Task, ~AdminReset,
           Ask(t) \/ Lock(t) \/ Rechunk(t) \/ Wipe(t) \/ Reconcile(t) \/ ResetRows(t)
    PROVE  InflightInv'
<1> USE DEF gates, commits, syncs, imports, world, durable, Goto, Inside, Installing, Committing
<1>0. /\ pc \in [Task -> Phase] /\ change \in [Task -> ChangeRecord]
      /\ lock \in Task \cup {Nobody} /\ inflight \subseteq Stem /\ refs \in [Task -> SUBSET Stem]
      /\ disk \in [Stem -> File] /\ jobs \in [Task -> [Stem -> Job]]
      /\ left \in [Collection -> SUBSET ChangeRecord]
  BY DEF TypeOK
<1>c. Covered \subseteq Stem
  BY DEF Covered
<1>1. CASE Request(t)
  <2>1. PICK ch \in Changes : Plan(t, ch) \/ Submit(t, ch)
    BY <1>1 DEF Request
  <2>2. /\ pc[t] = "idle" /\ UNCHANGED <<disk, lock, inflight, jobs, refs, left>>
        /\ change' = [change EXCEPT ![t] = ch]
        /\ pc' = [pc EXCEPT ![t] = "converting"] \/ pc' = [pc EXCEPT ![t] = "waiting"]
    BY <1>1, <2>1 DEF Request, Plan, Submit, Idle
  <2>3. Claimed'
    BY <1>0, <2>2, ClaimedKept
  <2>4. (LockHeld /\ KnownChanges /\ JobsOwned /\ Cleared)'
    BY <1>0, <2>2 DEF InflightInv, LockHeld, KnownChanges, JobsOwned, Cleared
  <2>5. PendingKept'
    BY <1>0, <1>c, <2>2 DEF InflightInv, PendingKept, Pending
  <2> QED BY <2>3, <2>4, <2>5 DEF InflightInv
<1>2. CASE RkRequest(t) \/ SyncRefs(t) \/ WipeRequest(t)
  <2>1. /\ pc[t] = "idle" /\ UNCHANGED <<disk, lock, inflight, jobs, change, left>>
        /\ \E to \in {"rk_wait", "sy_states", "wipe_wait"} : pc' = [pc EXCEPT ![t] = to]
        /\ \A u \in Task \ {t} : refs'[u] = refs[u]
    BY <1>0, <1>2 DEF RkRequest, SyncRefs, WipeRequest, Idle
  <2> QED BY <1>0, <1>c, <2>1 DEF InflightInv, LockHeld, KnownChanges, JobsOwned,
     Claimed, Cleared, PendingKept, Pending
<1>3. CASE ResetFiles(t)
  BY <1>3 DEF ResetFiles
<1>4. CASE Acquire(t) \/ SyncLock(t) \/ WipeLock(t)
  <2>1. /\ lock = Nobody /\ lock' = t /\ UNCHANGED <<disk, inflight, jobs, change, refs, left>>
        /\ \/ pc[t] = "waiting" /\ pc' = [pc EXCEPT ![t] = "resolving"]
           \/ pc[t] = "sy_wait" /\ pc' = [pc EXCEPT ![t] = "syncing"] /\ refs[t] \cap inflight = {}
           \/ pc[t] = "wipe_wait" /\ pc' = [pc EXCEPT ![t] = "wipe_rows"] /\ inflight = {}
    BY <1>0, <1>4, OwnedAssumption DEF Acquire, SyncLock, WipeLock, ScopeBusy, Busy
  <2>2. \A u \in Task : pc[u] \notin Inside
    BY <2>1, TaskAssumption DEF InflightInv, LockHeld
  <2>3. (LockHeld /\ KnownChanges)'
    BY <1>0, <2>1, <2>2 DEF InflightInv, LockHeld, KnownChanges
  <2>4. JobsOwned'
    BY <1>0, <2>1, <2>2 DEF InflightInv, JobsOwned
  <2>6. Claimed'
    BY <1>0, <2>1, ClaimedKept
  <2>7. Cleared'
    BY <1>0, <2>1, <2>2 DEF InflightInv, Cleared, JobsOwned
  <2>5. PendingKept'
    BY <1>0, <1>c, <2>1 DEF InflightInv, PendingKept, Pending
  <2> QED BY <2>3, <2>4, <2>5, <2>6, <2>7 DEF InflightInv
<1>5. CASE RkLock(t)
  <2>1. /\ lock = Nobody /\ lock' = t /\ UNCHANGED <<disk, inflight, change, refs, left>>
        /\ pc[t] = "rk_wait" /\ pc' = [pc EXCEPT ![t] = "rechunking"]
        /\ refs[t] \cap inflight = {}
        /\ \A u \in Task \ {t} : jobs'[u] = jobs[u]
        /\ \A s \in Stem : jobs'[t][s] = IF s \in refs[t] THEN Started(s) ELSE NoJob
    BY <1>0, <1>5, OwnedAssumption DEF RkLock, Busy
  <2>2. \A u \in Task : pc[u] \notin Inside
    BY <2>1, TaskAssumption DEF InflightInv, LockHeld
  <2>3. (LockHeld /\ KnownChanges)'
    BY <1>0, <2>1, <2>2 DEF InflightInv, LockHeld, KnownChanges
  <2>4. JobsOwned'
    BY <1>0, <2>1, <2>2 DEF InflightInv, JobsOwned, NoJob
  <2>6. Claimed'
    BY <1>0, <2>1, ClaimedKept
  <2>7. Cleared'
    BY <1>0, <2>1, <2>2 DEF InflightInv, Cleared, NoJob
  <2>5. PendingKept'
    BY <1>0, <1>c, <2>1 DEF InflightInv, PendingKept, Pending
  <2> QED BY <2>3, <2>4, <2>5, <2>6, <2>7 DEF InflightInv
<1>6. CASE WipeRefuse(t) \/ SyncRefuse(t) \/ RkRefuse(t) \/ SyncStates(t)
  <2>1. /\ UNCHANGED <<disk, lock, inflight, jobs, change, left>>
        /\ pc[t] \in {"wipe_wait", "sy_wait", "rk_wait", "sy_states"}
        /\ pc' = [pc EXCEPT ![t] = "idle"] \/ pc' = [pc EXCEPT ![t] = "sy_wait"]
        /\ \A u \in Task \ {t} : refs'[u] = refs[u]
    BY <1>0, <1>6 DEF WipeRefuse, SyncRefuse, RkRefuse, SyncStates
  <2>2. (LockHeld /\ KnownChanges)'
    BY <1>0, <2>1 DEF InflightInv, LockHeld, KnownChanges
  <2>3. JobsOwned'
    <3> SUFFICES ASSUME NEW u \in Task, NEW s \in Stem, jobs[u][s].stage # "none"
                 PROVE  \/ pc'[u] = "indexing" /\ s \in Written(change[u])
                        \/ pc'[u] = "rechunking" /\ s \in refs'[u]
                        \/ pc'[u] = "syncing"
      BY <2>1 DEF JobsOwned
    <3>1. u # t
      BY <2>1 DEF InflightInv, JobsOwned
    <3> QED BY <1>0, <2>1, <3>1 DEF InflightInv, JobsOwned
  <2>5. Claimed'
    BY <1>0, <2>1, ClaimedKept
  <2>6. Cleared'
    BY <1>0, <2>1, VisitedKept DEF InflightInv, Cleared
  <2>4. PendingKept'
    BY <1>0, <1>c, <2>1 DEF InflightInv, PendingKept, Pending
  <2> QED BY <2>2, <2>3, <2>4, <2>5, <2>6 DEF InflightInv
<1>7. CASE RkDone(t) \/ SyncDone(t)
  <2>1. /\ UNCHANGED <<disk, inflight, jobs, change, left>> /\ lock' = Nobody
        /\ pc[t] \in {"rechunking", "syncing"} /\ pc' = [pc EXCEPT ![t] = "idle"]
        /\ \A s \in Stem : jobs[t][s] = NoJob
        /\ \A u \in Task \ {t} : refs'[u] = refs[u]
    BY <1>0, <1>7 DEF RkDone, SyncDone
  <2>2. \A u \in Task : pc[u] \in Inside => u = t
    BY <2>1 DEF InflightInv, LockHeld
  <2>3. (LockHeld /\ KnownChanges)'
    BY <1>0, <2>1, <2>2 DEF InflightInv, LockHeld, KnownChanges
  <2>4. (JobsOwned /\ Claimed /\ Cleared)'
    BY <1>0, <2>1 DEF InflightInv, JobsOwned, Claimed, Cleared, NoJob
  <2>5. PendingKept'
    BY <1>0, <1>c, <2>1 DEF InflightInv, PendingKept, Pending
  <2> QED BY <2>3, <2>4, <2>5 DEF InflightInv
<1>8. CASE WipeRows(t) \/ ResetRows(t)
  <2>1. /\ UNCHANGED <<disk, lock, inflight, jobs, change, left, refs>>
        /\ \/ pc[t] = "wipe_rows" /\ pc' = [pc EXCEPT ![t] = "wipe_files"]
           \/ pc[t] = "ar_rows" /\ pc' = [pc EXCEPT ![t] = "idle"]
    BY <1>8 DEF WipeRows, ResetRows
  <2>2. (LockHeld /\ KnownChanges)'
    BY <1>0, <2>1 DEF InflightInv, LockHeld, KnownChanges
  <2>3. JobsOwned'
    BY <1>0, <2>1 DEF InflightInv, JobsOwned
  <2>5. Claimed'
    BY <1>0, <2>1, ClaimedKept
  <2>6. Cleared'
    BY <1>0, <2>1 DEF InflightInv, Cleared
  <2>4. PendingKept'
    BY <1>0, <1>c, <2>1 DEF InflightInv, PendingKept, Pending
  <2> QED BY <2>2, <2>3, <2>4, <2>5, <2>6 DEF InflightInv
<1>9. CASE WipeFiles(t)
  <2>1. /\ UNCHANGED <<inflight, jobs, change, left, refs>> /\ lock' = Nobody
        /\ pc[t] = "wipe_files" /\ pc' = [pc EXCEPT ![t] = "idle"] /\ inflight = {}
    BY <1>9 DEF WipeFiles, InflightInv, Cleared
  <2>2. \A u \in Task : pc[u] \in Inside => u = t
    BY <2>1 DEF InflightInv, LockHeld
  <2>3. (LockHeld /\ KnownChanges)'
    BY <1>0, <2>1, <2>2 DEF InflightInv, LockHeld, KnownChanges
  <2>4. (JobsOwned /\ Claimed /\ Cleared)'
    BY <1>0, <2>1 DEF InflightInv, JobsOwned, Claimed, Cleared
  <2>5. \A u \in Task, s \in Covered : ~Pending(u, s)'
    BY <1>0, <1>c, <2>1 DEF InflightInv, JobsOwned, Claimed, Pending
  <2>6. PendingKept'
    BY <2>5 DEF PendingKept, Covered
  <2> QED BY <2>3, <2>4, <2>6 DEF InflightInv
<1>10. ASSUME NEW s \in Stem, SyncGone(t, s) \/ SyncFresh(t, s) \/ SyncIndex(t, s)
       PROVE  InflightInv'
  <2>1. /\ UNCHANGED <<disk, lock, inflight, change, left, pc>> /\ pc[t] = "syncing"
        /\ \A u \in Task \ {t} : refs'[u] = refs[u] /\ jobs'[u] = jobs[u]
        /\ s \in refs[t] /\ refs'[t] \subseteq refs[t]
        /\ \A r \in Stem \ {s} : jobs'[t][r] = jobs[t][r]
    BY <1>0, <1>10 DEF SyncGone, SyncFresh, SyncIndex, Visit, SetJob
  <2>2. (LockHeld /\ KnownChanges)'
    BY <2>1 DEF InflightInv, LockHeld, KnownChanges
  <2>5. Claimed'
    BY <2>1, ClaimedKept
  <2>6. Cleared'
    BY <1>0, <2>1, VisitedKept DEF InflightInv, Cleared
  <2>3. JobsOwned'
    BY <1>0, <2>1 DEF InflightInv, JobsOwned
  <2>4. PendingKept'
    BY <1>0, <1>c, <2>1 DEF InflightInv, PendingKept, Pending
  <2> QED BY <2>2, <2>3, <2>4, <2>5, <2>6 DEF InflightInv
<1> QED BY <1>1, <1>2, <1>3, <1>4, <1>5, <1>6, <1>7, <1>8, <1>9, <1>10
        DEF Ask, Lock, Rechunk, Wipe, Reconcile, Sync

\* A bulk import's own steps start changesets of its archive alone.
LEMMA ImportInflight ==
    ASSUME TypeOK, InflightInv, NEW c \in Collection,
           ClaimStore(c) \/ CancelImport(c) \/ Import(c)
    PROVE  InflightInv'
<1> USE DEF gates, commits, syncs, imports, world, durable, Goto, Inside, Installing, Committing
<1>0. /\ pc \in [Task -> Phase] /\ change \in [Task -> ChangeRecord]
      /\ jobs \in [Task -> [Stem -> Job]] /\ left \in [Collection -> SUBSET ChangeRecord]
  BY DEF TypeOK
<1>c. Covered \subseteq Stem
  BY DEF Covered
<1>1. CASE ClaimStore(c) \/ CancelImport(c) \/ PlanImport(c) \/ FinishImport(c)
  <2>1. /\ UNCHANGED <<disk, lock, inflight, jobs, change, pc, refs>>
        /\ \A d \in Collection : left'[d] \subseteq Archive
    BY <1>0, <1>1 DEF ClaimStore, CancelImport, PlanImport, FinishImport, InflightInv, KnownChanges
  <2> QED BY <1>c, <2>1 DEF InflightInv, LockHeld, KnownChanges, JobsOwned,
     Claimed, Cleared, PendingKept, Pending
<1>2. ASSUME NEW t \in Task, ImportFile(c, t)
      PROVE  InflightInv'
  <2>1. PICK ch \in left[c] :
          /\ left' = [left EXCEPT ![c] = @ \ {ch}]
          /\ \/ Plan(t, ch) /\ by' = [by EXCEPT ![t] = c]
             \/ UNCHANGED <<durable, gates, pc, commits, jobs, syncs, by, landed,
                            importing, world>>
    BY <1>2 DEF ImportFile
  <2>2. ch \in Archive /\ \A d \in Collection : left'[d] \subseteq Archive
    BY <1>0, <2>1 DEF InflightInv, KnownChanges
  <2>3. CASE Plan(t, ch)
    <3>1. /\ pc[t] = "idle" /\ UNCHANGED <<disk, lock, inflight, jobs, refs>>
          /\ change' = [change EXCEPT ![t] = ch]
          /\ pc' = [pc EXCEPT ![t] = "converting"]
      BY <2>3 DEF Plan, Idle
    <3> QED BY <1>0, <1>c, <2>2, <3>1 DEF InflightInv, LockHeld, KnownChanges, JobsOwned,
       Claimed, Cleared, PendingKept, Pending
  <2>4. CASE UNCHANGED <<durable, gates, pc, commits, jobs, syncs, by, landed, importing, world>>
    BY <1>c, <2>2, <2>4 DEF InflightInv, LockHeld, KnownChanges, JobsOwned,
       Claimed, Cleared, PendingKept, Pending
  <2> QED BY <2>1, <2>3, <2>4
<1> QED BY <1>1, <1>2 DEF Import

\* A new process has nothing in flight.
LEMMA RestInflight ==
    /\ Init => InflightInv
    /\ Crash => InflightInv'
<1>1. NoJob.stage = "none" /\ Nobody \notin Task
  BY TaskAssumption DEF NoJob
<1>2. Init => InflightInv
  BY <1>1 DEF Init, AtRest, InflightInv, LockHeld, KnownChanges, JobsOwned, Claimed, Cleared,
     PendingKept, Pending, Inside, Installing, Committing, Covered
<1>3. Crash => InflightInv'
  BY <1>1 DEF Crash, InflightInv, LockHeld, KnownChanges, JobsOwned, Claimed, Cleared,
     PendingKept, Pending, Inside, Installing, Committing, Covered
<1> QED BY <1>2, <1>3

\* Every step keeps what is pending on disk.
LEMMA InflightNext ==
    ~AdminReset /\ TypeOK /\ InflightInv /\ [Next]_vars => InflightInv'
<1> SUFFICES ASSUME ~AdminReset, TypeOK, InflightInv, [Next]_vars PROVE InflightInv'
  OBVIOUS
<1>1. CASE UNCHANGED vars
  <2>1. UNCHANGED <<disk, lock, inflight, jobs, change, pc, refs, left>>
    BY <1>1 DEF vars, durable, gates, commits, syncs, imports
  <2> QED BY <2>1 DEF InflightInv, LockHeld, KnownChanges, JobsOwned, Claimed, Cleared,
     PendingKept, Pending, Covered
<1>2. CASE Crash
  BY <1>2, RestInflight
<1>3. ASSUME NEW t \in Task, Ask(t) \/ Lock(t) \/ Step(t)
      PROVE  InflightInv'
  BY <1>3, CommitInflight, IndexInflight, OthersInflight DEF Step
<1>4. ASSUME NEW c \in Collection, ClaimStore(c) \/ CancelImport(c) \/ Import(c)
      PROVE  InflightInv'
  BY <1>4, ImportInflight
<1> QED BY <1>1, <1>2, <1>3, <1>4 DEF Next

\* Two indexings of one covered entry would be claimed twice, or be claimed and
\* cleared, or hold the lock together.
LEMMA IndexersApart == TypeOK /\ InflightInv => OneIndexer
<1> SUFFICES ASSUME TypeOK, InflightInv, NEW s \in Covered, NEW t \in Task, NEW u \in Task,
                    jobs[t][s].stage # "none", jobs[u][s].stage # "none", t # u
             PROVE  FALSE
  BY DEF OneIndexer
<1>1. s \in Stem
  BY DEF Covered
<1>2. \A v \in Task : jobs[v][s].stage # "none" /\ pc[v] = "indexing"
                      => s \in Written(change[v]) /\ s \in inflight
  BY <1>1 DEF InflightInv, JobsOwned, Claimed
<1>3. \A v \in Task : jobs[v][s].stage # "none" /\ pc[v] # "indexing"
                      => pc[v] \in {"rechunking", "syncing"} /\ s \notin inflight /\ lock = v
  BY <1>1 DEF InflightInv, JobsOwned, Cleared, LockHeld, Inside
<1>4. CASE pc[t] = "indexing" /\ pc[u] = "indexing"
  BY <1>2, <1>4 DEF InflightInv, Claimed
<1>5. CASE pc[t] # "indexing" \/ pc[u] # "indexing"
  BY <1>2, <1>3, <1>5
<1> QED BY <1>4, <1>5

\* The claims are those of the changesets indexing.
LEMMA ClaimsExact == InflightInv => InflightExact
<1> SUFFICES ASSUME InflightInv PROVE InflightExact
  OBVIOUS
<1> DEFINE Indexing == {u \in Task : pc[u] = "indexing"}
<1>1. ASSUME NEW s \in inflight \cap Covered
      PROVE  s \in UNION {Written(change[t]) : t \in Indexing}
  BY DEF InflightInv, Claimed
<1>2. ASSUME NEW s \in Covered, NEW t \in Indexing, s \in Written(change[t])
      PROVE  s \in inflight
  BY <1>2 DEF InflightInv, Claimed
<1>3. ASSUME NEW s
      PROVE  s \in inflight \cap Covered
             <=> s \in Covered \cap UNION {Written(change[t]) : t \in Indexing}
  <2>1. s \in UNION {Written(change[t]) : t \in Indexing}
        <=> \E t \in Indexing : s \in Written(change[t])
    OBVIOUS
  <2> HIDE DEF Indexing
  <2> QED BY <1>1, <1>2, <2>1
<1>4. inflight \cap Covered = Covered \cap UNION {Written(change[t]) : t \in Indexing}
  BY <1>3
<1> QED BY <1>4 DEF InflightExact

\* The strengthened invariant holds throughout while nobody resets the workspace.
LEMMA InflightAlways == Spec /\ ~AdminReset => [](TypeOK /\ InflightInv)
<1>1. Init => TypeOK /\ InflightInv
  BY TypeInit, RestInflight
<1>2. CASE ~AdminReset
  <2>1. TypeOK /\ InflightInv /\ [Next]_vars => (TypeOK /\ InflightInv)'
    BY TypeNext, InflightNext, <1>2
  <2> QED BY <1>1, <2>1, PTL DEF Spec
<1>3. CASE AdminReset
  BY <1>3
<1> QED BY <1>2, <1>3

\* Unless an admin resets the workspace, what a changeset installed and has yet to
\* index stays on disk as it was installed, for any set of changesets whose planner
\* checks the stems it touches.
THEOREM PendingIsKept == Spec /\ ~AdminReset => []PendingKept
<1>1. InflightInv => PendingKept
  BY DEF InflightInv
<1> QED BY <1>1, InflightAlways, PTL

\* Under the same proviso no two tasks ever index one entry at a time: the gateway's
\* indexing outside the lock, a rechunk and a sync exclude one another per entry.
THEOREM OneAtATime == Spec /\ ~AdminReset => []OneIndexer
  BY IndexersApart, InflightAlways, PTL

\* And the claims on entries are exact: none outlives its indexing, none ends before it.
THEOREM ClaimsAreExact == Spec /\ ~AdminReset => []InflightExact
  BY ClaimsExact, InflightAlways, PTL
============================================================================
