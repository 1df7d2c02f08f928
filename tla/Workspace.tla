----------------------------- MODULE Workspace -----------------------------
(***************************************************************************)
(* One casebase of Hivegent: the files on disk, the document rows and      *)
(* chunks derived from them, and every operation that changes either       *)
(* (hivegent.workspace, hivegent.chunks, hivegent.reconcile).              *)
(*                                                                         *)
(* A task is one asyncio task (a request handler, a background job, the    *)
(* startup sequence) running one operation at a time.  An action is what   *)
(* happens between two awaits at which another task can run.               *)
(***************************************************************************)
EXTENDS Naturals, FiniteSets

CONSTANTS
    Stem,         \* the logical entries of the casebase, asset descriptions included
    Content,      \* what a text can be
    Nil,          \* no text, no row, nothing
    Task,         \* asyncio tasks
    Nobody,       \* holder of a free lock
    Collection,   \* bulk imports
    RowId,        \* identities a document row can get
    Owned,        \* Owned[s]: the stems entry_owns(s, .) accepts
    Changes,      \* the changesets clients may ask for
    Archive,      \* the uploads of a bulk import
    Seeds,        \* the texts the disk may hold at first boot
    Rewrite,      \* Rewrite[c]: text c with its asset references repointed
    LiveReindex,  \* whether an admin reindexes while the server is up
    AdminReset,   \* whether an admin resets the workspace
    MaxWrites,    \* bound on file writes (values the clock takes)
    MaxCrashes    \* bound on process crashes

Text == Content \cup {Nil}

ChangeRecord ==
    [put: [Stem -> Text], gone: SUBSET Stem, moves: SUBSET (Stem \X Stem),
     rewrites: SUBSET Stem, guards: SUBSET Stem, tree: BOOLEAN,
     below: SUBSET Stem, requires: SUBSET Stem, targets: SUBSET Stem,
     free: SUBSET Stem, convert: {"none", "text", "upload"}]

ASSUME ContentAssumption == Nil \notin Content \cup RowId
ASSUME TaskAssumption == Nobody \notin Task \cup Collection
ASSUME OwnedAssumption == Owned \in [Stem -> SUBSET Stem] /\ \A s \in Stem : s \in Owned[s]
ASSUME ChangesAssumption == Changes \subseteq ChangeRecord /\ Archive \subseteq ChangeRecord
ASSUME SeedsAssumption == Seeds \subseteq [Stem -> Text]
ASSUME RewriteAssumption == Rewrite \in [Content -> Content]
ASSUME FlagsAssumption == LiveReindex \in BOOLEAN /\ AdminReset \in BOOLEAN
ASSUME BoundsAssumption == MaxWrites \in Nat /\ MaxCrashes \in Nat

VARIABLES
    \* durable
    disk,      \* per stem its markdown: text, and the stat a write leaves
    rows,      \* per stem its document row: id, digest, stamped stat, chunks
    \* in memory of the one process
    lock,      \* the store's asyncio lock: its holder
    inflight,  \* _StoreState.stems
    claims,    \* _StoreState.store_claims, as the set of its holders
    pc,        \* per task what it does next
    change,    \* per task the changeset it commits
    seen,      \* per task the files its conversion started from
    journal,   \* the files as they were before the lock holder's install
    jobs,      \* per task and stem the indexing under way
    refs,      \* per task the references a sync or a rechunk is to visit
    states,    \* per task the row states a reindex read
    by,        \* per task the import it uploads for
    left,      \* per import the uploads not started yet
    importing, \* per import its phase
    landed,    \* per import the stems it has committed (history)
    \* environment
    mode,      \* "boot" until the startup reconcile is done, then "up"
    skipped,   \* the stems the startup reconcile failed to index (history)
    clock,     \* the stat the last write left
    crashes

durable == <<disk, rows>>
gates == <<lock, inflight, claims>>
commits == <<change, seen, journal>>
syncs == <<refs, states>>
imports == <<left, importing, landed>>
world == <<mode, skipped, clock, crashes>>
vars == <<durable, gates, pc, commits, jobs, syncs, by, imports, world>>

----------------------------------------------------------------------------
(* Values *)

File == [text: Text, stat: Nat]
NoFile == [text |-> Nil, stat |-> 0]

\* A null content_digest is digest Nil, null stat columns are stat 0.
Row == [id: RowId \cup {Nil}, digest: Text, stat: Nat, chunks: Text]
NoRow == [id |-> Nil, digest |-> Nil, stat |-> 0, chunks |-> Nil]

Job == [stage: {"none", "chunk", "store", "stamp"}, text: Text, stat: Nat,
        id: RowId \cup {Nil}]
NoJob == [stage |-> "none", text |-> Nil, stat |-> 0, id |-> Nil]

NoChange == [put |-> [s \in Stem |-> Nil], gone |-> {}, moves |-> {},
             rewrites |-> {}, guards |-> {}, tree |-> FALSE, below |-> {},
             requires |-> {}, targets |-> {}, free |-> {}, convert |-> "none"]

\* The indexing of the description a stem has on disk.
Started(s) == [stage |-> "chunk", text |-> disk[s].text, stat |-> disk[s].stat, id |-> Nil]

OnDisk(s) == disk[s].text # Nil
HasRow(s) == rows[s].id # Nil

\* The stems a change writes, vacates, and lands on.
Written(ch) == {s \in Stem : ch.put[s] # Nil}
Leaving(ch) == ch.gone \cup {m[1] : m \in ch.moves}
Touched(ch) == Written(ch) \cup Leaving(ch) \cup {m[2] : m \in ch.moves}

----------------------------------------------------------------------------
(* In-flight checks *)

\* A stem is busy while an entry in flight owns it.
Busy(s) == \E i \in inflight : s \in Owned[i]

\* A scope is busy while a bulk import runs or anything inside it is in flight.
ScopeBusy(below) == claims # {} \/ inflight \cap below # {}

\* Mutant: entries are not checked one by one.
Admitted_TreesOnly(ch) == ch.tree => ~ScopeBusy(ch.below)

Admitted(ch) ==
    /\ \A s \in ch.guards : ~Busy(s)
    /\ ch.tree => ~ScopeBusy(ch.below)

\* The planner's checks on the disk and the rows.
Valid(ch) ==
    /\ \A s \in ch.requires : OnDisk(s)
    /\ \A s \in ch.targets : OnDisk(s) \/ HasRow(s)
    /\ \A s \in ch.free : OnDisk(s) => s \in Leaving(ch)

\* Whether what a converted item replaces is still what its conversion saw:
\* an upload compares the stats of the files, a text original its text.
Unchanged(t) ==
    LET ch == change[t] IN
    \A s \in ch.guards :
        CASE ch.convert = "upload" -> disk[s].stat = seen[t][s].stat
          [] ch.convert = "text" -> disk[s].text = seen[t][s].text
          [] OTHER -> TRUE

----------------------------------------------------------------------------
(* Effects of a change *)

\* Files once every deleted and moved unit has left.
Vacated(ch, files) ==
    [s \in Stem |-> IF s \in Leaving(ch) THEN NoFile ELSE files[s]]

\* A moved description is rewritten when it has a payload and a new name.
MovedFile(ch, m, files, now) ==
    IF /\ m[2] \in ch.rewrites
       /\ files[m[1]].text # Nil
       /\ \E a \in Owned[m[1]] \ {m[1]} : files[a].text # Nil
    THEN [text |-> Rewrite[files[m[1]].text], stat |-> now]
    ELSE files[m[1]]

\* Files once the moved units have landed and the writes followed: `parked` is
\* what the change found where, `files` what is left after the vacating, and
\* `now` the stat its writes leave.
Landed(ch, parked, files, now) ==
    [s \in Stem |->
        IF ch.put[s] # Nil THEN [text |-> ch.put[s], stat |-> now]
        ELSE IF \E m \in ch.moves : m[2] = s /\ parked[m[1]].text # Nil
        THEN MovedFile(ch, CHOOSE m \in ch.moves : m[2] = s, parked, now)
        ELSE files[s]]

\* Mutant: the rows of a deleted entry stay.
Rekeyed_KeepsDeleted(ch, old) ==
    [s \in Stem |->
        IF \E m \in ch.moves : m[2] = s /\ old[m[1]].id # Nil
        THEN old[(CHOOSE m \in ch.moves : m[2] = s)[1]]
        ELSE old[s]]

\* Mutant: no parking, a vacated row is dropped though another lands there.
Rekeyed_Unparked(ch, old) ==
    [s \in Stem |->
        IF s \in Leaving(ch) THEN NoRow
        ELSE IF \E m \in ch.moves : m[2] = s /\ old[m[1]].id # Nil
        THEN old[(CHOOSE m \in ch.moves : m[2] = s)[1]]
        ELSE old[s]]

\* Rows re-keyed and dropped in the changeset's one transaction.
Rekeyed(ch, old) ==
    [s \in Stem |->
        IF \E m \in ch.moves : m[2] = s /\ old[m[1]].id # Nil
        THEN old[(CHOOSE m \in ch.moves : m[2] = s)[1]]
        ELSE IF s \in Leaving(ch) THEN NoRow ELSE old[s]]

\* Two documents of one owner cannot have one stem.
RowConflict(ch) ==
    \E m \in ch.moves : HasRow(m[1]) /\ HasRow(m[2]) /\ m[2] \notin Leaving(ch)

----------------------------------------------------------------------------
(* Initial states: the first boot over a disk with hand-dropped files *)

\* The memory of a process that has just started.
AtRest ==
    /\ lock = Nobody
    /\ inflight = {}
    /\ claims = {}
    /\ pc = [t \in Task |-> "idle"]
    /\ change = [t \in Task |-> NoChange]
    /\ seen = [t \in Task |-> [s \in Stem |-> NoFile]]
    /\ journal = [s \in Stem |-> NoFile]
    /\ jobs = [t \in Task |-> [s \in Stem |-> NoJob]]
    /\ refs = [t \in Task |-> {}]
    /\ states = [t \in Task |-> [s \in Stem |-> NoRow]]
    /\ by = [t \in Task |-> Nobody]
    /\ left = [c \in Collection |-> {}]
    /\ importing = [c \in Collection |-> "idle"]
    /\ landed = [c \in Collection |-> {}]

Init ==
    /\ \E files \in Seeds :
         disk = [s \in Stem |-> IF files[s] = Nil THEN NoFile
                                ELSE [text |-> files[s], stat |-> 1]]
    /\ rows = [s \in Stem |-> NoRow]
    /\ AtRest
    /\ mode = "boot"
    /\ skipped = {}
    /\ clock = 1
    /\ crashes = 0

Goto(t, to) == pc' = [pc EXCEPT ![t] = to]
----------------------------------------------------------------------------
(* Committing a changeset: apply_changeset, _commit *)

\* Requests come to idle tasks of a server that is up.
Idle(t) == mode = "up" /\ pc[t] = "idle"

\* Step 1, ahead of the lock: resolve, and note what the conversion starts from.
Plan(t, ch) ==
    /\ Idle(t)
    /\ ch.convert # "none"
    /\ Admitted(ch) /\ Valid(ch)
    /\ change' = [change EXCEPT ![t] = ch]
    /\ seen' = [seen EXCEPT ![t] = [s \in Stem |->
                    IF s \in ch.guards THEN disk[s] ELSE NoFile]]
    /\ Goto(t, "converting")
    /\ UNCHANGED <<durable, gates, journal, jobs, syncs, landed, importing, world>>

\* A changeset that converts nothing goes straight to the lock.
Submit(t, ch) ==
    /\ Idle(t)
    /\ ch.convert = "none"
    /\ change' = [change EXCEPT ![t] = ch]
    /\ Goto(t, "waiting")
    /\ UNCHANGED <<durable, gates, seen, journal, jobs, syncs, landed, importing, world>>

\* A client's request; clock < MaxWrites is a bound of the model.
Request(t) ==
    /\ clock < MaxWrites
    /\ \E ch \in Changes : Plan(t, ch) \/ Submit(t, ch)
    /\ UNCHANGED <<by, left>>

Converted(t) ==
    /\ pc[t] = "converting"
    /\ Goto(t, "waiting")
    /\ UNCHANGED <<durable, gates, commits, jobs, syncs, by, imports, world>>

\* Mutant: an operation that ends keeps the lock.
Finish_KeepsLock(t) ==
    /\ Goto(t, "idle")
    /\ change' = [change EXCEPT ![t] = NoChange]
    /\ seen' = [seen EXCEPT ![t] = [s \in Stem |-> NoFile]]
    /\ by' = [by EXCEPT ![t] = Nobody]
    /\ UNCHANGED <<lock, claims, jobs, syncs, imports, world>>

\* The task's changeset is over, its lock released if it holds it.
Finish(t) ==
    /\ Goto(t, "idle")
    /\ lock' = IF lock = t THEN Nobody ELSE lock
    /\ change' = [change EXCEPT ![t] = NoChange]
    /\ seen' = [seen EXCEPT ![t] = [s \in Stem |-> NoFile]]
    /\ by' = [by EXCEPT ![t] = Nobody]
    /\ UNCHANGED <<claims, jobs, syncs, imports, world>>

\* A conversion that fails or is cancelled leaves nothing behind: the shield
\* starts after it.
ConversionEnds(t) ==
    /\ pc[t] = "converting"
    /\ Finish(t)
    /\ UNCHANGED <<durable, inflight, journal>>

\* Step 2: the lock.
Acquire(t) ==
    /\ pc[t] = "waiting" /\ lock = Nobody
    /\ lock' = t
    /\ Goto(t, "resolving")
    /\ UNCHANGED <<durable, inflight, claims, commits, jobs, syncs, by, imports, world>>

\* Step 3: resolve again under the lock, and refuse what changed meanwhile.
Resolve(t) ==
    /\ pc[t] = "resolving"
    /\ Admitted(change[t]) /\ Valid(change[t]) /\ Unchanged(t)
    /\ Goto(t, "vacating")
    /\ UNCHANGED <<durable, gates, commits, jobs, syncs, by, imports, world>>

Refuse(t) ==
    /\ pc[t] = "resolving"
    /\ ~(Admitted(change[t]) /\ Valid(change[t]) /\ Unchanged(t))
    /\ Finish(t)
    /\ UNCHANGED <<durable, inflight, journal>>

\* Step 4: the install. Deleted and moved units leave first.
Vacate(t) ==
    /\ pc[t] = "vacating"
    /\ journal' = [s \in Stem |-> IF s \in Touched(change[t]) THEN disk[s] ELSE NoFile]
    /\ disk' = Vacated(change[t], disk)
    /\ Goto(t, "landing")
    /\ UNCHANGED <<rows, gates, change, seen, jobs, syncs, by, imports, world>>

\* The moved ones land and the writes follow.
Land(t) ==
    /\ pc[t] = "landing"
    /\ clock' = clock + 1
    /\ disk' = Landed(change[t], journal, disk, clock')
    /\ Goto(t, "transacting")
    /\ UNCHANGED <<rows, gates, commits, jobs, syncs, by, imports, mode, skipped, crashes>>

\* The one SQL transaction.
Transact(t) ==
    /\ pc[t] = "transacting"
    /\ ~RowConflict(change[t])
    /\ rows' = Rekeyed(change[t], rows)
    /\ Goto(t, "claiming")
    /\ UNCHANGED <<disk, gates, commits, jobs, syncs, by, imports, world>>

\* A failure anywhere in the install or the transaction, a row conflict among
\* them: the journal is replayed backwards and the transaction rolled back.
RollBack(t) ==
    /\ pc[t] \in {"landing", "transacting"}
    /\ disk' = [s \in Stem |-> IF s \in Touched(change[t]) THEN journal[s] ELSE disk[s]]
    /\ journal' = [s \in Stem |-> NoFile]
    /\ Finish(t)
    /\ UNCHANGED <<rows, inflight>>

\* Step 5: claim what was written, release the lock, drop the staging area.
Claim(t) ==
    LET written == Written(change[t]) IN
    /\ pc[t] = "claiming"
    /\ inflight' = inflight \cup written
    /\ jobs' = [jobs EXCEPT ![t] = [s \in Stem |->
                    IF s \in written THEN Started(s) ELSE NoJob]]
    /\ journal' = [s \in Stem |-> NoFile]
    /\ lock' = Nobody
    /\ landed' = [c \in Collection |->
                    IF by[t] = c THEN landed[c] \cup written ELSE landed[c]]
    /\ Goto(t, "indexing")
    /\ UNCHANGED <<durable, claims, change, seen, syncs, by, left, importing, world>>

\* Mutant: the claims on what was indexed leak.
Settle_Leaks(t) ==
    /\ pc[t] = "indexing"
    /\ \A s \in Stem : jobs[t][s] = NoJob
    /\ Finish(t)
    /\ UNCHANGED <<durable, inflight, journal>>

\* Step 6, once every projection had its turn: release the claims.
Settle(t) ==
    /\ pc[t] = "indexing"
    /\ \A s \in Stem : jobs[t][s] = NoJob
    /\ inflight' = inflight \ Written(change[t])
    /\ Finish(t)
    /\ UNCHANGED <<durable, journal>>

----------------------------------------------------------------------------
(* Indexing one description: chunk_and_index_document *)

\* An entry's assets are indexed before itself.
Turn(t, s) == \A a \in Owned[s] \ {s} : jobs[t][a] = NoJob

Holders(i) == {s \in Stem : rows[s].id = i}
FreshIds == RowId \ ({rows[s].id : s \in Stem} \cup {jobs[t][s].id : t \in Task, s \in Stem})

SetJob(t, s, job) == jobs' = [jobs EXCEPT ![t][s] = job]

\* Mutant: the upsert stamps the digest already.
Upsert_Stamps(t, s) ==
    /\ jobs[t][s].stage = "chunk" /\ Turn(t, s)
    /\ HasRow(s) \/ FreshIds # {}
    /\ LET i == IF HasRow(s) THEN rows[s].id ELSE CHOOSE j \in FreshIds : TRUE IN
         /\ rows' = [rows EXCEPT ![s] = [id |-> i, digest |-> jobs[t][s].text,
                                          stat |-> jobs[t][s].stat,
                                          chunks |-> rows[s].chunks]]
         /\ SetJob(t, s, [jobs[t][s] EXCEPT !.stage = "store", !.id = i])
    /\ UNCHANGED <<disk, gates, pc, commits, syncs, by, imports, world>>

\* Chunk the text, then upsert the row with its digest and stat cleared. A new
\* row gets an identity nobody refers to.
Upsert(t, s) ==
    /\ jobs[t][s].stage = "chunk" /\ Turn(t, s)
    /\ HasRow(s) \/ FreshIds # {}
    /\ LET i == IF HasRow(s) THEN rows[s].id ELSE CHOOSE j \in FreshIds : TRUE IN
         /\ rows' = [rows EXCEPT ![s] = [id |-> i, digest |-> Nil, stat |-> 0,
                                          chunks |-> rows[s].chunks]]
         /\ SetJob(t, s, [jobs[t][s] EXCEPT !.stage = "store", !.id = i])
    /\ UNCHANGED <<disk, gates, pc, commits, syncs, by, imports, world>>

\* Replace the chunks of the row upserted, wherever it is by now.
StoreChunks(t, s) ==
    /\ jobs[t][s].stage = "store"
    /\ Holders(jobs[t][s].id) # {}
    /\ rows' = [r \in Stem |-> IF r \in Holders(jobs[t][s].id)
                               THEN [rows[r] EXCEPT !.chunks = jobs[t][s].text]
                               ELSE rows[r]]
    /\ SetJob(t, s, [jobs[t][s] EXCEPT !.stage = "stamp"])
    /\ UNCHANGED <<disk, gates, pc, commits, syncs, by, imports, world>>

\* Stamp digest and stat last; a row that is gone takes no stamp.
Stamp(t, s) ==
    /\ jobs[t][s].stage = "stamp"
    /\ rows' = [r \in Stem |-> IF r \in Holders(jobs[t][s].id)
                               THEN [rows[r] EXCEPT !.digest = jobs[t][s].text,
                                                    !.stat = jobs[t][s].stat]
                               ELSE rows[r]]
    /\ SetJob(t, s, NoJob)
    /\ UNCHANGED <<disk, gates, pc, commits, syncs, by, imports, world>>

\* The chunker, the embedder or the database fails, among them a row deleted
\* under the chunks about to be stored. The failure is logged or raised later.
IndexFails(t, s) ==
    /\ jobs[t][s].stage # "none" /\ Turn(t, s)
    /\ SetJob(t, s, NoJob)
    /\ skipped' = IF mode = "boot" THEN skipped \cup {s} ELSE skipped
    /\ UNCHANGED <<durable, gates, pc, commits, syncs, by, imports, mode, clock, crashes>>

Index(t) == \E s \in Stem : Upsert(t, s) \/ StoreChunks(t, s) \/ Stamp(t, s)
IndexFailure(t) == \E s \in Stem : IndexFails(t, s)

----------------------------------------------------------------------------
(* Rechunking an entry in place: rechunk *)

RkRequest(t) ==
    /\ Idle(t)
    /\ \E s \in Stem : refs' = [refs EXCEPT ![t] = {s}]
    /\ Goto(t, "rk_wait")
    /\ UNCHANGED <<durable, gates, commits, jobs, states, by, imports, world>>

\* Mutant: a rechunk does not check the entries in flight.
RkLock_Unchecked(t) ==
    /\ pc[t] = "rk_wait" /\ lock = Nobody
    /\ \A s \in refs[t] : OnDisk(s)
    /\ lock' = t
    /\ jobs' = [jobs EXCEPT ![t] = [s \in Stem |->
                    IF s \in refs[t] THEN Started(s) ELSE NoJob]]
    /\ Goto(t, "rechunking")
    /\ UNCHANGED <<durable, inflight, claims, commits, syncs, by, imports, world>>

RkLock(t) ==
    /\ pc[t] = "rk_wait" /\ lock = Nobody
    /\ \A s \in refs[t] : ~Busy(s) /\ OnDisk(s)
    /\ lock' = t
    /\ jobs' = [jobs EXCEPT ![t] = [s \in Stem |->
                    IF s \in refs[t] THEN Started(s) ELSE NoJob]]
    /\ Goto(t, "rechunking")
    /\ UNCHANGED <<durable, inflight, claims, commits, syncs, by, imports, world>>

\* The entry is in flight or gone, or the caller went away while waiting.
RkRefuse(t) ==
    /\ pc[t] = "rk_wait"
    /\ refs' = [refs EXCEPT ![t] = {}]
    /\ Goto(t, "idle")
    /\ UNCHANGED <<durable, gates, commits, jobs, states, by, imports, world>>

RkDone(t) ==
    /\ pc[t] = "rechunking"
    /\ \A s \in Stem : jobs[t][s] = NoJob
    /\ lock' = Nobody
    /\ refs' = [refs EXCEPT ![t] = {}]
    /\ Goto(t, "idle")
    /\ UNCHANGED <<durable, inflight, claims, commits, jobs, states, by, imports, world>>

----------------------------------------------------------------------------
(* Wiping the casebase: delete_all *)

WipeRequest(t) ==
    /\ Idle(t)
    /\ Goto(t, "wipe_wait")
    /\ UNCHANGED <<durable, gates, commits, jobs, syncs, by, imports, world>>

WipeLock(t) ==
    /\ pc[t] = "wipe_wait" /\ lock = Nobody
    /\ ~ScopeBusy(Stem)
    /\ lock' = t
    /\ Goto(t, "wipe_rows")
    /\ UNCHANGED <<durable, inflight, claims, commits, jobs, syncs, by, imports, world>>

WipeRefuse(t) ==
    /\ pc[t] = "wipe_wait" /\ lock = Nobody
    /\ ScopeBusy(Stem)
    /\ Goto(t, "idle")
    /\ UNCHANGED <<durable, gates, commits, jobs, syncs, by, imports, world>>

WipeRows(t) ==
    /\ pc[t] = "wipe_rows"
    /\ rows' = [s \in Stem |-> NoRow]
    /\ Goto(t, "wipe_files")
    /\ UNCHANGED <<disk, gates, commits, jobs, syncs, by, imports, world>>

\* Removing the tree may fail part of the way.
WipeFiles(t) ==
    /\ pc[t] = "wipe_files"
    /\ \E kept \in {{}, Stem} :
         disk' = [s \in Stem |-> IF s \in kept THEN disk[s] ELSE NoFile]
    /\ lock' = Nobody
    /\ Goto(t, "idle")
    /\ UNCHANGED <<rows, inflight, claims, commits, jobs, syncs, by, imports, world>>

----------------------------------------------------------------------------
(* The sync of rows with files: reconcile_store, sync_entries_from_disk *)

\* The startup reconcile runs before the server takes requests; an admin's
\* reindex runs among them. The walk of the disk takes no lock.
SyncRefs(t) ==
    /\ \/ mode = "boot" /\ \A u \in Task : pc[u] = "idle"
       \/ Idle(t) /\ LiveReindex
    /\ refs' = [refs EXCEPT ![t] = {s \in Stem : OnDisk(s)}]
    /\ Goto(t, "sy_states")
    /\ UNCHANGED <<durable, gates, commits, jobs, states, by, imports, world>>

\* One query, without the lock, reads the state of every row.
SyncStates(t) ==
    /\ pc[t] = "sy_states"
    /\ states' = [states EXCEPT ![t] = rows]
    /\ refs' = [refs EXCEPT ![t] = @ \cup {s \in Stem : HasRow(s)}]
    /\ Goto(t, "sy_wait")
    /\ UNCHANGED <<durable, gates, commits, jobs, by, imports, world>>

SyncLock(t) ==
    /\ pc[t] = "sy_wait" /\ lock = Nobody
    /\ \A s \in refs[t] : ~Busy(s)
    /\ lock' = t
    /\ Goto(t, "syncing")
    /\ UNCHANGED <<durable, inflight, claims, commits, jobs, syncs, by, imports, world>>

\* One busy reference refuses the casebase: it is logged and left out.
SyncRefuse(t) ==
    /\ pc[t] = "sy_wait" /\ lock = Nobody
    /\ \E s \in refs[t] : Busy(s)
    /\ refs' = [refs EXCEPT ![t] = {}]
    /\ states' = [states EXCEPT ![t] = [s \in Stem |-> NoRow]]
    /\ Goto(t, "idle")
    /\ UNCHANGED <<durable, gates, commits, jobs, by, imports, world>>

\* The row as the query read it, or, for an entry it did not see, as it is.
Known(t, s) == IF states[t][s].id # Nil THEN states[t][s] ELSE rows[s]

\* Mutant: any row counts as indexed.
Fresh_AnyRow(t, s) == Known(t, s).id # Nil

\* Whether a description is taken for the one indexed: its stat is the one
\* stamped with a digest, or its text has the digest.
Fresh(t, s) ==
    /\ Known(t, s).digest # Nil
    /\ Known(t, s).stat = disk[s].stat \/ Known(t, s).digest = disk[s].text

\* The next reference, once the one before is indexed.
Visit(t, s) ==
    /\ pc[t] = "syncing" /\ s \in refs[t]
    /\ \A r \in Stem : jobs[t][r] = NoJob
    /\ refs' = [refs EXCEPT ![t] = @ \ {s}]
    /\ UNCHANGED <<disk, gates, pc, commits, states, by, imports, world>>

SyncGone(t, s) ==
    /\ Visit(t, s)
    /\ ~OnDisk(s)
    /\ rows' = [rows EXCEPT ![s] = NoRow]
    /\ UNCHANGED jobs

\* An unchanged entry takes the file's stat, unless nothing drifted.
SyncFresh(t, s) ==
    /\ Visit(t, s)
    /\ OnDisk(s) /\ Fresh(t, s)
    /\ rows' \in {IF HasRow(s) THEN [rows EXCEPT ![s].stat = disk[s].stat] ELSE rows}
                 \cup (IF Known(t, s).stat = disk[s].stat THEN {rows} ELSE {})
    /\ UNCHANGED jobs

SyncIndex(t, s) ==
    /\ Visit(t, s)
    /\ OnDisk(s) /\ ~Fresh(t, s)
    /\ SetJob(t, s, Started(s))
    /\ UNCHANGED rows

SyncDone(t) ==
    /\ pc[t] = "syncing" /\ refs[t] = {}
    /\ \A s \in Stem : jobs[t][s] = NoJob
    /\ lock' = Nobody
    /\ states' = [states EXCEPT ![t] = [s \in Stem |-> NoRow]]
    /\ mode' = "up"
    /\ skipped' = {}
    /\ Goto(t, "idle")
    /\ UNCHANGED <<durable, inflight, claims, commits, jobs, refs, by, imports, clock, crashes>>

Sync(t) == \E s \in Stem : SyncGone(t, s) \/ SyncFresh(t, s) \/ SyncIndex(t, s)

----------------------------------------------------------------------------
(* An admin's reset of the workspace: admin_reset, without any lock *)

\* The workspace root goes, and with it what a commit parked beneath it.
ResetFiles(t) ==
    /\ Idle(t) /\ AdminReset
    /\ disk' = [s \in Stem |-> NoFile]
    /\ journal' = [s \in Stem |-> NoFile]
    /\ Goto(t, "ar_rows")
    /\ UNCHANGED <<rows, gates, change, seen, jobs, syncs, by, imports, world>>

ResetRows(t) ==
    /\ pc[t] = "ar_rows"
    /\ rows' = [s \in Stem |-> NoRow]
    /\ Goto(t, "idle")
    /\ UNCHANGED <<disk, gates, commits, jobs, syncs, by, imports, world>>

----------------------------------------------------------------------------
(* A bulk import: process_collection *)

\* The claim comes first, then the plan, without the lock.
ClaimStore(c) ==
    /\ mode = "up" /\ importing[c] = "idle" /\ clock < MaxWrites
    /\ claims' = claims \cup {c}
    /\ importing' = [importing EXCEPT ![c] = "planning"]
    /\ UNCHANGED <<durable, lock, inflight, pc, commits, jobs, syncs, by, left, landed, world>>

\* Members whose entry exists are dropped.
PlanImport(c) ==
    /\ importing[c] = "planning"
    /\ left' = [left EXCEPT ![c] = {ch \in Archive : \A s \in ch.guards : ~OnDisk(s)}]
    /\ importing' = [importing EXCEPT ![c] = "uploading"]
    /\ UNCHANGED <<durable, gates, pc, commits, jobs, syncs, by, landed, world>>

\* One upload begins in a task of its own, or is recorded as a failure.
ImportFile(c, t) ==
    /\ importing[c] = "uploading"
    /\ \E ch \in left[c] :
         /\ left' = [left EXCEPT ![c] = @ \ {ch}]
         /\ \/ Plan(t, ch) /\ by' = [by EXCEPT ![t] = c]
            \/ /\ Idle(t) /\ ~(Admitted(ch) /\ Valid(ch))
               /\ UNCHANGED <<durable, gates, pc, commits, jobs, syncs, by, landed,
                              importing, world>>

\* Cancelled: no further upload starts, and one being converted is dropped
\* (ConversionEnds), while one that reached its commit runs to completion.
CancelImport(c) ==
    /\ importing[c] = "uploading" /\ left[c] # {}
    /\ left' = [left EXCEPT ![c] = {}]
    /\ UNCHANGED <<durable, gates, pc, commits, jobs, syncs, by, importing, landed, world>>

FinishImport(c) ==
    /\ importing[c] = "uploading" /\ left[c] = {}
    /\ \A t \in Task : by[t] # c
    /\ claims' = claims \ {c}
    /\ importing' = [importing EXCEPT ![c] = "idle"]
    /\ landed' = [landed EXCEPT ![c] = {}]
    /\ UNCHANGED <<durable, lock, inflight, pc, commits, jobs, syncs, by, left, world>>

----------------------------------------------------------------------------
(* A crash of the process: memory is gone, files and rows stay as they are,
   and what a commit had parked is no entry's file any more *)

Crash ==
    /\ crashes < MaxCrashes
    /\ crashes' = crashes + 1
    /\ mode' = "boot"
    /\ skipped' = {}
    /\ lock' = Nobody /\ inflight' = {} /\ claims' = {}
    /\ pc' = [t \in Task |-> "idle"]
    /\ change' = [t \in Task |-> NoChange]
    /\ seen' = [t \in Task |-> [s \in Stem |-> NoFile]]
    /\ journal' = [s \in Stem |-> NoFile]
    /\ jobs' = [t \in Task |-> [s \in Stem |-> NoJob]]
    /\ refs' = [t \in Task |-> {}]
    /\ states' = [t \in Task |-> [s \in Stem |-> NoRow]]
    /\ by' = [t \in Task |-> Nobody]
    /\ left' = [c \in Collection |-> {}]
    /\ importing' = [c \in Collection |-> "idle"]
    /\ landed' = [c \in Collection |-> {}]
    /\ UNCHANGED <<durable, clock>>

----------------------------------------------------------------------------
(* The specification *)

Commit(t) ==
    \/ Converted(t) \/ ConversionEnds(t) \/ Resolve(t) \/ Refuse(t)
    \/ Vacate(t) \/ Land(t) \/ Transact(t) \/ RollBack(t) \/ Claim(t) \/ Settle(t)
Rechunk(t) == RkRefuse(t) \/ RkDone(t)
Wipe(t) == WipeRows(t) \/ WipeFiles(t)
Reconcile(t) == SyncStates(t) \/ Sync(t) \/ SyncDone(t)
Lock(t) == Acquire(t) \/ RkLock(t) \/ WipeLock(t) \/ WipeRefuse(t) \/ SyncLock(t) \/ SyncRefuse(t)
Step(t) == Commit(t) \/ Index(t) \/ IndexFailure(t) \/ Rechunk(t) \/ Wipe(t)
           \/ Reconcile(t) \/ ResetRows(t)
Ask(t) == Request(t) \/ RkRequest(t) \/ WipeRequest(t) \/ SyncRefs(t) \/ ResetFiles(t)
Import(c) == PlanImport(c) \/ FinishImport(c) \/ \E t \in Task : ImportFile(c, t)

Next ==
    \/ \E t \in Task : Ask(t) \/ Lock(t) \/ Step(t)
    \/ \E c \in Collection : ClaimStore(c) \/ CancelImport(c) \/ Import(c)
    \/ Crash

Spec == Init /\ [][Next]_vars

\* A task that is not waiting runs on, the event loop being fair and every
\* conversion, model call and query bounded by a timeout; asyncio.Lock wakes its
\* waiters in turn; an import's uploads have tasks of their own, so whatever
\* holds Task back in this model does not last; the startup reconcile runs.
Fairness ==
    /\ \A t \in Task : WF_vars(Step(t)) /\ SF_vars(Lock(t))
    /\ \A c \in Collection : SF_vars(Import(c))
    /\ WF_vars(mode = "boot" /\ \E t \in Task : SyncRefs(t))

FairSpec == Spec /\ Fairness

----------------------------------------------------------------------------
(* Types *)

Phase == {"idle", "converting", "waiting", "resolving", "vacating", "landing",
          "transacting", "claiming", "indexing", "rk_wait", "rechunking",
          "wipe_wait", "wipe_rows", "wipe_files", "sy_states", "sy_wait",
          "syncing", "ar_rows"}

\* The types of the variables.
TypeOK ==
    /\ disk \in [Stem -> File]
    /\ rows \in [Stem -> Row]
    /\ lock \in Task \cup {Nobody}
    /\ inflight \subseteq Stem
    /\ claims \subseteq Collection
    /\ pc \in [Task -> Phase]
    /\ change \in [Task -> ChangeRecord]
    /\ seen \in [Task -> [Stem -> File]]
    /\ journal \in [Stem -> File]
    /\ jobs \in [Task -> [Stem -> Job]]
    /\ refs \in [Task -> SUBSET Stem]
    /\ states \in [Task -> [Stem -> Row]]
    /\ by \in [Task -> Collection \cup {Nobody}]
    /\ left \in [Collection -> SUBSET ChangeRecord]
    /\ importing \in [Collection -> {"idle", "planning", "uploading"}]
    /\ landed \in [Collection -> SUBSET Stem]
    /\ mode \in {"boot", "up"}
    /\ skipped \subseteq Stem
    /\ clock \in Nat
    /\ crashes \in Nat

----------------------------------------------------------------------------
(* Safety *)

\* Phases of a task inside the store's lock.
Inside == {"resolving", "vacating", "landing", "transacting", "claiming",
           "rechunking", "wipe_rows", "wipe_files", "syncing"}
Installing == {"landing", "transacting", "claiming"}

\* The stems every changeset that changes them checks against the entries in
\* flight, by themselves or as part of a directory. An asset's description is
\* none of them where a changeset takes it along with its entry.
Covered ==
    {s \in Stem : \A ch \in Changes \cup Archive :
        s \in Touched(ch) => s \in ch.guards \/ (ch.tree /\ s \in ch.below)}

\* What the planner's claims come to: a unit goes to one place, which is free once the
\* changeset applied, one unit at most lands on a stem, and what lands on a covered stem
\* was covered where it came from, entries moving to entries.
ASSUME MovesAssumption ==
    \A ch \in Changes \cup Archive : \A m \in ch.moves :
        /\ m[2] \in Covered => m[1] \in Covered
        /\ m[2] \in ch.free
        /\ \A n \in ch.moves : m[1] = n[1] \/ m[2] = n[2] => m = n

Pending(t, s) == pc[t] = "indexing" /\ jobs[t][s].stage # "none"

\* What an index still pending describes is what lies on disk: no delete, move,
\* overwrite or wipe strips or replaces a file that a commit installed and has
\* not indexed yet (locks.py, _reject_if_inflight and _reject_if_scope_inflight).
PendingKept ==
    \A t \in Task, s \in Covered :
        Pending(t, s) => disk[s] = [text |-> jobs[t][s].text, stat |-> jobs[t][s].stat]

\* Two tasks never index one entry at a time, so the chunks, the digest and the
\* stat of a row come from one text.
OneIndexer ==
    \A s \in Covered : \A t, u \in Task :
        jobs[t][s].stage # "none" /\ jobs[u][s].stage # "none" => t = u

\* The entries hidden from inventory reads and closed to mutations are exactly
\* those a changeset has yet to index: no claim leaks, none is released early.
InflightExact ==
    inflight \cap Covered =
        Covered \cap UNION {Written(change[t]) : t \in {u \in Task : pc[u] = "indexing"}}

\* A stem nobody is installing or wiping right now.
Quiet(s) ==
    /\ \A t \in Task : pc[t] \in Installing => s \notin Touched(change[t])
    /\ \A t \in Task : pc[t] # "wipe_files"

\* A row the next reconcile takes for indexed holds the chunks of the text on
\* disk: neither a failed or torn index nor a move, an overwrite or a rechunk
\* leaves stale chunks behind a digest or a stat that hides them.
NoSilentStale ==
    \A s \in Covered :
        OnDisk(s) /\ HasRow(s) /\ Quiet(s) /\ rows[s].digest # Nil
        /\ (rows[s].stat = disk[s].stat \/ rows[s].digest = disk[s].text)
        => rows[s].chunks = disk[s].text

\* While the server is up, a document row has its file: deletes, moves, wipes
\* and failures leave no row behind that retrieval would answer from.
NoOrphan ==
    mode = "up" => \A s \in Covered : HasRow(s) /\ Quiet(s) => OnDisk(s)

\* An upload or text original replaces only what its conversion started from.
NoLostUpdate ==
    \A t \in Task : pc[t] = "vacating" => Unchanged(t)

\* Nothing a change overlapped with is silently out of date: no chunks of another text,
\* and no upload over what somebody wrote while it was converted.
NothingStale == NoSilentStale /\ NoLostUpdate

\* When the startup reconcile hands over to the server, every description on
\* disk whose indexing did not fail is indexed, and every row has its file.
BootRepairs ==
    [][mode = "boot" /\ mode' = "up" =>
         /\ \A s \in Stem \ skipped : OnDisk(s) =>
              HasRow(s) /\ rows[s].digest # Nil /\ rows[s].chunks = disk[s].text
         /\ \A s \in Stem : HasRow(s) => OnDisk(s)]_vars

\* No wipe and no change of a directory takes away a file a bulk import still
\* running has committed (collections.py, process_collection).
ImportKept ==
    [][\A c \in Collection, s \in Stem :
         s \in landed[c] /\ OnDisk(s) /\ ~OnDisk(s)'
         => \E t \in Task : lock = t /\ pc[t] \in {"vacating", "landing", "transacting"}
                            /\ ~change[t].tree]_vars

\* What was committed is there, or found again: neither a race nor a restart loses it.
CommitsLast == BootRepairs /\ ImportKept

----------------------------------------------------------------------------
(* The inductive invariant behind PendingKept, OneIndexer and InflightExact *)

Committing == {"resolving", "vacating", "landing", "transacting", "claiming", "indexing"}

\* One task at most is inside the lock.
LockHeld == \A t \in Task : pc[t] \in Inside => lock = t

\* A task commits a changeset somebody may ask for.
KnownChanges ==
    /\ \A t \in Task : pc[t] \in Committing \cup {"converting", "waiting"} =>
                         change[t] \in Changes \cup Archive
    /\ \A c \in Collection : left[c] \subseteq Archive

\* An index belongs to a changeset that wrote its stem, or to the lock's holder.
JobsOwned ==
    \A t \in Task, s \in Stem : jobs[t][s].stage # "none" =>
        \/ pc[t] = "indexing" /\ s \in Written(change[t])
        \/ pc[t] = "rechunking" /\ s \in refs[t]
        \/ pc[t] = "syncing"

\* What is indexed without the lock is claimed, by one changeset alone, and nothing
\* else is.
Claimed ==
    /\ \A t \in Task : pc[t] = "indexing" => Written(change[t]) \cap Covered \subseteq inflight
    /\ \A s \in inflight \cap Covered : \E t \in Task : pc[t] = "indexing" /\ s \in Written(change[t])
    /\ \A t, u \in Task : pc[t] = "indexing" /\ pc[u] = "indexing" /\ t # u =>
         Written(change[t]) \cap Written(change[u]) \cap Covered = {}

\* What is changed or indexed under the lock is not claimed.
Cleared ==
    /\ \A t \in Task : pc[t] \in {"vacating"} \cup Installing =>
         Touched(change[t]) \cap Covered \cap inflight = {}
    /\ \A t \in Task : pc[t] \in {"wipe_rows", "wipe_files"} => inflight = {}
    /\ \A t \in Task, s \in Stem :
         pc[t] \in {"rechunking", "syncing"} /\ (s \in refs[t] \/ jobs[t][s].stage # "none")
         => s \notin inflight

InflightInv == LockHeld /\ KnownChanges /\ JobsOwned /\ Claimed /\ Cleared /\ PendingKept

----------------------------------------------------------------------------
(* Liveness *)

\* Every operation comes to an end: nothing waits for a lock nobody releases.
Settles == \A t \in Task : pc[t] # "idle" ~> pc[t] = "idle"

\* Every import releases its claim on the store.
ClaimsReleased == \A c \in Collection : c \in claims ~> c \notin claims

\* No request is left waiting and no claim left standing.
EverythingEnds == Settles /\ ClaimsReleased

============================================================================
