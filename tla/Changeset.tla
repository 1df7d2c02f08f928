----------------------------- MODULE Changeset ------------------------------
(***************************************************************************)
(* A changeset committed: resolved under the locks, its effects made one   *)
(* row of system calls (workspace/changeset.py, _install_files), and those *)
(* run through the undo log of Journal, any of them failing.               *)
(***************************************************************************)
EXTENDS Journal, ChangesetPlan

CONSTANT Scenarios \* [tree, items, host]: what is on disk, what to apply, for whom

VARIABLE plan

allVars == <<vars, plan>>

----------------------------------------------------------------------------
(* The effects, as calls *)

\* The new file of an item with this extension, and where it is staged.
NewFile(i, p) == <<i, Last(p).ext>>
Staged(i, p) == <<New, NewFile(i, p)>>
HeldAs(i, k) == <<Held, <<i, k>>>>

LeaveOps(i) ==
    FlattenSeq([k \in DOMAIN plan.vacated[i] |->
        IF i \in DOMAIN plan.landed THEN LeaveOp(plan.vacated[i][k], HeldAs(i, k))
        ELSE RemoveOp(plan.vacated[i][k])])

LandOps(i) ==
    FlattenSeq([k \in DOMAIN plan.landed[i] |->
        LET p == plan.landed[i][k] IN
        IF k = 1 /\ Repointed(plan, i) THEN InstallOp(p, Staged(i, p)) ELSE LandOp(p, HeldAs(i, k))])

ApplyOps(i) ==
    LET item == plan.items[i]
        installs == [k \in DOMAIN Writes(item) |-> InstallOp(Writes(item)[k], Staged(i, Writes(item)[k]))]
    IN CASE item.do = "mkdir" -> MakeDirOp(item.dst)
         [] Converts(item) -> installs[1] \o RemoveOp(Assets(item.dst)) \o FlattenSeq(Tail(installs))
         [] OTHER -> FlattenSeq(installs)

\* Deepest first.
Leaving ==
    SetToSortSeq(DOMAIN plan.vacated, LAMBDA i, j :
        LET d(k) == Len(plan.vacated[k][1]) IN d(i) > d(j) \/ (d(i) = d(j) /\ i < j))

\* Shallowest first.
Landing ==
    SetToSortSeq(DOMAIN plan.landed, LAMBDA i, j :
        LET d(k) == Len(plan.landed[k][1]) IN d(i) < d(j) \/ (d(i) = d(j) /\ i < j))

Applying ==
    SetToSortSeq(Doing(plan.items, {"write", "upload", "mkdir"}), LAMBDA i, j : i < j)

Script ==
    FlattenSeq([n \in DOMAIN Leaving |-> LeaveOps(Leaving[n])])
    \o FlattenSeq([n \in DOMAIN Landing |-> LandOps(Landing[n])])
    \o FlattenSeq([n \in DOMAIN Applying |-> ApplyOps(Applying[n])])

----------------------------------------------------------------------------
(* The commit *)

Init ==
    /\ \E s \in Scenarios : plan = PlanMoves(s.tree, s.items, s.host)
    /\ disk = plan.tree /\ before = disk /\ phase = "planning"
    /\ todo = <<>> /\ undo = <<>>
    /\ failed = {} /\ refused = 0

\* Every item resolves: what is new is staged, and the calls begin.
Install ==
    /\ phase' = "applying"
    /\ plan' = Resolved(plan)
    /\ todo' = Script'
    /\ disk' = [p \in {Staged(new[1], new[2]) : new \in NewPaths(plan')} |-> Last(p)] @@ disk

Plan ==
    /\ phase = "planning"
    /\ IF Admitted(plan) THEN Install
       ELSE phase' = "refused" /\ UNCHANGED <<plan, disk, todo>>
    /\ UNCHANGED <<before, undo, failed, refused>>

Journaled ==
    /\ Step \/ Fail \/ FailMidway \/ Commit \/ UndoStep \/ UndoFails \/ End
    /\ UNCHANGED plan

Next == Plan \/ Journaled

Spec == Init /\ [][Next]_allVars

----------------------------------------------------------------------------
(* Properties *)

Meaning ==
    {<<Fate(plan, p), plan.tree[p]>> : p \in Staying(plan)}
    \cup {<<new[2], NewFile(new[1], new[2])>> : new \in Lasting(plan)}

\* These files, these directories, and beyond them only the directories they need.
Leaves(files, created) ==
    LET now == {<<p, disk[p]>> : p \in DOMAIN disk} IN
    /\ files \subseteq now
    /\ created \subseteq DOMAIN disk
    /\ \A x \in now \ files :
          x[2] = Made /\ \E p \in created \cup {y[1] : y \in files} : x[1] \in PathsTo(p)

\* What a commit leaves is what its items mean when they all apply at once to the disk
\* as it was, in whatever order they were given: each file, by inode, where the nearest
\* item above it sends it, each text where it was written, and beyond that nothing but
\* the directories those need or the items create (changeset.py's module docstring).
Meant == phase = "committed" => Leaves(Meaning, Created(plan))

\* "The order of the items only decides the order of their reports": the verdict is the
\* same for the items reversed.
OrderFree ==
    phase = "planning" =>
        (Admitted(plan) <=> Admitted(PlanMoves(plan.tree, Reverse(plan.items), plan.host)))

\* A folder holds no more files than its quota once a change grew it, but for what was
\* moved out of a directory the same change deletes: _admit takes that off as deleted.
QuotaKept ==
    phase = "committed" => \A root \in Folders([tree |-> before]) :
        \/ Cardinality(FilesIn(disk, <<root>>)) <= MaxBytes
        \/ Cardinality(FilesIn(disk, <<root>>)) <= Cardinality(FilesIn(before, <<root>>))
        \/ \E i \in Doing(plan.items, {"delete"}), j \in Doing(plan.items, {"move"}) :
              IsStrictPrefix(plan.items[i].src, plan.items[j].src)

\* What a changeset does depends on its items alone: on what they mean, never on the
\* order they came in.
MeansItsItems == Meant /\ OrderFree
=============================================================================
