------------------------------ MODULE Program -------------------------------
(***************************************************************************)
(* What a sandboxed program changes (tools/workspace_os.py, WorkspaceOS):   *)
(* its writes, renames, removals and new directories never reach the disk  *)
(* but an overlay that its reads consult first. Once it succeeded the      *)
(* overlay is spelled as one changeset (tools/changeset.py, stage_changes) *)
(* of the workspaces' changes, which may wait for an approval, and of the  *)
(* plain folders', which do not. Somebody else may change the disk between *)
(* the program's look at it and either commit.                             *)
(*                                                                         *)
(* A file's inode is its content here: the sequence of what was written to *)
(* it, a file of the disk's beginning with its name.                       *)
(***************************************************************************)
EXTENDS ChangesetPlan

CONSTANTS
    Instances,     \* what may be on disk when the program starts, and the paths it names
    Made,          \* the inode of a directory made
    MaxOperations, \* limits.max_operations
    MaxDeletes,    \* limits.max_deletes
    MaxSteps       \* bound on a program's changes

VARIABLES
    disk,
    seen,    \* the disk as the program looks at it: entries, listings
    nodes,   \* nodes: the overlay, by path
    bases,   \* bases: what the program saw of the paths it changes
    touched, deletes, \* touched, deletes: charged against the limits
    fs,      \* a plain file system the program's changes were made in (history)
    flawed,  \* which of Departures happened (history)
    phase,   \* "running", "committing", "staged", then "done", "refused" or "denied"
    asks,    \* whether changes to a workspace need an approval
    staged,  \* the changeset: items of the workspaces, which may wait for one, and of the folders
    others,  \* what somebody else put on disk meanwhile (history)
    steps

vars == <<disk, seen, nodes, bases, touched, deletes, fs, flawed, phase, asks, staged, others, steps>>

----------------------------------------------------------------------------
(* The view: the nearest node recorded at or above a path, else the disk *)

Text(text, origin) == [is |-> "text", text |-> text, origin |-> origin]
Ref(origin) == [is |-> "ref", text |-> <<>>, origin |-> origin]
Deleted == [is |-> "deleted", text |-> <<>>, origin |-> NoPath]
NewDir == [is |-> "dir", text |-> <<>>, origin |-> NoPath]

\* What a path is: staged text, a new directory, a path of the disk's, or nothing.
View(is, text, path) == [is |-> is, text |-> text, path |-> path]
None == View("none", <<>>, NoPath)

Gated(p) == InWorkspace(p)

Visible(tree, p) ==
    On(tree, p) /\ tree[p] \notin Hidden /\ (Gated(p) => ~Reserved(p))

Base(p) == IF p # NoPath /\ Visible(seen, p) THEN View("disk", <<>>, p) ELSE None

\* What the disk shows at a path through the nodes above it.
Through(node, p, at) == IF node.is = "ref" THEN Base(Rebase(p, at, node.origin)) ELSE None

Under(over, p) ==
    LET above == {k \in 1..Len(p) - 1 : SubSeq(p, 1, k) \in DOMAIN over}
        nearest == SubSeq(p, 1, Max(above))
    IN IF above = {} THEN Base(p) ELSE Through(over[nearest], p, nearest)

Lookup(over, p) ==
    IF p \notin DOMAIN over THEN Under(over, p)
    ELSE CASE over[p].is = "ref" -> Base(over[p].origin)
           [] over[p].is = "deleted" -> None
           [] OTHER -> View(over[p].is, over[p].text, NoPath)

Looks(p) == Lookup(nodes, p)

ViewsDir(view) == view.is = "dir" \/ (view.is = "disk" /\ IsDir(seen, view.path))
ViewsFile(view) == view # None /\ ~ViewsDir(view)

NamesIn(tree, p) == {Last(q) : q \in {r \in DOMAIN tree : Len(r) > 1 /\ Front(r) = p}}

Recorded(p) == {q \in DOMAIN nodes : Len(q) > 1 /\ Front(q) = p}

\* The names of a directory: the disk's that are visible, then the overlay's.
Children(p, view) ==
    LET onDisk == IF view.is # "disk" THEN {}
                  ELSE {n \in NamesIn(seen, view.path) : Base(Append(view.path, n)) # None}
        gone == {Last(q) : q \in {r \in Recorded(p) : nodes[r].is = "deleted"}}
    IN (onDisk \ gone) \cup {Last(q) : q \in {r \in Recorded(p) : nodes[r].is # "deleted"}}

\* Whether a directory of the disk's holds what the program does not see, assets aside.
HoldsUnseen(p, view) ==
    /\ view.is = "disk"
    /\ \E n \in NamesIn(seen, view.path) :
          /\ n.ext # "assets"
          /\ ~(Append(p, n) \in DOMAIN nodes /\ nodes[Append(p, n)].is = "deleted")

----------------------------------------------------------------------------
(* What the changes are made of *)

\* What a file of the disk's is, or all below a directory, before anything touched it
\* again: what was seen of its parts first stays.
Remembered(views) ==
    [p \in {v.path : v \in {w \in views : w.is = "disk"}} \ DOMAIN bases |-> Snapshot(seen, p)] @@ bases

Target(p) == Len(p) > 1 /\ ~Reserved(p)

\* A change is charged where it is gated: a path once, a deletion each time.
Charge(paths, deleting) ==
    LET gated == {p \in paths : Gated(p)}
        removed == Cardinality({p \in deleting : Gated(p)}) IN
    /\ Cardinality(touched \cup gated) <= MaxOperations
    /\ deletes + removed <= MaxDeletes
    /\ touched' = touched \cup gated
    /\ deletes' = deletes + removed

\* The directories missing above a path, which end at one that is there.
MissingAbove(p) ==
    LET there == {k \in 0..Len(p) - 1 : k > 0 => Looks(SubSeq(p, 1, k)) # None}
    IN {SubSeq(p, 1, k) : k \in Max(there) + 1..Len(p) - 1}

ParentsFound(p) ==
    \A q \in Above(p) \ MissingAbove(p) :
        \/ ViewsDir(Looks(q))
        \/ \E r \in Above(p) \ MissingAbove(p) : Len(q) < Len(r)

\* No directory takes the place of a file of the disk's.
CanBeDir(p) ==
    p \in DOMAIN nodes /\ nodes[p].is = "deleted" =>
        LET under == Under(nodes, p) IN under.is = "disk" => IsDir(seen, under.path)

CanMakeParents(p) == ParentsFound(p) /\ \A q \in MissingAbove(p) : CanBeDir(q)

WithParents(p) == [q \in MissingAbove(p) |-> NewDir] @@ nodes

Off(over, p) == [q \in DOMAIN over \ {p} |-> over[q]]

\* A path removed from the view: a deletion is recorded where the disk has it.
Vacated(over, p) ==
    IF Under(over, p) # None THEN p :> Deleted @@ over ELSE Off(over, p)

----------------------------------------------------------------------------
(* The plain file system *)

FsHas(p) == p \in DOMAIN fs
FsBelow(p) == {q \in DOMAIN fs : p \in PathsTo(q)}

FsWithParents(tree, p) == [q \in Above(p) \ DOMAIN tree |-> Made] @@ tree

FsRenamed(p, q) ==
    FsWithParents([r \in (DOMAIN fs \ (FsBelow(p) \cup FsBelow(q))) \cup {Rebase(s, p, q) : s \in FsBelow(p)} |->
                     IF q \in PathsTo(r) THEN fs[Rebase(r, q, p)] ELSE fs[r]], q)

FsRemoved(p) == [q \in DOMAIN fs \ FsBelow(p) |-> fs[q]]

----------------------------------------------------------------------------
(* The program's changes *)

(* Departures of the code from what it says of itself, which the properties name:    *)
(* "home": a file renamed back to the path the disk has it at, below a directory     *)
(* that is not the disk's, is recorded nowhere; "twice": a file written where a      *)
(* rename took the disk's away carries that one too when it is renamed;              *)
(* "uncounted": a text written over a file of the disk's is removed, replaced, or    *)
(* brought home from below a directory that is not, as if the disk had no such file; *)
(* "orphan": a directory lies below one that could not be made.                      *)

CarriedBy(origin) == IF origin = NoPath THEN {} ELSE {p \in DOMAIN nodes : nodes[p].origin = origin}

WritesText(p) == p \in DOMAIN nodes /\ nodes[p].is = "text" /\ Gated(p)

CarriesText(p) == WritesText(p) /\ nodes[p].origin # NoPath

WritesOver(p) == WritesText(p) /\ nodes[p].origin = NoPath /\ Under(nodes, p) # None

Running ==
    /\ phase = "running" /\ steps < MaxSteps /\ flawed \cap {"home", "orphan"} = {}
    /\ steps' = steps + 1
    /\ UNCHANGED <<disk, seen, phase, asks, staged, others>>

Content(view) == IF view.is = "disk" THEN seen[view.path] ELSE view.text

\* The overlay once a text is written to a path, which a rename's carried file stays at.
WithText(over, p, text) ==
    p :> Text(text, IF p \in DOMAIN nodes THEN nodes[p].origin ELSE NoPath) @@ over

CanWrite(p) ==
    LET view == Looks(p) IN
    /\ Target(p)
    /\ view # None => ViewsFile(view) /\ Content(view) \notin Binary
    /\ view = None => Last(p).ext \notin Opaque
    /\ view.is # "text" => CanMakeParents(p)

\* write_text, append_text: over a file, or a new one with the directories above it.
WriteTo(p, append) ==
    LET view == Looks(p)
        written == IF append /\ view # None THEN Content(view) \o <<"new">> ELSE <<"new">>
    IN /\ Running /\ CanWrite(p)
       /\ Charge({p}, {})
       /\ bases' = Remembered({view})
       /\ nodes' = WithText(IF view.is = "text" THEN nodes ELSE WithParents(p), p, written)
       /\ fs' = FsWithParents(p :> written @@ fs, p)
       /\ UNCHANGED flawed

\* mkdir(parents=True)
Mkdir(p) ==
    /\ Running /\ Target(p) /\ Looks(p) = None
    /\ CanMakeParents(p) /\ CanBeDir(p)
    /\ Charge({p}, {})
    /\ nodes' = p :> NewDir @@ WithParents(p)
    /\ fs' = FsWithParents(p :> Made @@ fs, p)
    /\ UNCHANGED <<bases, flawed>>

\* Of the directories above a new file or directory one cannot be made: those below it
\* are by then, and the program may go on.
ParentsMidway(p) ==
    /\ Running /\ Target(p) /\ Looks(p) = None
    /\ ParentsFound(p) /\ ~CanMakeParents(p)
    /\ Charge({p}, {})
    /\ LET refused == CHOOSE q \in MissingAbove(p) : /\ ~CanBeDir(q)
                                                     /\ \A r \in MissingAbove(p) : ~CanBeDir(r) => Len(r) <= Len(q)
       IN nodes' = [q \in {r \in MissingAbove(p) : Len(r) > Len(refused)} |-> NewDir] @@ nodes
    /\ flawed' = flawed \cup IF nodes' # nodes THEN {"orphan"} ELSE {}
    /\ UNCHANGED <<bases, fs>>

\* What the removal of a file costs: one deletion, if the disk has it or a rename carried it.
Costs(p, view) == IF view.is = "disk" \/ nodes[p].origin # NoPath THEN {p} ELSE {}

Unlink(p) ==
    LET view == Looks(p) IN
    /\ Running /\ Target(p) /\ ViewsFile(view)
    /\ bases' = Remembered({view})
    /\ Charge({p}, Costs(p, view))
    /\ nodes' = Vacated(nodes, p)
    /\ fs' = FsRemoved(p)
    /\ flawed' = flawed \cup IF WritesOver(p) THEN {"uncounted"} ELSE {}

Rmdir(p) ==
    LET view == Looks(p) IN
    /\ Running /\ Target(p) /\ ViewsDir(view)
    /\ Children(p, view) = {} /\ ~HoldsUnseen(p, view)
    /\ bases' = Remembered({view})
    /\ IF view.is = "disk" THEN Charge({p}, {p}) ELSE UNCHANGED <<touched, deletes>>
    /\ nodes' = Vacated(nodes, p)
    /\ fs' = FsRemoved(p)
    /\ UNCHANGED flawed

----------------------------------------------------------------------------
(* Renames *)

\* The path of the disk's whose entry a rename of a path carries.
CarriedFrom(p) ==
    CASE p \in DOMAIN nodes /\ nodes[p].origin # NoPath -> nodes[p].origin
      [] p \in DOMAIN nodes /\ nodes[p].is = "text" /\ nodes[p].origin = NoPath -> Under(nodes, p).path
      [] OTHER -> Looks(p).path

CanRename(p, q) ==
    LET view == Looks(p)
        replaced == Looks(q) IN
    /\ Target(p) /\ Target(q) /\ p # q
    /\ Gated(p) <=> Gated(q)
    /\ view # None
    /\ ViewsDir(view) => ~IsStrictPrefix(p, q)
    /\ replaced # None => ViewsFile(view) /\ ViewsFile(replaced)
    /\ Gated(p) /\ ViewsFile(view) => Last(p).ext = Last(q).ext
    /\ CanMakeParents(q)

\* Mutant: nothing below a renamed directory is recorded anew.
Carried_Left(over, p, q) == over

\* The nodes below a renamed directory come along.
Carried(over, p, q) ==
    LET below == {r \in DOMAIN over : IsStrictPrefix(p, r)} IN
    [r \in {Rebase(s, p, q) : s \in below} |-> over[Rebase(r, q, p)]]
        @@ [r \in DOMAIN over \ below |-> over[r]]

\* The overlay with the node at q that a rename from p leaves there, if any.
Recording(vacated, q, node, origin) ==
    CASE node.is = "text" -> q :> Text(node.text, IF origin = q THEN NoPath ELSE origin) @@ vacated
      [] node.is = "dir" -> q :> NewDir @@ vacated
      [] node.is \notin {"text", "dir"} /\ origin \notin {NoPath, q} -> q :> Ref(origin) @@ vacated
      [] OTHER -> vacated

\* The departures of a rename.
Flaws(p, q, node, origin) ==
    (IF origin # q \/ Above(q) \cap DOMAIN nodes = {} THEN {}
     ELSE IF node.is = "text" THEN {"uncounted"} ELSE {"home"})
    \cup (IF CarriedBy(origin) \ {p} # {} THEN {"twice"} ELSE {})
    \cup (IF WritesOver(q) \/ CarriesText(q) THEN {"uncounted"} ELSE {})

NodeAt(p) == IF p \in DOMAIN nodes THEN nodes[p] ELSE Deleted

Rename(p, q) ==
    LET view == Looks(p)
        replaced == Looks(q)
        over == IF ViewsDir(view) THEN Carried(WithParents(q), p, q) ELSE WithParents(q)
    IN /\ Running /\ CanRename(p, q)
       /\ bases' = Remembered({view, replaced})
       /\ Charge((IF NodeAt(p).is \in {"text", "ref"} THEN {} ELSE {p}) \cup (IF replaced = None THEN {} ELSE {q}),
                 IF replaced.is = "disk" THEN {q} ELSE {})
       /\ nodes' = Recording(Off(Vacated(over, p), q), q, NodeAt(p), CarriedFrom(p))
       /\ fs' = FsRenamed(p, q)
       /\ flawed' = flawed \cup Flaws(p, q, NodeAt(p), CarriedFrom(p))

\* A file renamed between a folder and a workspace is written there and removed here.
RenameAcross(p, q) ==
    LET view == Looks(p) IN
    /\ Running /\ Target(p) /\ Target(q)
    /\ Gated(p) <=> ~Gated(q)
    /\ ViewsFile(view) /\ Content(view) \notin Binary
    /\ CanWrite(q)
    /\ bases' = Remembered({view, Looks(q)})
    /\ Charge({p, q}, Costs(p, view))
    /\ nodes' = Vacated(WithText(WithParents(q), q, Content(view)), p)
    /\ fs' = FsRenamed(p, q)
    /\ flawed' = flawed \cup IF WritesOver(p) THEN {"uncounted"} ELSE {}

\* The paths a program names, by what it finds on disk.
Named(tree) == (CHOOSE i \in Instances : i.tree = tree).named

Operate ==
    \E p \in Named(seen) :
        \/ WriteTo(p, TRUE) \/ WriteTo(p, FALSE)
        \/ Mkdir(p) \/ ParentsMidway(p)
        \/ Unlink(p) \/ Rmdir(p)
        \/ \E q \in Named(seen) : Rename(p, q) \/ RenameAcross(p, q)

----------------------------------------------------------------------------
(* The overlay spelled as a changeset: the workspaces' half, as entries *)

Half(gated) == {p \in DOMAIN nodes : Gated(p) <=> gated}

Moving(half) == {p \in half : nodes[p].origin # NoPath}
Carrying(half) == {nodes[p].origin : p \in Moving(half)}

\* The path of the disk's a node hides, unless a rename carries it elsewhere.
Hides(half, p) ==
    LET under == Under(nodes, p).path IN IF under \in Carrying(half) THEN NoPath ELSE under

\* What goes: removed, or replaced by a rename.
Gone(half) ==
    {Hides(half, p) : p \in {q \in half : nodes[q].is \in {"deleted", "ref"} \/ nodes[q].origin # NoPath}}
        \ {NoPath}

\* Mutant: a staged change commits against whatever is there.
BasisOf_None(p) == Unseen

BasisOf(p) == IF p \in DOMAIN bases THEN bases[p] ELSE Unseen

Stem(p) == WithExt(p, "")

\* The description and the original that make up a document of the disk's.
Primaries(p) == {q \in {Description(p)} \cup Range(Original(seen, p)) : Base(q) # None}

ExtRank == "" :> 1 @@ "assets" :> 2 @@ "bin" :> 3 @@ "md" :> 4 @@ "txt" :> 5

FirstOf(parts) == CHOOSE p \in parts : \A q \in parts : ExtRank[Last(p).ext] <= ExtRank[Last(q).ext]

\* The files renames carry, by the document they are of.
MovingFiles == {p \in Moving(Half(TRUE)) : ~IsDir(seen, nodes[p].origin)}
MovedStems == {Stem(nodes[p].origin) : p \in MovingFiles}
PartsTo(stem) == {p \in MovingFiles : Stem(nodes[p].origin) = stem}
PartsFrom(stem) == {nodes[p].origin : p \in PartsTo(stem)}

\* Mutant: whatever the parts are renamed to, the document is moved.
MovesWhole_Unasked(stem) == TRUE

\* The parts of a document move to one name, none of them removed.
MovesWhole(stem) ==
    /\ Cardinality({Stem(p) : p \in PartsTo(stem)}) = 1
    /\ Primaries(stem) \cap Gone(Half(TRUE)) = {}

\* Where a part lands, the ones left alone included.
Lands(stem, part) == WithExt(CHOOSE p \in PartsTo(stem) : TRUE, Last(part).ext)

MoveOf(stem) ==
    LET parts == PartsFrom(stem)
        source == IF Description(stem) \in parts THEN Description(stem) ELSE FirstOf(parts)
    IN Move(source, Lands(stem, source), BasisOf(source))

\* Files to delete, one of each document: a directory covers what lies below it.
GoneDirs == {p \in Gone(Half(TRUE)) : IsDir(seen, p)}
GoneFiles ==
    {p \in Gone(Half(TRUE)) \ GoneDirs : Above(p) \cap GoneDirs = {} /\ Stem(p) \notin MovedStems}
GoneParts(stem) == {p \in GoneFiles : Stem(p) = stem}
GoneStems == {Stem(p) : p \in GoneFiles}

\* A document goes with its original, not by its description alone.
GoesWhole(stem) ==
    LET originals == {p \in Primaries(stem) : ~IsDescription(p)}
    IN originals # {} => originals \cap GoneParts(stem) # {}

TopDirs == {p \in GoneDirs : Above(p) \cap GoneDirs = {}}

Removed == TopDirs \cup UNION {Primaries(s) \cup GoneParts(s) : s \in GoneStems}

\* The file whose text a written one replaces.
TextBase(p) ==
    LET base == IF nodes[p].origin # NoPath THEN nodes[p].origin ELSE Hides(Half(TRUE), p)
    IN IF base \in Removed THEN NoPath ELSE base

TextsOf(half) == {p \in half : nodes[p].is = "text"}

WriteOver(p, base) ==
    IF base = NoPath THEN Write(p, "create", nodes[p].text, Unseen)
    ELSE Write(IF Stem(base) \in MovedStems THEN Lands(Stem(base), base) ELSE p,
               "replace", nodes[p].text, BasisOf(base))

\* A text written over a file with that text stages nothing.
WriteOf(p, base) ==
    IF base # NoPath /\ seen[base] = nodes[p].text THEN {} ELSE {WriteOver(p, base)}

\* New directories with nothing new in them.
EmptyDirs ==
    {p \in Half(TRUE) : /\ nodes[p].is = "dir" /\ Under(nodes, p) = None
                        /\ \A q \in Half(TRUE) : IsStrictPrefix(p, q) => nodes[q].is = "deleted"}

Stageable ==
    /\ \A s \in MovedStems : MovesWhole(s)
    /\ \A s \in GoneStems : GoesWhole(s)
    /\ \A p \in TextsOf(Half(TRUE)) : ~IsDir(seen, TextBase(p))

GatedItems ==
    {Move(nodes[p].origin, p, BasisOf(nodes[p].origin)) : p \in Moving(Half(TRUE)) \ MovingFiles}
    \cup {MoveOf(s) : s \in MovedStems}
    \cup {Delete(p, "any", BasisOf(p)) : p \in TopDirs \cup {FirstOf(GoneParts(s)) : s \in GoneStems}}
    \cup UNION {WriteOf(p, TextBase(p)) : p \in TextsOf(Half(TRUE))}
    \cup {CreateDir(p) : p \in EmptyDirs}

(* The folders' half, as plain files *)

DirectItems ==
    LET half == Half(FALSE) IN
    {Move(nodes[p].origin, p, Unseen) : p \in Moving(half)}
    \cup {Delete(Hides(half, p), "any", Unseen) :
             p \in {q \in half : /\ nodes[q].is = "deleted" \/ q \in Moving(half)
                                 /\ Hides(half, q) # NoPath}}
    \cup {Write(p, "replace", nodes[p].text, Unseen) : p \in TextsOf(half)}
    \cup {CreateDir(p) : p \in {q \in half : nodes[q].is = "dir"}}

----------------------------------------------------------------------------
(* The commit, whole as Changeset shows it *)

Derived == <<"derived">>

\* The content of a new file: what is written, or what a conversion or a move makes of it.
NewContent(plan, new) ==
    CASE new[1] \in DOMAIN plan.landed -> plan.tree[plan.vacated[new[1]][1]]
      [] new[1] \notin DOMAIN plan.landed /\ new[2] = plan.items[new[1]].dst -> plan.items[new[1]].text
      [] OTHER -> Derived

Moved(plan) ==
    [q \in {Fate(plan, p) : p \in Staying(plan)} |->
       plan.tree[CHOOSE p \in Staying(plan) : Fate(plan, p) = q]]

New(plan) ==
    [q \in {n[2] : n \in Lasting(plan)} |-> NewContent(plan, CHOOSE n \in Lasting(plan) : n[2] = q)]

\* The disk once a resolved changeset is applied, with the directories that needs.
After(plan) ==
    LET files == New(plan) @@ Moved(plan)
        made == UNION ({PathsTo(p) : p \in Created(plan)} \cup {Above(p) : p \in DOMAIN files})
    IN files @@ [p \in made |-> Made]

PlanOf(items) ==
    LET inSomeOrder == FoldSet(LAMBDA item, sofar : Append(sofar, item), <<>>, items)
    IN PlanMoves(disk, inSomeOrder, FALSE)

Applied(items) == disk' = After(Resolved(PlanOf(items)))

NothingStaged == [gated |-> {}, direct |-> {}]

Init ==
    /\ disk \in {i.tree : i \in Instances} /\ seen = disk
    /\ nodes = <<>> /\ bases = <<>> /\ touched = {} /\ deletes = 0
    /\ fs = [p \in {q \in DOMAIN disk : Visible(disk, q)} |-> disk[p]]
    /\ flawed = {}
    /\ phase = "running" /\ asks \in BOOLEAN
    /\ staged = NothingStaged /\ others = {} /\ steps = 0

Overlay == <<seen, nodes, bases, touched, deletes, fs, flawed, steps>>

\* The program returned, and what it changed is spelled, where it can be.
Succeed ==
    /\ phase = "running" /\ nodes # <<>>
    /\ IF Stageable THEN phase' = "committing" /\ staged' = [gated |-> GatedItems, direct |-> DirectItems]
       ELSE phase' = "refused" /\ UNCHANGED staged
    /\ UNCHANGED <<Overlay, disk, asks, others>>

\* All of it at once where nothing is asked; else all is planned, the folders' half
\* written and the workspaces' half kept for the approval.
Commit ==
    /\ phase = "committing"
    /\ LET later == IF asks THEN staged.gated ELSE {}
           all == staged.gated \cup staged.direct IN
         IF Admitted(PlanOf(all))
         THEN /\ Applied(all \ later)
              /\ staged' = [gated |-> later, direct |-> {}]
              /\ phase' = IF later = {} THEN "done" ELSE "staged"
         ELSE phase' = "refused" /\ staged' = NothingStaged /\ UNCHANGED disk
    /\ UNCHANGED <<Overlay, asks, others>>

\* apply_changes, after the user approved.
Approve ==
    /\ phase = "staged"
    /\ IF Admitted(PlanOf(staged.gated)) THEN Applied(staged.gated) /\ phase' = "done"
       ELSE phase' = "refused" /\ UNCHANGED disk
    /\ staged' = NothingStaged
    /\ UNCHANGED <<Overlay, asks, others>>

Deny ==
    /\ phase = "staged"
    /\ phase' = "denied" /\ staged' = NothingStaged
    /\ UNCHANGED <<Overlay, disk, asks, others>>

\* Somebody writes a file, over another or beside it, or removes one.
Meddle ==
    /\ phase \in {"committing", "staged"} /\ others = {}
    /\ \E p \in Named(seen) :
         \/ /\ IsDir(disk, Front(p)) /\ ~IsDir(disk, p) /\ Last(p).ext # "bin"
            /\ disk' = p :> <<"other">> @@ disk
            /\ others' = {p}
         \/ /\ IsFile(disk, p)
            /\ disk' = [q \in DOMAIN disk \ {p} |-> disk[q]]
            /\ others' = {NoPath}
    /\ UNCHANGED <<Overlay, phase, asks, staged>>

Next == Operate \/ Succeed \/ Commit \/ Approve \/ Deny \/ Meddle

Spec == Init /\ [][Next]_vars

----------------------------------------------------------------------------
(* Properties *)

\* Every path the overlay or the disk below it could show.
Known ==
    DOMAIN fs \cup DOMAIN nodes \cup DOMAIN seen
    \cup UNION {{Rebase(q, nodes[p].origin, p) : q \in AtOrBelow(seen, nodes[p].origin)} :
                  p \in {r \in DOMAIN nodes : nodes[r].origin # NoPath}}

ShowsAsFs(p) ==
    LET view == Looks(p) IN
    /\ (view # None) <=> FsHas(p)
    /\ view # None => /\ ViewsDir(view) <=> fs[p] \in Dir
                      /\ ViewsFile(view) => Content(view) = fs[p]
                      /\ ViewsDir(view) => Children(p, view) = NamesIn(fs, p)

\* "A program sees its own changes exactly as a filesystem would show them": what each
\* path is, each text and each listing are those of a plain file system it changed the
\* same way, but where a file came home below a directory that had not (path_rename)
\* or directories were left below what could not become one (_make_parents).
Exact == phase = "running" /\ flawed \cap {"home", "orphan"} = {} => \A p \in Known : ShowsAsFs(p)

Undisturbed == phase = "done" /\ others = {}

\* A part of a document that the program left alone follows the others.
Follows(p) ==
    /\ Gated(p) /\ IsFile(seen, p) /\ FsHas(p)
    /\ \E q \in Primaries(p) \ {p} : q \in Carrying(Half(TRUE)) \cup Removed

Followed(p) ==
    \E q \in DOMAIN seen : Follows(q) /\ Stem(q) \in MovedStems /\ p = Lands(Stem(q), q)

\* The directories made where a rename or a removal took the disk's.
Remade == {p \in DOMAIN nodes : nodes[p].is = "dir" /\ Under(nodes, p) # None}

\* What staging does not see of them: that one was made, with nothing new in it, and
\* what was removed below it first (_Stager.stage, _under).
Overlooked ==
    {p \in Remade : \A q \in Half(TRUE) : IsStrictPrefix(p, q) => nodes[q].is = "deleted"}
    \cup {p \in DOMAIN seen \ DOMAIN fs : Above(p) \cap Remade # {}}

CommitsView(spared) ==
    /\ \A p \in DOMAIN fs \ spared :
          Follows(p) \/ IF fs[p] \in Dir THEN IsDir(disk, p) ELSE On(disk, p) /\ disk[p] = fs[p]
    /\ \A p \in DOMAIN disk \ (DOMAIN fs \cup spared) :
          Visible(disk, p) => disk[p] = Derived \/ Followed(p)

\* What a committed program leaves on disk is what it saw when it ended: every file with
\* its text, every directory, nothing besides but what follows a document's other part
\* and the descriptions derived anew (stage_changes, "the overlay is already a diff of
\* two states"), where no file was carried twice or brought home, and but for what
\* staging overlooks of a directory made anew.
AsSeen == Undisturbed /\ flawed \subseteq {"uncounted"} => CommitsView(Overlooked)

\* A part of a removed document, but the one whose basis its removal has.
Companion(p) == Stem(p) \in GoneStems /\ p # FirstOf(GoneParts(Stem(p)))

\* "A version landing in between is refused at commit rather than overwritten": what
\* somebody else wrote into a workspace after the program looked is still there, but for
\* a companion of what it removed.
OthersKept ==
    phase = "done" => \A p \in others \ {NoPath} :
        Gated(p) /\ ~Companion(p) => <<"other">> \in Range(disk)

\* No program moves, replaces or removes what it may not see, through a directory
\* either (_holds_unseen, _source's hides_within).
HiddenKept ==
    \A p \in DOMAIN seen : seen[p] \in Hidden /\ p \notin others =>
        (On(disk, p) /\ disk[p] = seen[p]) \/ NoPath \in others

\* A program disturbs neither what others wrote nor what it may not see.
OthersSafe == OthersKept /\ HiddenKept
=============================================================================
