--------------------------- MODULE ChangesetPlan ----------------------------
(***************************************************************************)
(* What the workspace gateway makes of a changeset (workspace/changeset.py, *)
(* _Plan and what resolves through it): the items apply at once, so every  *)
(* source names the disk as it is and every destination and target the     *)
(* disk once the changeset applied. An item vacates units of the one and   *)
(* lands or writes them in the other.                                      *)
(*                                                                         *)
(* A path is the sequence of its names, its root first; a name is a stem   *)
(* and an extension. A tree maps every path on disk to its inode. All of   *)
(* this is a function of the tree and the items; a plan holds both.        *)
(***************************************************************************)
EXTENDS Paths

CONSTANTS
    Workspace, \* names of the roots with a store; any other root is a plain folder
    Binary,    \* inodes of files that are not text
    Opaque,    \* extensions no text write may create an original of
    Kept,      \* the name in a folder that only the host changes
    Hidden,    \* inodes the caller's filter hides
    ByAge,     \* the inodes of a folder's files, oldest first
    MaxBytes   \* a folder's quota; a file counts one

Ext == {"", "md", "txt", "bin", "assets"}

Nothing == 0   \* no item

----------------------------------------------------------------------------
(* Paths and entries *)

InWorkspace(p) == Head(p) \in Workspace
SameRoot(p, q) == Head(p) = Head(q)

WithExt(p, e) == [p EXCEPT ![Len(p)].ext = e]
Description(p) == WithExt(p, "md")
Assets(p) == WithExt(p, "assets")
IsDescription(p) == Last(p).ext = "md"
SameStem(p, q) == WithExt(p, "") = WithExt(q, "")
InsideAssets(p) == \E q \in Above(p) : Last(q).ext = "assets"

On(tree, p) == p \in DOMAIN tree
IsDir(tree, p) == On(tree, p) /\ tree[p] \in Dir
IsFile(tree, p) == On(tree, p) /\ tree[p] \notin Dir

\* The first file that shares a description's stem.
Original(tree, p) ==
    LET found == {q \in DOMAIN tree : SameStem(p, q) /\ ~IsDescription(q) /\ IsFile(tree, q)}
    IN IF found = {} THEN <<>> ELSE <<CHOOSE q \in found : TRUE>>

\* The files of an entry: its description, on disk or not, its original and its assets.
EntryFiles(tree, p) ==
    <<Description(p)>> \o Original(tree, p)
        \o IF IsDir(tree, Assets(p)) THEN <<Assets(p)>> ELSE <<>>

\* What an entry or a tree comes to be called somewhere else.
RenamedTo(p, entry, to) == IF entry THEN WithExt(to, Last(p).ext) ELSE to

Reserved(p) ==
    IF InWorkspace(p) THEN \E q \in PathsTo(p) : Last(q).ext = "assets"
    ELSE Len(p) > 1 /\ p[2] = Kept

----------------------------------------------------------------------------
(* Items: moves and deletes name a "src"; moves, writes, new directories and *)
(* uploads a "dst"; a write has a mode and an upload may overwrite           *)

Move(p, q, basis) == [do |-> "move", src |-> p, dst |-> q, basis |-> basis]
Delete(p, expect, basis) == [do |-> "delete", src |-> p, expect |-> expect, basis |-> basis]
Write(p, mode, text, basis) ==
    [do |-> "write", dst |-> p, mode |-> mode, text |-> text, basis |-> basis]
CreateDir(p) == [do |-> "mkdir", dst |-> p]
Upload(p, overwrite) == [do |-> "upload", dst |-> p, overwrite |-> overwrite]

\* What a caller saw of a path: its file, or all that is at and below a directory.
Unseen == <<>>
AtOrBelow(tree, p) == {q \in DOMAIN tree : p \in PathsTo(q)}
Snapshot(tree, p) == [q \in AtOrBelow(tree, p) |-> tree[q]]
BasisMet(tree, p, basis) ==
    basis # Unseen => p # NoPath /\ On(tree, p) /\ basis = Snapshot(tree, p)

Doing(items, kinds) == {i \in DOMAIN items : items[i].do \in kinds}

\* The description of an asset, which the host writes and deletes without its asset.
DescribesAsset(p) == InWorkspace(p) /\ InsideAssets(p) /\ IsDescription(p)

\* Whether an item's source is an entry rather than a tree.
SourceIsEntry(tree, item) == InWorkspace(item.src) /\ ~IsDir(tree, item.src)

\* The unit a move or a delete takes away.
Source(tree, item) ==
    CASE ~SourceIsEntry(tree, item) -> <<item.src>>
      [] item.do = "delete" /\ DescribesAsset(item.src) -> <<item.src>>
      [] OTHER -> EntryFiles(tree, item.src)

----------------------------------------------------------------------------
(* Claims: what each item vacates, and where it lands *)

\* How deep the paths of a unit go that hold a path; 0 if none does.
Depth(unit, p) == Max({Len(q) : q \in Range(unit) \cap PathsTo(p)} \cup {0})

Holding(claims, p, skip) == {i \in DOMAIN claims \ {skip} : Depth(claims[i], p) > 0}

Deepest(claims, p, held) ==
    IF held = {} THEN Nothing
    ELSE CHOOSE i \in held : \A j \in held : Depth(claims[j], p) <= Depth(claims[i], p)

\* Mutant: the first item whose unit holds a path.
Holder_First(claims, p, skip) ==
    LET held == Holding(claims, p, skip) IN IF held = {} THEN Nothing ELSE Min(held)

\* The item of the deepest unit holding a path.
Holder(claims, p, skip) == Deepest(claims, p, Holding(claims, p, skip))

\* Where a path in the unit "from" lies once that is "to".
Carry(from, to, p) ==
    LET k == CHOOSE j \in DOMAIN from : from[j] \in PathsTo(p) IN Rebase(p, from[k], to[k])

\* Every path claimed by one item at most, those nested in it aside.
ClaimedOnce(claims) ==
    \A i, j \in DOMAIN claims : i # j => Range(claims[i]) \cap Range(claims[j]) = {}

\* A move's destination: a directory that stays means into it.
LandsAt(plan, item) ==
    LET entry == SourceIsEntry(plan.tree, item)
        named == IF entry THEN Description(item.src) ELSE item.src
        into == \/ Len(item.dst) = 1
                \/ IsDir(plan.tree, item.dst) /\ Holder(plan.vacated, item.dst, Nothing) = Nothing
        at == IF into THEN Append(item.dst, Last(named)) ELSE item.dst
    IN IF entry THEN Description(at) ELSE at

Land(plan) ==
    [plan EXCEPT !.landed =
       [i \in Doing(plan.items, {"move"}) |->
          [k \in DOMAIN plan.vacated[i] |->
             RenamedTo(plan.vacated[i][k], SourceIsEntry(plan.tree, plan.items[i]),
                       LandsAt(plan, plan.items[i]))]]]

\* A plan of the moves and deletes: what they vacate and where the moves land it.
PlanMoves(tree, items, host) ==
    Land([tree |-> tree, items |-> items, host |-> host,
          vacated |-> [i \in Doing(items, {"move", "delete"}) |-> Source(tree, items[i])],
          landed |-> <<>>])

\* A path that the item taking it away is this one, if any.
TakenBy(plan, p, i) == IF Holder(plan.vacated, p, Nothing) = i THEN p ELSE NoPath

\* Where an item that lands a path brings it from; a path none lands is there already.
BroughtBy(plan, i, p) ==
    TakenBy(plan, IF i = Nothing THEN p ELSE Carry(plan.landed[i], plan.vacated[i], p), i)

\* The path now holding what lies at a path once the changeset applied, but for what
\* the item "skip" lands.
Origin(plan, p, skip) == BroughtBy(plan, Holder(plan.landed, p, skip), p)

Occupied(plan, p, skip) == On(plan.tree, Origin(plan, p, skip))

\* No file lies above a path once the changeset applied.
ParentsFree(plan, p) == \A q \in Above(p) : ~IsFile(plan.tree, Origin(plan, q, Nothing))

----------------------------------------------------------------------------
(* What is refused of the moves and deletes *)

Permitted(plan, p) == plan.host \/ ~Reserved(p)

\* A directory the caller sees only in part does not move.
CarriesNothingHidden(tree, p) ==
    IsDir(tree, p) => \A q \in DOMAIN Snapshot(tree, p) : tree[q] \notin Hidden

SourceFound(plan, i) ==
    LET item == plan.items[i] IN
    /\ Permitted(plan, item.src)
    /\ BasisMet(plan.tree, item.src, item.basis)
    /\ item.do = "move" /\ ~plan.host => CarriesNothingHidden(plan.tree, item.src)
    /\ \/ item.do = "delete" /\ DescribesAsset(item.src)
       \/ \E k \in DOMAIN plan.vacated[i] : On(plan.tree, plan.vacated[i][k])
    /\ item.do = "delete" =>
          /\ Len(item.src) > 1
          /\ item.expect \in {"any", IF IsDir(plan.tree, item.src) THEN "dir" ELSE "entry"}

\* What the files of an entry would be called somewhere else.
NamesOf(tree, p, to) ==
    IF p = NoPath THEN {} ELSE {RenamedTo(q, TRUE, to) : q \in Range(EntryFiles(tree, p))}

\* A move lands on free paths; an entry on a stem no file of another is left at.
LandingFree(plan, i) ==
    LET to == plan.landed[i]
        names == IF SourceIsEntry(plan.tree, plan.items[i])
                 THEN NamesOf(plan.tree, Origin(plan, to[1], i), to[1]) ELSE {}
    IN \A p \in Range(to) \cup names : ~Occupied(plan, p, i) /\ ParentsFree(plan, p)

LandingAdmitted(plan, i) ==
    LET item == plan.items[i]
        to == plan.landed[i][1]
        from == plan.vacated[i][1] IN
    /\ Permitted(plan, item.dst) /\ Permitted(plan, to)
    /\ SameRoot(item.src, item.dst) \/ {Head(item.src), Head(item.dst)} \subseteq Workspace
    /\ from # to
    /\ ~SourceIsEntry(plan.tree, item) => ~IsStrictPrefix(from, to)
    /\ LandingFree(plan, i)

----------------------------------------------------------------------------
(* Writes, new directories and uploads *)

UploadUnit(p) == IF IsDescription(p) THEN <<p>> ELSE <<Description(p), p>>

\* An upload over an entry that has files it has not deletes that entry first.
Supersedes(tree, item) ==
    /\ item.do = "upload" /\ item.overwrite
    /\ ~ Range(EntryFiles(tree, item.dst)) \subseteq Range(UploadUnit(item.dst)) \cup {Assets(item.dst)}

Superseding(plan, upto) ==
    {i \in DOMAIN plan.items \cap 1..upto : Supersedes(plan.tree, plan.items[i])}

\* The plan an item is resolved against: the uploads up to it have claimed what they
\* supersede.
Resolving(plan, upto) ==
    [plan EXCEPT !.vacated =
       [i \in Superseding(plan, upto) |-> EntryFiles(plan.tree, plan.items[i].dst)] @@ plan.vacated]

Settled(plan) == Resolving(plan, Len(plan.items))

WritesOriginal(p) == InWorkspace(p) /\ ~IsDescription(p)

\* The files an item writes; the write of an original regenerates its description.
Writes(item) ==
    CASE item.do = "write" -> IF WritesOriginal(item.dst) THEN UploadUnit(item.dst) ELSE <<item.dst>>
      [] item.do = "upload" -> UploadUnit(item.dst)
      [] OTHER -> <<>>

\* The paths an item fills.
Fills(item) == IF item.do = "mkdir" THEN <<item.dst>> ELSE Writes(item)

Written(plan) == UNION {Range(Writes(plan.items[i])) : i \in DOMAIN plan.items}

\* A text is written over a text file, in the modes that need one or that need none; "o"
\* is the path now of what will be there.
TextAdmitted(plan, item, o) ==
    LET exists == On(plan.tree, o) IN
    /\ exists => IsFile(plan.tree, o) /\ plan.tree[o] \notin Binary
    /\ BasisMet(plan.tree, o, item.basis)
    /\ item.mode = "create" => ~exists
    /\ item.mode = "append" => exists
    /\ WritesOriginal(item.dst) /\ ~exists => Last(item.dst).ext \notin Opaque

FillAdmitted(plan, i) ==
    LET item == plan.items[i] IN
    /\ Permitted(plan, item.dst)
    /\ item.do = "write" => TextAdmitted(plan, item, Origin(plan, item.dst, Nothing))
    /\ item.do = "mkdir" => Len(item.dst) > 1 /\ ~Occupied(plan, item.dst, Nothing)
    /\ item.do = "upload" => InWorkspace(item.dst)
    /\ ParentsFree(plan, Fills(item)[1])

\* Whether an item makes a new original or entry, which needs its stem for itself.
ClaimsStem(plan, i) ==
    LET item == plan.items[i] IN
    \/ item.do = "upload"
    \/ item.do = "write" /\ WritesOriginal(item.dst)
           /\ ~Occupied(plan, item.dst, Nothing)

InPlace(plan, i) ==
    LET item == plan.items[i] IN
    item.do = "upload" /\ item.overwrite /\ ~Supersedes(plan.tree, item)

\* The stem of a new original or entry is free once the changeset applied; an upload in
\* place may replace its own files and its assets.
SlotFree(plan, i) ==
    LET own == Range(Writes(plan.items[i]))
        inPlace == InPlace(plan, i)
        spared == own \cup IF inPlace THEN {Assets(plan.items[i].dst)} ELSE {} IN
    /\ \A p \in own : LET o == Origin(plan, p, Nothing) IN
          On(plan.tree, o) => inPlace /\ ~IsDir(plan.tree, o)
    /\ \A e \in Ext : LET p == WithExt(plan.items[i].dst, e) IN
          p \notin spared => p \notin Written(plan) /\ ~Occupied(plan, p, Nothing)

\* An asset keeps its description only beside it.
DescribedAdmitted(plan, i) ==
    LET item == plan.items[i]
        p == IF item.do = "delete" THEN item.src ELSE item.dst IN
    item.do \in {"delete", "write"} /\ DescribesAsset(p) =>
        \E k \in DOMAIN Original(plan.tree, p) : Occupied(plan, Original(plan.tree, p)[k], Nothing)

\* No final path lies below a file another item writes.
WrittenParentsFree(plan) ==
    LET final == UNION {Range(Fills(plan.items[i])) : i \in Doing(plan.items, {"write", "mkdir", "upload"})}
                   \cup UNION {Range(plan.landed[i]) : i \in DOMAIN plan.landed}
    IN \A p \in final : Above(p) \cap Written(plan) = {}

----------------------------------------------------------------------------
(* The quota of a plain folder *)

FilesIn(tree, p) == {q \in DOMAIN tree : p \in PathsTo(q) /\ IsFile(tree, q)}

\* A delete takes away its tree, once; a write adds its text less what it replaces.
Freed(plan, root) ==
    LET deleted == {plan.items[i].src : i \in {j \in Doing(plan.items, {"delete"}) :
                                                 Head(plan.items[j].src) = root}} IN
    UNION {FilesIn(plan.tree, p) : p \in {q \in deleted : Above(q) \cap deleted = {}}}

AddedBy(plan, root) ==
    {i \in Doing(plan.items, {"write"}) :
       Head(plan.items[i].dst) = root /\ ~Occupied(plan, plan.items[i].dst, Nothing)}

\* By how much a change that grows a folder exceeds its quota.
Over(size, growth) == IF growth > 0 THEN size + growth - MaxBytes ELSE 0

Excess(plan, root) ==
    Over(Cardinality(FilesIn(plan.tree, <<root>>)),
         Cardinality(AddedBy(plan, root)) - Cardinality(Freed(plan, root)))

\* Files the host may evict: in the folder only it changes, none of them the changeset's.
Evictable(plan, root) ==
    SelectSeq(ByAge, LAMBDA o : \E p \in DOMAIN plan.tree :
        /\ plan.tree[p] = o /\ Front(p) = <<root, Kept>>
        /\ p \notin Written(plan) /\ Holder(plan.vacated, p, Nothing) = Nothing)

FirstN(seq, n) == SubSeq(seq, 1, Min({n, Len(seq)}))

\* Oldest first, until the change fits; no other caller evicts.
Evicted(plan, root) ==
    IF plan.host THEN FirstN(Evictable(plan, root), Excess(plan, root)) ELSE <<>>

\* Mutant: the files a write adds are not put to the quota.
WithinQuota_Unasked(plan, root) == TRUE

\* A change that grows a folder fits it, what it evicts gone.
WithinQuota(plan, root) == Excess(plan, root) <= Len(Evicted(plan, root))

Folders(plan) == {Head(p) : p \in DOMAIN plan.tree} \ Workspace

----------------------------------------------------------------------------
(* The verdict *)

Consistent(plan, settled) ==
    LET filling == Doing(plan.items, {"write", "mkdir", "upload"}) IN
    /\ \A i \in DOMAIN plan.vacated : SourceFound(plan, i)
    /\ ClaimedOnce(settled.vacated) /\ ClaimedOnce(plan.landed)
    /\ \A i \in DOMAIN plan.landed : LandingAdmitted(plan, i)
    /\ ClaimedOnce([i \in filling |-> Fills(plan.items[i])])
    /\ \A i \in filling : FillAdmitted(Resolving(plan, i), i)
    /\ WrittenParentsFree(settled)
    /\ \A i \in DOMAIN plan.items : DescribedAdmitted(settled, i)
    /\ \A i \in filling : ClaimsStem(Resolving(plan, i), i) => SlotFree(settled, i)
    /\ \A root \in Folders(settled) : WithinQuota(settled, root)

Admitted(plan) == Consistent(plan, Settled(plan))

WithEvicted(plan, evicted) ==
    [plan EXCEPT !.vacated =
       [i \in Len(plan.items) + 1..Len(plan.items) + Len(evicted) |->
          <<CHOOSE p \in DOMAIN plan.tree : plan.tree[p] = evicted[i - Len(plan.items)]>>] @@ plan.vacated]

\* The plan with the evicted files among what leaves.
Resolved(plan) ==
    LET settled == Settled(plan)
    IN WithEvicted(settled, FlattenSeq(SetToSeq({Evicted(settled, root) : root \in Folders(settled)})))

----------------------------------------------------------------------------
(* What an admitted changeset means, all of its items taken at once *)

MovesEntry(plan, i) ==
    i \in DOMAIN plan.landed /\ SourceIsEntry(plan.tree, plan.items[i])

\* A description whose assets come along is rewritten where their basename changes.
Repointed(plan, i) ==
    /\ MovesEntry(plan, i)
    /\ \E p \in Range(plan.vacated[i]) : Last(p).ext = "assets"
    /\ On(plan.tree, plan.vacated[i][1])
    /\ Last(plan.vacated[i][1]) # Last(plan.landed[i][1])

\* The new files, by item and path.
NewPaths(plan) ==
    UNION {{<<i, p>> : p \in Range(Writes(plan.items[i]))} : i \in DOMAIN plan.items}
        \cup {<<i, plan.landed[i][1]>> : i \in {j \in DOMAIN plan.landed : Repointed(plan, j)}}

\* A text written over a description that moved there is that description's.
Lasting(plan) ==
    {new \in NewPaths(plan) : new[1] \in DOMAIN plan.landed => new[2] \notin Written(plan)}

\* An upload or the write of an original is converted: its assets go with the old
\* description.
Converts(item) ==
    \/ item.do = "upload"
    \/ item.do = "write" /\ WritesOriginal(item.dst)

SentBy(plan, claim, p) ==
    IF claim[1] \in DOMAIN plan.landed THEN Carry(plan.vacated[claim[1]], plan.landed[claim[1]], p)
    ELSE NoPath

\* Where the nearest claim at or above a path sends it, or NoPath.
Fate(plan, p) ==
    LET claims == {<<i, q>> \in (DOMAIN plan.vacated) \X PathsTo(p) : q \in Range(plan.vacated[i])}
    IN IF claims = {} THEN p
       ELSE SentBy(plan, CHOOSE c \in claims : \A other \in claims : Len(other[2]) <= Len(c[2]), p)

\* Paths whose content an item replaces: what it writes, and the assets it converts anew.
Replaced(plan, p) ==
    \/ \E new \in NewPaths(plan) : new[2] = p
    \/ \E i \in DOMAIN plan.items : /\ plan.items[i].do \in {"write", "upload"}
                                    /\ Converts(plan.items[i])
                                    /\ Assets(plan.items[i].dst) \in PathsTo(p)

\* What stays of the tree, and where.
Staying(plan) ==
    {q \in DOMAIN plan.tree : Fate(plan, q) # NoPath /\ ~Replaced(plan, Fate(plan, q))}

Created(plan) == {plan.items[i].dst : i \in Doing(plan.items, {"mkdir"})}
=============================================================================
