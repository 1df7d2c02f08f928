------------------------------ MODULE Inventory ------------------------------
(***************************************************************************)
(* The listing of a workspace (server/operations/inventory.py) beside the  *)
(* commits that change it: it takes the rows, then the entries in flight,  *)
(* then walks the directories one by one, without the lock. Files that     *)
(* vanish between a directory's listing and their stat are left out.       *)
(*                                                                         *)
(* A commit parks what it moves or replaces, lands what is new, or undoes  *)
(* all of that, then writes its rows and only then marks what it has yet   *)
(* to index (workspace/changeset.py): Workspace has that in full.          *)
(***************************************************************************)
EXTENDS Naturals, SequencesExt

CONSTANTS
    Where,        \* the directories there may be, by their names from the root down
    Label,        \* the names of entries
    Shelves,      \* the workspaces to begin with: their files and directories
    MaxCommits    \* bound on the commits ever begun

ASSUME InventoryBounds == MaxCommits \in Nat /\ << >> \in Where

VARIABLES
    shelf,      \* what is on disk: [in, name, ext], a directory's ext being "dir" or "assets"
    counts,     \* per entry that has a row the number of its chunks
    marked,     \* the entries in flight
    commit,     \* the commit that holds the lock
    commits,    \* commits ever begun
    listing,    \* the listing that is made
    stirred     \* the entries a commit had to do with since it was asked for (history)

inventoryVars == <<shelf, counts, marked, commit, commits, listing, stirred>>

NoWork == [at |-> "none", todo |-> << >>, done |-> << >>, entries |-> {}, writes |-> {}, rows |-> << >>]

EntryOf(node) == [in |-> node.in, name |-> node.name]
PlaceOf(node) == Append(node.in, node.name)
IsDirNode(node) == node.ext \in {"dir", "assets"}
FilesOf(entry, nodes) == {n \in nodes : EntryOf(n) = entry /\ ~IsDirNode(n)}
PartsOf(entry, nodes) == {n \in nodes : EntryOf(n) = entry /\ n.ext # "dir"}
Below(place, nodes) == {n \in nodes : PlaceOf(n) = place \/ IsPrefix(place, n.in)}

-----------------------------------------------------------------------------
(* Commits *)

Parks(nodes) == [minus |-> nodes, plus |-> {}]
Landing(nodes) == [minus |-> {}, plus |-> nodes]

StartCommit(entries, todo, writes, rows) ==
    /\ commit = NoWork /\ commits < MaxCommits /\ commits' = commits + 1
    /\ entries \cap marked = {}
    /\ commit' = [at |-> "installing", todo |-> todo, done |-> << >>, entries |-> entries,
                  writes |-> writes, rows |-> rows]
    /\ stirred' = stirred \cup entries
    /\ UNCHANGED <<shelf, counts, marked, listing>>

Each(nodes, Change(_)) == [i \in DOMAIN SetToSeq(nodes) |-> Change({SetToSeq(nodes)[i]})]

\* An upload parks what it replaces and lands a description and an original.
UploadEntry(entry, exts) ==
    LET new == {[in |-> entry.in, name |-> entry.name, ext |-> x] : x \in exts} IN
      /\ entry.in = << >> \/ \E n \in shelf : n.ext = "dir" /\ PlaceOf(n) = entry.in
      /\ StartCommit({entry}, Each(FilesOf(entry, shelf), Parks) \o Each(new, Landing), {entry},
               [drops |-> {}, from |-> [e \in {entry} |-> entry]])

DeleteEntry(entry) ==
    /\ FilesOf(entry, shelf) # {}
    /\ StartCommit({entry}, Each(PartsOf(entry, shelf), Parks), {},
             [drops |-> {entry}, from |-> << >>])

\* A directory moves as a whole, its rows with it.
MoveDirectory(from, to) ==
    LET moving == Below(from, shelf)
        Moved(place) == to \o SubSeq(place, Len(from) + 1, Len(place))
        Landed(n) == IF PlaceOf(n) = from THEN [in |-> Front(to), name |-> Last(to), ext |-> "dir"]
                     ELSE [n EXCEPT !.in = Moved(n.in)]
        old == {EntryOf(n) : n \in moving}
        new == {EntryOf(Landed(n)) : n \in moving}
        Source(e) == EntryOf(CHOOSE n \in moving : EntryOf(Landed(n)) = e) IN
      /\ moving # {} /\ Below(to, shelf) = {} /\ ~IsPrefix(from, to)
      /\ StartCommit(old \cup new, <<Parks(moving), Landing({Landed(n) : n \in moving})>>, {},
               [drops |-> old, from |-> [f \in {f \in new : Source(f) \in DOMAIN counts} |-> Source(f)]])

Applied(step) == (shelf \ step.minus) \cup step.plus

\* One rename, or the one that fails: what was done is undone, the last first.
InstallNext ==
    /\ commit.at = "installing" /\ commit.todo # << >>
    /\ \/ /\ shelf' = Applied(Head(commit.todo))
          /\ commit' = [commit EXCEPT !.todo = Tail(@), !.done = <<Head(commit.todo)>> \o @]
       \/ commit' = [commit EXCEPT !.at = "undoing"] /\ UNCHANGED shelf
    /\ UNCHANGED <<counts, marked, commits, listing, stirred>>

UndoNext ==
    /\ commit.at = "undoing"
    /\ IF commit.done = << >> THEN commit' = NoWork /\ UNCHANGED shelf
       ELSE LET step == Head(commit.done) IN
              /\ shelf' = (shelf \ step.plus) \cup step.minus
              /\ commit' = [commit EXCEPT !.done = Tail(@)]
    /\ UNCHANGED <<counts, marked, commits, listing, stirred>>

Rekey(rows) ==
    [e \in (DOMAIN counts \ rows.drops) \cup DOMAIN rows.from |->
       IF e \notin DOMAIN rows.from THEN counts[e]
       ELSE IF rows.from[e] \in DOMAIN counts THEN counts[rows.from[e]] ELSE 0]

\* The transaction of the rows, or its failure.
WriteRows ==
    /\ commit.at = "installing" /\ commit.todo = << >>
    /\ \/ counts' = Rekey(commit.rows) /\ commit' = [commit EXCEPT !.at = "recorded"]
       \/ commit' = [commit EXCEPT !.at = "undoing"] /\ UNCHANGED counts
    /\ UNCHANGED <<shelf, marked, commits, listing, stirred>>

\* What was written is in flight, and the lock free.
MarkWritten ==
    /\ commit.at = "recorded"
    /\ marked' = marked \cup commit.writes
    /\ commit' = NoWork
    /\ UNCHANGED <<shelf, counts, commits, listing, stirred>>

\* An entry is indexed, or its index failed, and it is in flight no more.
IndexMarked(entry) ==
    /\ entry \in marked
    /\ marked' = marked \ {entry}
    /\ \E chunks \in {counts[entry], counts[entry] + 1} : counts' = [counts EXCEPT ![entry] = chunks]
    /\ UNCHANGED <<shelf, commit, commits, listing, stirred>>

-----------------------------------------------------------------------------
(* The listing *)

NoListing == [at |-> "idle", counts |-> << >>, hides |-> {}, walk |-> << >>, left |-> {}, found |-> {},
              entries |-> {}, folders |-> {}]

SetListing(new) == listing' = new /\ UNCHANGED <<shelf, counts, marked, commit, commits>>

AskListing ==
    /\ listing.at = "idle"
    /\ SetListing([listing EXCEPT !.at = "asked"])
    /\ stirred' = marked \cup commit.entries

\* list_document_paths, and after it the entries in flight.
TakeRows ==
    /\ listing.at = "asked"
    /\ SetListing([listing EXCEPT !.at = "rows", !.counts = counts])
    /\ UNCHANGED stirred

TakeMarks ==
    /\ listing.at = "rows"
    /\ SetListing([listing EXCEPT !.at = "walking", !.hides = marked, !.walk = << << >> >>])
    /\ UNCHANGED stirred

\* _safe_iterdir: the children of a directory, or none where it is gone.
ListChildren ==
    /\ listing.at = "walking" /\ listing.walk # << >>
    /\ SetListing([listing EXCEPT !.at = "scanning", !.found = {},
                     !.left = {n \in shelf : n.in = Head(listing.walk)}])
    /\ UNCHANGED stirred

\* _scan_directory: each child in its turn, unless it vanished.
StatChild ==
    /\ listing.at = "scanning" /\ listing.left # {}
    /\ LET n == CHOOSE n \in listing.left : TRUE IN
         SetListing([listing EXCEPT !.left = @ \ {n}, !.found = @ \cup ({n} \cap shelf)])
    /\ UNCHANGED stirred

\* Mutant: hidden by name, wherever it lies.
Hides_ByName(entry) == \E h \in listing.hides : h.name = entry.name

Hides(entry) == entry \in listing.hides

\* _entries_from_files: the files of one name make an entry, shown by its description
\* where there is one, with the chunks of the row that has this path.
ShownEntry(entry, found) ==
    LET files == FilesOf(entry, found)
        described == \E f \in files : f.ext = "md"
        original == {f.ext : f \in files} \ {"md"} IN
      [entry |-> entry, described |-> described, original |-> original,
       chunks |-> IF described /\ entry \in DOMAIN listing.counts THEN {listing.counts[entry]} ELSE {},
       assets |-> \E n \in found : n.ext = "assets" /\ n.name = entry.name]

\* The directory is read: its entries are made, and its directories walked first.
FoldChildren ==
    /\ listing.at = "scanning" /\ listing.left = {}
    /\ LET found == listing.found
           entries == {EntryOf(n) : n \in {n \in found : ~IsDirNode(n)}}
           folders == {PlaceOf(n) : n \in {n \in found : n.ext = "dir"}} IN
         SetListing([listing EXCEPT !.at = "walking", !.walk = SetToSeq(folders) \o Tail(@),
                       !.found = {}, !.folders = @ \cup folders,
                       !.entries = @ \cup {ShownEntry(e, found) : e \in {e \in entries : ~Hides(e)}}])
    /\ UNCHANGED stirred

EndListing ==
    /\ listing.at = "walking" /\ listing.walk = << >>
    /\ SetListing([listing EXCEPT !.at = "listed"])
    /\ UNCHANGED stirred

-----------------------------------------------------------------------------
Entries == [in : Where, name : Label]

InventoryInit ==
    /\ \E s \in Shelves : shelf = s.nodes /\ counts = [e \in s.rows |-> 1]
    /\ marked = {} /\ commit = NoWork /\ commits = 0
    /\ listing = NoListing /\ stirred = {}

InventoryNext ==
    \/ \E entry \in Entries :
          \/ \E exts \in {{"md"}, {"md", "pdf"}} : UploadEntry(entry, exts)
          \/ DeleteEntry(entry) \/ IndexMarked(entry)
    \/ \E from, to \in Where \ {<< >>} : MoveDirectory(from, to)
    \/ InstallNext \/ UndoNext \/ WriteRows \/ MarkWritten
    \/ AskListing \/ TakeRows \/ TakeMarks \/ ListChildren \/ StatChild \/ FoldChildren \/ EndListing

-----------------------------------------------------------------------------
(* Properties *)

\* Whatever commits, undoes, moves and indexes beside it, a listing that took no lock has
\* every entry that nothing had to do with meanwhile, whole, once and with its own count
\* of chunks, and no other such entry; and none that waited for its index when the walk
\* began (build_tree_response, _entries_from_files). What a commit is about may be there
\* by halves, also before it is marked (README, Departures).
ListsWhatStays ==
    listing.at = "listed" =>
        LET listed(e) == {x \in listing.entries : x.entry = e} IN
        /\ \A e \in Entries \ stirred :
              LET files == FilesOf(e, shelf) IN
              IF files = {} THEN listed(e) = {}
              ELSE \E x \in listed(e) :
                      /\ listed(e) = {x}
                      /\ {f.ext : f \in files} = x.original \cup (IF x.described THEN {"md"} ELSE {})
                      /\ x.chunks = {counts[r] : r \in DOMAIN counts \cap {e}}
                      /\ x.assets <=> files # PartsOf(e, shelf)
        /\ \A e \in listing.hides : listed(e) = {}
        /\ \A n \in shelf : n.ext = "dir" /\ EntryOf(n) \notin stirred => PlaceOf(n) \in listing.folders
==============================================================================
