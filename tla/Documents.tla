------------------------------ MODULE Documents ------------------------------
(***************************************************************************)
(* How the tools of a run name, find and list documents (tools/base.py,    *)
(* tools/documents.py, tools/grep.py, tools/mutations.py, store.py,        *)
(* entries.py): a spelling becomes a path of one root, the path the name   *)
(* the disk has for it, and a conversation's filter is asked about that    *)
(* name. A listing or a search says what it leaves out.                    *)
(*                                                                         *)
(* A name is a stem and an extension; what a file says is left out but for *)
(* how many of its lines a search matches. A root is named by its scope.   *)
(***************************************************************************)
EXTENDS Naturals, Sequences, FiniteSets, FiniteSetsExt, SequencesExt

CONSTANTS
    Personal, Group, Tmp, \* the roots of a run: ~, @group and /tmp, as names
    Sigils,     \* the first segments of what is not relative: "~", "@any", "/"
    Trees,      \* the trees on disk: functions from absolute paths to nodes
    Selections, \* what conversations hide: functions from roots to sets of entries
    Lower,      \* a stem as a file system that folds case compares it
    Builds,     \* DEFAULT_EXCLUDE_DIRS
    Vision,     \* extensions only a vision model reads
    Tabular,    \* extensions query_table or jq answers
    Rank,       \* the order of extensions in a directory
    Spellings   \* the paths callers send

VARIABLES
    disk,     \* the tree on disk
    folds,    \* whether its file system folds case
    hidden,   \* DocumentFilter.excluded, per root
    counted,  \* a search between its two steps
    call      \* what the last tool call did

documentVars == <<disk, folds, hidden, counted, call>>

Up == [stem |-> "..", ext |-> ""]
Roots == <<Personal, Group, Tmp>>
Absent == [kind |-> "absent", to |-> << >>, hits |-> 0]
Idle == [on |-> FALSE, within |-> {}, content |-> FALSE, hits |-> {}, hidden |-> 0,
         limit |-> 0, ignored |-> FALSE]
NoCall == [tool |-> "none", shown |-> {}, opened |-> {}, named |-> {}, changed |-> {},
           within |-> {}, left |-> {}, roots |-> Range(Roots), ignored |-> FALSE, depth |-> 0, at |-> 0]

-----------------------------------------------------------------------------
(* Names and entries.                                                      *)

IsBelow(p, dir) == p # dir /\ IsPrefix(dir, p)
StemOf(p) == IF p = << >> THEN p ELSE [p EXCEPT ![Len(p)].ext = ""]
AssetsOf(stem) == [stem EXCEPT ![Len(stem)].ext = "assets"]
IsDescription(p) == Last(p).ext = "md"
DescriptionOf(stem) == [stem EXCEPT ![Len(stem)].ext = "md"]
InsideAssets(p) == \E i \in 1 .. Len(p) - 1 : p[i].ext = "assets"
InBuild(p) == \E i \in DOMAIN p : p[i] \in Builds

\* entry_owns: a stem, its assets directory and everything in it.
EntryOwns(stem, p) == p \in {stem, AssetsOf(stem)} \/ IsBelow(p, AssetsOf(stem))

\* DocumentFilter._selects: a directory with what is below it, a file with its entry.
Selects(entry, p) ==
    IF entry.dir THEN IsPrefix(entry.path, p)
    ELSE p = entry.path \/ EntryOwns(StemOf(entry.path), StemOf(p))

Passes(root, p) == \A entry \in hidden[root] : ~Selects(entry, p)
HidesWithin(root, p) ==
    \E entry \in hidden[root] : IsBelow(entry.path, p) \/ Selects(entry, p)

\* path_key of a name.
Key(name) == IF folds THEN [name EXCEPT !.stem = Lower[@]] ELSE name

(* The tree on disk: what it calls what a path opens, links left alone, and the *)
(* node itself.                                                                 *)
Called(p) ==
    {q \in DOMAIN disk : Len(q) = Len(p) /\ \A i \in DOMAIN p : Key(q[i]) = Key(p[i])}
At(p) == IF Called(p) = {} THEN Absent ELSE disk[CHOOSE q \in Called(p) : TRUE]

\* Path.resolve: `..` steps back and links are followed, as they are met.
Follow(at, name) ==
    LET p == Append(at, name)
    IN IF name = Up THEN (IF at = << >> THEN at ELSE Front(at))
       ELSE IF At(p).kind = "link" THEN At(p).to ELSE p
Resolved(p) == FoldLeft(Follow, << >>, p)

\* respell: every segment that exists as the disk spells it.
Spell(at, name) ==
    LET called == IF folds THEN Called(Append(at, name)) ELSE {}
    IN IF called = {} THEN Append(at, name) ELSE CHOOSE q \in called : TRUE
Respelled(p) == FoldLeft(Spell, << >>, p)

\* canonical_local_path, as the set of its at most one result.
Canonical(root, local) ==
    LET p == Resolved(<<root>> \o local)
    IN IF IsBelow(p, <<root>>) THEN {Respelled(p)} ELSE {}

-----------------------------------------------------------------------------
(* Roots a spelling addresses.                                             *)

\* UserDeps.writable_paths: what a mutation may change, given whether its mode
\* writes workspaces and its user the group's. /tmp always is.
Writable(mode, group) ==
    {Tmp} \cup (IF ~mode THEN {} ELSE {Personal} \cup (IF group THEN {Group} ELSE {}))

\* resolve_search_path: the root a prefix names, or the one a bare path implies.
Addressed(raw, roots) ==
    IF raw # << >> /\ Head(raw) \in roots /\ Tail(raw) # << >> THEN {<<Head(raw), Tail(raw)>>}
    ELSE IF raw # << >> /\ Head(raw) \notin Sigils /\ Personal \in roots
    THEN {<<Personal, raw>>}
    ELSE {}

\* resolve_accessible_file: the filter is asked about the name on disk.
Accessible(raw, roots) ==
    {p \in UNION {Canonical(a[1], a[2]) : a \in Addressed(raw, roots)} :
        Passes(Head(p), Tail(p))}

\* scope_paths: a leading prefix narrows to its root, anything else spans them all.
Scoped(raw) ==
    IF raw # << >> /\ Head(raw) \in Range(Roots)
    THEN [roots |-> <<Head(raw)>>, local |-> Tail(raw)]
    ELSE [roots |-> Roots, local |-> raw]

\* resolve_directory: the directories of that name, and the spelling of the last.
Directories(scope) ==
    SelectSeq(FlattenSeq([i \in DOMAIN scope.roots |->
                  IF scope.local = << >> THEN <<<<scope.roots[i]>>>>
                  ELSE SetToSeq(Canonical(scope.roots[i], scope.local))]),
              LAMBDA p : At(p).kind = "dir")

\* query_hint: the entry's original, where a query tool answers it and its filter allows.
OriginalOf(p) ==
    LET kin == {q \in DOMAIN disk : /\ StemOf(q) = StemOf(p) /\ ~IsDescription(q)
                                    /\ At(Resolved(q)).kind = "file"}
    IN IF ~IsDescription(p) THEN {p}
       ELSE {q \in kin : \A o \in kin : Rank[Last(q).ext] <= Rank[Last(o).ext]}
QueryHint(p) ==
    {q \in OriginalOf(p) : Passes(Head(q), Tail(q)) /\ Last(q).ext \in Tabular}

-----------------------------------------------------------------------------
(* Reading and changing one document.                                      *)

\* What the file system opens for a path: links followed, in the disk's spelling.
Reached(p) == IF Called(Resolved(p)) = {} THEN Resolved(p) ELSE CHOOSE q \in Called(Resolved(p)) : TRUE

\* resolve_file_or_retry, and read_document, which refuses what only vision reads.
FileAt(raw, roots) == {p \in Accessible(raw, roots) : At(p).kind = "file"}

Read(raw) ==
    LET files == {p \in FileAt(raw, Range(Roots)) : Last(p).ext \notin Vision}
    IN /\ call' = [NoCall EXCEPT !.tool = "read", !.opened = {Reached(p) : p \in files},
                                 !.named = UNION {QueryHint(p) : p \in files}]
       /\ UNCHANGED <<disk, folds, hidden, counted>>

\* UserDeps.describe_document_scope: documents the user points at are named with
\* the tool that queries them, and nothing is read.
Describe(raw) ==
    /\ call' = [NoCall EXCEPT !.tool = "scope",
                   !.named = UNION {QueryHint(p) : p \in Accessible(raw, Range(Roots))}]
    /\ UNCHANGED <<disk, folds, hidden, counted>>

\* resolve_text_target: a new document of a text format, or one there is.
TextTarget(raw, roots) ==
    {p \in Accessible(raw, roots) :
        \/ At(p).kind = "file"
        \/ At(p).kind = "absent" /\ Last(p).ext \notin Vision}

\* delete_changeset, and what goes with the document.
DeleteTarget(raw, roots) ==
    UNION {{q \in DOMAIN disk : EntryOwns(StemOf(p), StemOf(q)) /\ disk[q].kind # "dir"}
              : p \in FileAt(raw, roots)}

\* move_changeset, and _source, which asks the filter about all a directory carries.
MoveTarget(raw, roots) ==
    UNION {{q \in DOMAIN disk : IsPrefix(p, q)} :
              p \in {p \in Accessible(raw, roots) :
                        \/ At(p).kind = "file"
                        \/ At(p).kind = "dir" /\ ~HidesWithin(Head(p), Tail(p))}}

\* What a mutation hands to the commit; the commit is Changeset's.
Mutate(raw) ==
    /\ \E mode, group \in BOOLEAN :
         LET roots == Writable(mode, group)
         IN \E changed \in {TextTarget(raw, roots), DeleteTarget(raw, roots), MoveTarget(raw, roots)} :
              call' = [NoCall EXCEPT !.tool = "mutate", !.changed = changed, !.roots = roots]
    /\ UNCHANGED <<disk, folds, hidden, counted>>

-----------------------------------------------------------------------------
(* Listing and searching.                                                  *)

\* entry_ignored: build directories and the elements of payloads.
Ignored(p, ignored) == ~ignored /\ (InBuild(p) \/ InsideAssets(p))

\* _walk_entries: files, and directories unless a pattern asks for files; no links.
Walked(dirs, ext) ==
    {p \in DOMAIN disk :
        /\ \E d \in Range(dirs) : IsBelow(p, d)
        /\ disk[p].kind \in IF ext = "" THEN {"file", "dir"} ELSE {"file"}
        /\ ext # "" => Last(p).ext = ext
        /\ Passes(Head(p), Tail(p))}

\* _relative_depth, below the directory as the last root spells it.
Depth(p, at) == IF Len(p) - 1 > at THEN Len(p) - 1 - at ELSE 1

\* _scan_entries: what a walk shows, once it went through `walked` of what there is.
Deeper(p, at, depth) == depth # 0 /\ Depth(p, at) > depth
ShownOf(walked, at, depth, ignored) ==
    {p \in walked : ~Deeper(p, at, depth) /\ ~Ignored(Tail(p), ignored)}
Hints(walked, shown, at, depth, limit, ignored) ==
    {h \in {"hidden", "deeper", "limit"} :
        \/ h = "hidden" /\ \E p \in walked : ~Deeper(p, at, depth) /\ Ignored(Tail(p), ignored)
        \/ h = "deeper" /\ \E p \in walked : Deeper(p, at, depth) /\ ~Ignored(Tail(p), ignored)
        \/ h = "limit" /\ Cardinality(shown) >= limit}

\* ListDocumentsTool._list: the walk ends where the limit is reached; the order it
\* goes in is left open.
List(raw, ext, depth, limit, ignored) ==
    LET dirs == Directories(Scoped(raw))
        all == Walked(dirs, ext)
        at == IF dirs = << >> THEN 0 ELSE Len(Last(dirs)) - 1
        bound == IF ext = "" THEN depth ELSE 0
    IN /\ dirs # << >>
       /\ \E walked \in IF Cardinality(ShownOf(all, at, bound, ignored)) < limit THEN {all}
                        ELSE SUBSET all :
            LET shown == ShownOf(walked, at, bound, ignored)
            IN /\ walked # all => Cardinality(shown) = limit
               /\ Cardinality(shown) <= limit
               /\ call' = [NoCall EXCEPT !.tool = "list", !.shown = shown, !.within = all,
                              !.left = Hints(walked, shown, at, bound, limit, ignored),
                              !.ignored = ignored, !.depth = bound, !.at = at]
       /\ UNCHANGED <<disk, folds, hidden, counted>>

\* _hits: ripgrep counts, entering no build directory unless asked, and the filter,
\* the description of an entry and what is hidden by default come off.
Matching(roots, ext, ignored) ==
    {p \in DOMAIN disk :
        /\ Head(p) \in roots /\ disk[p].kind = "file" /\ disk[p].hits > 0
        /\ ext # "" => Last(p).ext = ext
        /\ ignored \/ ~InBuild(Front(p))
        /\ Passes(Head(p), Tail(p))}
\* A description stands for its original whether or not it matches.
Shadowed_Present(p, matched) == ~IsDescription(p) /\ DescriptionOf(StemOf(p)) \in DOMAIN disk
Shadowed(p, matched) == ~IsDescription(p) /\ DescriptionOf(StemOf(p)) \in matched
Hits(matched, ignored) ==
    {p \in matched : ~Shadowed(p, matched) /\ ~Ignored(Tail(p), ignored)}

\* GrepTool: first the counts of every file, which are all that is shown unless the
\* content is asked for ...
Count(raw, ext, limit, ignored, content) ==
    LET roots == Range(Scoped(raw).roots)
        matched == Matching(roots, ext, ignored)
        dropped == {p \in matched : ~Shadowed(p, matched) /\ Ignored(Tail(p), ignored)}
    IN /\ counted = Idle
       /\ ext \notin Vision
       /\ counted' = [on |-> TRUE, within |-> matched, content |-> content,
                      hits |-> {<<p, IF content THEN disk[p].hits ELSE 1>>
                                  : p \in Hits(matched, ignored)},
                      hidden |-> Cardinality(dropped), limit |-> limit, ignored |-> ignored]
       /\ call' = NoCall
       /\ UNCHANGED <<disk, folds, hidden>>

\* ... then the lines of the leading files, as they are by then: enough of them to
\* reach the limit, and no more.
Lines(hits) == FoldSet(LAMBDA h, sum : h[2] + sum, 0, hits)
Leading(hits, limit) ==
    {some \in SUBSET hits :
        /\ some = hits \/ Lines(some) >= limit
        /\ some = {} \/ \E h \in some : Lines(some \ {h}) < limit}

ShowHits ==
    /\ counted # Idle
    /\ \E some \in Leading(counted.hits, counted.limit) :
          call' = [NoCall EXCEPT !.tool = "grep", !.within = counted.within,
             !.shown = {h[1] : h \in {h \in some : counted.content => At(h[1]).hits > 0}},
             !.left = {h \in {"hidden", "limit"} :
                          \/ h = "hidden" /\ counted.hidden > 0
                          \/ h = "limit" /\ Lines(counted.hits) > counted.limit},
             !.ignored = counted.ignored]
    /\ counted' = Idle
    /\ UNCHANGED <<disk, folds, hidden>>

-----------------------------------------------------------------------------
\* Somebody else changes the tree, which ends what the last call is compared with.
\* No operation makes a link, so what links there are were there from the start.
LinksOf(tree) == {<<p, tree[p].to>> : p \in {p \in DOMAIN tree : tree[p].kind = "link"}}
Change(tree) ==
    /\ tree # disk
    /\ LinksOf(tree) = LinksOf(disk)
    /\ disk' = tree
    /\ call' = NoCall
    /\ UNCHANGED <<folds, hidden, counted>>

DocumentsInit ==
    /\ disk \in Trees
    /\ folds \in BOOLEAN
    /\ hidden \in Selections
    /\ counted = Idle
    /\ call = NoCall

AnyCall ==
    \/ \E raw \in Spellings : Read(raw) \/ Describe(raw) \/ Mutate(raw)
    \/ \E raw \in Spellings, ext \in {"", "md"}, depth \in {0, 1}, limit \in {1, 9},
          ignored \in BOOLEAN : List(raw, ext, depth, limit, ignored)
    \/ \E raw \in {raw \in Spellings : Len(raw) <= 1}, ext \in {"", "md"}, limit \in {1, 9},
          ignored, content \in BOOLEAN : Count(raw, ext, limit, ignored, content)

\* One call at a time: what two of them do does not meet.
DocumentsNext ==
    \/ call = NoCall /\ counted = Idle /\ AnyCall
    \/ ShowHits
    \/ \E tree \in Trees : Change(tree)

-----------------------------------------------------------------------------
(* Whatever spelling a path comes in, by `..`, by a link, by another case or    *)
(* with its prefix left out, no tool opens, lists, names a query for or changes *)
(* anything outside the roots the run has for it, nor anything its conversation *)
(* hides, by the name the disk has for what is reached (canonical_local_path,   *)
(* DocumentFilter). A directory is moved with what it carries.                  *)
OnlyAllowed ==
    \A p \in call.shown \cup call.opened \cup call.named \cup call.changed :
        LET q == IF p \in call.changed /\ At(p).kind = "link" THEN p ELSE Reached(p)
        IN Head(q) \in call.roots /\ Passes(Head(q), Tail(q))

(* A short answer is never all there is without saying so: what a listing or a   *)
(* search could show and did not is told of by the hint of the one argument that *)
(* would reveal it, or is the original of a description that is shown. Exempt is *)
(* what takes two arguments, the build directories below the depth, and a file   *)
(* gone since it was counted with the original it stood for (omission_hints,     *)
(* _scan_entries, _hits, _blocks).                                               *)
NothingUnsaid ==
    LET gone(p) == call.tool = "grep" /\ At(p).hits = 0
        faces(p) == {p} \cup {q \in call.within :
                        call.tool = "grep" /\ q = DescriptionOf(StemOf(p))}
    IN \A p \in call.within \ call.shown :
        \/ "limit" \in call.left
        \/ Ignored(Tail(p), call.ignored)
              /\ ("hidden" \in call.left \/ Deeper(p, call.at, call.depth))
        \/ "deeper" \in call.left /\ Deeper(p, call.at, call.depth)
        \/ \E q \in faces(p) : q \in call.shown \/ gone(q)

(* What a tool shows is all it may show: nothing a path's spelling reaches round *)
(* the filter, and nothing left out that an answer does not tell of.             *)
DocumentsShown == OnlyAllowed /\ NothingUnsaid
=============================================================================
