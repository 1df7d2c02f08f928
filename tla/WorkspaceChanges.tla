------------------------- MODULE WorkspaceChanges -------------------------
(***************************************************************************)
(* What one changeset of the gateway does to a casebase, as a record.      *)
(*                                                                         *)
(* A stem is a pair <<entry, part>>: the part Body is the entry itself (its *)
(* description, with the original beside it), any other part one of the    *)
(* asset descriptions in its ".assets" payload, a logical entry of its own.*)
(*                                                                         *)
(* A change record names the units the planner of changeset.py claims and  *)
(* the in-flight checks it collects:                                       *)
(*   put       the text each written stem gets, Nil where nothing lands    *)
(*   gone      the stems deleted, rows and files                           *)
(*   moves     the pairs <<source, destination>> of stems relocated        *)
(*   rewrites  the destinations whose asset references follow a new name   *)
(*   guards    the stems checked against the entries in flight             *)
(*   tree      whether a directory is checked as a scope, and              *)
(*   below     the stems below that directory                              *)
(*   requires  the stems that must be on disk                              *)
(*   targets   the stems that must be on disk or have a row                *)
(*   free      the stems that must be free once the change applied         *)
(*   convert   what is converted ahead of the lock: "none", "text", "upload"*)
(***************************************************************************)
EXTENDS FiniteSets

CONSTANTS Entry, Asset, Body, Content, Nil

Part == {Body} \cup Asset
StemPath == Entry \X Part
Text == Content \cup {Nil}

\* The asset descriptions below an entry's ".assets" directory.
AssetsOf(e) == {e} \X Asset

\* The stems a logical entry owns: its own, and for an entry (not an asset
\* description) everything in its payload.
EntryOwns == [s \in StemPath |-> IF s[2] = Body THEN {s} \cup AssetsOf(s[1]) ELSE {s}]

\* A change that does nothing yet, which the operations below fill in.
Blank == [put |-> [s \in StemPath |-> Nil], gone |-> {}, moves |-> {},
          rewrites |-> {}, guards |-> {}, tree |-> FALSE, below |-> {},
          requires |-> {}, targets |-> {}, free |-> {}, convert |-> "none"]

Putting(stems, c) == [s \in StemPath |-> IF s \in stems THEN c ELSE Nil]

\* Write or Edit of a markdown entry: the description alone, indexed as it is.
WriteText(e, c) ==
    [Blank EXCEPT !.put = Putting({<<e, Body>>}, c), !.guards = {<<e, Body>>}]

\* Write of a text original, whose projection is derived ahead of the lock and
\* whose payload the projection replaces by one without assets.
WriteOriginal(e, c) ==
    [WriteText(e, c) EXCEPT !.gone = AssetsOf(e), !.requires = {<<e, Body>>},
                            !.convert = "text"]

\* Upload of a new document whose conversion describes the assets in `parts`.
UploadNew(e, c, parts) ==
    [WriteText(e, c) EXCEPT !.put = Putting({<<e, Body>>} \cup ({e} \X parts), c),
                            !.free = {<<e, Body>>} \cup AssetsOf(e),
                            !.convert = "upload"]

\* Upload with overwrite onto an entry consisting of the same files (a
\* replaced original, a reconversion): its row stays, its payload is replaced.
UploadOver(e, c, parts) ==
    [UploadNew(e, c, parts) EXCEPT !.gone = AssetsOf(e), !.free = {}]

\* Upload with overwrite onto an entry with another original: that entry is
\* deleted first, rows and files.
UploadSuperseding(e, c, parts) ==
    [UploadOver(e, c, parts) EXCEPT !.gone = {e} \X Part,
                                    !.requires = {<<e, Body>>}]

\* Write of one asset's description, which only the host makes; the asset lies
\* in its entry's payload, so the entry has to be there.
DescribeAsset(e, a, c) ==
    [Blank EXCEPT !.put = Putting({<<e, a>>}, c), !.guards = {<<e, a>>},
                  !.requires = {<<e, Body>>}]

\* Delete of one asset's description, the asset left in place.
DeleteDescription(e, a) ==
    [Blank EXCEPT !.gone = {<<e, a>>}, !.guards = {<<e, a>>},
                  !.requires = {<<e, Body>>}]

\* Delete of an entry with its payload; a row without a file stands in for it.
DeleteEntry(e) ==
    [Blank EXCEPT !.gone = {e} \X Part, !.guards = {<<e, Body>>},
                  !.targets = {<<e, Body>>}]

\* The pairs of stems a move of entry e to entry f relocates.
Relocated(e, f) == {<<<<e, p>>, <<f, p>>>> : p \in Part}

\* Move of an entry. Its source and destination are both checked in flight,
\* and a changed basename rewrites the references into its payload.
MoveEntry(e, f) ==
    [Blank EXCEPT !.moves = Relocated(e, f),
                  !.rewrites = IF Asset = {} THEN {} ELSE {<<f, Body>>},
                  !.guards = {<<e, Body>>, <<f, Body>>},
                  !.targets = {<<e, Body>>},
                  !.free = {f} \X Part]

\* Two moves in one changeset that exchange two entries.
SwapEntries(e, f) ==
    [MoveEntry(e, f) EXCEPT !.moves = Relocated(e, f) \cup Relocated(f, e),
                            !.rewrites = @ \cup (IF Asset = {} THEN {} ELSE {<<e, Body>>}),
                            !.targets = {<<e, Body>>, <<f, Body>>},
                            !.free = {e, f} \X Part]

\* Delete of a directory, checked as a scope: `entries` are those below it.
DeleteTree(entries) ==
    [Blank EXCEPT !.gone = entries \X Part, !.tree = TRUE, !.below = entries \X Part]

\* Move of a directory, whose files and rows go as they are.
MoveTree(pairs) ==
    [Blank EXCEPT !.moves = UNION {Relocated(p[1], p[2]) : p \in pairs},
                  !.tree = TRUE,
                  !.below = {p[1] : p \in pairs} \X Part \cup {p[2] : p \in pairs} \X Part,
                  !.free = {p[2] : p \in pairs} \X Part]
============================================================================
