---------------------------- MODULE MCWorkspace ----------------------------
(* Instances of Workspace for TLC: a casebase of a few entries, each with its *)
(* own description and those of its assets, and the changesets of one run.    *)
EXTENDS WorkspaceAtomicity, TLC

CONSTANTS Entry, Asset, Body

ASSUME PartsDistinct == Body \notin Asset

C == INSTANCE WorkspaceChanges

MCStem == C!StemPath
MCOwned == C!EntryOwns

\* One asset is all a conversion describes here, if there are any.
Parts == {{}, Asset}

Writes == {C!WriteText(e, c) : e \in Entry, c \in Content}
Uploads == {C!UploadNew(e, c, p) : e \in Entry, c \in Content, p \in Parts}
Overwrites == {C!UploadOver(e, c, p) : e \in Entry, c \in Content, p \in Parts}
Originals == {C!WriteOriginal(e, c) : e \in Entry, c \in Content}
Superseding == {C!UploadSuperseding(e, c, {}) : e \in Entry, c \in Content}
Deletes == {C!DeleteEntry(e) : e \in Entry}
Pairs == {p \in Entry \X Entry : p[1] # p[2]}
Moves == {C!MoveEntry(p[1], p[2]) : p \in Pairs}
Swaps == {C!SwapEntries(p[1], p[2]) : p \in Pairs}
Trees == {C!DeleteTree(Entry)} \cup {C!MoveTree({p}) : p \in Pairs}

NoChanges == {}
EditChanges == Writes \cup Overwrites \cup Deletes \cup Moves \cup Swaps
UploadChanges == Uploads \cup Originals \cup Superseding \cup Deletes
BootChanges == UploadChanges \cup Trees
ImportArchive == {C!UploadNew(e, c, {}) : e \in Entry, c \in Content}

\* The first boot finds nothing, or anything.
EmptyDisk == {[s \in Stem |-> Nil]}
FullDisk == {[s \in Stem |-> c] : c \in Content}
AnyDisk == [Stem -> Text]

\* Repointing its references leaves another text.
MCRewrite == [c \in Content |-> IF Content = {c} THEN c ELSE CHOOSE d \in Content : d # c]

Symmetry == Permutations(Task) \cup Permutations(Entry) \cup Permutations(Content)
============================================================================
