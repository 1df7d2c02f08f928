------------------------------- MODULE Paths --------------------------------
(* Paths as sequences of names, their root first. *)
EXTENDS Naturals, SequencesExt

CONSTANT Dir \* the inodes that are directories

NoPath == <<>>

\* A path and the directories above it.
PathsTo(p) == {SubSeq(p, 1, k) : k \in 1..Len(p)}

Above(p) == PathsTo(p) \ {p}

\* Where a path at or below "old" lies once that is "new" (entries.py, rebase).
Rebase(p, old, new) == new \o SubSeq(p, Len(old) + 1, Len(p))
=============================================================================
