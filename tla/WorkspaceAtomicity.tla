------------------------- MODULE WorkspaceAtomicity -------------------------
(***************************************************************************)
(* Workspace implements AtomicWorkspace while the process neither crashes   *)
(* nor has its workspace reset: a changeset takes effect in the commit of   *)
(* its transaction.  Until then its journal says what the files were.       *)
(***************************************************************************)
EXTENDS Workspace

Undoable == {t \in Task : pc[t] \in {"landing", "transacting"}}

\* The files as they would be if the changeset under way were rolled back.
Committed ==
    [s \in Stem |-> IF \E t \in Undoable : s \in Touched(change[t])
                    THEN journal[s].text ELSE disk[s].text]

Identities == [s \in Stem |-> rows[s].id]

Promise == INSTANCE AtomicWorkspace WITH
    Promised <- Changes \cup Archive, texts <- Committed, ids <- Identities

\* Every changeset is all or nothing: one that fails or is refused leaves files
\* and documents as they were, one that succeeds takes all of its effects at
\* once (_commit's journal, transaction and rollback), whatever the indexing of
\* other changesets does meanwhile.
AllOrNothing == Promise!Spec
============================================================================
