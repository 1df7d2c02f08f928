------------------------------ MODULE Journal -------------------------------
(***************************************************************************)
(* The undo log of the renames one commit makes (workspace/paths.py,       *)
(* _Journal) over the disk it makes them on. Every operation is a row of   *)
(* system calls, any of which may fail; the commit then rolls back, newest *)
(* step first and past undo steps that fail, and removes the staging       *)
(* directory with whatever is still parked there.                          *)
(*                                                                         *)
(* The disk maps every path on it to its inode. A rename of a directory    *)
(* moves what is below it along. The paths of the staging directory are    *)
(* those whose head is New, Backup or Held.                                *)
(***************************************************************************)
EXTENDS Paths

CONSTANTS
    MaxUndoFailures,   \* bound on the undo steps that fail
    Made, HalfMade,    \* the inodes of directories made: by a mkdir that went well, or midway
    New, Backup, Held  \* the staging directory: files to install, what is removed, what moves

ASSUME DirAssumption == {Made, HalfMade} \subseteq Dir

VARIABLES
    disk,    \* every path and its inode
    before,  \* the same when the commit began (history)
    phase,   \* "planning", "refused", "applying", "rolling", "ended" after that, "committed"
    todo,    \* the system calls left to make
    undo,    \* _undo
    failed,  \* the undo steps that failed, and what they were to move (history)
    refused  \* how many of them the system refused although they could be done

vars == <<disk, before, phase, todo, undo, failed, refused>>

----------------------------------------------------------------------------
(* The file system *)

Exists(p) == p \in DOMAIN disk
IsDirectory(p) == p = NoPath \/ (Exists(p) /\ disk[p] \in Dir)

Below(p) == {q \in DOMAIN disk : p \in PathsTo(q)}

Staging == {p \in DOMAIN disk : Head(p) \in {New, Backup, Held}}

Dropped(paths) == [p \in DOMAIN disk \ paths |-> disk[p]]

\* rename(2), over what is there.
Renamed(from, to) ==
    [p \in (DOMAIN disk \ Below(from)) \cup {Rebase(q, from, to) : q \in Below(from)} |->
       IF to \in PathsTo(p) THEN disk[Rebase(p, to, from)] ELSE disk[p]]

\* mkdir(parents=True, exist_ok=True): the directories missing on the way to a path.
MissingTo(p) == {q \in PathsTo(p) : ~Exists(q)}

CanMake(p) == \A q \in PathsTo(p) : Exists(q) => IsDirectory(q)

WithMade(tree, paths, inode) == [p \in paths |-> inode] @@ tree

----------------------------------------------------------------------------
(* Operations, as rows of system calls *)

\* A call or an undo step: "staged" is the staged path a file leaves for or comes from.
Call(do, path, staged) == [do |-> do, path |-> path, staged |-> staged]

\* The parents of a path something is set down on from a staged one.
Parents(p, staged) == <<Call("mkdir", Front(p), staged)>>

RemoveOp(p) == <<Call("remove", p, NoPath)>>
InstallOp(p, staged) == RemoveOp(p) \o Parents(p, staged) \o <<Call("put", p, staged)>>
LeaveOp(p, staged) == <<Call("leave", p, staged)>>
LandOp(p, staged) == Parents(p, staged) \o <<Call("land", p, staged)>>
MakeDirOp(p) == <<Call("mkdir", p, NoPath)>>

Log(entries) == undo' = undo \o entries

\* What is removed is parked under the next number.
BackupPlace == <<Backup, Len(undo)>>

\* What is there, if anything is, leaves for the staging directory.
Park(p, staged) ==
    IF Exists(p) THEN /\ disk' = Renamed(p, staged)
                      /\ Log(<<Call("restore", p, staged)>>)
    ELSE UNCHANGED <<disk, undo>>

\* A staged path nothing left for; what never left cannot land, nor are parents made for it.
IsEmpty(staged) == staged # NoPath /\ ~Exists(staged)

\* Mutant: the directories made for a step stay.
MkdirLog_Nothing(missing) == <<>>

\* The parents first, so that they are undone last.
MkdirLog(missing) ==
    LET inOrder == SetToSortSeq(missing, LAMBDA p, q : Len(p) < Len(q))
    IN [i \in DOMAIN inOrder |-> Call("rmdir", inOrder[i], NoPath)]

Mkdir(p) ==
    /\ CanMake(p)
    /\ disk' = WithMade(disk, MissingTo(p), Made)
    /\ Log(MkdirLog(MissingTo(p)))

CanSetDown(p) == IsDirectory(Front(p)) /\ ~Exists(p)

\* A staged file or one that left is set down on a path that is free; undone, the
\* first is dropped and the second goes back to its staged path.
SetDown(undone, p, staged) ==
    /\ CanSetDown(p)
    /\ disk' = Renamed(staged, p)
    /\ Log(<<Call(undone, p, staged)>>)

----------------------------------------------------------------------------
(* The commit *)

\* The next system call.
Step ==
    /\ phase = "applying" /\ todo # <<>>
    /\ LET call == Head(todo) IN
         \/ call.do = "remove" /\ Park(call.path, BackupPlace)
         \/ call.do = "leave" /\ Park(call.path, call.staged)
         \/ call.do = "mkdir" /\ ~IsEmpty(call.staged) /\ Mkdir(call.path)
         \/ call.do = "put" /\ SetDown("drop", call.path, call.staged)
         \/ call.do = "land" /\ ~IsEmpty(call.staged) /\ SetDown("unland", call.path, call.staged)
         \/ call.do \in {"mkdir", "land"} /\ IsEmpty(call.staged) /\ UNCHANGED <<disk, undo>>
    /\ todo' = Tail(todo)
    /\ UNCHANGED <<before, phase, failed, refused>>

\* It fails, or the transaction that follows the last does.
Fail ==
    /\ phase = "applying"
    /\ phase' = "rolling" /\ todo' = <<>>
    /\ UNCHANGED <<disk, before, undo, failed, refused>>

\* A mkdir fails after it made some of the parents, and logs none.
FailMidway ==
    /\ phase = "applying" /\ todo # <<>> /\ Head(todo).do = "mkdir"
    /\ ~IsEmpty(Head(todo).staged) /\ CanMake(Head(todo).path)
    /\ \E p \in Above(Head(todo).path) :
         /\ MissingTo(p) # {}
         /\ disk' = WithMade(disk, MissingTo(p), HalfMade)
    /\ phase' = "rolling" /\ todo' = <<>>
    /\ UNCHANGED <<before, undo, failed, refused>>

\* The renames and the transaction are done: what is staged goes.
Commit ==
    /\ phase = "applying" /\ todo = <<>>
    /\ phase' = "committed"
    /\ disk' = Dropped(Staging)
    /\ UNCHANGED <<before, todo, undo, failed, refused>>

----------------------------------------------------------------------------
(* The rollback *)

\* rename(2) onto a path: a file takes the place of a file, a directory that of an
\* empty one.
CanReplace(from, to) ==
    Exists(to) => /\ IsDirectory(from) <=> IsDirectory(to)
                  /\ IsDirectory(to) => Below(to) = {to}

CanUndo(u) ==
    CASE u.do \in {"rmdir", "drop"} -> TRUE
      [] u.do = "restore" ->
           Exists(u.staged) /\ CanReplace(u.staged, u.path) /\ CanMake(Front(u.path))
      [] u.do = "unland" -> Exists(u.path)

\* A directory is removed while it is empty and a new file whatever took its place;
\* what was parked returns over what is there, to parents made anew if they are gone.
Undone(u) ==
    CASE u.do = "rmdir" ->
           disk' = IF IsDirectory(u.path) /\ Below(u.path) = {u.path} THEN Dropped({u.path}) ELSE disk
      [] u.do = "drop" -> disk' = Dropped(Below(u.path))
      [] u.do = "restore" ->
           disk' = WithMade(Renamed(u.staged, u.path), MissingTo(Front(u.path)), Made)
      [] u.do = "unland" -> disk' = Renamed(u.path, u.staged)

\* What an undo step is about, with all that is in it.
Moved(u) == {disk[p] : p \in Below(u.path) \cup Below(u.staged)}

NextUndo == Last(undo)

RestUndo == Front(undo)

UndoStep ==
    /\ phase = "rolling" /\ undo # <<>>
    /\ CanUndo(NextUndo) /\ Undone(NextUndo)
    /\ undo' = RestUndo
    /\ UNCHANGED <<before, phase, todo, failed, refused>>

AfterFailure == RestUndo

\* An undo step that cannot be done, or that the system refuses, is passed over.
UndoFails ==
    /\ phase = "rolling" /\ undo # <<>>
    /\ \/ ~CanUndo(NextUndo) /\ UNCHANGED refused
       \/ CanUndo(NextUndo) /\ refused < MaxUndoFailures /\ refused' = refused + 1
    /\ failed' = failed \cup {[path |-> NextUndo.path, what |-> Moved(NextUndo)]}
    /\ undo' = AfterFailure
    /\ UNCHANGED <<disk, before, phase, todo>>

\* The staging directory goes.
End ==
    /\ phase = "rolling" /\ undo = <<>>
    /\ phase' = "ended"
    /\ disk' = Dropped(Staging)
    /\ UNCHANGED <<before, todo, undo, failed, refused>>

----------------------------------------------------------------------------
(* Properties *)

\* A rollback none of whose steps failed leaves every file and directory that was
\* there where it was (the same inode) and nothing else, but for directories of a
\* mkdir that failed midway: _Journal.rollback, and the staging directory's removal.
Restored ==
    phase = "ended" /\ failed = {} =>
        /\ \A p \in DOMAIN before : Exists(p) /\ disk[p] = before[p]
        /\ \A p \in DOMAIN disk \ DOMAIN before : disk[p] = HalfMade

\* What a rollback could not bring back is at or under the path of an undo step that
\* failed, or part of what that step was to move: one failure costs nothing elsewhere
\* (_Journal.rollback goes past it).
Contained ==
    phase = "ended" =>
        \A p \in DOMAIN before : (~Exists(p) \/ disk[p] # before[p]) =>
            \E u \in failed : IsPrefix(u.path, p) \/ before[p] \in u.what

\* A rollback puts everything back, and what it cannot costs nothing beside it.
RolledBack == Restored /\ Contained
=============================================================================
