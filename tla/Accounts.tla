------------------------------- MODULE Accounts -------------------------------
(***************************************************************************)
(* What one user owns and how it goes (server/routes/account.py,           *)
(* server/common.py, conversation_files.py, workspace/directories.py,      *)
(* db/users.py, db/memory.py): documents with their rows, conversations    *)
(* with their folders, and a memory several conversations edit at once,    *)
(* while one request deletes all of it by parts.                           *)
(***************************************************************************)
EXTENDS Naturals, Sequences, FiniteSets, SequencesExt

CONSTANTS
    Entry,        \* documents the user uploads
    Conversation, \* conversations the user holds
    Writer,       \* write_memory calls
    Edit,         \* what they change: [old, new], old "none" to append
    MaxPassages   \* limits.max_memory_chars

VARIABLES
    treeFiles,   \* the workspace's files
    entryRows,   \* their rows
    storeLock,   \* who holds the casebase's lock
    convRows,    \* conversations with a row
    convFolders, \* conversations with a folder
    memo,        \* the memory: whether it has a row, and its passages
    rowLock,     \* the writer whose transaction locked that row
    writers,     \* each write_memory call
    saved,       \* the edits reported saved since the memory was cleared
    turns,       \* conversations whose turn runs
    deletion,    \* where the request to delete everything is, by its parts
    disturbed,  \* something of the user's ran while it did
    unlocked     \* an edit found its row cleared again, and nothing to lock

accountVars == <<treeFiles, entryRows, storeLock, convRows, convFolders, memo, rowLock, writers, saved,
                 turns, deletion, disturbed, unlocked>>
memoryVars == <<memo, rowLock, writers, saved, unlocked>>
documentParts == <<treeFiles, entryRows, storeLock>>
conversationParts == <<convRows, convFolders, turns>>

Nothing == [row |-> FALSE, lines |-> << >>]
Deleting == deletion.documents # "ready" /\ deletion.all # "done"

-----------------------------------------------------------------------------
(* The user's own requests.                                                *)

\* An upload installs files, then rows with the user's, under the casebase's lock.
UploadFiles(e) ==
    /\ storeLock = "free" /\ e \notin treeFiles
    /\ storeLock' = e
    /\ treeFiles' = treeFiles \cup {e}
    /\ disturbed' = (disturbed \/ Deleting)
    /\ UNCHANGED <<entryRows, conversationParts, memoryVars, deletion>>

UploadRows(e) ==
    /\ storeLock = e
    /\ entryRows' = entryRows \cup {e}
    /\ storeLock' = "free"
    /\ disturbed' = (disturbed \/ Deleting)
    /\ UNCHANGED <<treeFiles, conversationParts, memoryVars, deletion>>

\* A turn makes its conversation's folder (build_run_prefix) and writes its row when it
\* ends (append_branch, which makes the user's row too).
StartTurn(c) ==
    /\ c \notin turns
    /\ turns' = turns \cup {c}
    /\ convFolders' = convFolders \cup {c}
    /\ disturbed' = (disturbed \/ Deleting)
    /\ UNCHANGED <<convRows, documentParts, memoryVars, deletion>>

EndTurn(c) ==
    /\ c \in turns
    /\ turns' = turns \ {c}
    /\ convRows' = convRows \cup {c}
    /\ disturbed' = (disturbed \/ Deleting)
    /\ UNCHANGED <<convFolders, documentParts, memoryVars, deletion>>

\* delete_conversation: the row, then the folder.
DeleteConversation(c) ==
    /\ c \in convRows /\ c \notin turns /\ deletion.conversations # "folders"
    /\ convRows' = convRows \ {c} /\ convFolders' = convFolders \ {c}
    /\ UNCHANGED <<turns, documentParts, memoryVars, deletion, disturbed>>

-----------------------------------------------------------------------------
(* The memory.                                                             *)

\* edit_memory: a passage is put in place of the one that matches, or after the last;
\* what fits no longer is refused.
Edited(lines, edit) ==
    IF edit.old = "none" THEN Append(lines, edit.new)
    ELSE LET i == CHOOSE i \in DOMAIN lines : lines[i] = edit.old
         IN [lines EXCEPT ![i] = edit.new]
Fits(lines, edit) ==
    /\ edit.old # "none" => Cardinality({i \in DOMAIN lines : lines[i] = edit.old}) = 1
    /\ Len(Edited(lines, edit)) <= MaxPassages \/ Len(Edited(lines, edit)) < Len(lines)


RowFree == rowLock = "free"
Inserted(w) == writers[w].at \in {"ensured", "read"} /\ writers[w].inserts

\* update_memory: one transaction makes the row where there is none, and holds what it
\* made; where another has made one and not committed, it waits ...
EnsureMemory(w) ==
    /\ writers[w].at = "ready"
    /\ \A v \in Writer \ {w} : ~Inserted(v)
    /\ \E edit \in Edit : writers' = [writers EXCEPT ![w] =
                                        [at |-> "ensured", edit |-> edit, read |-> << >>, inserts |-> ~memo.row]]
    /\ memo' = [memo EXCEPT !.row = TRUE]
    /\ rowLock' = IF memo.row THEN rowLock ELSE w
    /\ UNCHANGED <<saved, unlocked, documentParts, conversationParts, deletion, disturbed>>

\* ... reads it once no other transaction has it locked, a refused edit undoing all ...
ReadMemory(w) ==
    /\ writers[w].at = "ensured"
    /\ RowFree \/ rowLock = w
    /\ \/ /\ Fits(memo.lines, writers[w].edit)
          /\ rowLock' = IF memo.row THEN w ELSE rowLock
          /\ unlocked' = (unlocked \/ ~memo.row)
          /\ writers' = [writers EXCEPT ![w].at = "read", ![w].read = memo.lines]
          /\ UNCHANGED memo
       \/ /\ ~Fits(memo.lines, writers[w].edit)
          /\ rowLock' = "free"
          /\ memo' = IF writers[w].inserts THEN Nothing ELSE memo
          /\ writers' = [writers EXCEPT ![w].at = "refused"]
          /\ UNCHANGED unlocked
    /\ UNCHANGED <<saved, documentParts, conversationParts, deletion, disturbed>>

\* ... and writes what the edit makes of it, if the row is there.
WriteMemory(w) ==
    /\ writers[w].at = "read"
    /\ memo' = IF memo.row THEN [memo EXCEPT !.lines = Edited(writers[w].read, writers[w].edit)] ELSE memo
    /\ rowLock' = IF rowLock = w THEN "free" ELSE rowLock
    /\ writers' = [writers EXCEPT ![w].at = "saved"]
    /\ saved' = IF memo.row THEN Append(saved, writers[w].edit) ELSE saved
    /\ UNCHANGED <<unlocked, documentParts, conversationParts, deletion, disturbed>>

\* clear_memory.
ClearMemory ==
    /\ memo.row /\ RowFree
    /\ memo' = Nothing /\ saved' = << >>
    /\ UNCHANGED <<rowLock, writers, unlocked, documentParts, conversationParts, deletion, disturbed>>

-----------------------------------------------------------------------------
(* delete_user_data: documents and conversations side by side, then the    *)
(* user's row.                                                             *)

DeleteStarts ==
    /\ deletion.all = "ready"
    /\ deletion' = [all |-> "parts", documents |-> "rows", conversations |-> "rows", names |-> {}]
    /\ disturbed' = (turns # {} \/ storeLock # "free")
    /\ UNCHANGED <<documentParts, conversationParts, memoryVars>>

\* delete_all: rows, then files, under the lock that leaves nothing in flight.
DeleteRows ==
    /\ deletion.documents = "rows" /\ storeLock = "free"
    /\ storeLock' = "deletion"
    /\ entryRows' = {}
    /\ deletion' = [deletion EXCEPT !.documents = "files"]
    /\ UNCHANGED <<treeFiles, conversationParts, memoryVars, disturbed>>

DeleteFiles ==
    /\ deletion.documents = "files"
    /\ treeFiles' = {} /\ storeLock' = "free"
    /\ deletion' = [deletion EXCEPT !.documents = "done"]
    /\ UNCHANGED <<entryRows, conversationParts, memoryVars, disturbed>>

\* delete_conversations: the rows, then the folders of the rows there were.
DeleteConversationRows ==
    /\ deletion.conversations = "rows"
    /\ convRows' = {}
    /\ deletion' = [deletion EXCEPT !.conversations = "folders", !.names = convRows]
    /\ UNCHANGED <<convFolders, turns, documentParts, memoryVars, disturbed>>

DeleteFolders ==
    /\ deletion.conversations = "folders"
    /\ convFolders' = convFolders \ deletion.names
    /\ deletion' = [deletion EXCEPT !.conversations = "done"]
    /\ UNCHANGED <<convRows, turns, documentParts, memoryVars, disturbed>>

\* delete_user: what belongs to the row goes with it.
DeleteUser ==
    /\ deletion.all = "parts" /\ deletion.documents = "done" /\ deletion.conversations = "done"
    /\ RowFree
    /\ entryRows' = {} /\ convRows' = {}
    /\ memo' = Nothing /\ saved' = << >>
    /\ deletion' = [deletion EXCEPT !.all = "done"]
    /\ UNCHANGED <<treeFiles, storeLock, convFolders, turns, rowLock, writers, disturbed, unlocked>>

-----------------------------------------------------------------------------
AccountInit ==
    /\ treeFiles = {} /\ entryRows = {} /\ storeLock = "free"
    /\ convRows = {} /\ convFolders = {} /\ turns = {}
    /\ memo \in {Nothing, [Nothing EXCEPT !.row = TRUE]} /\ rowLock = "free" /\ saved = << >>
    /\ writers = [w \in Writer |-> [at |-> "ready"]]
    /\ deletion = [all |-> "ready", documents |-> "ready", conversations |-> "ready", names |-> {}]
    /\ disturbed = FALSE /\ unlocked = FALSE

AccountNext ==
    \/ \E e \in Entry : UploadFiles(e) \/ UploadRows(e)
    \/ \E c \in Conversation : StartTurn(c) \/ EndTurn(c) \/ DeleteConversation(c)
    \/ \E w \in Writer : EnsureMemory(w) \/ ReadMemory(w) \/ WriteMemory(w)
    \/ ClearMemory
    \/ DeleteStarts \/ DeleteRows \/ DeleteFiles \/ DeleteConversationRows \/ DeleteFolders \/ DeleteUser

-----------------------------------------------------------------------------
===============================================================================
