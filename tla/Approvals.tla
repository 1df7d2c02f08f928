------------------------------ MODULE Approvals ------------------------------
(***************************************************************************)
(* What a chat run may change and when: its own writes and the changesets  *)
(* its programs staged wait for the user's answer (agents/tools/write.py,  *)
(* staging.py), which comes with a later request of any tab, and commit    *)
(* over one or several workspaces under their locks (workspace/locks.py).  *)
(*                                                                         *)
(* A staged changeset is a file of the conversation's folder, which other  *)
(* requests read and remove meanwhile and a sweep takes when it is idle    *)
(* (conversation_files.py). The tree holds the ends of turns only, with    *)
(* the calls each left open: ConversationTree has the rest.                *)
(***************************************************************************)
EXTENDS Naturals, FiniteSets, FiniteSetsExt, Functions, SequencesExt

CONSTANTS
    Tab,           \* where the user answers and asks from
    Root,          \* the workspaces, numbered in the order of their keys
    Span,          \* the sets of them a change is about
    MaxCalls,      \* bound on the mutations a model ever asks for
    MaxStaged,     \* bound on the changesets ever staged
    MaxPosts       \* bound on the requests ever made

ASSUME ApprovalBounds ==
    /\ Root \subseteq Nat /\ IsFiniteSet(Root) /\ Span \subseteq (SUBSET Root) \ {{}}
    /\ MaxCalls \in Nat /\ MaxStaged \in Nat /\ MaxPosts \in Nat

VARIABLES
    disk,        \* per workspace the version of what the changes are about
    ends,        \* the ends of turns: what each goes on from, and its open calls
    staged,      \* the staged changesets that are in the folder, with their bases
    folder,      \* "used", "judged" idle by the sweep, or "swept"
    runs,        \* per tab the request it has made
    calls,       \* the calls that execute
    minted,      \* per changeset ever staged how often it was applied (history)
    answered,    \* the calls the user answered, and how (history)
    made,        \* calls ever made
    posts        \* requests ever made

approvalVars == <<disk, ends, staged, folder, runs, calls, minted, answered, made, posts>>

NoEnd == 0
Unchecked == <<>>

Staged == DOMAIN staged
OpenAt(n) == IF n = NoEnd THEN {} ELSE ends[n].open

\* The turn that is active: the newest that nothing follows.
LastEnds == {n \in DOMAIN ends : \A m \in DOMAIN ends : ends[m].after # n}
Active == IF LastEnds = {} THEN NoEnd ELSE Max(LastEnds)

\* The turns up to one, and the start.
Upto[n \in {NoEnd} \cup DOMAIN ends] == {n} \cup IF n = NoEnd THEN {} ELSE Upto[ends[n].after]

Seen(over) == [r \in over |-> disk[r]]

----------------------------------------------------------------------------
(* A request arrives *)

NoRun == [pc |-> "idle", mode |-> "read", end |-> NoEnd, answers |-> {}, yes |-> {}, asks |-> {}]

SetRun(t, run) == runs' = [runs EXCEPT ![t] = run]

\* A prompt, or an edit or regeneration of an earlier one, goes on from a turn of
\* the active path and abandons what that left open; it answers nothing.
Prompt(t, mode, n) ==
    /\ runs[t] = NoRun /\ posts < MaxPosts
    /\ n \in Upto[Active]
    /\ posts' = posts + 1
    /\ SetRun(t, [NoRun EXCEPT !.pc = "read", !.mode = mode, !.end = n])
    /\ answered' = answered \cup {<<c, FALSE>> : c \in OpenAt(n)}
    /\ UNCHANGED <<disk, ends, staged, folder, calls, minted, made>>

\* The answers to the calls a tab shows open, which may be another tab's to have
\* answered before. They go on from the end of the branch that is active now.
Answer(t, mode, shown, yes) ==
    /\ runs[t] = NoRun /\ posts < MaxPosts
    /\ shown # {} /\ yes \subseteq shown
    /\ posts' = posts + 1
    /\ SetRun(t, [NoRun EXCEPT !.pc = "read", !.mode = mode, !.end = Active,
                             !.answers = shown, !.yes = yes])
    /\ answered' = answered \cup {<<c, c \in yes>> : c \in shown}
    /\ UNCHANGED <<disk, ends, staged, folder, calls, minted, made>>

\* Mutant: only what the user denied in so many words is discarded.
Discarded_Denied(run) ==
    {c.changeset : c \in {c \in OpenAt(run.end) : c.tool = "apply" /\ c \in run.answers \ run.yes}}

\* discard_unapproved_changes: what the open calls name and this request does not approve.
Discarded(run) ==
    {c.changeset : c \in {c \in OpenAt(run.end) : c.tool = "apply" /\ c \notin run.yes}}

Discard(t) ==
    /\ runs[t].pc = "read"
    /\ staged' = Restrict(staged, Staged \ Discarded(runs[t]))
    /\ SetRun(t, [runs[t] EXCEPT !.pc = "judged"])
    /\ UNCHANGED <<disk, ends, folder, calls, minted, answered, made, posts>>

Reply(after, open) == ends' = Append(ends, [after |-> after, open |-> open])

Executing(t, c) ==
    [by |-> t, call |-> c, at |-> IF c.tool = "apply" THEN "called" ELSE "locks", held |-> {}]

\* abandon_pending_calls: a prompt closes what it leaves open as a turn of its own.
Abandon(t) ==
    LET run == runs[t] IN
      /\ run.pc = "judged" /\ run.answers = {}
      /\ IF OpenAt(run.end) = {} THEN UNCHANGED ends /\ SetRun(t, [run EXCEPT !.pc = "runs"])
         ELSE /\ Reply(run.end, {})
              /\ SetRun(t, [run EXCEPT !.pc = "runs", !.end = Len(ends) + 1])
      /\ UNCHANGED <<disk, staged, folder, calls, minted, answered, made, posts>>

\* A mode that may not write offers no gated tool, so the calls it resumes are refused.
Resume(t) ==
    LET run == runs[t] IN
      /\ run.pc = "judged" /\ run.answers # {}
      /\ OpenAt(run.end) # {} /\ OpenAt(run.end) \subseteq run.answers
      /\ SetRun(t, [run EXCEPT !.pc = "runs", !.answers = {}])
      /\ calls' = calls \cup IF run.mode = "read" THEN {}
                             ELSE {Executing(t, c) : c \in OpenAt(run.end) \cap run.yes}
      /\ UNCHANGED <<disk, ends, staged, folder, minted, answered, made, posts>>

\* A run that is not given every answer it waits for, or waits for none, fails; the calls
\* it found open are closed by its error, where the framework captured them.
Refuse(t) ==
    LET run == runs[t] IN
      /\ run.pc = "judged" /\ run.answers # {}
      /\ OpenAt(run.end) = {} \/ ~(OpenAt(run.end) \subseteq run.answers)
      /\ SetRun(t, NoRun)
      /\ UNCHANGED ends \/ (OpenAt(run.end) # {} /\ Reply(run.end, {}))
      /\ UNCHANGED <<disk, staged, folder, calls, minted, answered, made, posts>>

----------------------------------------------------------------------------
(* Calls execute *)

Mine(t) == {e \in calls : e.by = t}
Becomes(e, f) == calls' = (calls \ {e}) \cup {f}

\* apply_changes reads the changeset it names, if it is still in the folder.
Load(e) ==
    /\ e.at = "called"
    /\ IF e.call.changeset \in Staged THEN Becomes(e, [e EXCEPT !.at = "locks"])
       ELSE calls' = calls \ {e}
    /\ UNCHANGED <<disk, ends, staged, folder, runs, minted, answered,
                   made, posts>>

Free(r) == \A e \in calls : r \notin e.held
Missing(e) == e.call.over \ e.held

\* Mutant: in the order in which the items name their workspaces.
NextLock_Named(e) == IF e.call.id % 2 = 0 THEN Min(Missing(e)) ELSE Max(Missing(e))

\* _locked: in the order of the workspaces' keys.
NextLock(e) == Min(Missing(e))

Lock(e) ==
    /\ e.at = "locks" /\ Missing(e) # {}
    /\ Free(NextLock(e))
    /\ Becomes(e, [e EXCEPT !.held = @ \cup {NextLock(e)}])
    /\ UNCHANGED <<disk, ends, staged, folder, runs, minted, answered,
                   made, posts>>

\* The gateway refuses a change whose bases moved.
Admits(e) == \A r \in DOMAIN e.call.base : disk[r] = e.call.base[r]

\* A changeset that was tried has yet to be removed; any other call is over.
Tried(e) ==
    IF e.call.tool = "apply" THEN Becomes(e, [e EXCEPT !.at = "tried", !.held = {}])
    ELSE calls' = calls \ {e}

\* The change commits, or is refused, and the locks are released.
Commit(e) ==
    /\ e.at = "locks" /\ Missing(e) = {}
    /\ disk' = [r \in Root |-> IF Admits(e) /\ r \in e.call.over THEN disk[r] + 1 ELSE disk[r]]
    /\ minted' = IF Admits(e) /\ e.call.tool = "apply"
                 THEN [minted EXCEPT ![e.call.changeset] = @ + 1] ELSE minted
    /\ Tried(e)
    /\ UNCHANGED <<ends, staged, folder, runs, answered, made, posts>>

\* Applied or refused, a changeset that was tried goes.
Forget(e) ==
    /\ e.at = "tried"
    /\ staged' = Restrict(staged, Staged \ {e.call.changeset})
    /\ calls' = calls \ {e}
    /\ UNCHANGED <<disk, ends, folder, runs, minted, answered, made, posts>>

----------------------------------------------------------------------------
(* A run goes on *)

\* Where a model may act: nothing it called is executing.
MayAct(t) == runs[t].pc = "runs" /\ Mine(t) = {}

Call(id, tool, changeset, over, base) ==
    [id |-> id, tool |-> tool, changeset |-> changeset, over |-> over, base |-> base]

\* A program changed workspaces: in a mode that asks its changes are staged, in
\* one that does not they commit like any write.
Program(t, over) ==
    /\ MayAct(t) /\ runs[t].mode # "read"
    /\ IF runs[t].mode = "ask"
       THEN /\ Len(minted) < MaxStaged
            /\ minted' = Append(minted, 0)
            /\ staged' = [s \in Staged \cup {Len(minted) + 1} |->
                            IF s \in Staged THEN staged[s] ELSE Seen(over)]
            /\ UNCHANGED <<calls, made>>
       ELSE /\ made < MaxCalls /\ made' = made + 1
            /\ calls' = calls \cup {Executing(t, Call(made + 1, "write", 0, over, Seen(over)))}
            /\ UNCHANGED <<minted, staged>>
    /\ UNCHANGED <<disk, ends, folder, runs, answered, posts>>

\* What the validators let pass: a write, with or without the hash of what it
\* replaces, or a changeset that is there and would still commit.
Valid(id) ==
    {Call(id, "write", 0, over, IF Cardinality(over) = 1 THEN Seen(over) ELSE Unchecked) : over \in Span}
      \cup {Call(id, "apply", s, DOMAIN staged[s], staged[s])
              : s \in {s \in Staged : \A r \in DOMAIN staged[s] : disk[r] = staged[s][r]}}

Responses ==
    IF made + 2 <= MaxCalls
    THEN {{c} : c \in Valid(made + 1)} \cup {{c, d} : c \in Valid(made + 1), d \in Valid(made + 2)}
    ELSE IF made < MaxCalls THEN {{c} : c \in Valid(made + 1)} ELSE {}

\* Mutant: once the user approved a call of the run, the rest of it is not asked about.
Asks_Once(run) == run.mode = "ask" /\ run.yes = {}

\* _asks: a gated call of a mode that asks, unless it is one the user approved.
Asks(run) == run.mode = "ask"

\* A response makes calls: the run ends on those that ask, and the others execute.
Respond(t, response) ==
    /\ MayAct(t) /\ runs[t].mode # "read"
    /\ made' = made + Cardinality(response)
    /\ IF Asks(runs[t])
       THEN SetRun(t, [runs[t] EXCEPT !.pc = "ends", !.asks = response]) /\ UNCHANGED calls
       ELSE calls' = calls \cup {Executing(t, c) : c \in response} /\ UNCHANGED runs
    /\ UNCHANGED <<disk, ends, staged, folder, minted, answered, posts>>

\* The model answers, or the client leaves: a commit that began is waited for
\* (shield_to_completion), anything else the run called is dropped, and a changeset
\* that was loaded is removed untried.
Conclude(t) ==
    /\ runs[t].pc = "runs"
    /\ SetRun(t, [runs[t] EXCEPT !.pc = "ends"])
    /\ \E cut \in SUBSET {e \in Mine(t) : e.at = "locks" /\ e.held = {} /\ e.call.tool = "apply"} :
         calls' = {e \in calls \ cut : e.by = t => e.at # "called"}
                    \cup {[e EXCEPT !.at = "tried"] : e \in cut}
    /\ UNCHANGED <<disk, ends, staged, folder, minted, answered, made, posts>>

\* The turn is stored; calls the run was cut off from are closed, those that ask stay open.
Store(t) ==
    /\ runs[t].pc = "ends" /\ Mine(t) = {}
    /\ Reply(runs[t].end, runs[t].asks)
    /\ SetRun(t, NoRun)
    /\ UNCHANGED <<disk, staged, folder, calls, minted, answered, made, posts>>

----------------------------------------------------------------------------
(* Around the runs *)

\* The sweep judges a folder idle in which nothing changed for conversations.ttl_hours,
\* under the lock of its /tmp, which staging does not take ...
Judge ==
    /\ folder = "used" /\ \A t \in Tab : runs[t] = NoRun
    /\ folder' = "judged"
    /\ UNCHANGED <<disk, ends, staged, runs, calls, minted, answered, made, posts>>

\* ... and removes it; once, which bounds the sweeps.
Sweep ==
    /\ folder = "judged"
    /\ folder' = "swept"
    /\ staged' = <<>>
    /\ UNCHANGED <<disk, ends, runs, calls, minted, answered, made, posts>>

\* The process dies: what was not stored is gone, the folder and the turns are not.
Crash ==
    /\ \E t \in Tab : runs[t] # NoRun
    /\ runs' = [t \in Tab |-> NoRun] /\ calls' = {}
    /\ folder' = IF folder = "judged" THEN "used" ELSE folder
    /\ UNCHANGED <<disk, ends, staged, minted, answered, made, posts>>

ApprovalsInit ==
    /\ disk = [r \in Root |-> 0]
    /\ ends = <<>> /\ staged = <<>> /\ minted = <<>>
    /\ folder = "used"
    /\ runs = [t \in Tab |-> NoRun]
    /\ calls = {} /\ answered = {}
    /\ made = 0 /\ posts = 0

Modes == {"read", "ask", "write"}

ApprovalsNext ==
    \/ \E t \in Tab :
         \/ \E mode \in {"ask", "write"}, n \in {NoEnd} \cup DOMAIN ends : Prompt(t, mode, n)
         \/ \E mode \in Modes, n \in DOMAIN ends : \E yes \in SUBSET ends[n].open :
              Answer(t, mode, ends[n].open, yes)
         \/ Discard(t) \/ Abandon(t) \/ Resume(t) \/ Refuse(t) \/ Conclude(t) \/ Store(t)
         \/ \E over \in Span : Program(t, over)
         \/ \E response \in Responses : Respond(t, response)
    \/ \E e \in calls : Load(e) \/ Lock(e) \/ Commit(e) \/ Forget(e)
    \/ Judge \/ Sweep \/ Crash

ApprovalsSpec == ApprovalsInit /\ [][ApprovalsNext]_approvalVars

----------------------------------------------------------------------------
(* Properties *)

\* Committed in a step: what left "locks" with its locks and moved the disk.
Commits(e) == e.at = "locks" /\ e.call.over # {} /\ Missing(e) = {} /\ e \notin calls' /\ disk' # disk

Approved(c) == <<c, TRUE>> \in answered

\* A change that a run had to ask about commits only after the user said yes to it,
\* and as it was shown: nobody changed meanwhile what it is about. A write without
\* the hash of what it replaces commits whatever is there (expected_hash).
AsApproved ==
    [][\A e \in calls :
         Commits(e) /\ runs[e.by].mode = "ask" =>
           /\ Approved(e.call)
           /\ e.call.base # Unchecked => e.call.base = Seen(e.call.over)]_approvalVars

\* However often and from wherever a changeset is approved, and whether the process
\* dies between its commit and its removal, it is applied once.
OnceApplied == \A s \in DOMAIN minted : minted[s] <= 1

\* Once a conversation goes on past a turn, no run can apply a changeset that turn asked
\* about and the user did not approve: it is gone from the folder, whatever crashes
\* between (_run_chat discards before it stores what follows).
NoneLeftBehind ==
    \A n \in DOMAIN ends : (\E m \in DOMAIN ends : ends[m].after = n) =>
        \A c \in ends[n].open : c.tool = "apply" /\ c.changeset \in Staged => Approved(c)

\* A changeset the active turn asks about is there to be applied, unless a call for it
\* was answered or the idle sweep took it (discard_unapproved_changes: a changeset it
\* drops "was denied or abandoned").
AskedIsThere ==
    \A c \in OpenAt(Active) : c.tool = "apply" =>
        \/ c.changeset \in Staged \/ folder = "swept"
        \/ \E a \in answered : a[1].changeset = c.changeset

\* No two commits wait for workspaces the other holds (_locked).
Unblocked ==
    \A e, f \in calls :
        /\ e.at = "locks" /\ Missing(e) # {} /\ f.at = "locks" /\ Missing(f) # {}
        => ~(NextLock(e) \in f.held /\ NextLock(f) \in e.held)

\* A staged changeset is applied once, and never after the conversation went on
\* without an approval of it.
StagedOnce == OnceApplied /\ NoneLeftBehind
=============================================================================
