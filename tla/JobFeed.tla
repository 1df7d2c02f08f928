------------------------------ MODULE JobFeed -------------------------------
(***************************************************************************)
(* The browser tabs that follow an owner's jobs and workspaces             *)
(* (stores/jobs-store.ts): each tab keeps a tray of snapshots, fed by the  *)
(* answers to its own submissions and by a feed that breaks, reconnects    *)
(* and replays; callers wait for a job to settle, and views are read again *)
(* when a settled job, a change or a new connection says they are stale.   *)
(*                                                                         *)
(* An event of a feed is sent, carried and handled as one step from the    *)
(* head of the subscription's queue; a broken connection loses the queue.  *)
(***************************************************************************)
EXTENDS JobManager

CONSTANTS
    SettledCap,  \* settled ids a tab remembers
    MaxDrops,    \* bound on the connections that break
    MaxChanges   \* bound on the changes that are no job

ASSUME CapAssumption == SettledCap \in Nat \ {0}

VARIABLES
    tray,      \* per tab and job the snapshot it shows
    handled,   \* per tab settledJobIds, oldest first
    seeding,   \* the tabs whose feed has not passed its ready marker
    answering, \* per tab the submissions whose answer is on its way
    awaiting,  \* per tab the jobs a caller waits for
    fired,     \* per tab and job how often the settle listeners ran (history)
    fresh,     \* the tabs that have asked for their views since the last change
    replying,  \* the tabs whose own change was made and not yet answered
    drops, changes

store == <<tray, handled, fired, awaiting, fresh>>
tabs == <<tray, handled, seeding, answering, awaiting, fired, fresh, replying, drops, changes>>
vars == <<registry, open, feeds, tabs>>

Handled(c) == ToSet(handled[c])

----------------------------------------------------------------------------
(* The store *)

\* Mutant: snapshots are applied in the order they arrive.
Stale_Ordered(c, v) == v.job \in Handled(c)

\* Mutant: a job is known to have settled while the tray shows it.
Stale_Shown(c, v) ==
    v.at < tray[c][v.job].at \/ tray[c][v.job].status \in Terminal

\* An older snapshot is dropped, and any of a job already seen to settle.
Stale(c, v) == v.at < tray[c][v.job].at \/ v.job \in Handled(c)

\* Mutant: a replayed settled job is history even where it was shown as active.
Past_Tracked(c, v) == c \in seeding /\ v.status \in Terminal

\* A job that settled before the tab knew of it.
Past(c, v) == c \in seeding /\ v.status \in Terminal /\ tray[c][v.job] = Absent

\* markSettled: the oldest goes where there are too many.
Marked(c, j) ==
    LET longer == Append(handled[c], j) IN
      IF Len(longer) > SettledCap THEN Tail(longer) ELSE longer

\* upsert of a snapshot the feed or a submission brought. Who waits for the job
\* is woken by the transition, and the views it may have changed are read again.
Upsert(c, v) ==
    \/ Stale(c, v) /\ UNCHANGED store
    \/ /\ ~Stale(c, v) /\ Past(c, v)
       /\ handled' = [handled EXCEPT ![c] = Marked(c, v.job)]
       /\ UNCHANGED <<tray, fired, awaiting, fresh>>
    \/ /\ ~Stale(c, v) /\ ~Past(c, v)
       /\ tray' = [tray EXCEPT ![c][v.job] = [status |-> v.status, at |-> v.at]]
       /\ IF v.status \in Terminal
          THEN /\ handled' = [handled EXCEPT ![c] = Marked(c, v.job)]
               /\ fired' = [fired EXCEPT ![c][v.job] = @ + 1]
               /\ awaiting' = [awaiting EXCEPT ![c] = @ \ {v.job}]
               /\ fresh' = fresh \cup {c}
          ELSE UNCHANGED <<handled, fired, awaiting, fresh>>

\* awaitJobSettled: a job that already settled, shown or dismissed, is not waited for.
MustWait(c, j) == tray[c][j].status \notin Terminal /\ j \notin Handled(c)

----------------------------------------------------------------------------
(* The steps of a tab *)

\* The feed is opened: until its ready marker what it brings is a replay.
Connect(c) ==
    /\ Subscribe(c)
    /\ seeding' = seeding \cup {c}
    /\ UNCHANGED <<store, answering, replying, drops, changes>>

\* The connection breaks, with all it carried.
Drop(c) ==
    /\ drops < MaxDrops /\ drops' = drops + 1
    /\ Unsubscribe(c)
    /\ UNCHANGED <<store, seeding, answering, replying, changes>>

\* Mutant: a new connection asks for no view again.
Refreshed_NotOnReady(type) == type = "changed"

\* After the handshake and after each change the views are asked for again.
Refreshed(type) == type \in {"ready", "changed"}

\* The next event of the feed.
Receive(c) ==
    /\ c \in open /\ feeds[c] # <<>>
    /\ feeds' = [feeds EXCEPT ![c] = Tail(@)]
    /\ LET event == Head(feeds[c]) IN
         \/ event.type = "job" /\ Upsert(c, event) /\ UNCHANGED seeding
         \/ /\ event.type # "job"
            /\ seeding' = IF event.type = "ready" THEN seeding \ {c} ELSE seeding
            /\ fresh' = IF Refreshed(event.type) THEN fresh \cup {c} ELSE fresh
            /\ UNCHANGED <<tray, handled, fired, awaiting>>
    /\ UNCHANGED <<registry, open, answering, replying, drops, changes>>

\* A tab submits a job, or a client whose answer reaches no tab.
Request(c, j) ==
    /\ Submit(j)
    /\ answering' = [d \in Client |-> IF d = c THEN answering[d] \cup {j} ELSE answering[d]]
    /\ UNCHANGED <<store, seeding, replying, drops, changes>>

\* runJob: the answer is the job as it was submitted, shown and waited for. It
\* is no replay, whatever the feed is doing, and being queued it settles nothing.
Answered(c, j) ==
    /\ j \in answering[c]
    /\ answering' = [answering EXCEPT ![c] = @ \ {j}]
    /\ LET submitted == [type |-> "job", job |-> j, status |-> "queued", at |-> 1] IN
         tray' = IF Stale(c, submitted) THEN tray
                 ELSE [tray EXCEPT ![c][j] = [status |-> "queued", at |-> 1]]
    /\ awaiting' = [awaiting EXCEPT ![c] = IF MustWait(c, j) THEN @ \cup {j} ELSE @]
    /\ UNCHANGED <<registry, open, feeds, handled, fired, fresh, seeding, replying, drops, changes>>

\* A caller gives up after SETTLE_TIMEOUT_MS.
GiveUp(c, j) ==
    /\ j \in awaiting[c]
    /\ awaiting' = [awaiting EXCEPT ![c] = @ \ {j}]
    /\ UNCHANGED <<registry, open, feeds, tray, handled, fired, fresh, seeding, answering,
                   replying, drops, changes>>

\* The user, or after AUTO_DISMISS_MS the tab, takes a settled job off the tray.
Dismiss(c, j) ==
    /\ tray[c][j].status \in Terminal
    /\ tray' = [tray EXCEPT ![c][j] = Absent]
    /\ UNCHANGED <<registry, open, feeds, handled, fired, awaiting, fresh, seeding, answering,
                   replying, drops, changes>>

\* A tab, or a client that is none, changes a workspace without a job: every view
\* is stale, every feed but the tab's own is told, and the tab is answered.
Change(c) ==
    /\ changes < MaxChanges /\ changes' = changes + 1
    /\ c \notin replying
    /\ Notify(c)
    /\ fresh' = {}
    /\ replying' = replying \cup ({c} \cap Client)
    /\ UNCHANGED <<tray, handled, fired, awaiting, seeding, answering, drops>>

\* applyAndPublish: the answer, or its failure, makes the tab ask again.
Replied(c) ==
    /\ c \in replying
    /\ replying' = replying \ {c}
    /\ fresh' = fresh \cup {c}
    /\ UNCHANGED <<registry, open, feeds, tray, handled, fired, awaiting, seeding, answering,
                   drops, changes>>

----------------------------------------------------------------------------
(* The steps of the server *)

\* A document job has changed the workspace when it settles.
Settles(j) ==
    /\ Finish(j) \/ CancelWaiting(j)
    /\ fresh' = IF jobs[j].status = "running" THEN {} ELSE fresh
    /\ UNCHANGED <<tray, handled, fired, awaiting, seeding, answering, replying, drops, changes>>

\* Retention outlasts an outage: a tab that has still to hear of the job finds it.
Forget(j) ==
    /\ \A c \in Client : /\ tray[c][j].status \notin Active /\ j \notin answering[c]
                         /\ \A i \in DOMAIN feeds[c] : feeds[c][i].job # j
    /\ Expire(j)
    /\ UNCHANGED tabs

Works(j) == (Start(j) \/ Report(j) \/ Cancel(j)) /\ UNCHANGED tabs

Init ==
    /\ ManagerInit
    /\ tray = [c \in Client |-> [j \in Job |-> Absent]]
    /\ handled = [c \in Client |-> <<>>]
    /\ seeding = {}
    /\ answering = [c \in Client |-> {}]
    /\ awaiting = [c \in Client |-> {}]
    /\ fired = [c \in Client |-> [j \in Job |-> 0]]
    /\ fresh = Client
    /\ replying = {}
    /\ drops = 0
    /\ changes = 0

Next ==
    \/ \E j \in Job : Works(j) \/ Settles(j) \/ Forget(j)
    \/ \E c \in Client \cup {NoClient} : Change(c) \/ \E j \in Job : Request(c, j)
    \/ \E c \in Client : Connect(c) \/ Drop(c) \/ Receive(c) \/ Replied(c)
    \/ \E c \in Client, j \in Job : Answered(c, j) \/ GiveUp(c, j) \/ Dismiss(c, j)

Spec == Init /\ [][Next]_vars

\* Tasks are scheduled and work ends; a feed reconnects, is read, and answers
\* arrive. Nobody need submit, cancel, give up or dismiss.
Fairness ==
    /\ \A j \in Job : WF_vars(Start(j) /\ UNCHANGED tabs) /\ WF_vars(Settles(j))
    /\ \A c \in Client :
         /\ WF_vars(Connect(c))
         /\ WF_vars(Receive(c))
         /\ \A j \in Job : WF_vars(Answered(c, j))

FairSpec == Spec /\ Fairness

----------------------------------------------------------------------------
(* Properties *)

\* A tab that has handled all its feed brought.
CaughtUp(c) == c \in open /\ feeds[c] = <<>> /\ c \notin seeding

\* However the answer, the live events and the replays of several connections
\* interleave, the settle listeners of a tab run at most once for a job
\* (jobs-store.ts, settledJobIds).
SettledOnce == \A c \in Client, j \in Job : fired[c][j] <= 1

\* A tab that is caught up shows every job that is queued or running as the server
\* has it, and shows none as such that is not, whatever connections broke, events
\* were replayed and answers came late (subscribe, upsert).
Converged ==
    \A c \in Client : CaughtUp(c) => \A j \in Job :
        \/ tray[c][j].status \in Active /\ tray[c][j] = jobs[j]
        \/ tray[c][j].status \notin Active /\ jobs[j].status \notin Active

\* A tab that is caught up and has its answers has asked for its views since the
\* last change anybody made, by a job or without one (onWorkspaceStale).
NothingMissed == \A c \in Client : CaughtUp(c) /\ c \notin replying => c \in fresh

\* A job a tab has seen to settle is never shown there as active again.
NoResurrection ==
    \A c \in Client, j \in Job : j \in Handled(c) => tray[c][j].status \notin Active

\* A caller's wait comes to an end without its timeout, though connections break.
WaitsEnd == \A c \in Client, j \in Job : j \in answering[c] ~> j \notin answering[c] \cup awaiting[c]

\* A job settles once: its payload is released once on the server, each tab reacts to it
\* once, and it never comes back as active.
SettledForGood == ReleasedOnce /\ SettledOnce /\ NoResurrection

\* Nothing is waited for in vain: a job comes to its end, and so does a wait for it.
JobsAndWaitsEnd == JobsEnd /\ WaitsEnd
=============================================================================
