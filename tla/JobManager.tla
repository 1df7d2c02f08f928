----------------------------- MODULE JobManager -----------------------------
(***************************************************************************)
(* The registry of background jobs and its feeds (hivegent.jobs): jobs run *)
(* in submission order under a concurrency limit, are cancelled, settle,   *)
(* are retained for a while, and every change of one is broadcast to the   *)
(* owner's subscriptions, each a bounded queue that drops its oldest event. *)
(*                                                                         *)
(* One owner is modelled: feeds and jobs of different owners do not meet.  *)
(***************************************************************************)
EXTENDS Naturals, Sequences, FiniteSets, SequencesExt

CONSTANTS
    Job,             \* the jobs an owner ever submits
    Client,          \* the owner's browser tabs
    NoJob, NoClient, \* an event about no job, a change made by no tab
    MaxConcurrency,  \* jobs running at once
    QueueSize,       \* events a subscription holds
    MaxReports       \* bound on the reports of one job

ASSUME JobsAssumption == IsFiniteSet(Job)
ASSUME NoneAssumption == NoJob \notin Job /\ NoClient \notin Client
ASSUME LimitsAssumption == MaxConcurrency \in Nat \ {0} /\ QueueSize \in Nat \ {0}
ASSUME ReportsAssumption == MaxReports \in Nat

VARIABLES
    jobs,       \* _jobs: per job its status and updated_at, which counts its changes
    line,       \* the jobs waiting for the semaphore, in order of submission
    created,    \* the jobs that were ever submitted
    cancelling, \* the jobs whose task was asked to cancel
    old,        \* the settled jobs whose retention is over
    released,   \* per job how often its finalizer ran (history)
    open,       \* the tabs with a subscription
    feeds       \* per tab its subscription's queue

registry == <<jobs, line, created, cancelling, old, released>>

Active == {"queued", "running"}
Terminal == {"succeeded", "failed", "cancelled"}

Absent == [status |-> "none", at |-> 0]
View(j) == [type |-> "job", job |-> j, status |-> jobs[j].status, at |-> jobs[j].at]
Ready == [type |-> "ready", job |-> NoJob, status |-> "none", at |-> 0]
Changed == [type |-> "changed", job |-> NoJob, status |-> "none", at |-> 0]

Running == {j \in Job : jobs[j].status = "running"}
Reports(j) == jobs[j].at - 2

----------------------------------------------------------------------------
(* Feeds *)

\* A queue keeps its newest events.
Bounded(q) == SubSeq(q, IF Len(q) > QueueSize THEN Len(q) - QueueSize + 1 ELSE 1, Len(q))

Enqueue(q, event) == Bounded(Append(q, event))

\* To every subscription but those of the client that asked.
Broadcast(event, exclude) ==
    feeds' = [c \in Client |-> IF c \in open /\ c # exclude THEN Enqueue(feeds[c], event)
                               ELSE feeds[c]]

\* Every change of a job is pushed as a full snapshot.
Publish(j) == Broadcast(View(j)', NoClient)

Retained == {j \in created : jobs[j].status \in Active \cup Terminal}

\* The orders of some jobs: which of them is the older is left open.
Orders(some) == {kept \in [1 .. Cardinality(some) -> some] : Range(kept) = some}

\* A subscription starts with every retained job and the marker that ends them.
Subscribe(c) ==
    /\ c \notin open
    /\ \E kept \in Orders(Retained) :
         feeds' = [feeds EXCEPT ![c] = Bounded(Append([i \in DOMAIN kept |-> View(kept[i])], Ready))]
    /\ open' = open \cup {c}
    /\ UNCHANGED registry

Unsubscribe(c) ==
    /\ c \in open
    /\ open' = open \ {c}
    /\ feeds' = [feeds EXCEPT ![c] = <<>>]
    /\ UNCHANGED registry

\* A change of a workspace that was no job.
Notify(exclude) ==
    /\ Broadcast(Changed, exclude)
    /\ UNCHANGED <<registry, open>>

----------------------------------------------------------------------------
(* Jobs *)

\* Settled jobs past their retention go whenever a job is submitted or settles.
Pruned(table) == [j \in Job |-> IF j \in old THEN Absent ELSE table[j]]

\* The job takes its place before the semaphore. An id is known to nobody before
\* the task has reached it, so no cancel comes earlier.
Submit(j) ==
    /\ j \notin created
    /\ jobs' = Pruned([jobs EXCEPT ![j] = [status |-> "queued", at |-> 1]])
    /\ line' = Append(line, j)
    /\ created' = created \cup {j}
    /\ old' = {}
    /\ Publish(j)
    /\ UNCHANGED <<cancelling, released, open>>

\* _touch: a later updated_at, and everybody is told.
Touch(j, status, table) ==
    /\ jobs' = [table EXCEPT ![j] = [status |-> status, at |-> jobs[j].at + 1]]
    /\ Publish(j)

\* The semaphore lets the first in line in.
Start(j) ==
    /\ line # <<>> /\ j = Head(line) /\ j \notin cancelling
    /\ Cardinality(Running) < MaxConcurrency
    /\ line' = Tail(line)
    /\ Touch(j, "running", jobs)
    /\ UNCHANGED <<created, cancelling, old, released, open>>

\* set_stage, and set_progress where the percent advances.
Report(j) ==
    /\ jobs[j].status = "running" /\ Reports(j) < MaxReports
    /\ Touch(j, "running", jobs)
    /\ UNCHANGED <<line, created, cancelling, old, released, open>>

\* Through any path the finalizer runs, the outcome is told, and old jobs go.
Settle(j, outcome) ==
    /\ Touch(j, outcome, Pruned(jobs))
    /\ old' = {}
    /\ released' = [released EXCEPT ![j] = @ + 1]
    /\ UNCHANGED <<created, cancelling, open>>

\* The work returns or raises. A cancel reaches it at its next await, or once
\* what it shields is done, and outlives the shield; cleaning up may fail.
Finish(j) ==
    /\ jobs[j].status = "running"
    /\ \E outcome \in IF j \in cancelling THEN {"cancelled", "failed"}
                      ELSE {"succeeded", "failed"} : Settle(j, outcome)
    /\ UNCHANGED line

Cancel(j) ==
    /\ jobs[j].status \in Active
    /\ cancelling' = cancelling \cup {j}
    /\ UNCHANGED <<jobs, line, created, old, released, open, feeds>>

LeaveLine(j) == RemoveAt(line, CHOOSE i \in DOMAIN line : line[i] = j)

\* A job cancelled while it waits never starts.
CancelWaiting(j) ==
    /\ jobs[j].status = "queued" /\ j \in cancelling
    /\ line' = LeaveLine(j)
    /\ Settle(j, "cancelled")

\* An hour passes: the job is gone at the next submit or settle.
Expire(j) ==
    /\ jobs[j].status \in Terminal /\ j \notin old
    /\ old' = old \cup {j}
    /\ UNCHANGED <<jobs, line, created, cancelling, released, open, feeds>>

----------------------------------------------------------------------------
ManagerInit ==
    /\ jobs = [j \in Job |-> Absent]
    /\ line = <<>>
    /\ created = {}
    /\ cancelling = {}
    /\ old = {}
    /\ released = [j \in Job |-> 0]
    /\ open = {}
    /\ feeds = [c \in Client |-> <<>>]

\* A job's finalizer runs once, when it settles, and so its spooled payload is
\* neither leaked nor taken from under it (JobManager.submit, on_settled).
ReleasedOnce ==
    \A j \in Job : released[j] = 1 <=> j \in created /\ jobs[j].status \notin Active

\* Every job submitted comes to its end.
JobsEnd == \A j \in Job : jobs[j].status = "queued" ~> jobs[j].status \notin Active
============================================================================
