------------------------------ MODULE WebPages -------------------------------
(***************************************************************************)
(* The pages web_fetch downloads in a turn (tools/web.py, FetchedPages;    *)
(* tools/base.py, run_batch). Calls of the chat run, its subagents and     *)
(* programs read pages side by side; the reads of one page share the task  *)
(* that downloads it, a few tasks are kept, and any call may be cancelled. *)
(***************************************************************************)
EXTENDS Naturals, Sequences, FiniteSets, FiniteSetsExt, SequencesExt

CONSTANTS
    Caller,      \* the calls of a turn
    Url,         \* the pages they ask for, one spelling each
    Links,       \* the URLs each page links to
    Written,     \* the URLs the user wrote or a search returned
    MaxPages,    \* FetchedPages.max_pages
    MaxDownloads \* bound on the downloads of a turn

VARIABLES
    known,  \* KnownUrls: what the user wrote or a web tool returned
    pages,  \* FetchedPages._pages: URLs with their tasks, the next to go first
    tasks,  \* every download begun, in order
    calls   \* what each call is at

webVars == <<known, pages, tasks, calls>>

NoReads == [on |-> FALSE, reads |-> << >>]

(* A read: the task it waits for (0 before), whether that task had already told *)
(* another read of its failure when this one joined it, and its answer.         *)
Unread(u) == [url |-> u, task |-> 0, late |-> FALSE, answer |-> "none"]
Unstarted(c) == {i \in DOMAIN calls[c].reads : calls[c].reads[i] = Unread(calls[c].reads[i].url)}
Waiting(c) == {i \in DOMAIN calls[c].reads :
                  calls[c].reads[i].task # 0 /\ calls[c].reads[i].answer = "none"}

TaskOf(u) == {e[2] : e \in {e \in Range(pages) : e[1] = u}}
Without(u) == SelectSeq(pages, LAMBDA e : e[1] # u)

\* run_batch: a batch is asked for, each URL once.
Ask(c, batch) ==
    /\ ~calls[c].on
    /\ batch # << >> /\ IsInjective(batch)
    /\ calls' = [calls EXCEPT ![c] = [on |-> TRUE, reads |-> [i \in DOMAIN batch |-> Unread(batch[i])]]]
    /\ UNCHANGED <<known, pages, tasks>>

\* WebFetch._fetch: a URL nobody named is refused, ...
Refuse(c) ==
    \E i \in Unstarted(c) :
        /\ calls[c].reads[i].url \notin known
        /\ calls' = [calls EXCEPT ![c].reads[i].answer = "refused"]
        /\ UNCHANGED <<known, pages, tasks>>

\* ... FetchedPages.get joins the task of a page, which makes it the last to go, ...
Join(c) ==
    \E i \in Unstarted(c) : \E t \in TaskOf(calls[c].reads[i].url) :
        LET u == calls[c].reads[i].url
        IN /\ u \in known
           /\ pages' = Append(Without(u), <<u, t>>)
           /\ calls' = [calls EXCEPT ![c].reads[i].task = t, ![c].reads[i].late = tasks[t].told]
           /\ UNCHANGED <<known, tasks>>

\* ... or begins one, for which the first to go makes room.
Begin(c) ==
    \E i \in Unstarted(c) :
        LET u == calls[c].reads[i].url
            full == Len(pages) >= MaxPages
        IN /\ u \in known
           /\ TaskOf(u) = {}
           /\ Len(tasks) < MaxDownloads
           /\ tasks' = Append([t \in DOMAIN tasks |-> [tasks[t] EXCEPT !.evicted =
                                    @ \/ (full /\ t = pages[1][2])]],
                              [url |-> u, state |-> "running", told |-> FALSE, evicted |-> FALSE])
           /\ pages' = Append(IF full THEN Tail(pages) ELSE pages, <<u, Len(tasks')>>)
           /\ calls' = [calls EXCEPT ![c].reads[i].task = Len(tasks')]
           /\ UNCHANGED known

\* WebFetch._download: the page is loaded, or fails, at the latest by its timeout.
Download(t) ==
    /\ tasks[t].state = "running"
    /\ \E outcome \in {"loaded", "failed"} : tasks' = [tasks EXCEPT ![t].state = outcome]
    /\ UNCHANGED <<known, pages, calls>>

\* A failed task stays where it is.
Forgotten_Kept(u, t) == pages

\* A failed task is forgotten, unless another took its place.
Forgotten(u, t) == SelectSeq(pages, LAMBDA e : e # <<u, t>>)

\* A read goes on once its task ended.
Resume(c) ==
    \E i \in Waiting(c) :
        LET t == calls[c].reads[i].task
            failed == tasks[t].state = "failed"
        IN /\ tasks[t].state # "running"
           /\ calls' = [calls EXCEPT ![c].reads[i].answer = tasks[t].state]
           /\ tasks' = [tasks EXCEPT ![t].told = @ \/ failed]
           /\ pages' = IF failed THEN Forgotten(tasks[t].url, t) ELSE pages
           /\ UNCHANGED known

\* KnownUrls.add_results: what the pages shown link to is known from then on.
Shown(c) ==
    {calls[c].reads[i].url : i \in {i \in DOMAIN calls[c].reads :
                                                calls[c].reads[i].answer = "loaded"}}
Done(c) ==
    /\ calls[c].on
    /\ Unstarted(c) = {} /\ Waiting(c) = {}
    /\ known' = known \cup UNION {Links[p] : p \in Shown(c)}
    /\ calls' = [calls EXCEPT ![c] = NoReads]
    /\ UNCHANGED <<pages, tasks>>

\* A call is cancelled; its downloads, shielded, go on for the other reads of them.
Cancel(c) ==
    /\ calls[c].on
    /\ calls' = [calls EXCEPT ![c] = NoReads]
    /\ UNCHANGED <<known, pages, tasks>>

-----------------------------------------------------------------------------
WebInit ==
    /\ known = Written
    /\ pages = << >>
    /\ tasks = << >>
    /\ calls = [c \in Caller |-> NoReads]

WebNext ==
    \/ \E c \in Caller : \/ \E batch \in SeqOf(Url, 2) : Ask(c, batch)
                         \/ Refuse(c) \/ Join(c) \/ Begin(c) \/ Resume(c)
                         \/ Done(c) \/ Cancel(c)
    \/ \E t \in DOMAIN tasks : Download(t)

-----------------------------------------------------------------------------
(* However calls join, fail, are cancelled and push each other's pages out, the  *)
(* reads of a page share one download while it is kept, and a read never waits   *)
(* for a download whose failure was already told: a later one tries again        *)
(* (FetchedPages.get).                                                           *)
DownloadedOnce ==
    /\ \A t, u \in DOMAIN tasks :
          /\ t # u /\ tasks[t].url = tasks[u].url
          /\ tasks[t].state = "running" /\ tasks[u].state = "running"
          => tasks[t].evicted \/ tasks[u].evicted
    /\ \A c \in Caller : \A i \in Waiting(c) : ~calls[c].reads[i].late
=============================================================================
