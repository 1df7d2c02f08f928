------------------------------ MODULE AgentTurn ------------------------------
(***************************************************************************)
(* The runs of a turn and the budget they share (agents/common.py,         *)
(* agents/guards.py, agents/tools/subagent.py, tools/monty.py): the chat   *)
(* run, the subagents its explore calls start, and the completions its     *)
(* programs fan out, which all spend one count of model requests.          *)
(*                                                                         *)
(* What a model answers and a program does is any choice; the framework's  *)
(* loop (checked before a request, counted after it) is taken from how     *)
(* those modules rely on it.                                               *)
(***************************************************************************)
EXTENDS Naturals, Sequences, FiniteSets

CONSTANTS
    RequestLimit,    \* llm.request_limit
    MaxCompletions,  \* sandbox.completion_max_calls
    Concurrency,     \* sandbox.completion_concurrency
    MaxHostCalls,    \* sandbox.max_host_calls
    MaxCalls,        \* bound on the tool calls of a turn
    MaxExplores      \* bound on the subagents of a turn

ASSUME TurnBounds ==
    /\ {RequestLimit, MaxCompletions, MaxHostCalls, MaxCalls, MaxExplores} \subseteq Nat
    /\ Concurrency \in Nat \ {0}

VARIABLES
    usage,        \* model requests counted
    completions,  \* how many were made, hold a request slot, are inside the gate
    runs,         \* the chat run and, by the call that started it, each subagent
    calls,        \* every tool call of the turn
    asks,         \* the completions of programs that are under way
    told          \* the calls whose results the chat run's history holds

turnVars == <<usage, completions, runs, calls, asks, told>>

Chat == 0
Kinds == {"tool", "program", "explore", "gated"}

Calls == DOMAIN calls
Of(r) == {c \in Calls : calls[c].by = r}
Running(c) == calls[c].at = "runs"

Fresh == [at |-> "asks", noted |-> FALSE, notes |-> 0, warned |-> FALSE]

----------------------------------------------------------------------------
(* The end of a turn *)

\* What a turn leaves when its chat run ends early: no call and no completion goes on.
StopWith(at) ==
    /\ runs' = [r \in DOMAIN runs |->
                  IF runs[r].at = "done" THEN runs[r]
                  ELSE [runs[r] EXCEPT !.at = IF r = Chat THEN at ELSE "cut"]]
    /\ calls' = [c \in Calls |-> IF Running(c) THEN [calls[c] EXCEPT !.at = "cut"] ELSE calls[c]]
    /\ asks' = {}
    /\ completions' = [completions EXCEPT !.pending = 0, !.inside = 0]

Ended == runs[Chat].at \in {"done", "failed", "cut"}

----------------------------------------------------------------------------
(* Notes on a budget that runs low *)

\* Mutant: one instance serves every run, so the first to hear is the only one.
Due_Shared(r) == 4 * usage >= 3 * RequestLimit /\ \A q \in DOMAIN runs : ~runs[q].noted

\* _take_request_note: three quarters are spent, and this run has not been told.
Due(r) == 4 * usage >= 3 * RequestLimit /\ ~runs[r].noted

\* A result reaches the run that called, with the note if it is due.
Heard(r) ==
    [runs[r] EXCEPT !.noted = @ \/ Due(r), !.notes = IF Due(r) THEN @ + 1 ELSE @,
                    !.warned = @ \/ 4 * usage >= 3 * RequestLimit]

Hears(r) == runs' = [runs EXCEPT ![r] = Heard(r)]

----------------------------------------------------------------------------
(* A run asks its model *)

MayAsk(r) ==
    \/ runs[r].at = "asks"
    \/ runs[r].at = "acts" /\ \A c \in Of(r) : ~Running(c)

\* A request goes out with the results of the calls before it.
Send(r) ==
    /\ MayAsk(r) /\ usage < RequestLimit
    /\ runs' = [runs EXCEPT ![r].at = "sent"]
    /\ told' = IF r = Chat THEN Of(Chat) ELSE told
    /\ UNCHANGED <<usage, completions, calls, asks>>

\* No request is left, and whichever run finds out ends the turn with it.
Spent(r) ==
    /\ MayAsk(r) /\ usage >= RequestLimit
    /\ StopWith("failed")
    /\ told' = IF r = Chat THEN Of(Chat) ELSE told
    /\ UNCHANGED usage

\* since: what was spent when the call was made (history).
Call(r, kind) ==
    [by |-> r, kind |-> kind, at |-> "runs", hosts |-> 0, ending |-> FALSE, since |-> usage + 1]

\* The model answers, and its run is over ...
Finish(r) ==
    /\ runs[r].at = "sent"
    /\ usage' = usage + 1
    /\ runs' = [runs EXCEPT ![r].at = "done"]
    /\ UNCHANGED <<completions, calls, asks, told>>

\* ... or makes calls; each explore starts a run of its own, which offers no programs.
Act(r, kinds) ==
    /\ runs[r].at = "sent"
    /\ Len(calls) + Len(kinds) <= MaxCalls
    /\ r # Chat => \A i \in DOMAIN kinds : kinds[i] = "tool"
    /\ usage' = usage + 1
    /\ calls' = calls \o [i \in DOMAIN kinds |-> Call(r, kinds[i])]
    /\ LET explores == {Len(calls) + i : i \in {i \in DOMAIN kinds : kinds[i] = "explore"}} IN
         /\ Cardinality(DOMAIN runs \ {Chat}) + Cardinality(explores) <= MaxExplores
         /\ runs' = [q \in DOMAIN runs \cup explores |->
                       CASE q \in explores -> Fresh
                         [] q = r -> [runs[r] EXCEPT !.at = "acts"]
                         [] OTHER -> runs[q]]
    /\ UNCHANGED <<completions, asks, told>>

\* A call that asks the user, which ends the chat run with the call open.
Defer ==
    /\ runs[Chat].at = "sent"
    /\ Len(calls) < MaxCalls
    /\ usage' = usage + 1
    /\ calls' = Append(calls, [Call(Chat, "gated") EXCEPT !.at = "open"])
    /\ runs' = [runs EXCEPT ![Chat].at = "done"]
    /\ UNCHANGED <<completions, asks, told>>

\* A request fails or runs past its timeout: the chat run fails with it.
Fail ==
    /\ runs[Chat].at = "sent"
    /\ StopWith("failed")
    /\ UNCHANGED <<usage, told>>

----------------------------------------------------------------------------
(* Calls *)

Ends(c) == calls' = [calls EXCEPT ![c].at = "done"]

\* A tool returns or asks for a correction.
Return(c) ==
    /\ Running(c) /\ calls[c].kind = "tool"
    /\ Ends(c) /\ Hears(calls[c].by)
    /\ UNCHANGED <<usage, completions, asks, told>>

\* The chat run is given a subagent's answer.
Explored(c) ==
    /\ Running(c) /\ calls[c].kind = "explore" /\ runs[c].at = "done"
    /\ Ends(c) /\ Hears(calls[c].by)
    /\ UNCHANGED <<usage, completions, asks, told>>

\* A subagent that fails or runs past its timeout is cut off, and what it found so far is
\* summed up by a request outside the budget, within a timeout of its own.
Recover(c) ==
    /\ Running(c) /\ calls[c].kind = "explore" /\ runs[c].at \in {"asks", "sent", "acts"}
    /\ runs' = [runs EXCEPT ![c].at = "done"]
    /\ calls' = [d \in Calls |->
                   IF calls[d].by = c /\ Running(d) THEN [calls[d] EXCEPT !.at = "cut"] ELSE calls[d]]
    /\ UNCHANGED <<usage, completions, asks, told>>

\* The program is done, and its failed calls with it. One that met the end of the turn
\* ends the turn, whatever the program made of the exception (raise_ending).
Program(c) ==
    /\ Running(c) /\ calls[c].kind = "program"
    /\ \A a \in asks : a.of # c
    /\ IF calls[c].ending THEN StopWith("failed")
       ELSE Ends(c) /\ Hears(calls[c].by) /\ UNCHANGED <<completions, asks>>
    /\ UNCHANGED <<usage, told>>

----------------------------------------------------------------------------
(* The completions of programs *)

Moves(a, at) == asks' = (asks \ {a}) \cup {[a EXCEPT !.at = at]}

\* A program calls complete, which counts before its first await: against the program's
\* host calls and, unless it is refused, against the turn's completions.
Complete(c) ==
    /\ Running(c) /\ calls[c].kind = "program" /\ ~calls[c].ending
    /\ calls[c].hosts < MaxHostCalls
    /\ calls' = [calls EXCEPT ![c].hosts = @ + 1]
    /\ IF completions.made >= MaxCompletions THEN UNCHANGED <<completions, asks>>
       ELSE /\ completions' = [completions EXCEPT !.made = @ + 1]
            /\ asks' = asks \cup {[of |-> c, id |-> completions.made + 1, at |-> "gate"]}
    /\ UNCHANGED <<usage, runs, told>>

Enter(a) ==
    /\ a.at = "gate" /\ completions.inside < Concurrency
    /\ completions' = [completions EXCEPT !.inside = @ + 1]
    /\ Moves(a, "opens")
    /\ UNCHANGED <<usage, runs, calls, told>>

\* Mutant: the completions in flight are not counted, as the framework's own check does not.
Refused_Counted == usage + 1 + 1 > RequestLimit

\* wrap_model_request: one request stays for the parent.
Refused == usage + completions.pending + 1 + 1 > RequestLimit

\* Mutant: the place in flight is not given back.
Left_Kept(a) == [completions EXCEPT !.pending = IF a.at = "sent" THEN @ - 1 ELSE @]

\* A completion gives back what it holds, however it ends.
Left(a) ==
    [completions EXCEPT !.pending = IF a.at = "sent" THEN @ - 1 ELSE @,
                        !.inside = IF a.at = "gate" THEN @ ELSE @ - 1]

\* The framework checks first, and its refusal ends the turn; the other is the
\* program's to catch.
Open(a) ==
    /\ a.at = "opens"
    /\ IF usage >= RequestLimit \/ Refused
       THEN /\ asks' = asks \ {a} /\ completions' = Left(a)
            /\ calls' = [calls EXCEPT ![a.of].ending = @ \/ usage >= RequestLimit]
       ELSE /\ Moves(a, "sent")
            /\ completions' = [completions EXCEPT !.pending = @ + 1]
            /\ UNCHANGED calls
    /\ UNCHANGED <<usage, runs, told>>

\* Released and counted with no await between.
Completed(a) ==
    /\ a.at = "sent"
    /\ usage' = usage + 1
    /\ asks' = asks \ {a}
    /\ completions' = Left(a)
    /\ UNCHANGED <<runs, calls, told>>

\* The request fails or runs past completion_timeout_seconds ...
TimedOut(a) ==
    /\ a.at \in {"opens", "sent"}
    /\ asks' = asks \ {a} /\ completions' = Left(a)
    /\ UNCHANGED <<usage, runs, calls, told>>

\* ... or the program past max_wall_seconds, which no later call of it outlives.
OutOfTime(c) ==
    /\ Running(c) /\ calls[c].kind = "program"
    /\ \E a \in asks : a.of = c
    /\ LET cut == {a \in asks : a.of = c} IN
         /\ asks' = asks \ cut
         /\ completions' =
              [completions EXCEPT
                 !.pending = @ - Cardinality({a \in cut : a.at = "sent"}),
                 !.inside = @ - Cardinality({a \in cut : a.at # "gate"})]
    /\ calls' = [calls EXCEPT ![c].hosts = MaxHostCalls]
    /\ UNCHANGED <<usage, runs, told>>

----------------------------------------------------------------------------

TurnInit ==
    /\ usage = 0
    /\ completions = [made |-> 0, pending |-> 0, inside |-> 0]
    /\ runs = [r \in {Chat} |-> Fresh]
    /\ calls = <<>> /\ asks = {} /\ told = {}

\* What the model asks for at once: a call, or two beside each other.
Responses == {<<k>> : k \in {"tool", "program", "explore"}}
               \cup {<<k, "explore">> : k \in {"tool", "program", "explore"}}

\* A step of the framework or of a tool, every one of which has a timeout.
Progress ==
    \/ \E r \in DOMAIN runs :
         \/ Send(r) \/ Spent(r) \/ Finish(r)
         \/ \E kinds \in Responses : Act(r, kinds)
    \/ Defer \/ Fail
    \/ \E c \in Calls : Return(c) \/ Explored(c) \/ Recover(c) \/ Program(c)
    \/ \E a \in asks : Enter(a) \/ Open(a) \/ Completed(a) \/ TimedOut(a)

TurnNext == Progress \/ \E c \in Calls : Complete(c) \/ OutOfTime(c)

----------------------------------------------------------------------------
(* Properties *)

\* Completions leave the chat run the request it owes the model their result with: while
\* no subagent spends beside them, none ever takes the last one (_PARENT_RESERVE),
\* however many are in flight.
ReserveKept ==
    \A c \in Calls :
        /\ Running(c) /\ calls[c].kind = "program"
        /\ \A d \in Of(Chat) : calls[d].kind = "explore" => calls[d].since < calls[c].since
        => usage + completions.pending < RequestLimit \/ usage = calls[c].since

\* A run is told that the budget runs low with the first result it hears after that,
\* and once, however many run and return side by side.
ToldOnce ==
    \A r \in DOMAIN runs : runs[r].notes = IF runs[r].warned THEN 1 ELSE 0
=============================================================================
