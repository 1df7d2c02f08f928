------------------------------ MODULE ChatStream ------------------------------
(***************************************************************************)
(* How a chat turn reaches its reader and the conversation                 *)
(* (server/vercel.py, run_and_persist): a relay streams what the turn's    *)
(* runs do and, however they end and whenever the reader leaves, stores    *)
(* what the chat run's history holds by then, once.                        *)
(***************************************************************************)
EXTENDS AgentTurn

VARIABLES
    relay,      \* "streams", "saves" what it captured, or is "over"
    captured,   \* the turn as it is to be stored
    stored      \* the turn as it was stored

vars == <<turnVars, relay, captured, stored>>

Nothing == [calls |-> {}, closed |-> {}, how |-> "none"]

Unanswered == {c \in Of(Chat) : c \notin told}

\* Mutant: only the calls that were cut short are closed, not those whose return is lost.
Closing_Running(how) ==
    [calls |-> Of(Chat), closed |-> {c \in Unanswered : calls[c].at # "done"}, how |-> how]

\* close_orphan_tool_calls: every call without a return is told to have failed.
Closing(how) == [calls |-> Of(Chat), closed |-> Unanswered, how |-> how]

\* The stream ends: a run that failed is closed, one that awaits an answer is not.
Drained ==
    /\ relay = "streams" /\ Ended
    /\ relay' = "saves"
    /\ captured' = IF runs[Chat].at = "done" THEN [calls |-> Of(Chat), closed |-> {}, how |-> "drained"]
                   ELSE Closing("drained")
    /\ UNCHANGED <<turnVars, stored>>

Cancel ==
    IF Ended THEN UNCHANGED <<runs, calls, asks, completions>> ELSE StopWith("cut")

\* The reader leaves while the relay waits for what comes next: the runs are torn down,
\* and what completed is stored.
LeaveWaiting ==
    /\ relay = "streams"
    /\ Cancel
    /\ relay' = "saves"
    /\ captured' = Closing("left")
    /\ UNCHANGED <<usage, told, stored>>

\* The reader leaves while it is sent something: the relay stores first, and the
\* generators it reads from are closed after it is done.
LeaveSending ==
    /\ relay = "streams"
    /\ relay' = "saves"
    /\ captured' = Closing("sending")
    /\ UNCHANGED <<turnVars, stored>>

\* The shielded write is done, or fails, which is reported or logged.
Save ==
    /\ relay = "saves"
    /\ relay' = "over"
    /\ stored' \in {captured, Nothing}
    /\ Cancel
    /\ UNCHANGED <<usage, told, captured>>

Goes == relay # "over" /\ ~Ended /\ UNCHANGED <<relay, captured, stored>>

Step == (Goes /\ Progress) \/ Drained \/ Save

Init == TurnInit /\ relay = "streams" /\ captured = Nothing /\ stored = Nothing

Next ==
    \/ Goes /\ TurnNext
    \/ Drained \/ LeaveWaiting \/ LeaveSending \/ Save

Spec == Init /\ [][Next]_vars /\ WF_vars(Step)

----------------------------------------------------------------------------
(* Properties *)

\* What the tools of a turn did is in the turn that is stored, whatever ended it: every
\* call that ended is there. Only those made while a turn is stored whose reader left in
\* mid sending are not (README, Departures).
TellsWhatItDid ==
    stored # Nothing =>
        \A c \in Of(Chat) :
            calls[c].at = "done" => c \in stored.calls \/ stored.how = "sending"

\* The stored turn can be answered or gone on from: a call is left open only where the
\* run ended to ask about it, and every other one has its return.
OpenIsAsked ==
    stored # Nothing =>
        \A c \in stored.calls \ stored.closed :
            \/ c \in told
            \/ calls[c].at = "open" /\ stored.how = "drained"

\* A turn comes to its end and is stored or its loss reported, however its model loops,
\* its programs fan out and its runs fail: every run spends the one budget.
TurnEnds == <>(relay = "over")

\* The turn that is stored is what happened, and one a later request can go on from.
StoredTurn == TellsWhatItDid /\ OpenIsAsked
=============================================================================
