----------------------------- MODULE Confirmation -----------------------------
(***************************************************************************)
(* A workspace write over MCP (mcp/adapter.py, mcp/confirmation.py, the    *)
(* gate of agents/tools/write.py).  A call cannot wait for its user: it    *)
(* answers with a question, the client shows it and sends the call again   *)
(* with the answer, and the server, which remembers nothing, plans the     *)
(* call anew and compares a digest.  Meanwhile clients resend, arguments   *)
(* drift and other users write the same documents.                         *)
(***************************************************************************)
EXTENDS Naturals, FiniteSets

CONSTANTS
    Target,      \* documents of the workspace
    Body,        \* what they may hold
    Leg,         \* requests, first calls and retries alike
    Offered,     \* the calls models make
    MaxWrites    \* writes somebody else makes

NoText == "absent"
AnyHash == "any"

\* The arguments: write_document and edit_document carry the text, and the hash the model
\* read before or none; edit_document replaces what it finds; delete_documents names.
Call ==
    [tool : {"write"}, target : Target, find : {NoText}, text : Body, expected : Body \cup {AnyHash}]
    \cup [tool : {"edit"}, target : Target, find : Body, text : Body, expected : {AnyHash}]
    \cup [tool : {"delete"}, target : Target, find : {NoText}, text : {NoText}, expected : {AnyHash}]

ASSUME OfferedAssumption == Offered \subseteq Call

VARIABLES
    documents,   \* what each target holds
    legs,        \* each request
    shown,       \* the questions users were shown: [call, summary, digest]
    answered,    \* those allowed, and those denied
    landed,      \* what was applied: [call, summary, under: the documents' state the check saw]
    writes       \* writes by others so far

confirmationVars == <<documents, legs, shown, answered, landed, writes>>

NoQuestion == [asked |-> "nothing"]

\* The planner's summary: a creation or an update with its diff, a deletion with its name.
Summary(call) ==
    [kind |-> IF call.tool = "delete" THEN "delete" ELSE IF documents[call.target] = NoText THEN "create" ELSE "update",
     target |-> call.target,
     diff |-> IF call.tool = "delete" THEN << >> ELSE <<documents[call.target], call.text>>]

\* What the planner refuses (resolve_text_target, apply_edits, check_hash).
Refused(call) ==
    \/ call.tool # "write" /\ documents[call.target] = NoText
    \/ call.tool = "edit" /\ documents[call.target] # call.find
    \/ call.expected # AnyHash /\ documents[call.target] # call.expected

\* An answer bound to the arguments alone.
Digest_Arguments(call, summary) == <<call, "">>

\* Everything the user is asked about (_call).
Digest(call, summary) == <<call, summary>>

-----------------------------------------------------------------------------
\* A client calls, or calls again with the answer to a question it was shown: the state
\* it hands back is the question's, the arguments what its model makes of them now.
Calls(l) ==
    /\ legs[l].at = "unused"
    /\ \E call \in Offered, q \in shown \cup {NoQuestion} :
          /\ q # NoQuestion => q \in answered.allowed \cup answered.denied
          /\ legs' = [legs EXCEPT ![l] = [at |-> "called", call |-> call, prior |-> q]]
    /\ UNCHANGED <<documents, shown, answered, landed, writes>>

\* The user reads a question and answers it.
UserAnswers ==
    \E q \in shown :
       /\ q \notin answered.allowed \cup answered.denied
       /\ \/ answered' = [answered EXCEPT !.allowed = @ \cup {q}]
          \/ answered' = [answered EXCEPT !.denied = @ \cup {q}]
       /\ UNCHANGED <<documents, legs, shown, landed, writes>>

Asks(l, summary) ==
    /\ shown' = shown \cup {[asked |-> "change", call |-> legs[l].call, summary |-> summary,
                             digest |-> Digest(legs[l].call, summary)]}
    /\ legs' = [legs EXCEPT ![l].at = "asked"]

\* _call up to confirm: the unapproved call is planned and asks; an answer to this very
\* question is obeyed, and any other call is asked about.
Checks(l) ==
    /\ legs[l].at = "called"
    /\ LET call == legs[l].call
           prior == legs[l].prior
           summary == Summary(call)
           Bound == prior # NoQuestion /\ prior.digest = Digest(call, summary)
       IN \/ /\ Refused(call)
             /\ legs' = [legs EXCEPT ![l].at = "refused"]
             /\ UNCHANGED shown
          \/ ~Refused(call) /\ ~Bound /\ Asks(l, summary)
          \/ /\ ~Refused(call) /\ Bound /\ prior \in answered.denied
             /\ legs' = [legs EXCEPT ![l].at = "refused"]
             /\ UNCHANGED shown
          \/ /\ ~Refused(call) /\ Bound /\ prior \in answered.allowed
             /\ legs' = [legs EXCEPT ![l] = [at |-> "approved", call |-> call, prior |-> prior,
                                             under |-> documents]]
             /\ UNCHANGED shown
    /\ UNCHANGED <<documents, answered, landed, writes>>

\* The approved call plans once more, as it commits.
Applies(l) ==
    /\ legs[l].at = "approved"
    /\ LET call == legs[l].call
       IN IF Refused(call)
          THEN /\ legs' = [legs EXCEPT ![l].at = "refused"]
               /\ UNCHANGED <<documents, landed>>
          ELSE /\ documents' = [documents EXCEPT ![call.target] = call.text]
               /\ landed' = landed \cup {[leg |-> l, call |-> call, summary |-> Summary(call),
                                          raced |-> documents # legs[l].under]}
               /\ legs' = [legs EXCEPT ![l].at = "applied"]
    /\ UNCHANGED <<shown, answered, writes>>

Others ==
    /\ writes < MaxWrites
    /\ \E t \in Target, b \in Body \cup {NoText} :
          b # documents[t] /\ documents' = [documents EXCEPT ![t] = b]
    /\ writes' = writes + 1
    /\ UNCHANGED <<legs, shown, answered, landed>>

ConfirmationInit ==
    /\ documents \in [Target -> Body \cup {NoText}]
    /\ legs = [l \in Leg |-> [at |-> "unused"]]
    /\ shown = {} /\ landed = {} /\ writes = 0
    /\ answered = [allowed |-> {}, denied |-> {}]

ConfirmationNext ==
    \/ \E l \in Leg : Calls(l) \/ Checks(l) \/ Applies(l)
    \/ UserAnswers \/ Others

ConfirmationSpec == ConfirmationInit /\ [][ConfirmationNext]_confirmationVars

-----------------------------------------------------------------------------
(* Nothing lands that its user did not see and allow: whatever was applied was  *)
(* asked about with the same arguments and allowed, and changed the documents   *)
(* as the question showed, although the server kept nothing between the legs,   *)
(* the arguments may have drifted and others wrote meanwhile.  Only a write     *)
(* that falls between the retry's check and its commit goes unseen (README,     *)
(* Departures).                                                                 *)
LandedAsShown ==
    \A a \in landed : \E q \in answered.allowed :
       q.call = a.call /\ (a.raced \/ q.summary = a.summary)
===============================================================================
