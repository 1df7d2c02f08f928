----------------------------- MODULE Compaction -----------------------------
(***************************************************************************)
(* How a conversation that no longer fits its model goes on                *)
(* (agents/compaction.py, agents/summarize.py, agents/window.py, MemoryNote *)
(* of agents/tools/memory.py): a request the context window refused has    *)
(* the history before it summarized, by a request of its own that sheds    *)
(* the tail until it fits, and is retried from the summary.                *)
(*                                                                         *)
(* A message is its kind, the tokens it adds, the tokens a response was    *)
(* reported to have used, and, of a compaction, the messages summarized.   *)
(***************************************************************************)
EXTENDS Integers, FiniteSetsExt, SequencesExt

CONSTANTS
    Context,       \* the tokens the endpoint takes
    Outputs,       \* the completions a model may be configured for
    SummaryTokens, \* SUMMARY_MAX_TOKENS
    PromptReserve, \* _COMPACT_PROMPT_RESERVE_TOKENS, what COMPACT_PROMPT adds
    MaxAttempts,   \* _MAX_ATTEMPTS
    Prompted,      \* the tokens a prompt may have
    Returned,      \* the tokens tool returns may have
    MaxHistory     \* bound on the messages of a conversation

VARIABLES
    output,   \* the completion the model is configured for
    history,  \* the messages of the active path
    running,  \* whether a request of a run is due
    sent      \* the messages of the last request a model served

compactionVars == <<output, history, running, sent>>

Add(kind, weight) == [kind |-> kind, weight |-> weight, size |-> 0, of |-> {}]
Kind(messages, kinds) == {i \in DOMAIN messages : messages[i].kind \in kinds}

CallKinds == {"calls", "reading"}
ReturnKinds == {"returns", "read"}
AnswerKinds == {"answer", "calls"}              \* what a model itself said
ResponseKinds == AnswerKinds \cup {"reading", "compaction"}

-----------------------------------------------------------------------------
(* What a request carries.                                                 *)

(* Where post_compaction_window begins: with the latest compaction. *)
Opening(messages) == Max(Kind(messages, {"compaction"}) \cup {1})
CompactionWindow(messages) == SubSeq(messages, Opening(messages), Len(messages))

(* MemoryNote: what the user had saved is read once in each window. *)
MemoryNote(messages) ==
    IF Kind(CompactionWindow(messages), {"read"}) # {} THEN messages
    ELSE messages \o <<Add("reading", 0), Add("read", 1)>>

Weight(messages) == FoldSeq(LAMBDA message, total : message.weight + total, 0, messages)

(* The endpoint takes what leaves room for the completion. *)
IsServed(messages, completion) == Weight(CompactionWindow(messages)) + completion <= Context

\* capped_tokens: a configured completion that is lower stays.
CappedTokens == IF output < SummaryTokens THEN output ELSE SummaryTokens

-----------------------------------------------------------------------------
(* Where a history can be cut, and which prefix is summarized.             *)

(* closed_cuts: past an answer or returns, with no call open and no prompt last. *)
ClosedCuts(messages) == Kind(messages, (ResponseKinds \cup ReturnKinds) \ CallKinds)

(* What a prefix measured when it was last sent. *)
SizeOf(messages, keep) ==
    LET reported == {i \in 1 .. keep : messages[i].size > 0}
    IN IF reported = {} THEN 0 ELSE messages[Max(reported)].size

(* _plan: all the endpoint has served, then less by what the request needs. *)
Plan(messages) ==
    LET measured == {k \in ClosedCuts(messages) : SizeOf(messages, k) > 0}
        smaller(k) == {c \in measured :
            SizeOf(messages, c) + CappedTokens + PromptReserve <= SizeOf(messages, k)}
        attempt[n \in 1 .. MaxAttempts] ==
            IF n = 1 THEN Max(measured)
            ELSE IF smaller(attempt[n - 1]) = {} THEN attempt[n - 1] ELSE Max(smaller(attempt[n - 1]))
    IN IF measured = {} THEN {Len(messages)} ELSE {attempt[n] : n \in 1 .. MaxAttempts}

(* The messages a prefix tells of: its window, and what its summary was made of. *)
Tells(messages) ==
    IF messages = << >> THEN {}
    ELSE (Opening(messages) .. Len(messages)) \cup messages[Opening(messages)].of

(* summarize_conversation, with _ask: the first attempt the endpoint takes, or none. *)
Summarized(messages) ==
    LET asked(k) == MemoryNote(SubSeq(messages, 1, k))
    IN {k \in Plan(messages) : IsServed(asked(k), PromptReserve + CappedTokens)}

SummaryMessage(messages) ==
    [Add("compaction", 1) EXCEPT !.of = Tells(SubSeq(messages, 1, Max(Summarized(messages))))]

\* Mutant: a prompt may be summarized with the memory read beside it.
Boundaries_Unanswered(messages) == {cut \in ClosedCuts(messages) : cut > Opening(messages)}

(* _boundaries: past the latest compaction, and past a prompt only once a model answered. *)
Boundaries(messages) ==
    LET prompt == Max(Kind(messages, {"prompt"}) \cup {0})
        answers == {i \in Kind(messages, AnswerKinds) : i > prompt}
    IN {cut \in ClosedCuts(messages) :
           /\ cut > Opening(messages)
           /\ cut <= prompt \/ (answers # {} /\ cut > Min(answers) - 1)}

(* compaction_cut: past everything, or ahead of the request that ends it, or nowhere. *)
CompactionCut(messages) ==
    LET boundaries == Boundaries(messages)
        whole == Len(messages)
    IN IF whole \in boundaries THEN whole
       ELSE IF messages # << >> /\ messages[whole].kind \notin ResponseKinds /\ whole - 1 \in boundaries
            THEN whole - 1 ELSE 0

(* The history with its compaction at a cut, ahead of the request it leaves out. *)
Compacted(messages, cut) ==
    SubSeq(messages, 1, cut) \o <<SummaryMessage(SubSeq(messages, 1, cut))>> \o SubSeq(messages, cut + 1, Len(messages))

-----------------------------------------------------------------------------
(* A user prompts. Calls put off until the user answers are answered first: a   *)
(* message that passes them over denies them (abandon_pending_calls).           *)
UserAsks(weight) ==
    /\ ~running
    /\ Len(history) \notin Kind(history, CallKinds)
    /\ history' = Append(history, Add("prompt", weight))
    /\ running' = TRUE
    /\ UNCHANGED <<output, sent>>

(* The tools return, at once or when what was asked of the user is answered. *)
ToolsReturn(weight) ==
    /\ ~running /\ Len(history) \in Kind(history, {"calls"})
    /\ history' = Append(history, Add("returns", weight))
    /\ running' = TRUE
    /\ UNCHANGED <<output, sent>>

(* A model serves the request a run sends, which reports what it used. *)
Serves(kind) ==
    LET asked == MemoryNote(history)
        used == Weight(CompactionWindow(asked)) + 1
    IN /\ running /\ IsServed(asked, output)
       /\ history' = Append(asked, [Add(kind, 1) EXCEPT !.size = used])
       /\ running' = FALSE
       /\ sent' = asked
       /\ UNCHANGED output

(* CompactOnOverflow: the context window refuses a request, which is retried from a  *)
(* summary of what came before; where there is none the run ends and stores itself.  *)
Overflows ==
    LET asked == MemoryNote(history)
        cut == CompactionCut(asked)
    IN /\ running /\ ~IsServed(asked, output)
       /\ IF cut = 0 \/ Summarized(SubSeq(asked, 1, cut)) = {}
          THEN history' = asked /\ running' = FALSE
          ELSE /\ history' = Compacted(asked, cut) \o
                     (IF cut = Len(asked) THEN <<Add("empty", 0)>> ELSE << >>)
               /\ running' = TRUE
       /\ UNCHANGED <<output, sent>>

(* _compact_active_path: the user has the stored path compacted. *)
CompactsPath ==
    LET cut == CompactionCut(history)
    IN /\ ~running /\ cut # 0
       /\ Summarized(SubSeq(history, 1, cut)) # {}
       /\ history' = Compacted(history, cut)
       /\ UNCHANGED <<output, running, sent>>

CompactionInit ==
    /\ output \in Outputs
    /\ history = << >> /\ running = FALSE /\ sent = << >>

CompactionNext ==
    /\ Len(history) < MaxHistory
    /\ \/ \E weight \in Prompted : UserAsks(weight)
       \/ \E weight \in Returned : ToolsReturn(weight)
       \/ \E kind \in AnswerKinds : Serves(kind)
       \/ Overflows
       \/ CompactsPath

-----------------------------------------------------------------------------

(* A summary takes the place of what it was made of, so what it leaves out is gone    *)
(* for the model: it is made of a history a provider accepts, never of a call without *)
(* its returns nor of a prompt without what followed, no compaction follows another   *)
(* with nothing between them, and each request served holds the latest prompt itself  *)
(* until a model answered it, and the memory once.                                    *)
SummariesClose ==
    LET compactions == Kind(history, {"compaction"})
        prompt == Max(Kind(sent, {"prompt"}) \cup {0})
    IN /\ \A c \in compactions :
              /\ history[Max(history[c].of)].kind \notin CallKinds \cup {"prompt", "empty"}
              /\ c - 1 \notin compactions
       /\ sent # << >> =>
              /\ prompt >= Opening(sent) \/ \E i \in prompt + 1 .. Opening(sent) : sent[i].kind \in AnswerKinds
              /\ Cardinality(Kind(CompactionWindow(sent), {"read"})) = 1

(* What backend/README.md says of a compaction past a refused tool return: the summary *)
(* covers everything the client has seen and the retry continues from it. So every     *)
(* request served tells the model what it is asked, in its window or by its summary.   *)
PromptTold ==
    sent # << >> => Max(Kind(sent, {"prompt"})) \in Tells(sent)

CompactionSpec == CompactionInit /\ [][CompactionNext]_compactionVars
==============================================================================
