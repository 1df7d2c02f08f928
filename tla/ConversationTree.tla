-------------------------- MODULE ConversationTree --------------------------
(***************************************************************************)
(* One conversation as a tree of messages (db/conversations.py) and the    *)
(* turns that grow it (server/routes/conversations.py): a turn reads the   *)
(* active path, runs a model on a prefix of it for as long as it takes,    *)
(* and appends what was said under the node it forked from. A compaction   *)
(* is appended too, or put between a prompt and the history before it.     *)
(*                                                                         *)
(* Reading a path and each write is a transaction; between them other tabs *)
(* run turns of the same conversation, compact it or delete it. Nodes are  *)
(* numbered in order of creation, which the lock makes that of commit.     *)
(***************************************************************************)
EXTENDS Naturals, FiniteSetsExt, SequencesExt

CONSTANTS
    Turn,         \* requests the server handles at once
    MaxNodes,     \* bound on the messages ever stored
    MaxRequests   \* bound on the requests ever made

ASSUME BoundsAssumption == MaxNodes \in Nat /\ MaxRequests \in Nat

VARIABLES
    tree,      \* per stored message its parent, its kind and, of a prompt, what was asked
    count,     \* messages ever stored
    requests,  \* requests ever made
    turns,     \* what each request has read and has still to store
    told       \* per message the messages before it that the model was told (history)

treeVars == <<tree, count, requests, turns, told>>

NoNode == 0

Kinds == {"prompt", "answer", "calls", "returns", "compaction", "retry"}

Nodes == DOMAIN tree
Said(kind) == [kind |-> kind, text |-> 0]

IsCompaction(message) == message.kind = "compaction"

----------------------------------------------------------------------------
(* The active path *)

Leaves == {n \in Nodes : \A m \in Nodes : tree[m].parent # n}

\* The newest leaf.
ActiveLeaf == IF Leaves = {} THEN NoNode ELSE Max(Leaves)

\* From the root down to a node.
Path[n \in Nodes \cup {NoNode}] ==
    IF n = NoNode THEN <<>> ELSE Append(Path[tree[n].parent], n)

Messages(ids) == [i \in DOMAIN ids |-> [kind |-> tree[ids[i]].kind, text |-> tree[ids[i]].text]]

\* The length of the prefix a request replays, which ends in the node it forks from.
ForkAt(path, trigger, id) ==
    LET Prompts(k) == {i \in 1..k : tree[path[i]].kind = "prompt"}
        named == {i \in DOMAIN path : path[i] = id} IN
      IF path = <<>> THEN 0
      ELSE IF trigger = "regenerate"
           THEN LET before == Prompts(Max(named \cup (IF named = {} THEN {Len(path)} ELSE {}))) IN
                  IF before = {} THEN Len(path) ELSE Max(before)
      ELSE IF named \cap Prompts(Len(path)) # {} THEN Max(named) - 1
      ELSE Len(path)

\* Mutant: an edit forks from the edited prompt itself.
ForkNode_Edited(path, k) ==
    IF path = <<>> THEN NoNode ELSE IF k = Len(path) THEN path[k] ELSE path[k + 1]

\* The node a request forks from: the last it replays.
ForkNode(path, k) == IF k = 0 THEN NoNode ELSE path[k]

----------------------------------------------------------------------------
(* Where a history can be compacted *)

\* A history that ends on an answer or on returns, past the latest compaction.
Closed(messages) == messages # <<>> /\ Last(messages).kind \in {"answer", "returns"}

EndsOnRequest(messages) ==
    messages # <<>> /\ Last(messages).kind \in {"prompt", "returns", "retry"}

\* The lengths a compaction can cover: all, or all before a trailing request.
Cuts(messages) ==
    IF Closed(messages) THEN {Len(messages)}
    ELSE IF EndsOnRequest(messages) /\ Closed(Front(messages)) THEN {Len(messages) - 1}
    ELSE {}

----------------------------------------------------------------------------
(* What is stored *)

NotCompacted(ids) == SelectSeq(ids, LAMBDA n : ~IsCompaction(tree[n]))

\* append_branch: a chain under the fork node, whose row must still be there. A
\* conversation that is gone comes back where the chain starts at its root.
AppendBranch(fork, delta, prefix) ==
    LET ids == [i \in DOMAIN delta |-> count + i]
        Before(i) == SelectSeq(SubSeq(ids, 1, i), LAMBDA n : ~IsCompaction(delta[n - count])) IN
      /\ count + Len(delta) <= MaxNodes
      /\ tree' = [n \in Nodes \cup Range(ids) |->
                    IF n \in Nodes THEN tree[n]
                    ELSE [parent |-> IF n = count + 1 THEN fork ELSE n - 1,
                          kind |-> delta[n - count].kind, text |-> delta[n - count].text]]
      /\ told' = [n \in Nodes \cup Range(ids) |->
                    IF n \in Nodes THEN told[n] ELSE prefix \o Before(n - count)]
      /\ count' = count + Len(delta)

\* Mutant: the compaction goes ahead of its prompt, and of that branch alone.
Moves_OneBranch(n, node) == n = node

\* The branches that move under a compaction: all that share the parent of the node.
Moves(n, node) == tree[n].parent = tree[node].parent

\* insert_above: the compaction takes the place of the node under its parent.
InsertAbove(node, summarized) ==
    /\ count < MaxNodes /\ count' = count + 1
    /\ LET new == [parent |-> tree[node].parent, kind |-> "compaction", text |-> 0] IN
         tree' = [n \in Nodes \cup {count + 1} |->
                    IF n = count + 1 THEN new
                    ELSE IF Moves(n, node) THEN [tree[n] EXCEPT !.parent = count + 1]
                    ELSE tree[n]]
    /\ told' = [n \in Nodes \cup {count + 1} |->
                  IF n \in Nodes THEN told[n] ELSE summarized]

----------------------------------------------------------------------------
(* Requests *)

Idle == [phase |-> "idle", trigger |-> "none", fork |-> NoNode, prefix |-> <<>>,
         told |-> <<>>, text |-> 0, delta |-> <<>>]

SetTurn(t, turn) == turns' = [turns EXCEPT ![t] = turn]
EndTurn(t) == SetTurn(t, Idle)

Alive(node) == node = NoNode \/ node \in Nodes

\* A request resolves its fork: a new prompt, an edit of one, a regeneration, the
\* answers to pending calls, or a compaction. Only the first of a conversation
\* comes before it is stored.
Ask(t, trigger, id) ==
    /\ turns[t] = Idle /\ requests < MaxRequests
    /\ Nodes # {} \/ (requests = 0 /\ trigger = "submit")
    /\ LET path == Path[ActiveLeaf]
           length == ForkAt(path, trigger, id)
           prefix == SubSeq(path, 1, length) IN
         /\ trigger = "compact" => Cuts(Messages(prefix)) # {}
         /\ SetTurn(t, [phase |-> "forked", trigger |-> trigger, fork |-> ForkNode(path, length),
                        prefix |-> Messages(prefix), told |-> NotCompacted(prefix),
                        text |-> requests + 1, delta |-> <<>>])
    /\ requests' = requests + 1
    /\ UNCHANGED <<tree, count, told>>

\* A prefix that ends on calls the request does not answer.
Pending(turn) ==
    /\ turn.trigger \in {"submit", "regenerate"}
    /\ turn.prefix # <<>> /\ Last(turn.prefix).kind = "calls"

\* abandon_pending_calls: the refusal is stored, and replayed, as a node of its own.
Decline(t) ==
    LET turn == turns[t] IN
      /\ turn.phase = "forked" /\ Pending(turn)
      /\ IF turn.fork \in Nodes
         THEN /\ AppendBranch(turn.fork, <<Said("returns")>>, turn.told)
              /\ SetTurn(t, [turn EXCEPT !.fork = count + 1,
                                         !.prefix = Append(@, Said("returns")),
                                         !.told = Append(@, count + 1)])
         ELSE EndTurn(t) /\ UNCHANGED <<tree, count, told>>
      /\ UNCHANGED requests

\* What a run leaves: an answer, calls that await a decision, calls it was cut
\* off from, closed by an error, or nothing.
Tails == {<<>>, <<Said("answer")>>, <<Said("calls")>>, <<Said("calls"), Said("returns")>>}

\* What the request adds before the model answers.
Opening(turn) ==
    CASE turn.trigger = "submit" -> <<[kind |-> "prompt", text |-> turn.text]>>
      [] turn.trigger = "resume" -> <<Said("returns")>>
      [] turn.trigger = "regenerate" -> <<>>

\* The messages of a run the window refused and that was compacted: after the
\* summary the refused request comes again, or an empty one where it covers that.
Compacted(messages) ==
    {IF cut = Len(messages) THEN messages \o <<Said("compaction"), Said("retry")>>
     ELSE Front(messages) \o <<Said("compaction"), Last(messages)>>
        : cut \in IF EndsOnRequest(messages) THEN Cuts(messages) ELSE {}}

\* A run that answers calls its history does not end on fails before it begins.
Runs(turn) ==
    LET begun == turn.prefix \o Opening(turn) IN
      IF turn.trigger = "resume" /\ (turn.prefix = <<>> \/ Last(turn.prefix).kind # "calls")
      THEN {turn.prefix}
      ELSE {messages \o tail : messages \in {begun} \cup Compacted(begun), tail \in Tails}

\* A compaction took the place of the prompt the request forked from.
TookItsPlace(turn, messages) ==
    LET n == Len(turn.prefix) IN
      /\ turn.fork # NoNode /\ n > 0
      /\ IsCompaction(messages[n]) /\ ~IsCompaction(turn.prefix[n])

\* What is past the prefix, and past the prompt a compaction pushed back.
Delta(turn, messages) ==
    SubSeq(messages, Len(turn.prefix) + (IF TookItsPlace(turn, messages) THEN 2 ELSE 1),
           Len(messages))

\* The run ends and its turn is stored, or the compaction ahead of it is. A fork
\* that was deleted, and with it the conversation, loses the turn.
Persist(t) ==
    LET turn == turns[t] IN
      /\ turn.phase = "forked" /\ turn.trigger # "compact" /\ ~Pending(turn)
      /\ \E messages \in Runs(turn) :
           LET delta == Delta(turn, messages) IN
             \/ /\ TookItsPlace(turn, messages) /\ turn.fork \in Nodes
                /\ InsertAbove(turn.fork, Front(turn.told))
                /\ SetTurn(t, [turn EXCEPT !.phase = "inserted", !.delta = delta])
             \/ /\ ~TookItsPlace(turn, messages) /\ Alive(turn.fork)
                /\ AppendBranch(turn.fork, delta, turn.told)
                /\ EndTurn(t)
             \/ ~Alive(turn.fork) /\ EndTurn(t) /\ UNCHANGED <<tree, count, told>>
      /\ UNCHANGED requests

\* The second transaction of a regeneration that compacted.
PersistRest(t) ==
    LET turn == turns[t] IN
      /\ turn.phase = "inserted"
      /\ IF turn.fork \in Nodes
         THEN AppendBranch(turn.fork, turn.delta, turn.told)
         ELSE UNCHANGED <<tree, count, told>>
      /\ EndTurn(t)
      /\ UNCHANGED requests

\* A compaction that was asked for is stored at its cut, once it is made.
Compact(t) ==
    LET turn == turns[t] IN
      /\ turn.phase = "forked" /\ turn.trigger = "compact"
      /\ IF turn.fork \notin Nodes THEN UNCHANGED <<tree, count, told>>
         ELSE IF Len(turn.prefix) \notin Cuts(turn.prefix) THEN InsertAbove(turn.fork, Front(turn.told))
         ELSE AppendBranch(turn.fork, <<Said("compaction")>>, turn.told)
      /\ EndTurn(t)
      /\ UNCHANGED requests

\* The process dies, or the database refuses what is still to be stored.
Abort(t) ==
    /\ turns[t] # Idle
    /\ EndTurn(t)
    /\ UNCHANGED <<tree, count, requests, told>>

\* remove_conversation: the messages go with the row.
Delete ==
    /\ Nodes # {}
    /\ tree' = <<>> /\ told' = <<>>
    /\ UNCHANGED <<count, requests, turns>>

TreeInit ==
    /\ tree = <<>> /\ told = <<>>
    /\ count = 0
    /\ requests = 0
    /\ turns = [t \in Turn |-> Idle]

TreeNext ==
    \/ \E t \in Turn :
         \/ \E trigger \in {"submit", "regenerate"}, id \in 0..count : Ask(t, trigger, id)
         \/ \E trigger \in {"resume", "compact"} : Ask(t, trigger, NoNode)
         \/ Decline(t) \/ Persist(t) \/ PersistRest(t) \/ Compact(t) \/ Abort(t)
    \/ Delete

TreeSpec == TreeInit /\ [][TreeNext]_treeVars

----------------------------------------------------------------------------
(* Properties *)

\* Whichever turns, edits, refusals and compactions raced, every path can be
\* replayed to a provider: calls are followed by their returns, returns follow
\* calls, and an answer follows a request (abandon_pending_calls).
MayFollow(kind, next) ==
    CASE next = "prompt" -> kind # "calls"
      [] next = "compaction" -> kind \in {"answer", "returns", "compaction"}
      [] next = "returns" -> kind = "calls"
      [] next = "retry" -> kind = "compaction"
      [] next \in {"answer", "calls"} -> kind \in {"prompt", "returns", "retry"}

Replayable ==
    \A n \in Nodes : IF tree[n].parent = NoNode THEN tree[n].kind = "prompt"
                     ELSE MayFollow(tree[tree[n].parent].kind, tree[n].kind)

\* The messages on the path to a message are those its model was told, summaries
\* aside: nothing raced into its past or dropped out of it, and a compaction
\* stands behind what it summarized (resolve_fork, insert_above).
ToldItsPath == \A n \in Nodes : NotCompacted(Path[n]) = told[n]

\* No path repeats what a user typed once (persist, the skipped prompt).
PromptOnce ==
    \A n \in Nodes : \A i, j \in DOMAIN Path[n] :
        /\ i # j
        /\ tree[Path[n][i]].kind = "prompt" /\ tree[Path[n][j]].kind = "prompt"
        => tree[Path[n][i]].text # tree[Path[n][j]].text

\* Branches of one message stay branches of one message, whatever is inserted
\* above them (insert_above).
SiblingsStay ==
    [][\A n, m \in Nodes \cap DOMAIN tree' :
         tree[n].parent = tree[m].parent => tree'[n].parent = tree'[m].parent]_treeVars

\* Every path is one a provider takes, holds what its messages were answers to, and that
\* once.
PathsHold == Replayable /\ ToldItsPath /\ PromptOnce
=============================================================================
