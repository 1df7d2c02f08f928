--------------------------- MODULE MCConversation ---------------------------
(***************************************************************************)
(* A conversation's messages and its approvals share no state: one run     *)
(* checks each by itself, with two requests at once. The first state says  *)
(* which of the two, and the other rests.                                  *)
(***************************************************************************)
EXTENDS ConversationTree, Approvals, TLC

CONSTANTS t1, t2

VARIABLE topic

Tabs == {t1, t2}
Workspaces == {1, 2}
OneOrBoth == {{1}, {1, 2}}
Symmetry == Permutations(Tabs)

Init == topic \in {"messages", "approvals"} /\ TreeInit /\ ApprovalsInit

Next ==
    \/ topic = "messages" /\ TreeNext /\ UNCHANGED <<topic, approvalVars>>
    \/ topic = "approvals" /\ ApprovalsNext /\ UNCHANGED <<topic, treeVars>>

Spec == Init /\ [][Next]_<<topic, treeVars, approvalVars>>
=============================================================================
