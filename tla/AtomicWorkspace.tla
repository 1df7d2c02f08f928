-------------------------- MODULE AtomicWorkspace --------------------------
(***************************************************************************)
(* What the changeset gateway promises of a casebase (changeset.py, the    *)
(* module docstring): a changeset happens as one step or not at all, and   *)
(* the documents' identities move with their files in that same step.      *)
(* There is no lock, no journal and no order of effects here.              *)
(***************************************************************************)
CONSTANTS Stem, Content, Nil, RowId, Promised, Rewrite

VARIABLES
    texts,  \* what every description reads
    ids     \* the identity of every document row

vars == <<texts, ids>>

Init == texts \in [Stem -> Content \cup {Nil}] /\ ids = [s \in Stem |-> Nil]

Source(ch, s) == {m[1] : m \in {n \in ch.moves : n[2] = s}}
Left(ch) == ch.gone \cup {m[1] : m \in ch.moves}

\* All of a changeset's effects on the texts, read off the state before it.
Texts(ch, s) ==
    IF ch.put[s] # Nil THEN {ch.put[s]}
    ELSE IF \E r \in Source(ch, s) : texts[r] # Nil
    THEN {texts[r] : r \in Source(ch, s)} \cup
         (IF s \in ch.rewrites THEN {Rewrite[texts[r]] : r \in Source(ch, s)} ELSE {})
    ELSE IF s \in Left(ch) THEN {Nil} ELSE {texts[s]}

\* A document keeps its identity, and so its chunks, where it moves.
Identity(ch, s) ==
    IF \E r \in Source(ch, s) : ids[r] # Nil
    THEN ids[CHOOSE r \in Source(ch, s) : ids[r] # Nil]
    ELSE IF s \in Left(ch) THEN Nil ELSE ids[s]

Apply(ch) ==
    /\ texts' \in [Stem -> Content \cup {Nil}]
    /\ \A s \in Stem : texts'[s] \in Texts(ch, s)
    /\ ids' = [s \in Stem |-> Identity(ch, s)]

\* A description without a document gets one of its own.
Insert(s) ==
    /\ texts[s] # Nil /\ ids[s] = Nil
    /\ \E i \in RowId \ {ids[r] : r \in Stem} : ids' = [ids EXCEPT ![s] = i]
    /\ UNCHANGED texts

\* A document without a description is dropped.
Sweep(s) ==
    /\ texts[s] = Nil
    /\ ids' = [ids EXCEPT ![s] = Nil]
    /\ UNCHANGED texts

\* The one operation on everything: first the documents, then the files.
WipeDocuments == ids' = [s \in Stem |-> Nil] /\ UNCHANGED texts
WipeTexts ==
    /\ ids = [s \in Stem |-> Nil]
    /\ texts' = [s \in Stem |-> Nil]
    /\ UNCHANGED ids

Next ==
    \/ \E ch \in Promised : Apply(ch)
    \/ \E s \in Stem : Insert(s) \/ Sweep(s)
    \/ WipeDocuments
    \/ WipeTexts

Spec == Init /\ [][Next]_vars
============================================================================
