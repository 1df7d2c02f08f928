--------------------------- MODULE ApprovalsProofs ---------------------------
(* Theorems about Approvals, for every set of tabs, workspaces and spans. *)
EXTENDS Approvals, FiniteSetTheorems, SequenceTheorems, TLAPS

(***************************************************************************)
(* The least and the greatest of a set of naturals                         *)
(***************************************************************************)

\* Every set of naturals with a member has a least one, and Min chooses it.
LEMMA MinOfNats ==
    ASSUME NEW S \in SUBSET Nat, S # {}
    PROVE  Min(S) \in S /\ \A n \in S : Min(S) <= n
<1> DEFINE Below(n) == 0 .. n
           Spans == {Below(n) : n \in S}
           R == StrictSubsetOrdering(Nat)
<1>1. Spans \subseteq FiniteSubsetsOf(Nat)
  <2> SUFFICES ASSUME NEW n \in S PROVE Below(n) \in FiniteSubsetsOf(Nat)
    OBVIOUS
  <2>1. 0 \in Int /\ n \in Int /\ Below(n) \subseteq Nat
    OBVIOUS
  <2>2. IsFiniteSet(0 .. n)
    BY <2>1, FS_Interval
  <2> QED
    BY <2>1, <2>2 DEF FiniteSubsetsOf
<1>2. PICK x \in Spans : \A y \in Spans : ~ <<y, x>> \in R
  <2> HIDE DEF Spans, R
  <2>1. Spans # {}
    BY DEF Spans
  <2>2. IsWellFoundedOn(R, FiniteSubsetsOf(Nat))
    BY FS_StrictSubsetOrderingWellFounded DEF R
  <2> QED
    BY <1>1, <2>1, <2>2, WFMin
<1>3. PICK n \in S : x = Below(n)
  BY <1>2
<1>4. \A m \in S : n <= m
  <2> SUFFICES ASSUME NEW m \in S, m < n PROVE FALSE
    OBVIOUS
  <2>1. Below(m) \subseteq Below(n) /\ Below(m) # Below(n)
    <3>1. n \in Below(n) /\ n \notin Below(m)
      OBVIOUS
    <3> QED
      BY <3>1
  <2>2. <<Below(m), Below(n)>> \in R
    BY <2>1 DEF StrictSubsetOrdering
  <2> QED
    BY <1>2, <1>3, <2>2
<1> QED
  BY <1>4 DEF Min

\* A set of naturals with a member and a bound has a greatest one, and Max chooses it.
LEMMA MaxOfNats ==
    ASSUME NEW S \in SUBSET Nat, S # {}, NEW bound \in Nat, \A n \in S : n <= bound
    PROVE  Max(S) \in S /\ \A n \in S : n <= Max(S)
<1> DEFINE Above == {b \in Nat : \A n \in S : n <= b}
           m == Min(Above)
<1>1. m \in Above /\ \A b \in Above : m <= b
  <2>1. bound \in Above
    OBVIOUS
  <2> QED
    BY <2>1, MinOfNats
<1> HIDE DEF m
<1>2. m \in S
  <2>1. PICK n \in S : TRUE
    OBVIOUS
  <2> SUFFICES ASSUME m \notin S PROVE FALSE
    OBVIOUS
  <2>2. \A k \in S : k <= m /\ k # m
    BY <1>1
  <2>3. m - 1 \in Above
    BY <1>1, <2>1, <2>2
  <2> QED
    BY <1>1, <2>3
<1> QED
  BY <1>1, <1>2 DEF Max

(***************************************************************************)
(* Type correctness                                                        *)
(***************************************************************************)

Base == UNION {[over -> Nat] : over \in Span}

\* A call that applies a changeset carries its bases; a write may go unchecked.
Change ==
    {c \in [id : Nat, tool : {"write", "apply"}, changeset : Nat, over : Span, base : {Unchecked} \cup Base] :
        \/ c.base = Unchecked /\ c.tool = "write"
        \/ c.base \in [c.over -> Nat]}

Run == [pc : {"idle", "read", "judged", "runs", "ends"}, mode : Modes, end : Nat,
        answers : SUBSET Change, yes : SUBSET Change, asks : SUBSET Change]

Execution == [by : Tab, call : Change, at : {"called", "locks", "tried"}, held : SUBSET Root]

End == [after : Nat, open : SUBSET Change]

TypeOK ==
    /\ disk \in [Root -> Nat]
    /\ ends \in Seq(End) /\ \A n \in DOMAIN ends : ends[n].after < n
    /\ Staged \subseteq 1 .. Len(minted) /\ \A s \in Staged : staged[s] \in Base
    /\ folder \in {"used", "judged", "swept"}
    /\ runs \in [Tab -> Run] /\ \A t \in Tab : runs[t].end <= Len(ends)
    /\ calls \subseteq Execution
    /\ minted \in Seq(Nat)
    /\ answered \subseteq Change \X BOOLEAN
    /\ made \in Nat /\ posts \in Nat

\* What a tab without a request has.
LEMMA NoRunTyped == NoRun \in Run /\ NoRun.end = 0
  BY DEF NoRun, Run, Modes, NoEnd

\* The start of everything.
LEMMA TypeInit == ApprovalsInit => TypeOK
<1> SUFFICES ASSUME ApprovalsInit PROVE TypeOK
  OBVIOUS
<1>1. NoRun \in Run
  BY NoRunTyped
<1>2. Staged = {} /\ Len(ends) = 0 /\ DOMAIN ends = {}
  BY DEF ApprovalsInit, Staged
<1> QED
  BY <1>1, <1>2 DEF ApprovalsInit, TypeOK, NoRun, NoEnd

\* A turn that is stored comes last and changes none before it.
LEMMA Replied ==
    ASSUME TypeOK, NEW after \in Nat, after <= Len(ends), NEW open \in SUBSET Change, Reply(after, open)
    PROVE  /\ ends' \in Seq(End) /\ Len(ends') = Len(ends) + 1
           /\ DOMAIN ends = 1 .. Len(ends) /\ DOMAIN ends' = 1 .. Len(ends) + 1
           /\ \A n \in DOMAIN ends : ends'[n] = ends[n]
           /\ ends'[Len(ends) + 1] = [after |-> after, open |-> open]
           /\ \A n \in DOMAIN ends' : ends'[n].after < n
           /\ \A n \in 0 .. Len(ends) : OpenAt(n)' = OpenAt(n)
<1>1. ends \in Seq(End) /\ [after |-> after, open |-> open] \in End
  BY DEF TypeOK, End
<1>2. /\ ends' \in Seq(End) /\ Len(ends') = Len(ends) + 1
      /\ DOMAIN ends = 1 .. Len(ends) /\ DOMAIN ends' = 1 .. Len(ends) + 1
      /\ \A n \in DOMAIN ends : ends'[n] = ends[n]
      /\ ends'[Len(ends) + 1] = [after |-> after, open |-> open]
  BY <1>1 DEF Reply
<1>3. \A n \in DOMAIN ends' : ends'[n].after < n
  BY <1>2 DEF TypeOK
<1>4. \A n \in 0 .. Len(ends) : OpenAt(n)' = OpenAt(n)
  BY <1>2 DEF OpenAt, NoEnd
<1> QED
  BY <1>2, <1>3, <1>4

\* A request that goes on, with the turns there are by then.
LEMMA RunSet ==
    ASSUME TypeOK, NEW t \in Tab, NEW run \in Run, NEW last \in Nat,
           Len(ends) <= last, run.end <= last, SetRun(t, run)
    PROVE  /\ runs' \in [Tab -> Run] /\ \A u \in Tab : runs'[u].end <= last
           /\ runs'[t] = run /\ \A u \in Tab \ {t} : runs'[u] = runs[u]
<1>1. runs' \in [Tab -> Run] /\ runs'[t] = run /\ \A u \in Tab \ {t} : runs'[u] = runs[u]
  BY DEF SetRun, TypeOK
<1>2. ASSUME NEW u \in Tab PROVE runs'[u].end <= last
  <2>1. runs[u].end \in Nat /\ Len(ends) \in Nat /\ runs[u].end <= Len(ends)
    BY DEF TypeOK, Run
  <2> QED
    BY <1>1, <2>1
<1> QED
  BY <1>1, <1>2

\* A run that moves on stays a run.
LEMMA RunMoved ==
    ASSUME NEW run \in Run, NEW pc \in {"idle", "read", "judged", "runs", "ends"}, NEW end \in Nat
    PROVE  [run EXCEPT !.pc = pc, !.end = end] \in Run /\ [run EXCEPT !.pc = pc, !.end = end].end = end
  BY DEF Run

\* The active turn is one, or there is none yet.
LEMMA ActiveTyped ==
    ASSUME TypeOK
    PROVE  Active \in 0 .. Len(ends)
<1>1. DOMAIN ends = 1 .. Len(ends) /\ Len(ends) \in Nat
  BY DEF TypeOK
<1>2. CASE LastEnds = {}
  BY <1>1, <1>2 DEF Active, NoEnd
<1>3. CASE LastEnds # {}
  <2>1. LastEnds \in SUBSET Nat /\ \A n \in LastEnds : n <= Len(ends)
    BY <1>1 DEF LastEnds
  <2>2. Max(LastEnds) \in LastEnds
    BY <1>1, <1>3, <2>1, MaxOfNats
  <2>3. LastEnds \subseteq 1 .. Len(ends)
    BY <1>1 DEF LastEnds
  <2>4. Active = Max(LastEnds)
    BY <1>3 DEF Active
  <2>5. Active \in 1 .. Len(ends)
    BY <2>2, <2>3, <2>4
  <2> QED
    BY <1>1, <2>5
<1> QED
  BY <1>2, <1>3

\* The calls a turn left open are calls.
LEMMA OpenTyped ==
    ASSUME TypeOK, NEW n \in 0 .. Len(ends)
    PROVE  OpenAt(n) \subseteq Change
<1>1. DOMAIN ends = 1 .. Len(ends) /\ \A k \in DOMAIN ends : ends[k] \in End
  BY DEF TypeOK
<1> QED
  BY <1>1 DEF OpenAt, NoEnd, End

\* What a change is about is seen as it is on disk.
LEMMA SeenTyped ==
    ASSUME TypeOK, NEW over \in Span
    PROVE  Seen(over) \in [over -> Nat] /\ DOMAIN Seen(over) = over
<1>1. over \subseteq Root
  BY ApprovalBounds
<1> QED
  BY <1>1 DEF Seen, TypeOK

\* A call that is made is one, and it executes.
LEMMA CallTyped ==
    ASSUME TypeOK, NEW id \in Nat, NEW c \in Valid(id)
    PROVE  c \in Change
<1>1. ASSUME NEW over \in Span
      PROVE  Call(id, "write", 0, over, IF Cardinality(over) = 1 THEN Seen(over) ELSE Unchecked) \in Change
  BY SeenTyped DEF Call, Change, Base, Unchecked
<1>2. ASSUME NEW s \in Staged
      PROVE  Call(id, "apply", s, DOMAIN staged[s], staged[s]) \in Change
  <2>1. PICK over \in Span : staged[s] \in [over -> Nat]
    BY DEF TypeOK, Base
  <2>2. DOMAIN staged[s] = over /\ s \in Nat
    BY <2>1 DEF TypeOK
  <2> QED
    BY <2>1, <2>2 DEF Call, Change, Base
<1> QED
  BY <1>1, <1>2 DEF Valid

\* A call that executes is an execution.
LEMMA ExecutingTyped ==
    ASSUME NEW t \in Tab, NEW c \in Change
    PROVE  Executing(t, c) \in Execution
  BY DEF Executing, Execution

\* A request and what it finds.
LEMMA RequestTyped ==
    ASSUME TypeOK, NEW t \in Tab
    PROVE  \/ \E mode \in {"ask", "write"}, n \in {NoEnd} \cup DOMAIN ends : Prompt(t, mode, n)
           \/ \E mode \in Modes, n \in DOMAIN ends : \E yes \in SUBSET ends[n].open :
                Answer(t, mode, ends[n].open, yes)
           \/ Discard(t) \/ Abandon(t) \/ Resume(t) \/ Refuse(t)
           => TypeOK'
<1>0. DOMAIN ends = 1 .. Len(ends) /\ Len(ends) \in Nat /\ runs[t] \in Run /\ runs[t].end \in 0 .. Len(ends)
  BY DEF TypeOK, Run
<1>1. ASSUME NEW mode \in {"ask", "write"}, NEW n \in {NoEnd} \cup DOMAIN ends, Prompt(t, mode, n)
      PROVE  TypeOK'
  <2>1. n \in 0 .. Len(ends) /\ OpenAt(n) \subseteq Change
    BY <1>0, OpenTyped DEF NoEnd
  <2> DEFINE run == [NoRun EXCEPT !.pc = "read", !.mode = mode, !.end = n]
  <2>2. run \in Run /\ run.end = n
    <3>1. n \in Nat
      BY <1>0, <2>1
    <3> QED
      BY <3>1, NoRunTyped DEF Run, Modes
  <2>3. answered' \subseteq Change \X BOOLEAN
    <3>1. \A c \in OpenAt(n) : <<c, FALSE>> \in Change \X BOOLEAN
      BY <2>1
    <3>2. answered' = answered \cup {<<c, FALSE>> : c \in OpenAt(n)}
      BY <1>1 DEF Prompt
    <3> QED
      BY <3>1, <3>2 DEF TypeOK
  <2>4. runs' \in [Tab -> Run] /\ \A u \in Tab : runs'[u].end <= Len(ends)
    <3>1. runs' = [runs EXCEPT ![t] = run]
      BY <1>1 DEF Prompt, SetRun
    <3> HIDE DEF run
    <3> QED
      BY <1>0, <2>1, <2>2, <3>1 DEF TypeOK
  <2> HIDE DEF run
  <2> QED
    <3>1. UNCHANGED <<disk, ends, staged, folder, calls, minted, made>> /\ posts' \in Nat
      BY <1>1 DEF Prompt, TypeOK
    <3> QED
      BY <2>3, <2>4, <3>1 DEF TypeOK, Staged
<1>2. ASSUME NEW mode \in Modes, NEW n \in DOMAIN ends, NEW yes \in SUBSET ends[n].open,
             Answer(t, mode, ends[n].open, yes)
      PROVE  TypeOK'
  <2>1. ends[n].open \subseteq Change /\ Active \in 0 .. Len(ends)
    <3>1. ends[n] \in End
      BY DEF TypeOK
    <3> QED
      BY <3>1, ActiveTyped DEF End
  <2> DEFINE run == [NoRun EXCEPT !.pc = "read", !.mode = mode, !.end = Active,
                                  !.answers = ends[n].open, !.yes = yes]
  <2>2. run \in Run /\ run.end = Active
    <3>1. Active \in Nat
      BY <1>0, <2>1
    <3>2. ends[n].open \in SUBSET Change /\ yes \in SUBSET Change
      BY <2>1
    <3> HIDE DEF Active
    <3> QED
      BY <3>1, <3>2, NoRunTyped DEF Run
  <2>3. answered' \subseteq Change \X BOOLEAN
    <3>1. ASSUME NEW c \in ends[n].open PROVE <<c, c \in yes>> \in Change \X BOOLEAN
      <4>1. c \in Change /\ (c \in yes) \in BOOLEAN
        BY <2>1
      <4> QED
        BY <4>1
    <3>2. answered' = answered \cup {<<c, c \in yes>> : c \in ends[n].open}
      BY <1>2 DEF Answer
    <3> QED
      BY <3>1, <3>2 DEF TypeOK
  <2>4. runs' \in [Tab -> Run] /\ \A u \in Tab : runs'[u].end <= Len(ends)
    <3>1. runs' = [runs EXCEPT ![t] = run]
      BY <1>2 DEF Answer, SetRun
    <3> HIDE DEF run
    <3> QED
      BY <1>0, <2>1, <2>2, <3>1 DEF TypeOK
  <2> HIDE DEF run
  <2> QED
    <3>1. UNCHANGED <<disk, ends, staged, folder, calls, minted, made>> /\ posts' \in Nat
      BY <1>2 DEF Answer, TypeOK
    <3> QED
      BY <2>3, <2>4, <3>1 DEF TypeOK, Staged
<1>3. CASE Discard(t)
  <2>1. runs' \in [Tab -> Run] /\ \A u \in Tab : runs'[u].end <= Len(ends)
    BY <1>3, <1>0 DEF Discard, SetRun, TypeOK, Run
  <2>2. Staged' \subseteq Staged /\ \A s \in Staged' : staged'[s] = staged[s]
    BY <1>3 DEF Discard, Restrict, Staged
  <2> QED
    BY <1>3, <2>1, <2>2 DEF Discard, TypeOK
<1>4. CASE Abandon(t)
  <2>1. CASE UNCHANGED ends /\ SetRun(t, [runs[t] EXCEPT !.pc = "runs"])
    BY <1>4, <1>0, <2>1 DEF Abandon, SetRun, TypeOK, Run, Staged
  <2>2. CASE Reply(runs[t].end, {}) /\ SetRun(t, [runs[t] EXCEPT !.pc = "runs", !.end = Len(ends) + 1])
    <3>0. runs[t].end \in Nat /\ runs[t].end <= Len(ends)
      BY <1>0
    <3>1. /\ ends' \in Seq(End) /\ Len(ends') = Len(ends) + 1
          /\ \A n \in DOMAIN ends' : ends'[n].after < n
      BY <3>0, <2>2, Replied, {} \in SUBSET Change
    <3>2. Len(ends) + 1 \in Nat /\ Len(ends) <= Len(ends) + 1
      BY <1>0
    <3> DEFINE run == [runs[t] EXCEPT !.pc = "runs", !.end = Len(ends) + 1]
    <3>3. run \in Run /\ run.end <= Len(ends) + 1 /\ SetRun(t, run)
      <4>1. run \in Run /\ run.end = Len(ends) + 1
        BY <1>0, <3>2, RunMoved
      <4>2. SetRun(t, run)
        BY <2>2
      <4> QED
        BY <3>2, <4>1, <4>2
    <3> HIDE DEF run
    <3>4. runs' \in [Tab -> Run] /\ \A u \in Tab : runs'[u].end <= Len(ends')
      BY <3>1, <3>2, <3>3, RunSet
    <3> QED
      BY <1>4, <3>1, <3>4 DEF Abandon, TypeOK, Staged
  <2> QED
    BY <1>4, <2>1, <2>2 DEF Abandon
<1>5. CASE Resume(t)
  <2>1. runs' \in [Tab -> Run] /\ \A u \in Tab : runs'[u].end <= Len(ends)
    BY <1>5, <1>0 DEF Resume, SetRun, TypeOK, Run
  <2>2. \A c \in OpenAt(runs[t].end) : Executing(t, c) \in Execution
    BY <1>0, OpenTyped, ExecutingTyped
  <2>3. calls' \subseteq Execution
    BY <1>5, <2>2 DEF Resume, TypeOK
  <2> QED
    BY <1>5, <2>1, <2>3 DEF Resume, TypeOK, Staged
<1>6. CASE Refuse(t)
  <2>1. runs' = [runs EXCEPT ![t] = NoRun] /\ NoRun \in Run /\ NoRun.end = 0
    BY <1>6, NoRunTyped DEF Refuse, SetRun
  <2>2. CASE UNCHANGED ends
    BY <1>0, <1>6, <2>1, <2>2 DEF Refuse, TypeOK, Staged
  <2>3. CASE Reply(runs[t].end, {})
    <3>0. runs[t].end \in Nat /\ runs[t].end <= Len(ends)
      BY <1>0
    <3>1. /\ ends' \in Seq(End) /\ Len(ends') = Len(ends) + 1
          /\ \A n \in DOMAIN ends' : ends'[n].after < n
      BY <3>0, <2>3, Replied, {} \in SUBSET Change
    <3>2. runs' \in [Tab -> Run] /\ \A u \in Tab : runs'[u].end <= Len(ends')
      BY <1>0, <2>1, <3>1 DEF TypeOK, Run
    <3> QED
      BY <1>6, <3>1, <3>2 DEF Refuse, TypeOK, Staged
  <2> QED
    BY <1>6, <2>2, <2>3 DEF Refuse
<1> QED
  BY <1>1, <1>2, <1>3, <1>4, <1>5, <1>6

\* A changeset is applied once more, and the others are not.
LEMMA MintedOnce ==
    ASSUME TypeOK, NEW s
    PROVE  LET more == [minted EXCEPT ![s] = @ + 1] IN
             /\ more \in Seq(Nat) /\ Len(more) = Len(minted) /\ DOMAIN more = DOMAIN minted
             /\ \A i \in DOMAIN minted : more[i] = IF i = s THEN minted[i] + 1 ELSE minted[i]
<1>1. minted \in Seq(Nat) /\ DOMAIN minted = 1 .. Len(minted)
  BY DEF TypeOK
<1>2. CASE s \in DOMAIN minted
  <2>1. s \in 1 .. Len(minted) /\ minted[s] + 1 \in Nat
    BY <1>1, <1>2
  <2>2. [minted EXCEPT ![s] = minted[s] + 1] \in Seq(Nat)
        /\ Len([minted EXCEPT ![s] = minted[s] + 1]) = Len(minted)
    BY <1>1, <2>1, ExceptSeq
  <2> QED
    BY <1>1, <2>1, <2>2
<1>3. CASE s \notin DOMAIN minted
  <2>1. [minted EXCEPT ![s] = @ + 1] = minted
    BY <1>1, <1>3
  <2> QED
    BY <1>1, <1>3, <2>1
<1> QED
  BY <1>2, <1>3

\* The steps of the calls that execute.
LEMMA CallsTyped ==
    ASSUME TypeOK, NEW e \in calls
    PROVE  Load(e) \/ Lock(e) \/ Commit(e) \/ Forget(e) => TypeOK'
<1>0. e \in Execution
  BY DEF TypeOK
<1>1. ASSUME Load(e) PROVE TypeOK'
  <2>1. [e EXCEPT !.at = "locks"] \in Execution
    BY <1>0 DEF Execution
  <2>2. calls' \subseteq Execution
    BY <1>1, <2>1 DEF Load, Becomes, TypeOK
  <2> QED
    BY <1>1, <2>2 DEF Load, TypeOK, Staged
<1>2. ASSUME Lock(e) PROVE TypeOK'
  <2>1. e.call.over \in SUBSET Root /\ e.call.over \in SUBSET Nat
    BY <1>0, ApprovalBounds DEF Execution, Change
  <2>2. NextLock(e) \in Missing(e)
    BY <1>2, <2>1, MinOfNats DEF Lock, Missing, NextLock
  <2>3. [e EXCEPT !.held = @ \cup {NextLock(e)}] \in Execution
    BY <1>0, <2>1, <2>2 DEF Execution, Missing
  <2>4. calls' \subseteq Execution
    BY <1>2, <2>3 DEF Lock, Becomes, TypeOK
  <2> QED
    BY <1>2, <2>4 DEF Lock, TypeOK, Staged
<1>3. ASSUME Commit(e) PROVE TypeOK'
  <2>1. [e EXCEPT !.at = "tried", !.held = {}] \in Execution
    BY <1>0 DEF Execution
  <2>2. calls' \subseteq Execution
    BY <1>3, <2>1 DEF Commit, Tried, Becomes, TypeOK
  <2>3. disk' \in [Root -> Nat]
    BY <1>3 DEF Commit, TypeOK
  <2>4. minted' \in Seq(Nat) /\ Len(minted') = Len(minted)
    <3>1. minted \in Seq(Nat) /\ DOMAIN minted = 1 .. Len(minted)
      BY DEF TypeOK
    <3>2. CASE minted' = [minted EXCEPT ![e.call.changeset] = @ + 1]
      BY <3>1, <3>2, MintedOnce
    <3> QED
      BY <1>3, <3>1, <3>2 DEF Commit
  <2> QED
    BY <1>3, <2>2, <2>3, <2>4 DEF Commit, TypeOK, Staged
<1>4. ASSUME Forget(e) PROVE TypeOK'
  <2>1. Staged' \subseteq Staged /\ \A s \in Staged' : staged'[s] = staged[s]
    BY <1>4 DEF Forget, Restrict, Staged
  <2> QED
    BY <1>4, <2>1 DEF Forget, TypeOK
<1> QED
  BY <1>1, <1>2, <1>3, <1>4

\* The steps of a run that goes on.
LEMMA RunsTyped ==
    ASSUME TypeOK, NEW t \in Tab
    PROVE  \/ \E over \in Span : Program(t, over)
           \/ \E response \in Responses : Respond(t, response)
           \/ Conclude(t) \/ Store(t)
           => TypeOK'
<1>0. /\ DOMAIN ends = 1 .. Len(ends) /\ Len(ends) \in Nat
      /\ runs[t] \in Run /\ runs[t].end \in Nat /\ runs[t].end <= Len(ends)
      /\ minted \in Seq(Nat) /\ Len(minted) \in Nat
  BY DEF TypeOK, Run
<1>1. ASSUME NEW over \in Span, Program(t, over)
      PROVE  TypeOK'
  <2>1. Seen(over) \in [over -> Nat] /\ DOMAIN Seen(over) = over
    BY SeenTyped
  <2>2. CASE runs[t].mode = "ask"
    <3>1. minted' = Append(minted, 0) /\ UNCHANGED <<disk, ends, folder, runs, calls, answered, made, posts>>
      BY <1>1, <2>2 DEF Program
    <3>2. staged' = [s \in Staged \cup {Len(minted) + 1} |-> IF s \in Staged THEN staged[s] ELSE Seen(over)]
      BY <1>1, <2>2 DEF Program
    <3>3. minted' \in Seq(Nat) /\ Len(minted') = Len(minted) + 1
      BY <1>0, <3>1
    <3>4. Seen(over) \in Base
      BY <2>1 DEF Base
    <3>5. Staged' \subseteq 1 .. Len(minted') /\ \A s \in Staged' : staged'[s] \in Base
      BY <1>0, <3>2, <3>3, <3>4 DEF Staged, TypeOK
    <3> QED
      BY <3>1, <3>3, <3>5 DEF TypeOK
  <2>3. CASE runs[t].mode # "ask"
    <3>1. made + 1 \in Nat
      BY DEF TypeOK
    <3>2. Call(made + 1, "write", 0, over, Seen(over)) \in Change
      BY <2>1, <3>1 DEF Call, Change, Base
    <3>3. Executing(t, Call(made + 1, "write", 0, over, Seen(over))) \in Execution
      BY <3>2, ExecutingTyped
    <3>4. /\ calls' = calls \cup {Executing(t, Call(made + 1, "write", 0, over, Seen(over)))}
          /\ made' = made + 1 /\ UNCHANGED <<disk, ends, staged, folder, runs, minted, answered, posts>>
      BY <1>1, <2>3 DEF Program
    <3>5. calls' \subseteq Execution
      BY <3>3, <3>4 DEF TypeOK
    <3> QED
      BY <3>1, <3>4, <3>5 DEF TypeOK, Staged
  <2> QED
    BY <2>2, <2>3
<1>2. ASSUME NEW response \in Responses, Respond(t, response)
      PROVE  TypeOK'
  <2>1. response \subseteq Change /\ made' \in Nat
    <3>1. made + 1 \in Nat /\ made + 2 \in Nat
      BY DEF TypeOK
    <3>2. Valid(made + 1) \subseteq Change /\ Valid(made + 2) \subseteq Change
      BY <3>1, CallTyped
    <3>3. /\ response \subseteq Valid(made + 1) \cup Valid(made + 2)
          /\ \E c, d \in response : response = {c, d}
      BY DEF Responses
    <3>4. PICK c \in response, d \in response : response = {c, d}
      BY <3>3
    <3>5. Cardinality(response) \in Nat
      <4>1. IsFiniteSet({c}) /\ IsFiniteSet({d})
        BY FS_Singleton
      <4>2. IsFiniteSet({c} \cup {d}) /\ response = {c} \cup {d}
        BY <3>4, <4>1, FS_Union
      <4> QED
        BY <4>2, FS_CardinalityType
    <3> QED
      BY <1>2, <3>2, <3>3, <3>5 DEF Respond, TypeOK
  <2>2. CASE Asks(runs[t])
    <3> DEFINE run == [runs[t] EXCEPT !.pc = "ends", !.asks = response]
    <3>1. run \in Run /\ run.end = runs[t].end
      BY <1>0, <2>1 DEF Run
    <3>2. SetRun(t, run) /\ UNCHANGED <<disk, ends, staged, folder, calls, minted, answered, posts>>
      BY <1>2, <2>2 DEF Respond
    <3> HIDE DEF run
    <3>3. runs' \in [Tab -> Run] /\ \A u \in Tab : runs'[u].end <= Len(ends)
      BY <1>0, <3>1, <3>2, RunSet
    <3> QED
      BY <2>1, <3>2, <3>3 DEF TypeOK, Staged
  <2>3. CASE ~Asks(runs[t])
    <3>1. /\ calls' = calls \cup {Executing(t, c) : c \in response}
          /\ UNCHANGED <<disk, ends, staged, folder, runs, minted, answered, posts>>
      BY <1>2, <2>3 DEF Respond
    <3>2. calls' \subseteq Execution
      BY <2>1, <3>1, ExecutingTyped DEF TypeOK
    <3> QED
      BY <2>1, <3>1, <3>2 DEF TypeOK, Staged
  <2> QED
    BY <2>2, <2>3
<1>3. ASSUME Conclude(t) PROVE TypeOK'
  <2>1. runs' \in [Tab -> Run] /\ \A u \in Tab : runs'[u].end <= Len(ends)
    BY <1>3, <1>0 DEF Conclude, SetRun, TypeOK, Run
  <2>2. \A e \in Execution : [e EXCEPT !.at = "tried"] \in Execution
    BY DEF Execution
  <2>3. calls' \subseteq Execution
    BY <1>3, <2>2 DEF Conclude, Mine, TypeOK
  <2> QED
    BY <1>3, <2>1, <2>3 DEF Conclude, TypeOK, Staged
<1>4. ASSUME Store(t) PROVE TypeOK'
  <2>1. runs[t].asks \in SUBSET Change
    BY <1>0 DEF Run
  <2>2. /\ ends' \in Seq(End) /\ Len(ends') = Len(ends) + 1
        /\ \A n \in DOMAIN ends' : ends'[n].after < n
    BY <1>4, <1>0, <2>1, Replied DEF Store
  <2>3. runs' \in [Tab -> Run] /\ \A u \in Tab : runs'[u].end <= Len(ends')
    <3>1. Len(ends') \in Nat /\ Len(ends) <= Len(ends') /\ NoRun.end <= Len(ends') /\ SetRun(t, NoRun)
      BY <1>4, <1>0, <2>2, NoRunTyped DEF Store
    <3> QED
      BY <3>1, NoRunTyped, RunSet
  <2> QED
    BY <1>4, <2>2, <2>3 DEF Store, TypeOK, Staged
<1> QED
  BY <1>1, <1>2, <1>3, <1>4

\* The sweep and a crash.
LEMMA AroundTyped ==
    ASSUME TypeOK
    PROVE  Judge \/ Sweep \/ Crash => TypeOK'
<1>1. ASSUME Judge PROVE TypeOK'
  BY <1>1 DEF Judge, TypeOK, Staged
<1>2. ASSUME Sweep PROVE TypeOK'
  <2>1. Staged' = {}
    BY <1>2 DEF Sweep, Staged
  <2> QED
    BY <1>2, <2>1 DEF Sweep, TypeOK
<1>3. ASSUME Crash PROVE TypeOK'
  <2>1. runs' \in [Tab -> Run] /\ \A u \in Tab : runs'[u].end = 0
    BY <1>3, NoRunTyped DEF Crash
  <2>2. folder' \in {"used", "judged", "swept"} /\ calls' \subseteq Execution /\ Len(ends) \in Nat
    BY <1>3 DEF Crash, TypeOK
  <2> QED
    BY <1>3, <2>1, <2>2 DEF Crash, TypeOK, Staged
<1> QED
  BY <1>1, <1>2, <1>3

\* Every variable keeps its type, whatever the tabs, the workspaces and the bounds.
THEOREM ApprovalsTyped == ApprovalsSpec => []TypeOK
<1>1. TypeOK /\ [ApprovalsNext]_approvalVars => TypeOK'
  <2> SUFFICES ASSUME TypeOK, [ApprovalsNext]_approvalVars PROVE TypeOK'
    OBVIOUS
  <2>1. CASE UNCHANGED approvalVars
    BY <2>1 DEF approvalVars, TypeOK, Staged
  <2>2. CASE ApprovalsNext
    BY <2>2, RequestTyped, CallsTyped, RunsTyped, AroundTyped DEF ApprovalsNext
  <2> QED
    BY <2>1, <2>2
<1> QED
  BY <1>1, TypeInit, PTL DEF ApprovalsSpec

----------------------------------------------------------------------------
(* Locks *)

\* Only who waits for locks or has them holds any: some of its workspaces, the
\* lowest ones, and nobody else's.
LocksInv ==
    /\ \A e \in calls : e.held # {} => e.at = "locks"
    /\ \A e \in calls : /\ e.held \subseteq e.call.over
                        /\ \A r \in e.held, m \in Missing(e) : r < m
    /\ \A e, f \in calls : e # f => e.held \cap f.held = {}

\* Whatever else the calls do: who newly has no locks disturbs none.
LEMMA LocksUndisturbed ==
    ASSUME LocksInv, \A e \in calls' : e \in calls \/ e.held = {}
    PROVE  LocksInv'
  BY DEF LocksInv, Missing

\* A lock that is taken was free and is the lowest that is missing.
LEMMA LockTaken ==
    ASSUME TypeOK, LocksInv, NEW e \in calls, Lock(e)
    PROVE  LocksInv'
<1> DEFINE f == [e EXCEPT !.held = @ \cup {NextLock(e)}]
<1>1. /\ f.at = "locks" /\ f.call = e.call /\ f.held = e.held \cup {NextLock(e)}
  BY DEF Lock, TypeOK, Execution
<1>2. /\ NextLock(e) \in Missing(e) /\ \A m \in Missing(e) : NextLock(e) <= m
      /\ Missing(e) \subseteq Nat
  <2>1. Missing(e) \in SUBSET Nat /\ Missing(e) # {}
    BY ApprovalBounds DEF Lock, Missing, TypeOK, Execution, Change
  <2> QED
    BY <2>1, MinOfNats DEF NextLock
<1>3. calls' = (calls \ {e}) \cup {f}
  BY DEF Lock, Becomes
<1>4. f.held \subseteq f.call.over /\ \A r \in f.held, m \in Missing(f) : r < m
  <2>1. e.held \subseteq e.call.over /\ \A r \in e.held, m \in Missing(e) : r < m
    BY DEF LocksInv
  <2>2. Missing(f) = Missing(e) \ {NextLock(e)}
    BY <1>1 DEF Missing
  <2>3. f.held \subseteq f.call.over
    BY <1>1, <1>2, <2>1 DEF Missing
  <2>4. \A m \in Missing(f) : NextLock(e) < m
    BY <1>2, <2>2
  <2> HIDE DEF f
  <2> QED
    BY <1>1, <2>1, <2>2, <2>3, <2>4
<1>5. \A g \in calls : g # e => f.held \cap g.held = {}
  <2>1. \A g \in calls : NextLock(e) \notin g.held
    BY DEF Lock, Free
  <2> HIDE DEF f
  <2> QED
    BY <1>1, <2>1 DEF LocksInv
<1> HIDE DEF f
<1> QED
  BY <1>1, <1>3, <1>4, <1>5 DEF LocksInv, Missing

\* Every step keeps the locks apart and lowest first.
LEMMA LocksKept ==
    ASSUME TypeOK, LocksInv
    PROVE  [ApprovalsNext]_approvalVars => LocksInv'
<1>1. ASSUME calls' \subseteq calls PROVE LocksInv'
  BY <1>1, LocksUndisturbed
<1>2. ASSUME NEW t \in Tab, Resume(t) PROVE LocksInv'
  <2>1. \A e \in calls' : e \in calls \/ e.held = {}
    BY <1>2 DEF Resume, Executing
  <2> QED
    BY <2>1, LocksUndisturbed
<1>3. ASSUME NEW t \in Tab, Conclude(t) PROVE LocksInv'
  <2>1. \A e \in calls' : e \in calls \/ e.held = {}
    BY <1>3 DEF Conclude, Mine, TypeOK, Execution
  <2> QED
    BY <2>1, LocksUndisturbed
<1>4. ASSUME NEW t \in Tab, NEW over \in Span, Program(t, over) PROVE LocksInv'
  <2>1. \A e \in calls' : e \in calls \/ e.held = {}
    BY <1>4 DEF Program, Executing
  <2> QED
    BY <2>1, LocksUndisturbed
<1>5. ASSUME NEW t \in Tab, NEW response \in Responses, Respond(t, response) PROVE LocksInv'
  <2>1. \A e \in calls' : e \in calls \/ e.held = {}
    BY <1>5 DEF Respond, Executing
  <2> QED
    BY <2>1, LocksUndisturbed
<1>6. ASSUME NEW e \in calls, Load(e) PROVE LocksInv'
  <2>1. e.held = {} /\ [e EXCEPT !.at = "locks"].held = e.held
    BY <1>6 DEF Load, LocksInv, TypeOK, Execution
  <2>2. \A f \in calls' : f \in calls \/ f.held = {}
    BY <1>6, <2>1 DEF Load, Becomes
  <2> QED
    BY <2>2, LocksUndisturbed
<1>7. ASSUME NEW e \in calls, Commit(e) PROVE LocksInv'
  <2>1. [e EXCEPT !.at = "tried", !.held = {}].held = {}
    BY DEF TypeOK, Execution
  <2>2. \A f \in calls' : f \in calls \/ f.held = {}
    BY <1>7, <2>1 DEF Commit, Tried, Becomes
  <2> QED
    BY <2>2, LocksUndisturbed
<1>8. ASSUME NEW e \in calls, Forget(e) PROVE LocksInv'
  <2>1. calls' \subseteq calls
    BY <1>8 DEF Forget
  <2> QED
    BY <1>1, <2>1
<1>9. ASSUME NEW t \in Tab,
             \/ \E mode \in {"ask", "write"}, n \in {NoEnd} \cup DOMAIN ends : Prompt(t, mode, n)
             \/ \E mode \in Modes, n \in DOMAIN ends : \E yes \in SUBSET ends[n].open :
                  Answer(t, mode, ends[n].open, yes)
             \/ Discard(t) \/ Abandon(t) \/ Refuse(t) \/ Store(t)
      PROVE  LocksInv'
  <2>1. calls' = calls
    BY <1>9 DEF Prompt, Answer, Discard, Abandon, Refuse, Store
  <2> QED
    BY <1>1, <2>1
<1>10. ASSUME Judge \/ Sweep \/ Crash \/ UNCHANGED approvalVars PROVE LocksInv'
  <2>1. calls' \subseteq calls
    BY <1>10 DEF Judge, Sweep, Crash, approvalVars
  <2> QED
    BY <1>1, <2>1
<1> QED
  BY <1>2, <1>3, <1>4, <1>5, <1>6, <1>7, <1>9, <1>8, <1>10, LockTaken DEF ApprovalsNext

Waits(e) == e.at = "locks" /\ Missing(e) # {}

\* Who waits for a workspace that another holds who waits too, waits for a lower one
\* than the other: along any chain of commits that wait for each other the
\* workspaces rise, so no chain of any length closes (_locked).
Rising ==
    \A e, f \in calls : Waits(e) /\ Waits(f) /\ NextLock(e) \in f.held => NextLock(e) < NextLock(f)

\* What the order of the locks means for who waits.
LEMMA LocksRise ==
    ASSUME TypeOK, LocksInv
    PROVE  Rising /\ Unblocked
<1>1. ASSUME NEW e \in calls, Waits(e) PROVE NextLock(e) \in Missing(e) /\ NextLock(e) \in Nat
  <2>1. Missing(e) \in SUBSET Nat /\ Missing(e) # {}
    BY <1>1, ApprovalBounds DEF Waits, Missing, TypeOK, Execution, Change
  <2> QED
    BY <2>1, MinOfNats DEF NextLock
<1>2. Rising
  BY <1>1 DEF Rising, LocksInv
<1>3. Unblocked
  BY <1>1, <1>2 DEF Rising, Unblocked, Waits
<1> QED
  BY <1>2, <1>3

\* However many commits there are and however many workspaces each is over, no two of
\* them wait for each other, and neither does any circle of them (_locked).
THEOREM NoDeadlock == ApprovalsSpec => [](Rising /\ Unblocked)
<1>1. ApprovalsInit => LocksInv
  BY DEF ApprovalsInit, LocksInv
<1>2. TypeOK /\ LocksInv /\ [ApprovalsNext]_approvalVars => LocksInv'
  BY LocksKept
<1>3. TypeOK /\ LocksInv => Rising /\ Unblocked
  BY LocksRise
<1> QED
  BY <1>1, <1>2, <1>3, ApprovalsTyped, PTL DEF ApprovalsSpec

----------------------------------------------------------------------------
(* Changesets *)

\* The calls that name a changeset, wherever they are.
Named ==
    {e.call : e \in calls} \cup (UNION {ends[n].open : n \in DOMAIN ends})
      \cup (UNION {runs[t].asks : t \in Tab})

Stale(base, versions) == \E r \in DOMAIN base : base[r] < versions[r]

\* What names a changeset has the bases it was staged with; no base is ahead of the
\* disk, and that of an applied changeset is behind it.
BasesInv ==
    /\ \A c \in Named : c.tool = "apply" =>
          /\ c.changeset \in DOMAIN minted
          /\ c.changeset \in Staged => staged[c.changeset] = c.base
          /\ \A r \in c.over : c.base[r] <= disk[r]
          /\ minted[c.changeset] > 0 => Stale(c.base, disk)
    /\ \A c, d \in Named : c.tool = "apply" /\ d.tool = "apply" /\ c.changeset = d.changeset => c.base = d.base
    /\ \A s \in Staged : /\ \A r \in DOMAIN staged[s] : staged[s][r] <= disk[r]
                         /\ minted[s] > 0 => Stale(staged[s], disk)
    /\ OnceApplied

\* What is named are changes.
LEMMA NamedTyped ==
    ASSUME TypeOK
    PROVE  Named \subseteq Change
<1>1. DOMAIN ends = 1 .. Len(ends) /\ \A n \in DOMAIN ends : ends[n] \in End
  BY DEF TypeOK
<1>2. \A e \in calls : e.call \in Change
  BY DEF TypeOK, Execution
<1>3. \A n \in DOMAIN ends : ends[n].open \subseteq Change
  BY <1>1 DEF End
<1>4. \A t \in Tab : runs[t].asks \subseteq Change
  BY DEF TypeOK, Run
<1> QED
  BY <1>2, <1>3, <1>4 DEF Named

\* A change that applies a changeset is over some workspaces, each with its base.
LEMMA ApplyTyped ==
    ASSUME NEW c \in Change, c.tool = "apply"
    PROVE  /\ c.over \in Span /\ c.over \subseteq Root /\ c.over # {}
           /\ c.base \in [c.over -> Nat] /\ DOMAIN c.base = c.over /\ c.base \in Base
<1>1. c.over \in Span /\ c.base \in [c.over -> Nat]
  BY DEF Change
<1>2. DOMAIN c.base = c.over /\ c.base \in Base
  BY <1>1 DEF Base
<1> QED
  BY <1>1, <1>2, ApprovalBounds

\* Versions only grow, so what is stale stays stale.
LEMMA DiskGrows ==
    ASSUME TypeOK
    PROVE  [ApprovalsNext]_approvalVars => \A r \in Root : disk[r] <= disk'[r]
<1>0. \A r \in Root : disk[r] \in Nat
  BY DEF TypeOK
<1>1. ASSUME NEW e \in calls, Commit(e) PROVE \A r \in Root : disk[r] <= disk'[r]
  BY <1>0, <1>1 DEF Commit
<1>2. ASSUME disk' = disk PROVE \A r \in Root : disk[r] <= disk'[r]
  BY <1>0, <1>2
<1> QED
  BY <1>1, <1>2 DEF ApprovalsNext, approvalVars, Prompt, Answer, Discard, Abandon, Resume, Refuse,
     Conclude, Store, Program, Respond, Load, Lock, Forget, Judge, Sweep, Crash

\* A call for a changeset that is there names what the staged one has.
LEMMA ValidNames ==
    ASSUME TypeOK, NEW id, NEW c \in Valid(id), c.tool = "apply"
    PROVE  c.changeset \in Staged /\ c.base = staged[c.changeset] /\ c.over = DOMAIN staged[c.changeset]
<1>1. \A over : Call(id, "write", 0, over, IF Cardinality(over) = 1 THEN Seen(over) ELSE Unchecked).tool = "write"
  BY DEF Call
<1>2. PICK s \in Staged : c = Call(id, "apply", s, DOMAIN staged[s], staged[s])
  BY <1>1 DEF Valid
<1> QED
  BY <1>2 DEF Call

\* A step that commits and stages nothing keeps the bases, whatever it removes and
\* whichever valid calls it makes.
LEMMA BasesUndisturbed ==
    ASSUME TypeOK, BasesInv, UNCHANGED <<disk, minted>>,
           Staged' \subseteq Staged, \A s \in Staged' : staged'[s] = staged[s],
           \A c \in Named' : c \in Named \/ c.tool = "write" \/ \E id \in Nat : c \in Valid(id)
    PROVE  BasesInv'
<1>0. Staged \subseteq DOMAIN minted
  BY DEF TypeOK
<1>1. ASSUME NEW c \in Named', c.tool = "apply"
      PROVE  /\ c.changeset \in DOMAIN minted
             /\ c.changeset \in Staged => staged[c.changeset] = c.base
             /\ \A r \in c.over : c.base[r] <= disk[r]
             /\ minted[c.changeset] > 0 => Stale(c.base, disk)
             /\ c \in Named \/ c.changeset \in Staged
  <2>1. CASE c \in Named
    BY <1>1, <2>1 DEF BasesInv
  <2>2. CASE c \notin Named
    <3>1. PICK id \in Nat : c \in Valid(id)
      BY <1>1, <2>2
    <3>2. c.changeset \in Staged /\ c.base = staged[c.changeset] /\ c.over = DOMAIN staged[c.changeset]
      BY <1>1, <3>1, ValidNames
    <3> QED
      BY <1>0, <3>2 DEF BasesInv
  <2> QED
    BY <2>1, <2>2
<1>2. ASSUME NEW c \in Named', NEW d \in Named', c.tool = "apply", d.tool = "apply", c.changeset = d.changeset
      PROVE  c.base = d.base
  <2>1. CASE c \in Named /\ d \in Named
    BY <1>2, <2>1 DEF BasesInv
  <2>2. CASE c.changeset \in Staged
    BY <1>1, <1>2, <2>2
  <2> QED
    BY <1>1, <1>2, <2>1, <2>2
<1>3. \A s \in Staged' : /\ \A r \in DOMAIN staged'[s] : staged'[s][r] <= disk'[r]
                         /\ minted'[s] > 0 => Stale(staged'[s], disk')
  BY DEF BasesInv
<1> QED
  BY <1>1, <1>2, <1>3 DEF BasesInv, OnceApplied

\* What a turn that ends leaves open was named before.
LEMMA ReplyNames ==
    ASSUME TypeOK, NEW after \in Nat, after <= Len(ends), NEW open \in SUBSET Change, Reply(after, open),
           open \subseteq Named, \A e \in calls' : e.call \in Named,
           \A t \in Tab : runs'[t].asks \subseteq Named
    PROVE  Named' \subseteq Named
<1>1. /\ DOMAIN ends = 1 .. Len(ends) /\ DOMAIN ends' = 1 .. Len(ends) + 1 /\ Len(ends) \in Nat
      /\ \A n \in DOMAIN ends : ends'[n] = ends[n]
      /\ ends'[Len(ends) + 1] = [after |-> after, open |-> open]
  <2>1. Len(ends) \in Nat
    BY DEF TypeOK
  <2> QED
    BY <2>1, Replied
<1>2. \A n \in DOMAIN ends' : ends'[n].open \subseteq Named
  <2>1. \A n \in DOMAIN ends : ends[n].open \subseteq Named
    BY DEF Named
  <2>2. \A n \in DOMAIN ends' : n \in DOMAIN ends \/ n = Len(ends) + 1
    BY <1>1
  <2> HIDE DEF Named
  <2> QED
    BY <1>1, <2>1, <2>2
<1> QED
  BY <1>2 DEF Named

\* What the steps of a request name.
LEMMA RequestNames ==
    ASSUME TypeOK, NEW t \in Tab
    PROVE  \/ \E mode \in {"ask", "write"}, n \in {NoEnd} \cup DOMAIN ends : Prompt(t, mode, n)
           \/ \E mode \in Modes, n \in DOMAIN ends : \E yes \in SUBSET ends[n].open :
                Answer(t, mode, ends[n].open, yes)
           \/ Discard(t) \/ Abandon(t) \/ Resume(t) \/ Refuse(t)
           => Named' \subseteq Named
<1>0. /\ runs[t] \in Run /\ runs[t].end \in 0 .. Len(ends) /\ runs[t].end \in Nat
      /\ runs[t].end <= Len(ends) /\ Len(ends) \in Nat /\ DOMAIN ends = 1 .. Len(ends)
  BY DEF TypeOK, Run
<1>1. \A e \in calls : e.call \in Named
  BY DEF Named
<1>2. \A u \in Tab : runs[u].asks \subseteq Named
  BY DEF Named
<1>3. \A n \in 0 .. Len(ends) : OpenAt(n) \subseteq Named
  BY <1>0 DEF Named, OpenAt, NoEnd
<1>4. ASSUME UNCHANGED ends, \A e \in calls' : e.call \in Named, \A u \in Tab : runs'[u].asks \subseteq Named
      PROVE  Named' \subseteq Named
  BY <1>4 DEF Named
<1>5. ASSUME NEW run, run.asks \subseteq Named, SetRun(t, run)
      PROVE  \A u \in Tab : runs'[u].asks \subseteq Named
  BY <1>2, <1>5 DEF SetRun, TypeOK
<1>6. ASSUME NEW mode \in {"ask", "write"}, NEW n \in {NoEnd} \cup DOMAIN ends, Prompt(t, mode, n)
      PROVE  Named' \subseteq Named
  <2>1. [NoRun EXCEPT !.pc = "read", !.mode = mode, !.end = n].asks = {}
    BY DEF NoRun
  <2> QED
    BY <1>1, <1>4, <1>5, <1>6, <2>1 DEF Prompt
<1>7. ASSUME NEW mode \in Modes, NEW n \in DOMAIN ends, NEW yes \in SUBSET ends[n].open,
             Answer(t, mode, ends[n].open, yes)
      PROVE  Named' \subseteq Named
  <2> DEFINE run == [NoRun EXCEPT !.pc = "read", !.mode = mode, !.end = Active,
                                  !.answers = ends[n].open, !.yes = yes]
  <2>1. run.asks = {}
    BY DEF NoRun
  <2>2. \A u \in Tab : runs'[u].asks \subseteq Named
    BY <1>2, <1>7, <2>1 DEF Answer, SetRun, TypeOK
  <2> QED
    BY <1>1, <1>4, <1>7, <2>2 DEF Answer
<1>8. CASE Discard(t)
  <2>1. \A u \in Tab : runs'[u].asks \subseteq Named
    BY <1>0, <1>2, <1>8 DEF Discard, SetRun, TypeOK, Run
  <2> QED
    BY <1>1, <1>4, <1>8, <2>1 DEF Discard
<1>9. CASE Abandon(t)
  <2>1. \A u \in Tab : runs'[u].asks \subseteq Named
    <3>1. /\ [runs[t] EXCEPT !.pc = "runs"].asks = runs[t].asks
          /\ [runs[t] EXCEPT !.pc = "runs", !.end = Len(ends) + 1].asks = runs[t].asks
      BY <1>0 DEF Run
    <3> QED
      BY <1>2, <1>5, <1>9, <3>1 DEF Abandon
  <2>2. calls' = calls
    BY <1>9 DEF Abandon
  <2>3. CASE UNCHANGED ends
    BY <1>1, <1>4, <2>1, <2>2, <2>3
  <2>4. CASE Reply(runs[t].end, {})
    <3>1. {} \in SUBSET Change /\ {} \subseteq Named
      OBVIOUS
    <3> QED
      BY <1>0, <1>1, <2>1, <2>2, <2>4, <3>1, ReplyNames
  <2> QED
    BY <1>9, <2>3, <2>4 DEF Abandon
<1>10. CASE Resume(t)
  <2>1. \A u \in Tab : runs'[u].asks \subseteq Named
    BY <1>0, <1>2, <1>10 DEF Resume, SetRun, TypeOK, Run
  <2>2. \A e \in calls' : e.call \in Named
    <3>1. \A e \in calls' : e \in calls \/ e.call \in OpenAt(runs[t].end)
      BY <1>10 DEF Resume, Executing
    <3> HIDE DEF Named
    <3> QED
      BY <1>0, <1>1, <1>3, <3>1
  <2> QED
    BY <1>4, <1>10, <2>1, <2>2 DEF Resume
<1>11. CASE Refuse(t)
  <2>1. \A u \in Tab : runs'[u].asks \subseteq Named
    <3>1. NoRun \in Run /\ NoRun.asks = {}
      BY NoRunTyped DEF NoRun
    <3> QED
      BY <1>5, <1>11, <3>1 DEF Refuse
  <2>2. calls' = calls
    BY <1>11 DEF Refuse
  <2>3. CASE UNCHANGED ends
    BY <1>1, <1>4, <2>1, <2>2, <2>3
  <2>4. CASE Reply(runs[t].end, {})
    <3>1. {} \in SUBSET Change /\ {} \subseteq Named
      OBVIOUS
    <3> QED
      BY <1>0, <1>1, <2>1, <2>2, <2>4, <3>1, ReplyNames
  <2> QED
    BY <1>11, <2>3, <2>4 DEF Refuse
<1> QED
  BY <1>6, <1>7, <1>8, <1>9, <1>10, <1>11

\* What the steps of the calls name.
LEMMA CallsName ==
    ASSUME TypeOK, NEW e \in calls
    PROVE  Load(e) \/ Lock(e) \/ Commit(e) \/ Forget(e) => Named' \subseteq Named
<1>1. ASSUME NEW f, f.call = e.call, calls' \subseteq calls \cup {f}, UNCHANGED <<ends, runs>>
      PROVE  Named' \subseteq Named
  BY <1>1 DEF Named
<1>2. e \in Execution
  BY DEF TypeOK
<1>3. ASSUME Load(e) PROVE Named' \subseteq Named
  <2>1. [e EXCEPT !.at = "locks"].call = e.call
    BY <1>2 DEF Execution
  <2> QED
    BY <1>1, <1>3, <2>1 DEF Load, Becomes
<1>4. ASSUME Lock(e) PROVE Named' \subseteq Named
  <2>1. [e EXCEPT !.held = @ \cup {NextLock(e)}].call = e.call
    BY <1>2 DEF Execution
  <2> QED
    BY <1>1, <1>4, <2>1 DEF Lock, Becomes
<1>5. ASSUME Commit(e) PROVE Named' \subseteq Named
  <2>1. [e EXCEPT !.at = "tried", !.held = {}].call = e.call
    BY <1>2 DEF Execution
  <2> QED
    BY <1>1, <1>5, <2>1 DEF Commit, Tried, Becomes
<1>6. ASSUME Forget(e) PROVE Named' \subseteq Named
  BY <1>1, <1>6 DEF Forget
<1> QED
  BY <1>3, <1>4, <1>5, <1>6

\* What the steps of a run that goes on name: only its calls are new.
LEMMA RunsName ==
    ASSUME TypeOK, NEW t \in Tab
    PROVE  \/ \E over \in Span : Program(t, over)
           \/ \E response \in Responses : Respond(t, response)
           \/ Conclude(t) \/ Store(t)
           => \A c \in Named' : c \in Named \/ c.tool = "write" \/ \E id \in Nat : c \in Valid(id)
<1>0. /\ runs[t] \in Run /\ runs[t].end \in Nat /\ runs[t].end <= Len(ends) /\ made \in Nat
  BY DEF TypeOK, Run
<1>1. \A e \in calls : e.call \in Named
  BY DEF Named
<1>2. \A u \in Tab : runs[u].asks \subseteq Named
  BY DEF Named
<1>3. ASSUME NEW over \in Span, Program(t, over), NEW c \in Named'
      PROVE  c \in Named \/ c.tool = "write"
  <2>1. UNCHANGED <<ends, runs>>
    BY <1>3 DEF Program
  <2>2. \A e \in calls' : e \in calls \/ e.call.tool = "write"
    BY <1>3 DEF Program, Executing, Call
  <2> QED
    BY <1>3, <2>1, <2>2 DEF Named
<1>4. ASSUME NEW response \in Responses, Respond(t, response), NEW c \in Named'
      PROVE  c \in Named \/ \E id \in Nat : c \in Valid(id)
  <2>1. \A d \in response : \E id \in Nat : d \in Valid(id)
    <3>1. made + 1 \in Nat /\ made + 2 \in Nat
      BY <1>0
    <3>2. response \subseteq Valid(made + 1) \cup Valid(made + 2)
      BY DEF Responses
    <3> QED
      BY <3>1, <3>2
  <2>2. UNCHANGED ends /\ \A e \in calls' : e \in calls \/ e.call \in response
    BY <1>4 DEF Respond, Executing
  <2>3. \A u \in Tab : runs'[u].asks = runs[u].asks \/ runs'[u].asks = response
    <3>1. [runs[t] EXCEPT !.pc = "ends", !.asks = response].asks = response
      BY <1>0 DEF Run
    <3>2. runs \in [Tab -> Run]
      BY DEF TypeOK
    <3> QED
      BY <1>4, <3>1, <3>2 DEF Respond, SetRun
  <2>4. c \in Named \/ c \in response
    BY <1>4, <2>2, <2>3 DEF Named
  <2> QED
    BY <2>1, <2>4
<1>5. ASSUME Conclude(t) PROVE Named' \subseteq Named
  <2>1. \A u \in Tab : runs'[u].asks \subseteq Named
    BY <1>0, <1>2, <1>5 DEF Conclude, SetRun, TypeOK, Run
  <2>2. \A e \in calls' : \E f \in calls : e.call = f.call
    <3>1. \A f \in calls : [f EXCEPT !.at = "tried"].call = f.call
      BY DEF TypeOK, Execution
    <3>2. ASSUME NEW e \in calls' PROVE e \in calls \/ \E f \in calls : e = [f EXCEPT !.at = "tried"]
      BY <1>5 DEF Conclude, Mine
    <3> QED
      BY <3>1, <3>2
  <2> QED
    BY <1>5, <2>1, <2>2 DEF Conclude, Named
<1>6. ASSUME Store(t) PROVE Named' \subseteq Named
  <2>1. \A u \in Tab : runs'[u].asks \subseteq Named
    BY <1>2, <1>6 DEF Store, SetRun, TypeOK, NoRun
  <2>2. runs[t].asks \in SUBSET Change /\ runs[t].asks \subseteq Named
    BY <1>0, <1>2 DEF Run
  <2> QED
    BY <1>0, <1>1, <1>6, <2>1, <2>2, ReplyNames DEF Store
<1> QED
  BY <1>3, <1>4, <1>5, <1>6

\* A program stages what nobody names yet.
LEMMA Stages ==
    ASSUME TypeOK, BasesInv, NEW t \in Tab, NEW over \in Span, Program(t, over)
    PROVE  BasesInv'
<1>1. CASE UNCHANGED <<minted, staged>>
  BY <1>1, RunsName, BasesUndisturbed DEF Program, Staged
<1>2. CASE runs[t].mode = "ask"
  <2> DEFINE new == Len(minted) + 1
  <2>1. /\ minted \in Seq(Nat) /\ Len(minted) \in Nat /\ DOMAIN minted = 1 .. Len(minted)
        /\ DOMAIN minted' = DOMAIN minted \cup {new} /\ new \notin DOMAIN minted
        /\ minted'[new] = 0 /\ \A s \in DOMAIN minted : minted'[s] = minted[s]
    <3>1. minted \in Seq(Nat) /\ 0 \in Nat /\ minted' = Append(minted, 0)
      BY <1>2 DEF Program, TypeOK
    <3> QED
      BY <3>1
  <2>2. /\ UNCHANGED <<disk, ends, runs, calls>>
        /\ Staged' = Staged \cup {new} /\ staged'[new] = Seen(over)
        /\ \A s \in Staged : staged'[s] = staged[s] /\ s \in DOMAIN minted /\ s # new
    BY <1>2, <2>1 DEF Program, Staged, TypeOK
  <2> HIDE DEF new
  <2>3. Named' = Named
    BY <2>2 DEF Named
  <2>4. ASSUME NEW c \in Named', c.tool = "apply"
        PROVE  /\ c.changeset \in DOMAIN minted'
               /\ c.changeset \in Staged' => staged'[c.changeset] = c.base
               /\ \A r \in c.over : c.base[r] <= disk'[r]
               /\ minted'[c.changeset] > 0 => Stale(c.base, disk')
    BY <2>1, <2>2, <2>3, <2>4 DEF BasesInv
  <2>5. ASSUME NEW s \in Staged'
        PROVE  /\ \A r \in DOMAIN staged'[s] : staged'[s][r] <= disk'[r]
               /\ minted'[s] > 0 => Stale(staged'[s], disk')
    <3>1. CASE s = new
      <4>1. DOMAIN Seen(over) = over /\ over \subseteq Root /\ \A r \in over : Seen(over)[r] = disk[r]
        BY ApprovalBounds DEF Seen
      <4>2. \A r \in Root : disk[r] <= disk[r]
        BY DEF TypeOK
      <4> QED
        BY <2>1, <2>2, <3>1, <4>1, <4>2
    <3>2. CASE s \in Staged
      BY <2>1, <2>2, <3>2 DEF BasesInv
    <3> QED
      BY <2>2, <3>1, <3>2
  <2>6. OnceApplied'
    BY <2>1 DEF BasesInv, OnceApplied
  <2>7. \A c, d \in Named' : c.tool = "apply" /\ d.tool = "apply" /\ c.changeset = d.changeset => c.base = d.base
    BY <2>3 DEF BasesInv
  <2> QED
    BY <2>4, <2>5, <2>6, <2>7 DEF BasesInv
<1> QED
  BY <1>1, <1>2 DEF Program

\* A changeset that commits was not stale, so it was never applied; now it is, and stale.
LEMMA Applies ==
    ASSUME TypeOK, BasesInv, NEW e \in calls, Commit(e)
    PROVE  BasesInv'
<1>0. e.call \in Change /\ e.call \in Named
  BY DEF TypeOK, Execution, Named
<1>1. Named' \subseteq Named /\ Named \subseteq Change
  BY CallsName, NamedTyped
<1>2. \A r \in Root : disk[r] \in Nat /\ disk'[r] \in Nat /\ disk[r] <= disk'[r]
  BY DEF Commit, TypeOK
<1>3. ASSUME NEW base \in Base, Stale(base, disk) PROVE Stale(base, disk')
  <2>1. PICK over \in Span : base \in [over -> Nat]
    BY DEF Base
  <2>2. \A r \in DOMAIN base : r \in Root /\ base[r] \in Nat
    BY <2>1, ApprovalBounds
  <2> QED
    BY <1>2, <1>3, <2>2 DEF Stale
<1>4. /\ DOMAIN minted' = DOMAIN minted
      /\ \A s \in DOMAIN minted : \/ minted'[s] = minted[s]
                                  \/ /\ minted'[s] = minted[s] + 1 /\ Admits(e)
                                     /\ e.call.tool = "apply" /\ e.call.changeset = s
  BY MintedOnce DEF Commit
<1>5. ASSUME e.call.tool = "apply", Admits(e)
      PROVE  ~Stale(e.call.base, disk) /\ Stale(e.call.base, disk')
  <2>1. /\ e.call.over \subseteq Root /\ e.call.over # {} /\ DOMAIN e.call.base = e.call.over
        /\ e.call.base \in [e.call.over -> Nat]
    BY <1>0, <1>5, ApplyTyped
  <2>2. PICK r \in e.call.over : TRUE
    BY <2>1
  <2>3. disk'[r] = disk[r] + 1 /\ e.call.base[r] = disk[r] /\ disk[r] \in Nat
    BY <1>5, <2>1, <2>2 DEF Commit, Admits, TypeOK
  <2>4. ~Stale(e.call.base, disk)
    BY <1>2, <1>5, <2>1 DEF Stale, Admits
  <2> QED
    BY <2>1, <2>3, <2>4 DEF Stale
<1>6. /\ Staged' = Staged /\ \A s \in Staged : staged'[s] = staged[s] /\ s \in DOMAIN minted /\ staged[s] \in Base
      /\ \A s \in DOMAIN minted : minted[s] \in Nat
  BY DEF Commit, Staged, TypeOK
<1>7. ASSUME NEW c \in Named', c.tool = "apply"
      PROVE  /\ c.changeset \in DOMAIN minted'
             /\ c.changeset \in Staged' => staged'[c.changeset] = c.base
             /\ \A r \in c.over : c.base[r] <= disk'[r]
             /\ minted'[c.changeset] > 0 => Stale(c.base, disk')
  <2>1. /\ c \in Named /\ c \in Change /\ c.base \in Base /\ c.base \in [c.over -> Nat]
        /\ c.over \subseteq Root
    BY <1>1, <1>7, ApplyTyped
  <2>2. c.changeset \in DOMAIN minted /\ (c.changeset \in Staged => staged[c.changeset] = c.base)
    BY <1>7, <2>1 DEF BasesInv
  <2>3. \A r \in c.over : c.base[r] <= disk'[r]
    BY <1>2, <1>7, <2>1 DEF BasesInv
  <2>4. ASSUME minted'[c.changeset] > 0 PROVE Stale(c.base, disk')
    <3>1. CASE minted[c.changeset] > 0
      BY <1>3, <1>7, <2>1, <3>1 DEF BasesInv
    <3>2. CASE ~(minted[c.changeset] > 0)
      <4>1. Admits(e) /\ e.call.tool = "apply" /\ e.call.changeset = c.changeset
        BY <1>4, <2>2, <2>4, <3>2
      <4>2. c.base = e.call.base
        BY <1>0, <1>7, <2>1, <4>1 DEF BasesInv
      <4> QED
        BY <1>5, <4>1, <4>2
    <3> QED
      BY <3>1, <3>2
  <2> QED
    BY <1>4, <1>6, <2>2, <2>3, <2>4
<1>8. ASSUME NEW s \in Staged'
      PROVE  /\ \A r \in DOMAIN staged'[s] : staged'[s][r] <= disk'[r]
             /\ minted'[s] > 0 => Stale(staged'[s], disk')
  <2>1. s \in Staged /\ staged'[s] = staged[s] /\ s \in DOMAIN minted /\ staged[s] \in Base
    BY <1>6
  <2>2. \A r \in DOMAIN staged[s] : r \in Root /\ staged[s][r] \in Nat
    <3>1. PICK over \in Span : staged[s] \in [over -> Nat]
      BY <2>1 DEF Base
    <3> QED
      BY <3>1, ApprovalBounds
  <2>3. \A r \in DOMAIN staged[s] : staged[s][r] <= disk'[r]
    BY <1>2, <2>1, <2>2 DEF BasesInv
  <2>4. ASSUME minted'[s] > 0 PROVE Stale(staged[s], disk')
    <3>1. CASE minted[s] > 0
      <4>1. Stale(staged[s], disk)
        BY <2>1, <3>1 DEF BasesInv
      <4> QED
        BY <1>6, <2>1, <2>2, <1>2, <4>1 DEF Stale
    <3>2. CASE ~(minted[s] > 0)
      <4>1. Admits(e) /\ e.call.tool = "apply" /\ e.call.changeset = s
        BY <1>4, <2>1, <2>4, <3>2
      <4>2. staged[s] = e.call.base
        BY <1>0, <2>1, <4>1 DEF BasesInv
      <4>3. Stale(e.call.base, disk')
        BY <1>5, <4>1
      <4> QED
        BY <1>6, <2>1, <4>2, <4>3 DEF Stale
    <3> QED
      BY <3>1, <3>2
  <2> QED
    BY <1>6, <2>1, <2>3, <2>4 DEF Stale
<1>9. OnceApplied'
  <2>1. ASSUME NEW s \in DOMAIN minted PROVE minted'[s] <= 1
    <3>1. CASE minted'[s] = minted[s]
      BY <3>1 DEF BasesInv, OnceApplied
    <3>2. CASE /\ minted'[s] = minted[s] + 1 /\ Admits(e)
               /\ e.call.tool = "apply" /\ e.call.changeset = s
      <4>1. ~(minted[s] > 0)
        BY <1>0, <1>5, <3>2 DEF BasesInv
      <4> QED
        BY <1>6, <3>2, <4>1
    <3> QED
      BY <1>4, <3>1, <3>2
  <2> QED
    BY <1>4, <2>1 DEF OnceApplied
<1>10. \A c, d \in Named' : c.tool = "apply" /\ d.tool = "apply" /\ c.changeset = d.changeset => c.base = d.base
  BY <1>1 DEF BasesInv
<1> QED
  BY <1>7, <1>8, <1>9, <1>10 DEF BasesInv

\* Every step keeps the bases.
LEMMA BasesKept ==
    ASSUME TypeOK, BasesInv
    PROVE  [ApprovalsNext]_approvalVars => BasesInv'
<1>1. ASSUME NEW t \in Tab,
             \/ \E mode \in {"ask", "write"}, n \in {NoEnd} \cup DOMAIN ends : Prompt(t, mode, n)
             \/ \E mode \in Modes, n \in DOMAIN ends : \E yes \in SUBSET ends[n].open :
                  Answer(t, mode, ends[n].open, yes)
             \/ Discard(t) \/ Abandon(t) \/ Resume(t) \/ Refuse(t)
      PROVE  BasesInv'
  <2>1. Named' \subseteq Named
    BY <1>1, RequestNames
  <2>2. UNCHANGED <<disk, minted>>
    BY <1>1 DEF Prompt, Answer, Discard, Abandon, Resume, Refuse
  <2>3. Staged' \subseteq Staged /\ \A s \in Staged' : staged'[s] = staged[s]
    BY <1>1 DEF Prompt, Answer, Discard, Abandon, Resume, Refuse, Staged, Restrict
  <2> QED
    BY <2>1, <2>2, <2>3, BasesUndisturbed
<1>2. ASSUME NEW e \in calls, Load(e) \/ Lock(e) \/ Forget(e)
      PROVE  BasesInv'
  <2>1. Named' \subseteq Named
    BY <1>2, CallsName
  <2>2. UNCHANGED <<disk, minted>>
    BY <1>2 DEF Load, Lock, Forget
  <2>3. Staged' \subseteq Staged /\ \A s \in Staged' : staged'[s] = staged[s]
    BY <1>2 DEF Load, Lock, Forget, Staged, Restrict
  <2> QED
    BY <2>1, <2>2, <2>3, BasesUndisturbed
<1>3. ASSUME NEW t \in Tab,
             (\E response \in Responses : Respond(t, response)) \/ Conclude(t) \/ Store(t)
      PROVE  BasesInv'
  <2>1. UNCHANGED <<disk, minted, staged>>
    BY <1>3 DEF Respond, Conclude, Store
  <2> QED
    BY <1>3, <2>1, RunsName, BasesUndisturbed DEF Staged
<1>4. ASSUME Judge \/ Sweep \/ Crash \/ UNCHANGED approvalVars
      PROVE  BasesInv'
  <2>1. UNCHANGED <<disk, minted, ends>>
    BY <1>4 DEF Judge, Sweep, Crash, approvalVars
  <2>2. Staged' \subseteq Staged /\ \A s \in Staged' : staged'[s] = staged[s]
    BY <1>4 DEF Judge, Sweep, Crash, approvalVars, Staged
  <2>3. calls' \subseteq calls /\ \A t \in Tab : runs'[t].asks \subseteq runs[t].asks
    BY <1>4 DEF Judge, Sweep, Crash, approvalVars, NoRun
  <2>4. Named' \subseteq Named
    BY <2>1, <2>3 DEF Named
  <2> QED
    BY <2>1, <2>2, <2>4, BasesUndisturbed
<1> QED
  BY <1>1, <1>2, <1>3, <1>4, Applies, Stages DEF ApprovalsNext

\* Answers are never taken back.
LEMMA AnswersStay ==
    [ApprovalsNext]_approvalVars => \A c : Approved(c) => Approved(c)'
BY DEF ApprovalsNext, approvalVars, Approved, Prompt, Answer, Discard, Abandon, Resume, Refuse,
   Conclude, Store, Program, Respond, Load, Lock, Commit, Forget, Judge, Sweep, Crash

\* A request that discarded what it found unapproved.
Judged(t) == runs[t].pc \in {"judged", "runs", "ends"}

\* What a turn left open and is not approved is gone from the folder.
Cleared(n) == \A c \in OpenAt(n) : c.tool = "apply" /\ c.changeset \in Staged => Approved(c)

\* A run that judged what its end left open left nothing unapproved behind, and neither
\* did those that are stored by now; what a run approves is approved.
JudgedInv ==
    /\ \A t \in Tab : \A c \in runs[t].yes : Approved(c)
    /\ \A t \in Tab : Judged(t) => Cleared(runs[t].end)
    /\ \A n \in DOMAIN ends : (\E m \in DOMAIN ends : ends[m].after = n) => Cleared(n)

\* A changeset that is staged in a step was named by nothing before it.
LEMMA StagedAnew ==
    ASSUME TypeOK, BasesInv, NEW n \in 0 .. Len(ends), NEW c \in OpenAt(n), c.tool = "apply"
    PROVE  [ApprovalsNext]_approvalVars => (c.changeset \in Staged' => c.changeset \in Staged)
<1>1. c.changeset \in DOMAIN minted /\ DOMAIN minted = 1 .. Len(minted) /\ Len(minted) \in Nat
  <2>1. DOMAIN ends = 1 .. Len(ends)
    BY DEF TypeOK
  <2>2. c \in Named
    BY <2>1 DEF OpenAt, NoEnd, Named
  <2> QED
    BY <2>2 DEF BasesInv, TypeOK
<1>2. ASSUME NEW t \in Tab, NEW over \in Span, Program(t, over), c.changeset \in Staged'
      PROVE  c.changeset \in Staged
  <2>1. Staged' = Staged \/ Staged' = Staged \cup {Len(minted) + 1}
    BY <1>2 DEF Program, Staged
  <2> QED
    BY <1>1, <1>2, <2>1
<1>3. ASSUME UNCHANGED staged PROVE Staged' \subseteq Staged
  BY <1>3 DEF Staged
<1>4. ASSUME NEW t \in Tab, Discard(t) PROVE Staged' \subseteq Staged
  BY <1>4 DEF Discard, Staged, Restrict
<1>5. ASSUME NEW e \in calls, Forget(e) PROVE Staged' \subseteq Staged
  BY <1>5 DEF Forget, Staged, Restrict
<1>6. ASSUME Sweep PROVE Staged' \subseteq Staged
  BY <1>6 DEF Sweep, Staged
<1> HIDE DEF Staged
<1> QED
  BY <1>2, <1>3, <1>4, <1>5, <1>6 DEF ApprovalsNext, approvalVars, Prompt, Answer, Abandon,
     Resume, Refuse, Conclude, Store, Respond, Load, Lock, Commit, Judge, Crash

\* Whatever a step does: a turn that was there stays cleared.
LEMMA ClearedStays ==
    ASSUME TypeOK, BasesInv, NEW n \in 0 .. Len(ends), Cleared(n)
    PROVE  [ApprovalsNext]_approvalVars /\ OpenAt(n)' = OpenAt(n) => Cleared(n)'
  BY StagedAnew, AnswersStay DEF Cleared

\* It is enough to look at what a step turns into a judged run or a stored turn.
LEMMA JudgedStep ==
    ASSUME TypeOK, TypeOK', JudgedInv, \A c : Approved(c) => Approved(c)',
           \A n \in 0 .. Len(ends) : Cleared(n) => Cleared(n)',
           \A t \in Tab : \A c \in runs'[t].yes : c \in runs[t].yes \/ Approved(c)',
           \A t \in Tab : Judged(t)' => \/ Judged(t) /\ runs'[t].end = runs[t].end
                                        \/ Cleared(runs[t].end)',
           \A m \in DOMAIN ends' : \/ m \in DOMAIN ends /\ ends'[m] = ends[m]
                                   \/ Cleared(ends[m].after)'
    PROVE  JudgedInv'
<1>0. DOMAIN ends = 1 .. Len(ends) /\ DOMAIN ends' = 1 .. Len(ends') /\ Len(ends) \in Nat /\ Len(ends') \in Nat
  BY DEF TypeOK
<1>1. ASSUME NEW t \in Tab, NEW c \in runs'[t].yes PROVE Approved(c)'
  BY DEF JudgedInv
<1>2. ASSUME NEW t \in Tab, Judged(t)' PROVE Cleared(runs[t].end)'
  <2>1. CASE Judged(t) /\ runs'[t].end = runs[t].end
    <3>1. Cleared(runs[t].end) /\ runs[t].end \in 0 .. Len(ends)
      BY <2>1 DEF JudgedInv, TypeOK, Run
    <3>2. PICK n \in 0 .. Len(ends) : n = runs[t].end
      BY <3>1
    <3>3. Cleared(n)'
      BY <3>1, <3>2
    <3> QED
      BY <2>1, <3>2, <3>3
  <2> QED
    BY <1>2, <2>1
<1>3. ASSUME NEW n \in DOMAIN ends', NEW m \in DOMAIN ends', ends'[m].after = n PROVE Cleared(n)'
  <2>1. CASE m \in DOMAIN ends /\ ends'[m] = ends[m]
    <3>1. n \in DOMAIN ends
      BY <1>0, <1>3, <2>1 DEF TypeOK
    <3>2. Cleared(n) /\ n \in 0 .. Len(ends)
      BY <1>0, <1>3, <2>1, <3>1 DEF JudgedInv
    <3> QED
      BY <3>2
  <2>2. CASE Cleared(ends[m].after)'
    BY <1>3, <2>2
  <2> QED
    BY <2>1, <2>2
<1> QED
  BY <1>1, <1>2, <1>3 DEF JudgedInv

\* What was judged when it was stored, or when it failed, stays cleared.
LEMMA JudgedReply ==
    ASSUME TypeOK, TypeOK', JudgedInv, \A c : Approved(c) => Approved(c)',
           \A n \in 0 .. Len(ends) : Cleared(n) => Cleared(n)',
           NEW t \in Tab, Judged(t), NEW open \in SUBSET Change, Reply(runs[t].end, open),
           \A u \in Tab : \A c \in runs'[u].yes : c \in runs[u].yes,
           \A u \in Tab : Judged(u)' => \/ Judged(u) /\ runs'[u].end = runs[u].end
                                        \/ Cleared(runs[u].end)'
    PROVE  JudgedInv'
<1>1. /\ runs[t].end \in Nat /\ runs[t].end <= Len(ends) /\ runs[t].end \in 0 .. Len(ends)
      /\ Len(ends) \in Nat
  BY DEF TypeOK, Run
<1>2. /\ DOMAIN ends = 1 .. Len(ends) /\ DOMAIN ends' = 1 .. Len(ends) + 1
      /\ \A m \in DOMAIN ends : ends'[m] = ends[m]
      /\ ends'[Len(ends) + 1] = [after |-> runs[t].end, open |-> open]
  BY <1>1, Replied
<1>3. Cleared(runs[t].end) /\ \A n : n = runs[t].end => Cleared(n)'
  BY <1>1 DEF JudgedInv
<1>4. ASSUME NEW m \in DOMAIN ends' PROVE \/ m \in DOMAIN ends /\ ends'[m] = ends[m]
                                          \/ Cleared(ends[m].after)'
  <2>1. CASE m \in DOMAIN ends
    BY <1>2, <2>1
  <2>2. CASE m = Len(ends) + 1
    <3>1. ends'[m].after = runs[t].end
      BY <1>2, <2>2
    <3> QED
      BY <1>3, <3>1
  <2> QED
    BY <1>1, <1>2, <2>1, <2>2
<1> QED
  BY <1>4, JudgedStep

\* Most steps of a request: it goes on, or is only about to judge.
LEMMA RequestJudges ==
    ASSUME TypeOK, TypeOK', JudgedInv, \A c : Approved(c) => Approved(c)',
           \A n \in 0 .. Len(ends) : Cleared(n) => Cleared(n)', NEW t \in Tab
    PROVE  \/ \E mode \in {"ask", "write"}, n \in {NoEnd} \cup DOMAIN ends : Prompt(t, mode, n)
           \/ \E mode \in Modes, n \in DOMAIN ends : \E yes \in SUBSET ends[n].open :
                Answer(t, mode, ends[n].open, yes)
           \/ Discard(t) \/ Abandon(t) \/ Resume(t) \/ Refuse(t)
           => JudgedInv'
<1>0. runs[t] \in Run /\ runs[t].end \in Nat /\ runs[t].end <= Len(ends) /\ runs \in [Tab -> Run]
  BY DEF TypeOK, Run
<1>1. ASSUME NEW run, SetRun(t, run), UNCHANGED ends, run.pc \notin {"judged", "runs", "ends"},
             \A c \in run.yes : Approved(c)'
      PROVE  JudgedInv'
  <2>1. runs'[t] = run /\ \A u \in Tab \ {t} : runs'[u] = runs[u]
    BY <1>0, <1>1 DEF SetRun
  <2>2. \A u \in Tab : \A c \in runs'[u].yes : c \in runs[u].yes \/ Approved(c)'
    BY <1>1, <2>1
  <2>3. \A u \in Tab : Judged(u)' => Judged(u) /\ runs'[u].end = runs[u].end
    BY <1>1, <2>1 DEF Judged
  <2>4. \A m \in DOMAIN ends' : m \in DOMAIN ends /\ ends'[m] = ends[m]
    BY <1>1
  <2> QED
    BY <2>2, <2>3, <2>4, JudgedStep
<1>2. ASSUME NEW run, SetRun(t, run), UNCHANGED ends, run.yes = runs[t].yes,
             \/ Judged(t) /\ run.end = runs[t].end
             \/ Cleared(runs[t].end)'
      PROVE  JudgedInv'
  <2>1. runs'[t] = run /\ \A u \in Tab \ {t} : runs'[u] = runs[u]
    BY <1>0, <1>2 DEF SetRun
  <2>2. \A u \in Tab : \A c \in runs'[u].yes : c \in runs[u].yes
    BY <1>2, <2>1
  <2>3. \A u \in Tab : Judged(u)' => (Judged(u) /\ runs'[u].end = runs[u].end) \/ Cleared(runs[u].end)'
    <3>1. ASSUME NEW u \in Tab, u # t, Judged(u)' PROVE Judged(u) /\ runs'[u].end = runs[u].end
      BY <2>1, <3>1 DEF Judged
    <3>2. ASSUME Judged(t)' PROVE (Judged(t) /\ runs'[t].end = runs[t].end) \/ Cleared(runs[t].end)'
      BY <1>2, <2>1
    <3> QED
      BY <3>1, <3>2
  <2>4. \A m \in DOMAIN ends' : m \in DOMAIN ends /\ ends'[m] = ends[m]
    BY <1>2
  <2> QED
    BY <2>2, <2>3, <2>4, JudgedStep
<1>3. ASSUME NEW mode \in {"ask", "write"}, NEW n \in {NoEnd} \cup DOMAIN ends, Prompt(t, mode, n)
      PROVE  JudgedInv'
  <2> DEFINE run == [NoRun EXCEPT !.pc = "read", !.mode = mode, !.end = n]
  <2>1. run.pc = "read" /\ run.yes = {}
    BY DEF NoRun
  <2>2. SetRun(t, run) /\ UNCHANGED ends
    BY <1>3 DEF Prompt
  <2> HIDE DEF run
  <2> QED
    BY <1>1, <2>1, <2>2
<1>4. ASSUME NEW mode \in Modes, NEW n \in DOMAIN ends, NEW yes \in SUBSET ends[n].open,
             Answer(t, mode, ends[n].open, yes)
      PROVE  JudgedInv'
  <2> DEFINE run == [NoRun EXCEPT !.pc = "read", !.mode = mode, !.end = Active,
                                  !.answers = ends[n].open, !.yes = yes]
  <2>1. run.pc = "read" /\ run.yes = yes
    BY DEF NoRun
  <2>2. SetRun(t, run) /\ UNCHANGED ends
    BY <1>4 DEF Answer
  <2>3. ASSUME NEW c \in yes PROVE Approved(c)'
    <3>1. (c \in yes) = TRUE /\ c \in ends[n].open
      OBVIOUS
    <3>2. <<c, c \in yes>> \in answered'
      BY <1>4, <3>1 DEF Answer
    <3> QED
      BY <3>1, <3>2 DEF Approved
  <2> HIDE DEF run
  <2> QED
    BY <1>1, <2>1, <2>2, <2>3
<1>5. CASE Discard(t)
  <2> DEFINE run == [runs[t] EXCEPT !.pc = "judged"]
  <2>1. SetRun(t, run) /\ UNCHANGED ends /\ run.yes = runs[t].yes
    BY <1>0, <1>5 DEF Discard, Run
  <2>2. runs'[t].end = runs[t].end
    BY <1>0, <1>5 DEF Discard, SetRun, Run
  <2>3. ASSUME NEW c \in OpenAt(runs[t].end), c.tool = "apply", c.changeset \in Staged'
        PROVE  Approved(c)'
    <3>1. c.changeset \notin Discarded(runs[t])
      BY <1>5, <2>3 DEF Discard, Staged, Restrict
    <3>2. c \in runs[t].yes
      BY <2>3, <3>1 DEF Discarded
    <3> QED
      BY <3>2 DEF JudgedInv
  <2>4. \A n : OpenAt(n)' = OpenAt(n)
    BY <2>1 DEF OpenAt
  <2>5. Cleared(runs[t].end)'
    BY <2>2, <2>3, <2>4 DEF Cleared
  <2> HIDE DEF run
  <2> QED
    BY <1>2, <2>1, <2>5
<1>6. CASE Abandon(t)
  <2>0. Judged(t)
    BY <1>6 DEF Abandon, Judged
  <2>1. CASE UNCHANGED ends /\ SetRun(t, [runs[t] EXCEPT !.pc = "runs"])
    <3>1. [runs[t] EXCEPT !.pc = "runs"].yes = runs[t].yes /\ [runs[t] EXCEPT !.pc = "runs"].end = runs[t].end
      BY <1>0 DEF Run
    <3> QED
      BY <1>2, <2>0, <2>1, <3>1
  <2>2. CASE /\ Reply(runs[t].end, {})
             /\ SetRun(t, [runs[t] EXCEPT !.pc = "runs", !.end = Len(ends) + 1])
    <3> DEFINE run == [runs[t] EXCEPT !.pc = "runs", !.end = Len(ends) + 1]
    <3>1. run.yes = runs[t].yes /\ run.end = Len(ends) + 1
      BY <1>0 DEF Run
    <3>2. SetRun(t, run)
      BY <2>2
    <3> HIDE DEF run
    <3>3. runs'[t] = run /\ \A u \in Tab \ {t} : runs'[u] = runs[u]
      BY <1>0, <3>2 DEF SetRun
    <3>4. {} \in SUBSET Change
      OBVIOUS
    <3>5. ends'[Len(ends) + 1] = [after |-> runs[t].end, open |-> {}]
      BY <1>0, <2>2, <3>4, Replied
    <3>6. Cleared(runs[t].end)'
      BY <3>1, <3>3, <3>5 DEF Cleared, OpenAt, NoEnd
    <3>7. \A u \in Tab : \A c \in runs'[u].yes : c \in runs[u].yes
      BY <3>1, <3>3
    <3>8. \A u \in Tab : Judged(u)' => (Judged(u) /\ runs'[u].end = runs[u].end) \/ Cleared(runs[u].end)'
      <4>1. ASSUME NEW u \in Tab, u # t, Judged(u)' PROVE Judged(u) /\ runs'[u].end = runs[u].end
        BY <3>3, <4>1 DEF Judged
      <4> QED
        BY <3>6, <4>1
    <3> QED
      BY <2>0, <2>2, <3>4, <3>7, <3>8, JudgedReply
  <2> QED
    BY <1>6, <2>1, <2>2 DEF Abandon
<1>7. CASE Resume(t)
  <2>1. [runs[t] EXCEPT !.pc = "runs", !.answers = {}].yes = runs[t].yes
        /\ [runs[t] EXCEPT !.pc = "runs", !.answers = {}].end = runs[t].end
    BY <1>0 DEF Run
  <2> QED
    BY <1>2, <1>7, <2>1 DEF Resume, Judged
<1>8. CASE Refuse(t)
  <2>1. NoRun.pc = "idle" /\ NoRun.yes = {} /\ SetRun(t, NoRun)
    BY <1>8 DEF Refuse, NoRun
  <2>2. CASE UNCHANGED ends
    BY <1>1, <2>1, <2>2
  <2>3. CASE Reply(runs[t].end, {})
    <3>1. runs'[t] = NoRun /\ \A u \in Tab \ {t} : runs'[u] = runs[u]
      BY <1>0, <2>1 DEF SetRun
    <3>2. \A u \in Tab : \A c \in runs'[u].yes : c \in runs[u].yes
      BY <2>1, <3>1
    <3>3. \A u \in Tab : Judged(u)' => Judged(u) /\ runs'[u].end = runs[u].end
      BY <2>1, <3>1 DEF Judged
    <3>4. {} \in SUBSET Change /\ Judged(t)
      BY <1>8 DEF Refuse, Judged
    <3> QED
      BY <2>3, <3>2, <3>3, <3>4, JudgedReply
  <2> QED
    BY <1>8, <2>2, <2>3 DEF Refuse
<1> QED
  BY <1>3, <1>4, <1>5, <1>6, <1>7, <1>8

\* The steps of a run that goes on, of its calls and around the runs.
LEMMA OthersJudge ==
    ASSUME TypeOK, TypeOK', JudgedInv, \A c : Approved(c) => Approved(c)',
           \A n \in 0 .. Len(ends) : Cleared(n) => Cleared(n)'
    PROVE  \/ \E t \in Tab : \/ \E over \in Span : Program(t, over)
                             \/ \E response \in Responses : Respond(t, response)
                             \/ Conclude(t) \/ Store(t)
           \/ \E e \in calls : Load(e) \/ Lock(e) \/ Commit(e) \/ Forget(e)
           \/ Judge \/ Sweep \/ Crash \/ UNCHANGED approvalVars
           => JudgedInv'
<1>0. \A t \in Tab : runs[t] \in Run
  BY DEF TypeOK
<1>1. ASSUME UNCHANGED ends,
             \A t \in Tab : \A c \in runs'[t].yes : c \in runs[t].yes,
             \A t \in Tab : Judged(t)' => Judged(t) /\ runs'[t].end = runs[t].end
      PROVE  JudgedInv'
  BY <1>1, JudgedStep
<1>2. ASSUME UNCHANGED <<ends, runs>> PROVE JudgedInv'
  BY <1>1, <1>2 DEF Judged
<1>3. ASSUME NEW t \in Tab, NEW response \in Responses, Respond(t, response) PROVE JudgedInv'
  <2>1. runs' = runs \/ runs' = [runs EXCEPT ![t] = [runs[t] EXCEPT !.pc = "ends", !.asks = response]]
    BY <1>3 DEF Respond, SetRun
  <2>2. Judged(t) /\ UNCHANGED ends
    BY <1>3 DEF Respond, MayAct, Judged
  <2>3. \A u \in Tab : runs'[u].yes = runs[u].yes /\ runs'[u].end = runs[u].end /\ (u # t => runs'[u] = runs[u])
    <3>1. LET run == [runs[t] EXCEPT !.pc = "ends", !.asks = response] IN
            run.yes = runs[t].yes /\ run.end = runs[t].end
      BY <1>0 DEF Run
    <3> QED
      BY <2>1, <3>1 DEF TypeOK
  <2> QED
    BY <1>1, <2>2, <2>3 DEF Judged
<1>4. ASSUME NEW t \in Tab, Conclude(t) PROVE JudgedInv'
  <2>1. runs' = [runs EXCEPT ![t] = [runs[t] EXCEPT !.pc = "ends"]]
    BY <1>4 DEF Conclude, SetRun
  <2>2. Judged(t) /\ UNCHANGED ends
    BY <1>4 DEF Conclude, Judged
  <2>3. \A u \in Tab : runs'[u].yes = runs[u].yes /\ runs'[u].end = runs[u].end /\ (u # t => runs'[u] = runs[u])
    BY <1>0, <2>1 DEF Run, TypeOK
  <2> QED
    BY <1>1, <2>2, <2>3 DEF Judged
<1>5. ASSUME NEW t \in Tab, Store(t) PROVE JudgedInv'
  <2>1. Judged(t) /\ runs[t].asks \in SUBSET Change /\ Reply(runs[t].end, runs[t].asks)
    BY <1>0, <1>5 DEF Store, Judged, Run
  <2>2. runs'[t] = NoRun /\ \A u \in Tab \ {t} : runs'[u] = runs[u]
    BY <1>5 DEF Store, SetRun, TypeOK
  <2>3. \A u \in Tab : \A c \in runs'[u].yes : c \in runs[u].yes
    BY <2>2 DEF NoRun
  <2>4. \A u \in Tab : Judged(u)' => Judged(u) /\ runs'[u].end = runs[u].end
    BY <2>2 DEF Judged, NoRun
  <2> QED
    BY <2>1, <2>3, <2>4, JudgedReply
<1>6. ASSUME Crash PROVE JudgedInv'
  <2>1. \A t \in Tab : runs'[t] = NoRun
    BY <1>6 DEF Crash
  <2> QED
    BY <1>1, <1>6, <2>1 DEF Crash, NoRun, Judged
<1> QED
  BY <1>2, <1>3, <1>4, <1>5, <1>6 DEF Program, Load, Lock, Commit, Forget, Judge, Sweep, approvalVars

\* The whole of what is needed, kept by every step.
LEMMA JudgedKept ==
    ASSUME TypeOK, TypeOK', BasesInv, JudgedInv
    PROVE  [ApprovalsNext]_approvalVars => JudgedInv'
<1> SUFFICES ASSUME [ApprovalsNext]_approvalVars PROVE JudgedInv'
  OBVIOUS
<1>1. \A c : Approved(c) => Approved(c)'
  BY AnswersStay
<1>2. \A n \in 0 .. Len(ends) : OpenAt(n)' = OpenAt(n)
  <2>1. \A after \in Nat, open \in SUBSET Change :
          after <= Len(ends) /\ Reply(after, open) => \A n \in 0 .. Len(ends) : OpenAt(n)' = OpenAt(n)
    BY Replied
  <2>2. ASSUME UNCHANGED ends PROVE \A n \in 0 .. Len(ends) : OpenAt(n)' = OpenAt(n)
    BY <2>2 DEF OpenAt
  <2>3. ASSUME NEW t \in Tab
        PROVE  runs[t].end \in Nat /\ runs[t].end <= Len(ends) /\ runs[t].asks \in SUBSET Change /\ {} \in SUBSET Change
    BY DEF TypeOK, Run
  <2>4. ASSUME NEW t \in Tab, Abandon(t) \/ Refuse(t) \/ Store(t)
        PROVE  \A n \in 0 .. Len(ends) : OpenAt(n)' = OpenAt(n)
    <3>1. UNCHANGED ends \/ Reply(runs[t].end, {}) \/ Reply(runs[t].end, runs[t].asks)
      BY <2>4 DEF Abandon, Refuse, Store
    <3> QED
      BY <2>1, <2>2, <2>3, <3>1
  <2> QED
    BY <2>2, <2>4 DEF ApprovalsNext, approvalVars, Prompt, Answer, Discard, Resume, Conclude,
       Program, Respond, Load, Lock, Commit, Forget, Judge, Sweep, Crash
<1>3. \A n \in 0 .. Len(ends) : Cleared(n) => Cleared(n)'
  BY <1>2, ClearedStays
<1>4. CASE UNCHANGED approvalVars
  BY <1>1, <1>3, <1>4, OthersJudge
<1>5. CASE ApprovalsNext
  BY <1>1, <1>3, <1>5, RequestJudges, OthersJudge DEF ApprovalsNext
<1> QED
  BY <1>4, <1>5

\* A staged changeset is applied once, and what a turn asked about that was not
\* approved is gone before the conversation goes on, however requests, sweeps and
\* crashes interleave (discard_unapproved_changes, apply_changes).
THEOREM StagedChangesApplyOnce == ApprovalsSpec => []StagedOnce
<1>1. ApprovalsInit => BasesInv /\ JudgedInv
  <2> SUFFICES ASSUME ApprovalsInit PROVE BasesInv /\ JudgedInv
    OBVIOUS
  <2>1. /\ DOMAIN ends = {} /\ calls = {} /\ Staged = {} /\ DOMAIN minted = {}
        /\ \A t \in Tab : runs[t] = NoRun
    BY DEF ApprovalsInit, Staged
  <2>2. Named = {}
    BY <2>1 DEF Named, NoRun
  <2>3. \A t \in Tab : ~Judged(t) /\ runs[t].yes = {}
    BY <2>1 DEF Judged, NoRun
  <2> QED
    BY <2>1, <2>2, <2>3 DEF BasesInv, OnceApplied, JudgedInv
<1>2. TypeOK /\ BasesInv /\ [ApprovalsNext]_approvalVars => BasesInv'
  BY BasesKept
<1>3. TypeOK /\ TypeOK' /\ BasesInv /\ JudgedInv /\ [ApprovalsNext]_approvalVars => JudgedInv'
  BY JudgedKept
<1>4. TypeOK /\ BasesInv /\ JudgedInv => StagedOnce
  <2> SUFFICES ASSUME TypeOK, BasesInv, JudgedInv PROVE StagedOnce
    OBVIOUS
  <2>1. \A n \in DOMAIN ends : OpenAt(n) = ends[n].open
    BY DEF TypeOK, OpenAt, NoEnd
  <2>2. NoneLeftBehind
    BY <2>1 DEF JudgedInv, Cleared, NoneLeftBehind
  <2> QED
    BY <2>2 DEF BasesInv, StagedOnce
<1> QED
  BY <1>1, <1>2, <1>3, <1>4, ApprovalsTyped, PTL DEF ApprovalsSpec

----------------------------------------------------------------------------
(* What executes *)

\* Calls execute for runs that go on, and for one that asks only what was approved.
AskedInv ==
    \A e \in calls : /\ runs[e.by].pc \in {"runs", "ends"}
                     /\ runs[e.by].mode = "ask" => Approved(e.call)

\* The calls of others go on as they did, whatever one tab does.
LEMMA AskedStep ==
    ASSUME TypeOK, AskedInv, \A c : Approved(c) => Approved(c)', NEW t \in Tab, NEW run, SetRun(t, run),
           \A e \in calls' : e.by # t => \E f \in calls : f.by = e.by /\ f.call = e.call,
           \A e \in calls' : e.by = t => /\ run.pc \in {"runs", "ends"}
                                         /\ run.mode = "ask" => Approved(e.call)'
    PROVE  AskedInv'
<1>1. runs'[t] = run /\ \A u \in Tab \ {t} : runs'[u] = runs[u]
  BY DEF SetRun, TypeOK
<1>2. ASSUME NEW e \in calls', e.by # t
      PROVE  runs'[e.by].pc \in {"runs", "ends"} /\ (runs'[e.by].mode = "ask" => Approved(e.call)')
  <2>1. PICK f \in calls : f.by = e.by /\ f.call = e.call
    BY <1>2
  <2>2. f.by \in Tab
    BY DEF TypeOK, Execution
  <2> QED
    BY <1>1, <1>2, <2>1, <2>2 DEF AskedInv
<1> QED
  BY <1>1, <1>2 DEF AskedInv

\* Every step keeps what executes approved.
LEMMA AskedKept ==
    ASSUME TypeOK, JudgedInv, AskedInv
    PROVE  [ApprovalsNext]_approvalVars => AskedInv'
<1> SUFFICES ASSUME [ApprovalsNext]_approvalVars PROVE AskedInv'
  OBVIOUS
<1>0. /\ \A c : Approved(c) => Approved(c)'
      /\ \A t \in Tab : runs[t] \in Run
  BY AnswersStay DEF TypeOK
<1>1. ASSUME NEW t \in Tab, runs[t].pc \notin {"runs", "ends"}, NEW run, SetRun(t, run), UNCHANGED calls
      PROVE  AskedInv'
  <2>1. \A e \in calls : e.by # t
    BY <1>1 DEF AskedInv
  <2> QED
    BY <1>0, <1>1, <2>1, AskedStep
<1>2. ASSUME NEW t \in Tab,
             \/ \E mode \in {"ask", "write"}, n \in {NoEnd} \cup DOMAIN ends : Prompt(t, mode, n)
             \/ \E mode \in Modes, n \in DOMAIN ends : \E yes \in SUBSET ends[n].open :
                  Answer(t, mode, ends[n].open, yes)
             \/ Discard(t) \/ Abandon(t) \/ Refuse(t)
      PROVE  AskedInv'
  <2>1. runs[t].pc \notin {"runs", "ends"} /\ UNCHANGED calls
    <3>1. runs[t] = NoRun \/ runs[t].pc \in {"read", "judged"}
      BY <1>2 DEF Prompt, Answer, Discard, Abandon, Refuse
    <3>2. UNCHANGED calls
      BY <1>2 DEF Prompt, Answer, Discard, Abandon, Refuse
    <3> QED
      BY <3>1, <3>2 DEF NoRun
  <2>2. \E run : SetRun(t, run)
    BY <1>2 DEF Prompt, Answer, Discard, Abandon, Refuse
  <2> QED
    BY <1>1, <2>1, <2>2
<1>3. ASSUME NEW t \in Tab, Resume(t) PROVE AskedInv'
  <2> DEFINE run == [runs[t] EXCEPT !.pc = "runs", !.answers = {}]
  <2>1. SetRun(t, run) /\ run.pc = "runs"
    BY <1>0, <1>3 DEF Resume, Run
  <2>2. \A e \in calls : e.by # t
    BY <1>3 DEF AskedInv, Resume
  <2>3. \A e \in calls' : \/ e \in calls
                          \/ e.by = t /\ e.call \in runs[t].yes
    BY <1>3 DEF Resume, Executing
  <2>4. \A c \in runs[t].yes : Approved(c)'
    BY <1>0, <1>3 DEF JudgedInv
  <2> HIDE DEF run
  <2> QED
    BY <1>0, <2>1, <2>2, <2>3, <2>4, AskedStep
<1>4. ASSUME NEW t \in Tab, NEW run, SetRun(t, run), run.pc \in {"runs", "ends"}, run.mode = runs[t].mode,
             \A e \in calls' : \/ \E f \in calls : f.by = e.by /\ f.call = e.call
                               \/ e.by = t /\ (run.mode = "ask" => Approved(e.call)')
      PROVE  AskedInv'
  <2>1. \A f \in calls : f.by = t /\ run.mode = "ask" => Approved(f.call)
    BY <1>4 DEF AskedInv
  <2> QED
    BY <1>0, <1>4, <2>1, AskedStep
<1>5. ASSUME NEW t \in Tab, Conclude(t) PROVE AskedInv'
  <2>1. LET run == [runs[t] EXCEPT !.pc = "ends"] IN run.pc = "ends" /\ run.mode = runs[t].mode
    BY <1>0 DEF Run
  <2>2. ASSUME NEW e \in calls' PROVE \E f \in calls : f.by = e.by /\ f.call = e.call
    <3>1. \A f \in calls : [f EXCEPT !.at = "tried"].call = f.call /\ [f EXCEPT !.at = "tried"].by = f.by
      BY DEF TypeOK, Execution
    <3>2. e \in calls \/ \E f \in calls : e = [f EXCEPT !.at = "tried"]
      BY <1>5 DEF Conclude, Mine
    <3> QED
      BY <3>1, <3>2
  <2> QED
    BY <1>4, <1>5, <2>1, <2>2 DEF Conclude
<1>6. ASSUME NEW t \in Tab, NEW response \in Responses, Respond(t, response) PROVE AskedInv'
  <2>1. CASE Asks(runs[t])
    <3>1. LET run == [runs[t] EXCEPT !.pc = "ends", !.asks = response] IN
            run.pc = "ends" /\ run.mode = runs[t].mode
      BY <1>0 DEF Run
    <3> QED
      BY <1>4, <1>6, <2>1, <3>1 DEF Respond
  <2>2. CASE ~Asks(runs[t])
    <3>1. SetRun(t, runs[t]) /\ runs[t].pc = "runs" /\ runs[t].mode # "ask"
      BY <1>6, <2>2 DEF Respond, SetRun, MayAct, Asks, TypeOK
    <3>2. \A e \in calls' : e \in calls \/ e.by = t
      BY <1>6, <2>2 DEF Respond, Executing
    <3> QED
      BY <1>4, <3>1, <3>2
  <2> QED
    BY <2>1, <2>2
<1>7. ASSUME NEW t \in Tab, NEW over \in Span, Program(t, over) PROVE AskedInv'
  <2>1. SetRun(t, runs[t]) /\ runs[t].pc = "runs"
    BY <1>7 DEF Program, SetRun, MayAct, TypeOK
  <2>2. \A e \in calls' : e \in calls \/ (e.by = t /\ runs[t].mode # "ask")
    BY <1>7 DEF Program, Executing
  <2> QED
    BY <1>4, <2>1, <2>2
<1>8. ASSUME NEW t \in Tab, Store(t) PROVE AskedInv'
  <2>1. SetRun(t, NoRun) /\ UNCHANGED calls /\ \A e \in calls : e.by # t
    BY <1>8 DEF Store, Mine
  <2> QED
    BY <1>0, <2>1, AskedStep
<1>9. ASSUME UNCHANGED runs, \A e \in calls' : \E f \in calls : f.by = e.by /\ f.call = e.call
      PROVE  AskedInv'
  BY <1>0, <1>9 DEF AskedInv
<1>10. ASSUME NEW e \in calls, Load(e) \/ Lock(e) \/ Commit(e) \/ Forget(e) PROVE AskedInv'
  <2>1. /\ LET f == [e EXCEPT !.at = "locks"] IN f.by = e.by /\ f.call = e.call
        /\ LET f == [e EXCEPT !.held = @ \cup {NextLock(e)}] IN f.by = e.by /\ f.call = e.call
        /\ LET f == [e EXCEPT !.at = "tried", !.held = {}] IN f.by = e.by /\ f.call = e.call
    BY DEF TypeOK, Execution
  <2>2. UNCHANGED runs
    BY <1>10 DEF Load, Lock, Commit, Forget
  <2>3. ASSUME NEW g \in calls' PROVE \E f \in calls : f.by = g.by /\ f.call = g.call
    <3>1. \/ g \in calls \/ g = [e EXCEPT !.at = "locks"] \/ g = [e EXCEPT !.held = @ \cup {NextLock(e)}]
          \/ g = [e EXCEPT !.at = "tried", !.held = {}]
      BY <1>10 DEF Load, Lock, Commit, Forget, Tried, Becomes
    <3> QED
      BY <2>1, <3>1
  <2> QED
    BY <1>9, <2>2, <2>3
<1>11. ASSUME Crash PROVE AskedInv'
  BY <1>11 DEF Crash, AskedInv
<1>12. ASSUME Judge \/ Sweep \/ UNCHANGED approvalVars PROVE AskedInv'
  <2>1. UNCHANGED <<runs, calls>>
    BY <1>12 DEF Judge, Sweep, approvalVars
  <2> QED
    BY <1>9, <2>1
<1> QED
  BY <1>2, <1>3, <1>5, <1>6, <1>7, <1>8, <1>10, <1>11, <1>12 DEF ApprovalsNext

\* A change of a run that has to ask commits only with an approval, and over the very
\* versions it was shown with (_asks, the gateway's expected hashes).
THEOREM CommitsAsApproved == ApprovalsSpec => AsApproved
<1>1. ApprovalsInit => JudgedInv /\ AskedInv /\ BasesInv
  <2> SUFFICES ASSUME ApprovalsInit PROVE JudgedInv /\ AskedInv /\ BasesInv
    OBVIOUS
  <2>1. /\ DOMAIN ends = {} /\ calls = {} /\ Staged = {} /\ DOMAIN minted = {}
        /\ \A t \in Tab : runs[t] = NoRun
    BY DEF ApprovalsInit, Staged
  <2>2. Named = {}
    BY <2>1 DEF Named, NoRun
  <2>3. \A t \in Tab : ~Judged(t) /\ runs[t].yes = {}
    BY <2>1 DEF Judged, NoRun
  <2> QED
    BY <2>1, <2>2, <2>3 DEF BasesInv, OnceApplied, JudgedInv, AskedInv
<1>2. /\ TypeOK /\ BasesInv /\ [ApprovalsNext]_approvalVars => BasesInv'
      /\ TypeOK /\ TypeOK' /\ BasesInv /\ JudgedInv /\ [ApprovalsNext]_approvalVars => JudgedInv'
      /\ TypeOK /\ JudgedInv /\ AskedInv /\ [ApprovalsNext]_approvalVars => AskedInv'
  BY BasesKept, JudgedKept, AskedKept
<1>3. TypeOK /\ AskedInv /\ [ApprovalsNext]_approvalVars =>
        [\A e \in calls :
           Commits(e) /\ runs[e.by].mode = "ask" =>
             /\ Approved(e.call)
             /\ e.call.base # Unchecked => e.call.base = Seen(e.call.over)]_approvalVars
  <2> SUFFICES ASSUME TypeOK, AskedInv, [ApprovalsNext]_approvalVars,
                      NEW e \in calls, Commits(e), runs[e.by].mode = "ask"
               PROVE  /\ Approved(e.call)
                      /\ e.call.base # Unchecked => e.call.base = Seen(e.call.over)
    OBVIOUS
  <2>1. PICK f \in calls : Commit(f)
    BY DEF Commits, ApprovalsNext, approvalVars, Prompt, Answer, Discard, Abandon, Resume, Refuse,
       Conclude, Store, Program, Respond, Load, Lock, Forget, Judge, Sweep, Crash
  <2>2. e = f
    BY <2>1 DEF Commit, Commits, Tried, Becomes
  <2>3. Admits(e)
    <3>1. CASE ~Admits(e)
      <4>1. disk' = [r \in Root |-> disk[r]]
        BY <2>1, <2>2, <3>1 DEF Commit
      <4> QED
        BY <4>1 DEF Commits, TypeOK
    <3> QED
      BY <3>1
  <2>4. ASSUME e.call.base # Unchecked PROVE e.call.base = Seen(e.call.over)
    <3>1. e.call.base \in [e.call.over -> Nat]
      BY <2>4 DEF TypeOK, Execution, Change
    <3> QED
      BY <2>3, <3>1 DEF Admits, Seen
  <2> QED
    BY <2>4 DEF AskedInv
<1> QED
  BY <1>1, <1>2, <1>3, ApprovalsTyped, PTL DEF ApprovalsSpec, AsApproved
=============================================================================
