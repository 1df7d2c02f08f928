--------------------------- MODULE ChatStreamProofs ---------------------------
(***************************************************************************)
(* Theorems about a turn and its relay, for every budget, every limit and  *)
(* every answer of the models.                                             *)
(***************************************************************************)
EXTENDS ChatStream, FiniteSetTheorems, SequenceTheorems, TLAPS

RunRec == [at : {"asks", "sent", "acts", "done", "failed", "cut"}, noted : BOOLEAN, notes : Nat, warned : BOOLEAN]
CallRec == [by : Nat, kind : Kinds, at : {"runs", "done", "cut", "open"}, hosts : Nat, ending : BOOLEAN, since : Nat]
AskRec == [of : Nat, id : Nat, at : {"gate", "opens", "sent"}]

TurnOK ==
    /\ usage \in Nat
    /\ completions \in [made : Nat, pending : Nat, inside : Nat]
    /\ runs \in [DOMAIN runs -> RunRec] /\ Chat \in DOMAIN runs /\ DOMAIN runs \subseteq {Chat} \cup Calls
    /\ calls \in Seq(CallRec)
    /\ asks \in SUBSET AskRec /\ IsFiniteSet(asks)
    /\ told \in SUBSET Calls

\* A call runs only while the run that made it acts, a subagent only while the call that
\* started it runs, and what the chat run has running it asked for at once.
RunsInv ==
    /\ \A c \in Calls : /\ calls[c].by \in DOMAIN runs
                        /\ Running(c) => runs[calls[c].by].at = "acts"
                        /\ calls[c].kind \in {"program", "explore"} => calls[c].by = Chat
                        /\ calls[c].kind = "explore" => c \in DOMAIN runs
    /\ \A r \in DOMAIN runs \ {Chat} :
         /\ calls[r].kind = "explore"
         /\ runs[r].at \in {"asks", "sent", "acts"} => Running(r)
    /\ \A c, d \in Of(Chat) : Running(c) /\ Running(d) => calls[c].since = calls[d].since

Sent == {a \in asks : a.at = "sent"}
Inside == {a \in asks : a.at # "gate"}

\* What is counted of the completions is what is under way, each of a program that runs.
AsksInv ==
    /\ completions.pending = Cardinality(Sent) /\ completions.inside = Cardinality(Inside)
    /\ \A a \in asks : /\ a.of \in Calls /\ Running(a.of) /\ calls[a.of].kind = "program"
                       /\ a.id <= completions.made
    /\ \A a, b \in asks : a.id = b.id => a = b

\* No subagent was started beside the program.
Alone(c) == \A d \in Of(Chat) : calls[d].kind = "explore" => calls[d].since < calls[c].since

ReserveInv ==
    \A c \in Calls : Running(c) /\ calls[c].kind = "program" /\ Alone(c) =>
        \/ usage + completions.pending < RequestLimit
        \/ usage = calls[c].since /\ completions.pending = 0

\* A run that was warned has its one note.
NotesInv ==
    \A r \in DOMAIN runs : /\ runs[r].noted = runs[r].warned
                           /\ runs[r].notes = IF runs[r].warned THEN 1 ELSE 0

\* What the chat run's history lacks is what runs or was deferred.
ToldInv ==
    /\ told \subseteq Of(Chat)
    /\ runs[Chat].at = "sent" => told = Of(Chat)
    /\ runs[Chat].at = "done" => \A c \in Of(Chat) : c \in told \/ calls[c].at = "open"

TurnInv == TurnOK /\ RunsInv /\ AsksInv /\ ReserveInv /\ NotesInv /\ ToldInv

\* What the relay captured is the turn as it ended, where it had ended.
RelayInv ==
    /\ relay \in {"streams", "saves", "over"}
    /\ relay = "streams" => stored = Nothing
    /\ stored \in {Nothing, captured}
    /\ relay # "streams" =>
         /\ captured.how \in {"drained", "left", "sending"}
         /\ captured.calls \subseteq Of(Chat)
         /\ captured.how # "sending" => Ended /\ captured.calls = Of(Chat)
         /\ \A c \in captured.calls \ captured.closed :
              c \in told \/ (calls[c].at = "open" /\ captured.how = "drained")
----------------------------------------------------------------------------
(* What a step leaves of the runs and the calls *)

Active == {"asks", "sent", "acts"}

\* The calls are those they were: each may come to its end, and none starts again.
Kept ==
    /\ calls' \in Seq(CallRec) /\ DOMAIN calls' = Calls
    /\ \A c \in Calls : /\ calls'[c].by = calls[c].by /\ calls'[c].kind = calls[c].kind
                        /\ calls'[c].since = calls[c].since
                        /\ calls'[c].at = "runs" => calls[c].at = "runs"
                        /\ calls[c].at # "runs" => calls'[c].at = calls[c].at

\* A call is a number from one, so none is the chat run.
LEMMA CallsAre ==
    ASSUME TurnOK
    PROVE  /\ Calls = 1 .. Len(calls) /\ Len(calls) \in Nat /\ Calls \subseteq Nat /\ Chat \notin Calls
           /\ \A c \in Calls : calls[c] \in CallRec
           /\ \A r \in DOMAIN runs : runs[r] \in RunRec
  BY DEF TurnOK, Calls, Chat

\* A step that keeps the runs and the calls keeps what is read off them.
LEMMA KeptIs ==
    ASSUME TurnOK, Kept
    PROVE  /\ Calls' = Calls /\ \A r : Of(r)' = Of(r)
           /\ \A c \in Calls : Alone(c)' = Alone(c)
<1>1. Calls' = Calls
  BY DEF Kept, Calls
<1>2. \A r : Of(r)' = Of(r)
  BY <1>1 DEF Kept, Of
<1>3. \A c \in Calls : Alone(c)' = Alone(c)
  <2>1. Of(Chat) \subseteq Calls
    BY DEF Of
  <2> QED
    BY <1>2, <2>1 DEF Kept, Alone
<1> QED
  BY <1>1, <1>2, <1>3

\* One call changes what it may.
LEMMA OneCall ==
    ASSUME TurnOK, NEW c \in Calls, NEW call \in CallRec, calls' = [calls EXCEPT ![c] = call],
           call.by = calls[c].by, call.kind = calls[c].kind, call.since = calls[c].since,
           call.at = "runs" => calls[c].at = "runs", calls[c].at # "runs" => call.at = calls[c].at
    PROVE  Kept /\ calls'[c] = call /\ \A d \in Calls \ {c} : calls'[d] = calls[d]
<1>1. calls \in Seq(CallRec) /\ c \in 1 .. Len(calls)
  BY CallsAre DEF TurnOK
<1>2. /\ calls' \in Seq(CallRec) /\ Len(calls') = Len(calls)
      /\ \A i \in 1 .. Len(calls) : calls'[i] = IF i = c THEN call ELSE calls[i]
  BY <1>1, ExceptSeq
<1>3. DOMAIN calls' = Calls /\ Calls = 1 .. Len(calls)
  BY <1>1, <1>2 DEF Calls
<1> QED
  BY <1>2, <1>3 DEF Kept

\* Calls that do not change are kept.
LEMMA SameCalls == ASSUME TurnOK, UNCHANGED calls PROVE Kept
  BY DEF TurnOK, Kept, Calls

\* One run changes.
LEMMA OneRun ==
    ASSUME TurnOK, NEW r \in DOMAIN runs, NEW run \in RunRec, runs' = [runs EXCEPT ![r] = run]
    PROVE  /\ DOMAIN runs' = DOMAIN runs /\ runs' \in [DOMAIN runs -> RunRec]
           /\ runs'[r] = run /\ \A q \in DOMAIN runs \ {r} : runs'[q] = runs[q]
  BY DEF TurnOK

\* The invariant of the runs, where the calls are kept.
LEMMA RunsKept ==
    ASSUME TurnOK, RunsInv, Kept, DOMAIN runs' = DOMAIN runs,
           \A c \in Calls : calls'[c].at = "runs" => runs'[calls[c].by].at = "acts",
           \A r \in DOMAIN runs \ {Chat} : runs'[r].at \in Active => calls'[r].at = "runs"
    PROVE  RunsInv'
<1>1. Calls' = Calls /\ \A r : Of(r)' = Of(r)
  BY KeptIs
<1>2. \A c \in Calls : /\ calls'[c].by \in DOMAIN runs'
                       /\ Running(c)' => runs'[calls'[c].by].at = "acts"
                       /\ calls'[c].kind \in {"program", "explore"} => calls'[c].by = Chat
                       /\ calls'[c].kind = "explore" => c \in DOMAIN runs'
  BY DEF Kept, RunsInv, Running
<1>3. \A r \in DOMAIN runs' \ {Chat} :
        /\ calls'[r].kind = "explore"
        /\ runs'[r].at \in {"asks", "sent", "acts"} => Running(r)'
  <2>1. \A r \in DOMAIN runs \ {Chat} : r \in Calls
    BY DEF TurnOK
  <2> QED
    BY <2>1 DEF Kept, RunsInv, Running, Active
<1>4. \A c, d \in Of(Chat)' : Running(c)' /\ Running(d)' => calls'[c].since = calls'[d].since
  <2>1. Of(Chat) \subseteq Calls
    BY DEF Of
  <2> QED
    BY <1>1, <2>1 DEF Kept, RunsInv, Running
<1> QED
  BY <1>1, <1>2, <1>3, <1>4 DEF RunsInv, Chat

\* The history keeps what the chat run has been told.
LEMMA ToldKept ==
    ASSUME TurnOK, ToldInv, Kept, told' \in {told, Of(Chat)},
           runs'[Chat].at = "sent" => runs[Chat].at = "sent" \/ told' = Of(Chat),
           runs'[Chat].at = "done" => runs[Chat].at \in {"done", "sent"}
    PROVE  ToldInv'
<1>1. Of(Chat)' = Of(Chat) /\ Of(Chat) \subseteq Calls
  BY KeptIs DEF Of
<1>2. told' \subseteq Of(Chat) /\ told \subseteq told'
  BY DEF ToldInv
<1>3. runs'[Chat].at = "sent" => told' = Of(Chat)
  BY DEF ToldInv
<1>4. ASSUME runs'[Chat].at = "done", NEW c \in Of(Chat) PROVE c \in told' \/ calls'[c].at = "open"
  <2>1. c \in told \/ calls[c].at = "open"
    BY <1>4 DEF ToldInv
  <2> QED
    BY <1>1, <1>2, <2>1 DEF Kept
<1> QED
  BY <1>1, <1>2, <1>3, <1>4 DEF ToldInv, Chat

\* The reserve is kept: nothing new is spent, one completion is let out within it, one is
\* counted that was, or no program is alone.
LEMMA ReserveBy ==
    ASSUME TurnOK, ReserveInv, Kept, completions'.pending \in Nat, completions.pending \in Nat,
           \/ usage' = usage /\ completions'.pending <= completions.pending
           \/ usage' = usage /\ usage + completions'.pending < RequestLimit
           \/ usage' = usage + 1 /\ completions.pending >= 1 /\ completions'.pending = completions.pending - 1
           \/ \A c \in Calls : ~(Running(c) /\ calls[c].kind = "program" /\ Alone(c))
    PROVE  ReserveInv'
<1>1. RequestLimit \in Nat /\ usage \in Nat
  BY TurnBounds DEF TurnOK
<1>2. \A c \in Calls : (Running(c)' => Running(c)) /\ calls'[c].kind = calls[c].kind
                       /\ Alone(c)' = Alone(c) /\ calls'[c].since = calls[c].since
  BY KeptIs DEF Kept, Running
<1>3. Calls' = Calls
  BY KeptIs
<1> SUFFICES ASSUME NEW c \in Calls, Running(c), calls[c].kind = "program", Alone(c)
             PROVE  \/ usage' + completions'.pending < RequestLimit
                    \/ usage' = calls[c].since /\ completions'.pending = 0
  BY <1>2, <1>3 DEF ReserveInv
<1>4. \/ usage + completions.pending < RequestLimit
      \/ usage = calls[c].since /\ completions.pending = 0
  BY DEF ReserveInv
<1> QED
  BY <1>1, <1>4

\* A run that hears of the budget has its note from then on.
LEMMA NotesKept ==
    ASSUME TurnOK, NotesInv,
           \A r \in DOMAIN runs' :
              \/ r \in DOMAIN runs /\ runs'[r].noted = runs[r].noted /\ runs'[r].notes = runs[r].notes
                                   /\ runs'[r].warned = runs[r].warned
              \/ r \in DOMAIN runs /\ runs'[r] = Heard(r)
              \/ runs'[r] = Fresh
    PROVE  NotesInv'
<1> SUFFICES ASSUME NEW r \in DOMAIN runs'
             PROVE  runs'[r].noted = runs'[r].warned /\ runs'[r].notes = IF runs'[r].warned THEN 1 ELSE 0
  BY DEF NotesInv
<1>1. CASE /\ r \in DOMAIN runs /\ runs'[r].noted = runs[r].noted /\ runs'[r].notes = runs[r].notes
           /\ runs'[r].warned = runs[r].warned
  BY <1>1 DEF NotesInv
<1>2. CASE r \in DOMAIN runs /\ runs'[r] = Heard(r)
  <2>1. runs[r] \in RunRec /\ runs[r].noted = runs[r].warned /\ runs[r].notes = IF runs[r].warned THEN 1 ELSE 0
    BY <1>2, CallsAre DEF NotesInv
  <2>2. /\ Heard(r).noted = (runs[r].noted \/ Due(r))
        /\ Heard(r).notes = IF Due(r) THEN runs[r].notes + 1 ELSE runs[r].notes
        /\ Heard(r).warned = (runs[r].warned \/ 4 * usage >= 3 * RequestLimit)
    BY <2>1 DEF Heard, RunRec
  <2>3. Due(r) = (4 * usage >= 3 * RequestLimit /\ ~runs[r].noted)
    BY DEF Due
  <2>4. CASE runs[r].warned = TRUE
    BY <1>2, <2>1, <2>2, <2>3, <2>4
  <2>5. CASE runs[r].warned = FALSE /\ 4 * usage >= 3 * RequestLimit
    <3>1. runs[r].noted = FALSE /\ runs[r].notes = 0
      BY <2>1, <2>5
    <3>2. Due(r)
      BY <2>3, <2>5, <3>1
    <3>3. Heard(r).noted = TRUE /\ Heard(r).warned = TRUE /\ Heard(r).notes = 1
      <4>1. Heard(r).notes = 1
        BY <2>2, <3>1, <3>2
      <4>2. (runs[r].noted \/ Due(r)) = TRUE
        BY <3>2
      <4>3. (runs[r].warned \/ 4 * usage >= 3 * RequestLimit) = TRUE
        BY <2>5
      <4> QED
        BY <2>2, <4>1, <4>2, <4>3
    <3> QED
      BY <1>2, <3>3
  <2>6. CASE runs[r].warned = FALSE /\ ~(4 * usage >= 3 * RequestLimit)
    BY <1>2, <2>1, <2>2, <2>3, <2>6
  <2> QED
    BY <2>1, <2>4, <2>5, <2>6 DEF RunRec
<1>3. CASE runs'[r] = Fresh
  BY <1>3 DEF Fresh
<1> QED
  BY <1>1, <1>2, <1>3
----------------------------------------------------------------------------
(* What a step leaves of the completions *)

\* Two counts of the three change.
LEMMA Tally ==
    ASSUME NEW x \in [made : Nat, pending : Nat, inside : Nat], NEW p \in Int, NEW i \in Int
    PROVE  /\ [x EXCEPT !.pending = p, !.inside = i] \in [made : Int, pending : Int, inside : Int]
           /\ [x EXCEPT !.pending = p, !.inside = i].made = x.made
           /\ [x EXCEPT !.pending = p, !.inside = i].pending = p
           /\ [x EXCEPT !.pending = p, !.inside = i].inside = i
<1> DEFINE y == [x EXCEPT !.pending = p]
           z == [y EXCEPT !.inside = i]
<1>1. y \in [made : Int, pending : Int, inside : Int] /\ y.made = x.made /\ y.pending = p
  OBVIOUS
<1>2. z = [x EXCEPT !.pending = p, !.inside = i]
  OBVIOUS
<1> HIDE DEF y
<1>3. /\ z \in [made : Int, pending : Int, inside : Int]
      /\ z.made = y.made /\ z.pending = y.pending /\ z.inside = i
  BY <1>1
<1> QED
  BY <1>1, <1>2, <1>3

\* Counting sets that grow and shrink.
LEMMA Counts ==
    ASSUME TurnOK
    PROVE  /\ IsFiniteSet(Sent) /\ IsFiniteSet(Inside)
           /\ Cardinality(Sent) \in Nat /\ Cardinality(Inside) \in Nat
<1>1. Sent \in SUBSET asks /\ Inside \in SUBSET asks /\ IsFiniteSet(asks)
  BY DEF TurnOK, Sent, Inside
<1>2. IsFiniteSet(Sent) /\ IsFiniteSet(Inside)
  BY <1>1, FS_Subset
<1> QED
  BY <1>2, FS_CardinalityType

\* What every case below has in common.
LEMMA AsksStand ==
    ASSUME TurnOK, AsksInv, Kept, NEW left \in SUBSET asks,
           \A a \in left : calls'[a.of].at = "runs"
    PROVE  \A a \in left : /\ a.of \in Calls' /\ Running(a.of)' /\ calls'[a.of].kind = "program"
                           /\ a.id <= completions.made
  BY KeptIs DEF AsksInv, Kept, Running

\* The completions are as they were.
LEMMA AsksSame ==
    ASSUME TurnOK, AsksInv, Kept, UNCHANGED <<asks, completions>>,
           \A a \in asks : calls'[a.of].at = "runs"
    PROVE  AsksInv'
<1>1. Sent' = Sent /\ Inside' = Inside
  BY DEF Sent, Inside
<1>2. \A a \in asks : /\ a.of \in Calls' /\ Running(a.of)' /\ calls'[a.of].kind = "program"
                      /\ a.id <= completions.made
  BY AsksStand
<1> QED
  BY <1>1, <1>2 DEF AsksInv

\* Some are over, and give back what they held.
LEMMA AsksLess ==
    ASSUME TurnOK, AsksInv, Kept, NEW over \in SUBSET asks, asks' = asks \ over,
           completions' \in [made : Int, pending : Int, inside : Int],
           completions'.made = completions.made,
           completions'.pending = completions.pending - Cardinality(Sent \cap over),
           completions'.inside = completions.inside - Cardinality(Inside \cap over),
           \A a \in asks \ over : calls'[a.of].at = "runs"
    PROVE  /\ AsksInv' /\ asks' \in SUBSET AskRec /\ IsFiniteSet(asks')
           /\ completions' \in [made : Nat, pending : Nat, inside : Nat]
           /\ completions'.pending <= completions.pending
<1>1. Sent' = Sent \ over /\ Inside' = Inside \ over
  BY DEF Sent, Inside
<1>2. /\ IsFiniteSet(Sent) /\ IsFiniteSet(Inside) /\ IsFiniteSet(asks)
      /\ Cardinality(Sent) \in Nat /\ Cardinality(Inside) \in Nat
  BY Counts DEF TurnOK
<1>3. /\ IsFiniteSet(Sent') /\ Cardinality(Sent') = Cardinality(Sent) - Cardinality(Sent \cap over)
      /\ IsFiniteSet(Inside') /\ Cardinality(Inside') = Cardinality(Inside) - Cardinality(Inside \cap over)
  BY <1>1, <1>2, FS_Difference
<1>4. Cardinality(Sent') \in Nat /\ Cardinality(Inside') \in Nat
  BY <1>3, FS_CardinalityType
<1>5. Cardinality(Sent') <= Cardinality(Sent)
  BY <1>1, <1>2, FS_Subset
<1>6. completions.made \in Nat /\ completions.pending = Cardinality(Sent) /\ completions.inside = Cardinality(Inside)
  BY DEF AsksInv, TurnOK
<1>7. /\ completions'.made = completions.made
      /\ completions'.pending = Cardinality(Sent') /\ completions'.inside = Cardinality(Inside')
  BY <1>3, <1>6
<1>8. completions' \in [made : Nat, pending : Nat, inside : Nat] /\ completions'.pending <= completions.pending
  <2>1. completions'.made \in Nat /\ completions'.pending \in Nat /\ completions'.inside \in Nat
    BY <1>4, <1>6, <1>7
  <2> QED
    BY <1>5, <1>6, <1>7, <2>1
<1>9. asks' \in SUBSET AskRec /\ IsFiniteSet(asks')
  BY <1>2, FS_Difference DEF TurnOK
<1>10. AsksInv'
  <2>1. \A a \in asks' : /\ a.of \in Calls' /\ Running(a.of)' /\ calls'[a.of].kind = "program"
                         /\ a.id <= completions.made
    BY AsksStand
  <2>2. \A a, b \in asks' : a.id = b.id => a = b
    BY DEF AsksInv
  <2> QED
    BY <1>7, <2>1, <2>2 DEF AsksInv
<1> QED
  BY <1>8, <1>9, <1>10

\* One gives back what it held.
LEMMA OneLess ==
    ASSUME TurnOK, AsksInv, Kept, NEW a \in asks, asks' = asks \ {a}, completions' = Left(a),
           \A b \in asks \ {a} : calls'[b.of].at = "runs"
    PROVE  /\ AsksInv' /\ asks' \in SUBSET AskRec /\ IsFiniteSet(asks')
           /\ completions' \in [made : Nat, pending : Nat, inside : Nat]
           /\ completions'.pending <= completions.pending
           /\ a.at = "sent" => completions.pending >= 1 /\ completions'.pending = completions.pending - 1
<1>1. completions \in [made : Nat, pending : Nat, inside : Nat] /\ a.at \in {"gate", "opens", "sent"}
  BY DEF TurnOK, AskRec
<1>2. Cardinality(Sent \cap {a}) = IF a.at = "sent" THEN 1 ELSE 0
  <2>1. CASE a.at = "sent"
    <3>1. Sent \cap {a} = {a}
      BY <2>1 DEF Sent
    <3> QED
      BY <2>1, <3>1, FS_Singleton
  <2>2. CASE a.at # "sent"
    <3>1. Sent \cap {a} = {}
      BY <2>2 DEF Sent
    <3> QED
      BY <2>2, <3>1, FS_EmptySet
  <2> QED
    BY <2>1, <2>2
<1>3. Cardinality(Inside \cap {a}) = IF a.at = "gate" THEN 0 ELSE 1
  <2>1. CASE a.at # "gate"
    <3>1. Inside \cap {a} = {a}
      BY <2>1 DEF Inside
    <3> QED
      BY <2>1, <3>1, FS_Singleton
  <2>2. CASE a.at = "gate"
    <3>1. Inside \cap {a} = {}
      BY <2>2 DEF Inside
    <3> QED
      BY <2>2, <3>1, FS_EmptySet
  <2> QED
    BY <2>1, <2>2
<1>4. /\ completions' \in [made : Int, pending : Int, inside : Int]
      /\ completions'.made = completions.made
      /\ completions'.pending = completions.pending - Cardinality(Sent \cap {a})
      /\ completions'.inside = completions.inside - Cardinality(Inside \cap {a})
  <2>1. /\ Left(a) \in [made : Int, pending : Int, inside : Int]
        /\ Left(a).made = completions.made
        /\ Left(a).pending = IF a.at = "sent" THEN completions.pending - 1 ELSE completions.pending
        /\ Left(a).inside = IF a.at = "gate" THEN completions.inside ELSE completions.inside - 1
    <3> DEFINE p == IF a.at = "sent" THEN completions.pending - 1 ELSE completions.pending
               i == IF a.at = "gate" THEN completions.inside ELSE completions.inside - 1
    <3>1. p \in Int /\ i \in Int
      BY <1>1
    <3>2. Left(a) = [completions EXCEPT !.pending = p, !.inside = i]
      BY DEF Left
    <3> HIDE DEF p, i
    <3>3. /\ Left(a) \in [made : Int, pending : Int, inside : Int]
          /\ Left(a).made = completions.made /\ Left(a).pending = p /\ Left(a).inside = i
      BY <1>1, <3>1, <3>2, Tally
    <3> QED
      BY <3>3 DEF p, i
  <2> QED
    BY <1>1, <1>2, <1>3, <2>1
<1>5. /\ AsksInv' /\ asks' \in SUBSET AskRec /\ IsFiniteSet(asks')
      /\ completions' \in [made : Nat, pending : Nat, inside : Nat]
      /\ completions'.pending <= completions.pending
  <2>1. {a} \in SUBSET asks
    OBVIOUS
  <2> QED
    BY <1>4, <2>1, AsksLess
<1>6. ASSUME a.at = "sent" PROVE completions.pending >= 1 /\ completions'.pending = completions.pending - 1
  <2>1. completions'.pending = completions.pending - 1
    BY <1>2, <1>4, <1>6
  <2>2. completions'.pending \in Nat
    BY <1>5
  <2> QED
    BY <1>1, <2>1, <2>2
<1> QED
  BY <1>5, <1>6

\* One goes on to what comes next.
LEMMA OneMoves ==
    ASSUME TurnOK, AsksInv, UNCHANGED calls, NEW a \in asks, NEW at \in {"opens", "sent"}, a.at # at, a.at # "sent",
           at = "sent" => a.at = "opens", Moves(a, at),
           completions' = [completions EXCEPT !.pending = IF at = "sent" THEN @ + 1 ELSE @,
                                              !.inside = IF a.at = "gate" THEN @ + 1 ELSE @]
    PROVE  /\ AsksInv' /\ asks' \in SUBSET AskRec /\ IsFiniteSet(asks')
           /\ completions' \in [made : Nat, pending : Nat, inside : Nat]
           /\ completions'.pending = IF at = "sent" THEN completions.pending + 1 ELSE completions.pending
<1> DEFINE b == [a EXCEPT !.at = at]
           rest == asks \ {a}
<1>1. a \in AskRec /\ b \in AskRec /\ b.of = a.of /\ b.id = a.id /\ b.at = at
  BY DEF TurnOK, AskRec
<1>2. \A x \in rest : x.id # a.id
  BY DEF AsksInv
<1>3. b \notin rest /\ asks' = rest \cup {b}
  BY <1>1, <1>2 DEF Moves
<1> HIDE DEF b
<1>4. completions \in [made : Nat, pending : Nat, inside : Nat]
  BY DEF TurnOK
<1>5. /\ IsFiniteSet(Sent) /\ IsFiniteSet(Inside) /\ IsFiniteSet(asks)
      /\ Cardinality(Sent) \in Nat /\ Cardinality(Inside) \in Nat
      /\ completions.pending = Cardinality(Sent) /\ completions.inside = Cardinality(Inside)
  BY Counts DEF TurnOK, AsksInv
<1>6. Cardinality(Sent') = IF at = "sent" THEN Cardinality(Sent) + 1 ELSE Cardinality(Sent)
  <2>1. CASE at = "sent"
    <3>1. Sent' = Sent \cup {b} /\ b \notin Sent
      BY <1>1, <1>3, <2>1 DEF Sent
    <3> QED
      BY <1>5, <2>1, <3>1, FS_AddElement
  <2>2. CASE at # "sent"
    <3>1. Sent' = Sent
      BY <1>1, <1>3, <2>2 DEF Sent
    <3> QED
      BY <2>2, <3>1
  <2> QED
    BY <2>1, <2>2
<1>7. Cardinality(Inside') = IF a.at = "gate" THEN Cardinality(Inside) + 1 ELSE Cardinality(Inside)
  <2>1. CASE a.at = "gate"
    <3>1. Inside' = Inside \cup {b} /\ b \notin Inside
      BY <1>1, <1>3, <2>1 DEF Inside
    <3> QED
      BY <1>5, <2>1, <3>1, FS_AddElement
  <2>2. CASE a.at # "gate"
    <3>1. Inside' = (Inside \ {a}) \cup {b} /\ b \notin Inside \ {a} /\ a \in Inside
      BY <1>1, <1>3, <2>2 DEF Inside
    <3>2. IsFiniteSet(Inside \ {a}) /\ Cardinality(Inside \ {a}) = Cardinality(Inside) - 1
      BY <1>5, <3>1, FS_RemoveElement
    <3>3. Cardinality(Inside') = Cardinality(Inside \ {a}) + 1
      BY <3>1, <3>2, FS_AddElement
    <3> QED
      BY <1>5, <2>2, <3>2, <3>3
  <2> QED
    BY <2>1, <2>2
<1>8. /\ completions'.made = completions.made /\ completions'.pending = Cardinality(Sent')
      /\ completions'.inside = Cardinality(Inside') /\ completions' \in [made : Nat, pending : Nat, inside : Nat]
      /\ completions'.pending = IF at = "sent" THEN completions.pending + 1 ELSE completions.pending
  <2>1. /\ completions' \in [made : Nat, pending : Nat, inside : Nat]
        /\ completions'.made = completions.made
        /\ completions'.pending = IF at = "sent" THEN completions.pending + 1 ELSE completions.pending
        /\ completions'.inside = IF a.at = "gate" THEN completions.inside + 1 ELSE completions.inside
    <3> DEFINE p == IF at = "sent" THEN completions.pending + 1 ELSE completions.pending
               i == IF a.at = "gate" THEN completions.inside + 1 ELSE completions.inside
    <3>1. p \in Nat /\ i \in Nat
      BY <1>4
    <3>2. completions' = [completions EXCEPT !.pending = p, !.inside = i]
      OBVIOUS
    <3> HIDE DEF p, i
    <3>3. completions' \in [made : Nat, pending : Nat, inside : Nat]
      BY <1>4, <3>1, <3>2
    <3>4. completions'.made = completions.made /\ completions'.pending = p /\ completions'.inside = i
      BY <1>4, <3>1, <3>2, Tally
    <3> QED
      BY <3>3, <3>4 DEF p, i
  <2> QED
    BY <1>5, <1>6, <1>7, <2>1
<1>9. asks' \in SUBSET AskRec /\ IsFiniteSet(asks')
  <2>1. IsFiniteSet(rest)
    BY <1>5, FS_RemoveElement
  <2>2. IsFiniteSet(rest \cup {b})
    BY <2>1, FS_AddElement
  <2> QED
    BY <1>1, <1>3, <2>2 DEF TurnOK
<1>10. AsksInv'
  <2>1. Calls' = Calls /\ \A c : Running(c)' = Running(c)
    BY DEF Calls, Running
  <2>2. \A x \in asks : /\ x.of \in Calls' /\ Running(x.of)' /\ calls'[x.of].kind = "program"
                        /\ x.id <= completions.made
    BY <2>1 DEF AsksInv
  <2>3. \A x \in asks' : /\ x.of \in Calls' /\ Running(x.of)' /\ calls'[x.of].kind = "program"
                         /\ x.id <= completions.made
    BY <1>1, <1>3, <2>2
  <2>4. \A x, y \in asks' : x.id = y.id => x = y
    BY <1>1, <1>2, <1>3 DEF AsksInv
  <2> QED
    BY <1>8, <2>3, <2>4 DEF AsksInv
<1> QED
  BY <1>8, <1>9, <1>10

\* One more waits at the gate.
LEMMA OneMore ==
    ASSUME TurnOK, AsksInv, Kept, NEW c \in Calls, calls[c].kind = "program",
           \A d \in Calls : calls'[d].at = calls[d].at, Running(c),
           completions' = [completions EXCEPT !.made = @ + 1],
           asks' = asks \cup {[of |-> c, id |-> completions.made + 1, at |-> "gate"]}
    PROVE  /\ AsksInv' /\ asks' \in SUBSET AskRec /\ IsFiniteSet(asks')
           /\ completions' \in [made : Nat, pending : Nat, inside : Nat]
           /\ completions'.pending = completions.pending
<1> DEFINE b == [of |-> c, id |-> completions.made + 1, at |-> "gate"]
<1>1. completions \in [made : Nat, pending : Nat, inside : Nat] /\ c \in Nat
  BY CallsAre DEF TurnOK
<1>2. b \in AskRec /\ b.of = c /\ b.id = completions.made + 1 /\ b.at = "gate"
  BY <1>1 DEF AskRec
<1>3. asks' = asks \cup {b}
  OBVIOUS
<1> HIDE DEF b
<1>4. Sent' = Sent /\ Inside' = Inside
  BY <1>2, <1>3 DEF Sent, Inside
<1>5. /\ completions'.made = completions.made + 1 /\ completions'.pending = completions.pending
      /\ completions'.inside = completions.inside /\ completions' \in [made : Nat, pending : Nat, inside : Nat]
  BY <1>1
<1>6. asks' \in SUBSET AskRec /\ IsFiniteSet(asks')
  BY <1>2, <1>3, FS_AddElement DEF TurnOK
<1>7. \A x \in asks : x.of \in Calls /\ calls'[x.of].at = "runs"
  BY DEF AsksInv, Running
<1>8. \A x \in asks : /\ x.of \in Calls' /\ Running(x.of)' /\ calls'[x.of].kind = "program"
                      /\ x.id <= completions.made
  BY <1>7, AsksStand
<1>9. \A x \in asks : x \in AskRec /\ x.id \in Nat
  BY DEF TurnOK, AskRec
<1>10. \A x \in asks' : /\ x.of \in Calls' /\ Running(x.of)' /\ calls'[x.of].kind = "program"
                        /\ x.id <= completions'.made
  <2>1. c \in Calls' /\ Running(c)' /\ calls'[c].kind = "program"
    BY KeptIs DEF Kept, Running
  <2> QED
    BY <1>1, <1>2, <1>3, <1>5, <1>8, <1>9, <2>1
<1>11. \A x, y \in asks' : x.id = y.id => x = y
  BY <1>1, <1>2, <1>3, <1>8, <1>9 DEF AsksInv
<1>12. AsksInv'
  BY <1>4, <1>5, <1>10, <1>11 DEF AsksInv
<1> QED
  BY <1>5, <1>6, <1>12
----------------------------------------------------------------------------
(* The steps of a turn *)

\* Calls that run are cut short.
LEMMA CutCalls ==
    ASSUME TurnOK, NEW some \in SUBSET Calls, \A c \in some : Running(c),
           calls' = [c \in Calls |-> IF c \in some THEN [calls[c] EXCEPT !.at = "cut"] ELSE calls[c]]
    PROVE  /\ Kept
           /\ \A c \in some : calls'[c].at = "cut"
           /\ \A c \in Calls \ some : calls'[c] = calls[c]
<1>1. /\ Calls = 1 .. Len(calls) /\ Len(calls) \in Nat
      /\ \A c \in Calls : calls[c] \in CallRec
  BY CallsAre
<1>2. \A c \in some : /\ calls'[c] = [calls[c] EXCEPT !.at = "cut"] /\ calls'[c] \in CallRec
                      /\ calls'[c].by = calls[c].by /\ calls'[c].kind = calls[c].kind
                      /\ calls'[c].since = calls[c].since /\ calls'[c].at = "cut"
  BY <1>1 DEF CallRec
<1>3. \A c \in Calls \ some : calls'[c] = calls[c]
  OBVIOUS
<1>4. \A c \in Calls : calls'[c] \in CallRec
  BY <1>1, <1>2, <1>3
<1>5. calls' \in Seq(CallRec) /\ DOMAIN calls' = Calls
  <2>1. calls' \in [1 .. Len(calls) -> CallRec]
    BY <1>1, <1>4
  <2> QED
    BY <1>1, <2>1
<1> QED
  BY <1>2, <1>3, <1>5 DEF Kept, Running

\* A turn whose chat run ends early leaves nothing under way.
LEMMA Stopped ==
    ASSUME TurnInv, NEW at \in {"failed", "cut"}, StopWith(at), UNCHANGED usage, told' \in {told, Of(Chat)}
    PROVE  TurnInv'
<1>1. TurnOK /\ RunsInv /\ AsksInv /\ ReserveInv /\ NotesInv /\ ToldInv
  BY DEF TurnInv
<1>2. Kept /\ \A c \in Calls : calls'[c].at # "runs"
  <2> DEFINE some == {c \in Calls : Running(c)}
  <2>1. calls' = [c \in Calls |-> IF c \in some THEN [calls[c] EXCEPT !.at = "cut"] ELSE calls[c]]
    BY DEF StopWith
  <2>2. some \in SUBSET Calls /\ \A c \in some : Running(c)
    OBVIOUS
  <2>3. \A c \in Calls \ some : calls[c].at # "runs"
    BY DEF Running
  <2> HIDE DEF some
  <2> QED
    BY <1>1, <2>1, <2>2, <2>3, CutCalls
<1>3. /\ DOMAIN runs' = DOMAIN runs /\ runs' \in [DOMAIN runs -> RunRec]
      /\ \A r \in DOMAIN runs : /\ runs'[r].noted = runs[r].noted /\ runs'[r].notes = runs[r].notes
                                /\ runs'[r].warned = runs[r].warned
                                /\ runs'[r].at \in {"done", "failed", "cut"}
                                /\ runs'[r].at = "done" => runs[r].at = "done"
  <2>1. DOMAIN runs' = DOMAIN runs
    BY DEF StopWith
  <2>2. ASSUME NEW r \in DOMAIN runs
        PROVE  /\ runs'[r] \in RunRec
               /\ runs'[r].noted = runs[r].noted /\ runs'[r].notes = runs[r].notes
               /\ runs'[r].warned = runs[r].warned
               /\ runs'[r].at \in {"done", "failed", "cut"}
               /\ runs'[r].at = "done" => runs[r].at = "done"
    <3>1. runs[r] \in RunRec
      BY <1>1, CallsAre
    <3>2. CASE runs[r].at = "done"
      BY <3>1, <3>2 DEF StopWith
    <3>3. CASE runs[r].at # "done"
      <4> DEFINE how == IF r = Chat THEN at ELSE "cut"
      <4>1. how \in {"failed", "cut"} /\ runs'[r] = [runs[r] EXCEPT !.at = how]
        BY <3>3 DEF StopWith
      <4> HIDE DEF how
      <4> QED
        BY <3>1, <4>1 DEF RunRec
    <3> QED
      BY <3>2, <3>3
  <2>3. runs' \in [DOMAIN runs -> RunRec]
    <3>1. runs' = [r \in DOMAIN runs |-> runs'[r]]
      BY DEF StopWith
    <3> QED
      BY <2>2, <3>1
  <2> QED
    BY <2>1, <2>2, <2>3
<1>4. /\ completions' \in [made : Nat, pending : Nat, inside : Nat]
      /\ completions'.pending = 0 /\ completions'.inside = 0 /\ asks' = {}
  <2>1. completions \in [made : Nat, pending : Nat, inside : Nat]
    BY <1>1 DEF TurnOK
  <2>2. completions' = [completions EXCEPT !.pending = 0, !.inside = 0] /\ asks' = {}
    BY DEF StopWith
  <2>3. completions' \in [made : Nat, pending : Nat, inside : Nat]
    BY <2>1, <2>2
  <2> QED
    BY <2>1, <2>2, <2>3, Tally
<1>5. TurnOK'
  <2>1. Calls' = Calls /\ Of(Chat) \subseteq Calls
    BY <1>1, <1>2, KeptIs DEF Of
  <2> QED
    BY <1>1, <1>2, <1>3, <1>4, <2>1, FS_EmptySet DEF TurnOK, Kept, Chat
<1>6. RunsInv'
  <2>1. \A r \in DOMAIN runs \ {Chat} : runs'[r].at \in Active => calls'[r].at = "runs"
    BY <1>3 DEF Active
  <2> QED
    BY <1>1, <1>2, <1>3, <2>1, RunsKept
<1>7. AsksInv'
  <2>1. Sent' = {} /\ Inside' = {}
    BY <1>4 DEF Sent, Inside
  <2> QED
    BY <1>4, <2>1, FS_EmptySet DEF AsksInv
<1>8. ReserveInv'
  <2>1. completions.pending \in Nat
    BY <1>1 DEF TurnOK
  <2>2. completions'.pending <= completions.pending /\ completions'.pending \in Nat
    BY <1>4, <2>1
  <2> QED
    BY <1>1, <1>2, <2>1, <2>2, ReserveBy
<1>9. NotesInv'
  BY <1>1, <1>3, NotesKept
<1>10. ToldInv'
  <2>1. Chat \in DOMAIN runs
    BY <1>1 DEF TurnOK
  <2> QED
    BY <1>1, <1>2, <1>3, <2>1, ToldKept
<1> QED
  BY <1>5, <1>6, <1>7, <1>8, <1>9, <1>10 DEF TurnInv

\* While the model is to answer a run, no call of it runs, and no program is alone unless
\* the run is the chat run.
LEMMA Answered ==
    ASSUME TurnInv, NEW r \in DOMAIN runs, runs[r].at = "sent"
    PROVE  /\ \A c \in Calls : Running(c) => calls[c].by # r
           /\ \A c \in Calls : ~(Running(c) /\ calls[c].kind = "program" /\ Alone(c))
<1>1. TurnOK /\ RunsInv
  BY DEF TurnInv
<1>2. \A c \in Calls : Running(c) => calls[c].by # r
  BY <1>1 DEF RunsInv
<1>3. ASSUME NEW c \in Calls, Running(c), calls[c].kind = "program", Alone(c) PROVE FALSE
  <2>1. c \in Of(Chat) /\ r # Chat
    BY <1>1, <1>2, <1>3 DEF RunsInv, Of
  <2>2. r \in Calls /\ Running(r) /\ calls[r].kind = "explore" /\ r \in Of(Chat)
    BY <1>1, <2>1 DEF RunsInv, TurnOK, Of
  <2>3. calls[r].since = calls[c].since
    BY <1>1, <1>3, <2>1, <2>2 DEF RunsInv
  <2>4. calls[r].since < calls[c].since
    BY <1>3, <2>2 DEF Alone
  <2>5. calls[c].since \in Nat
    BY <1>1, CallsAre DEF CallRec
  <2> QED
    BY <2>3, <2>4, <2>5
<1> QED
  BY <1>2, <1>3
\* A request goes out.
LEMMA Sends ==
    ASSUME TurnInv, NEW r \in DOMAIN runs, Send(r)
    PROVE  TurnInv'
<1>1. TurnOK /\ RunsInv /\ AsksInv /\ ReserveInv /\ NotesInv /\ ToldInv
  BY DEF TurnInv
<1> DEFINE run == [runs[r] EXCEPT !.at = "sent"]
<1>2. /\ runs[r] \in RunRec /\ run \in RunRec /\ run.at = "sent" /\ run.noted = runs[r].noted
      /\ run.notes = runs[r].notes /\ run.warned = runs[r].warned
  BY <1>1, CallsAre DEF RunRec
<1>3. runs' = [runs EXCEPT ![r] = run]
  BY DEF Send
<1> HIDE DEF run
<1>4. /\ DOMAIN runs' = DOMAIN runs /\ runs' \in [DOMAIN runs -> RunRec]
      /\ runs'[r] = run /\ \A q \in DOMAIN runs \ {r} : runs'[q] = runs[q]
  BY <1>1, <1>2, <1>3, OneRun
<1>5. Kept /\ UNCHANGED <<usage, completions, calls, asks>> /\ told' \in {told, Of(Chat)}
  BY <1>1, SameCalls DEF Send
<1>6. TurnOK'
  <2>1. Calls' = Calls /\ Of(Chat) \subseteq Calls
    BY <1>1, <1>5, KeptIs DEF Of
  <2> QED
    BY <1>1, <1>4, <1>5, <2>1 DEF TurnOK, Chat
<1>7. RunsInv'
  <2>1. \A c \in Calls : Running(c) => calls[c].by # r
    BY <1>1 DEF Send, MayAsk, RunsInv, Of
  <2>2. \A c \in Calls : calls'[c].at = "runs" => runs'[calls[c].by].at = "acts"
    BY <1>1, <1>4, <1>5, <2>1 DEF RunsInv, Running
  <2>3. \A q \in DOMAIN runs \ {Chat} : runs'[q].at \in Active => calls'[q].at = "runs"
    <3>1. runs[r].at \in {"asks", "sent", "acts"}
      BY DEF Send, MayAsk
    <3> QED
      BY <1>1, <1>4, <1>5, <3>1 DEF RunsInv, Running, Active
  <2> QED
    BY <1>1, <1>4, <1>5, <2>2, <2>3, RunsKept
<1>8. AsksInv'
  BY <1>1, <1>5, AsksSame DEF AsksInv, Running
<1>9. ReserveInv'
  BY <1>1, <1>5, ReserveBy DEF TurnOK
<1>10. NotesInv'
  BY <1>1, <1>2, <1>4, NotesKept
<1>11. ToldInv'
  <2>1. Chat \in DOMAIN runs /\ (r = Chat => told' = Of(Chat))
    BY <1>1 DEF TurnOK, Send
  <2> QED
    BY <1>1, <1>2, <1>4, <1>5, <2>1, ToldKept
<1> QED
  BY <1>6, <1>7, <1>8, <1>9, <1>10, <1>11 DEF TurnInv

\* A run's last answer.
LEMMA Finishes ==
    ASSUME TurnInv, NEW r \in DOMAIN runs, Finish(r)
    PROVE  TurnInv'
<1>1. TurnOK /\ RunsInv /\ AsksInv /\ ReserveInv /\ NotesInv /\ ToldInv
  BY DEF TurnInv
<1> DEFINE run == [runs[r] EXCEPT !.at = "done"]
<1>2. /\ runs[r] \in RunRec /\ run \in RunRec /\ run.at = "done" /\ run.noted = runs[r].noted
      /\ run.notes = runs[r].notes /\ run.warned = runs[r].warned
  BY <1>1, CallsAre DEF RunRec
<1>3. runs' = [runs EXCEPT ![r] = run] /\ runs[r].at = "sent"
  BY DEF Finish
<1> HIDE DEF run
<1>4. /\ DOMAIN runs' = DOMAIN runs /\ runs' \in [DOMAIN runs -> RunRec]
      /\ runs'[r] = run /\ \A q \in DOMAIN runs \ {r} : runs'[q] = runs[q]
  BY <1>1, <1>2, <1>3, OneRun
<1>5. Kept /\ UNCHANGED <<completions, calls, asks, told>> /\ usage' = usage + 1
  BY <1>1, SameCalls DEF Finish
<1>6. TurnOK'
  <2>1. Calls' = Calls
    BY <1>1, <1>5, KeptIs
  <2> QED
    BY <1>1, <1>4, <1>5, <2>1 DEF TurnOK, Chat
<1>7. /\ \A c \in Calls : Running(c) => calls[c].by # r
      /\ \A c \in Calls : ~(Running(c) /\ calls[c].kind = "program" /\ Alone(c))
  BY <1>3, Answered
<1>8. RunsInv'
  <2>1. \A c \in Calls : calls'[c].at = "runs" => runs'[calls[c].by].at = "acts"
    BY <1>1, <1>4, <1>5, <1>7 DEF RunsInv, Running
  <2>2. \A q \in DOMAIN runs \ {Chat} : runs'[q].at \in Active => calls'[q].at = "runs"
    BY <1>1, <1>2, <1>4, <1>5 DEF RunsInv, Running, Active
  <2> QED
    BY <1>1, <1>4, <1>5, <2>1, <2>2, RunsKept
<1>9. AsksInv'
  BY <1>1, <1>5, AsksSame DEF AsksInv, Running
<1>10. ReserveInv'
  <2>1. completions.pending \in Nat /\ completions'.pending \in Nat
    BY <1>1, <1>5 DEF TurnOK
  <2> QED
    BY <1>1, <1>5, <1>7, <2>1, ReserveBy
<1>11. NotesInv'
  BY <1>1, <1>2, <1>4, NotesKept
<1>12. ToldInv'
  <2>1. Chat \in DOMAIN runs
    BY <1>1 DEF TurnOK
  <2> QED
    BY <1>1, <1>2, <1>3, <1>4, <1>5, <2>1, ToldKept
<1> QED
  BY <1>6, <1>8, <1>9, <1>10, <1>11, <1>12 DEF TurnInv

\* A call ends and the run that made it hears of it.
LEMMA EndsHeard ==
    ASSUME TurnInv, NEW c \in Calls, Running(c), Ends(c), Hears(calls[c].by),
           UNCHANGED <<usage, completions, asks, told>>,
           \A a \in asks : a.of # c,
           calls[c].kind = "explore" => runs[c].at = "done"
    PROVE  TurnInv'
<1>1. TurnOK /\ RunsInv /\ AsksInv /\ ReserveInv /\ NotesInv /\ ToldInv
  BY DEF TurnInv
<1> DEFINE call == [calls[c] EXCEPT !.at = "done"]
           r == calls[c].by
           run == Heard(r)
<1>2. Kept /\ calls'[c].at = "done" /\ \A d \in Calls \ {c} : calls'[d] = calls[d]
  <2>1. /\ calls[c] \in CallRec /\ call \in CallRec /\ call.at = "done" /\ call.by = calls[c].by
        /\ call.kind = calls[c].kind /\ call.since = calls[c].since
    BY <1>1, CallsAre DEF CallRec
  <2>2. calls' = [calls EXCEPT ![c] = call] /\ calls[c].at = "runs"
    BY DEF Ends, Running
  <2> HIDE DEF call
  <2> QED
    BY <1>1, <2>1, <2>2, OneCall
<1>3. r \in DOMAIN runs
  BY <1>1 DEF RunsInv
<1>4. run \in RunRec /\ run.at = runs[r].at
  <2>1. runs[r] \in RunRec
    BY <1>1, <1>3, CallsAre
  <2> DEFINE n == runs[r].noted \/ Due(r)
             k == IF Due(r) THEN runs[r].notes + 1 ELSE runs[r].notes
             w == runs[r].warned \/ 4 * usage >= 3 * RequestLimit
  <2>2. k \in Nat
    BY <2>1 DEF RunRec
  <2>3. n \in BOOLEAN /\ w \in BOOLEAN
    BY <2>1 DEF RunRec
  <2>4. run = [runs[r] EXCEPT !.noted = n, !.notes = k, !.warned = w]
    BY DEF Heard
  <2> HIDE DEF n, k, w, run
  <2> QED
    BY <2>1, <2>2, <2>3, <2>4 DEF RunRec
<1>5. runs' = [runs EXCEPT ![r] = run]
  BY DEF Hears
<1>6. run = Heard(r)
  OBVIOUS
<1> HIDE DEF run
<1>7. /\ DOMAIN runs' = DOMAIN runs /\ runs' \in [DOMAIN runs -> RunRec]
      /\ runs'[r] = run /\ \A q \in DOMAIN runs \ {r} : runs'[q] = runs[q]
  BY <1>1, <1>3, <1>4, <1>5, OneRun
<1>8. \A q \in DOMAIN runs : runs'[q].at = runs[q].at
  BY <1>4, <1>7
<1>9. TurnOK'
  <2>1. Calls' = Calls
    BY <1>1, <1>2, KeptIs
  <2> QED
    BY <1>1, <1>2, <1>7, <2>1 DEF TurnOK, Chat, Kept
<1>10. RunsInv'
  <2>1. \A d \in Calls : calls'[d].at = "runs" => runs'[calls[d].by].at = "acts"
    BY <1>1, <1>2, <1>8 DEF RunsInv, Running, Kept
  <2>2. \A q \in DOMAIN runs \ {Chat} : runs'[q].at \in Active => calls'[q].at = "runs"
    <3>1. \A q \in DOMAIN runs \ {Chat} : q \in Calls
      BY <1>1 DEF TurnOK
    <3> QED
      BY <1>1, <1>2, <1>8, <3>1 DEF RunsInv, Running, Active
  <2> QED
    BY <1>1, <1>2, <1>7, <2>1, <2>2, RunsKept
<1>11. AsksInv'
  <2>1. \A a \in asks : calls'[a.of].at = "runs"
    BY <1>1, <1>2 DEF AsksInv, Running
  <2> QED
    BY <1>1, <1>2, <2>1, AsksSame
<1>12. ReserveInv'
  BY <1>1, <1>2, ReserveBy DEF TurnOK
<1>13. NotesInv'
  BY <1>1, <1>3, <1>6, <1>7, NotesKept
<1>14. ToldInv'
  <2>1. Chat \in DOMAIN runs
    BY <1>1 DEF TurnOK
  <2> QED
    BY <1>1, <1>2, <1>8, <2>1, ToldKept
<1> QED
  BY <1>9, <1>10, <1>11, <1>12, <1>13, <1>14 DEF TurnInv

\* A subagent is cut off and summed up.
LEMMA Recovers ==
    ASSUME TurnInv, NEW c \in Calls, Recover(c)
    PROVE  TurnInv'
<1>1. TurnOK /\ RunsInv /\ AsksInv /\ ReserveInv /\ NotesInv /\ ToldInv
  BY DEF TurnInv
<1> DEFINE run == [runs[c] EXCEPT !.at = "done"]
<1>2. c \in DOMAIN runs /\ c # Chat /\ Running(c) /\ calls[c].kind = "explore"
  BY <1>1, CallsAre DEF Recover, RunsInv
<1>3. /\ runs[c] \in RunRec /\ run \in RunRec /\ run.at = "done" /\ run.noted = runs[c].noted
      /\ run.notes = runs[c].notes /\ run.warned = runs[c].warned
  BY <1>1, <1>2, CallsAre DEF RunRec
<1>4. runs' = [runs EXCEPT ![c] = run] /\ UNCHANGED <<usage, completions, asks, told>>
  BY DEF Recover
<1> HIDE DEF run
<1>5. /\ DOMAIN runs' = DOMAIN runs /\ runs' \in [DOMAIN runs -> RunRec]
      /\ runs'[c] = run /\ \A q \in DOMAIN runs \ {c} : runs'[q] = runs[q]
  BY <1>1, <1>2, <1>3, <1>4, OneRun
<1>6. /\ Kept
      /\ \A d \in Calls : Running(d) /\ calls[d].by = c => calls'[d].at = "cut"
      /\ \A d \in Calls : ~(Running(d) /\ calls[d].by = c) => calls'[d] = calls[d]
  <2> DEFINE some == {d \in Calls : Running(d) /\ calls[d].by = c}
  <2>1. calls' = [d \in Calls |-> IF d \in some THEN [calls[d] EXCEPT !.at = "cut"] ELSE calls[d]]
    BY DEF Recover
  <2>2. some \in SUBSET Calls /\ \A d \in some : Running(d)
    OBVIOUS
  <2>3. Kept /\ (\A d \in some : calls'[d].at = "cut") /\ \A d \in Calls \ some : calls'[d] = calls[d]
    <3> HIDE DEF some
    <3> QED
      BY <1>1, <2>1, <2>2, CutCalls
  <2> QED
    BY <2>3
<1>7. TurnOK'
  <2>1. Calls' = Calls
    BY <1>1, <1>6, KeptIs
  <2> QED
    BY <1>1, <1>4, <1>5, <1>6, <2>1 DEF TurnOK, Chat, Kept
<1>8. RunsInv'
  <2>1. \A d \in Calls : calls'[d].at = "runs" => runs'[calls[d].by].at = "acts"
    BY <1>1, <1>5, <1>6 DEF RunsInv, Running
  <2>2. \A q \in DOMAIN runs \ {Chat} : runs'[q].at \in Active => calls'[q].at = "runs"
    <3>1. ASSUME NEW q \in DOMAIN runs \ {Chat}, runs'[q].at \in Active PROVE calls'[q].at = "runs"
      <4>1. q # c /\ q \in Calls /\ runs[q].at \in {"asks", "sent", "acts"}
        BY <1>1, <1>3, <1>5, <3>1 DEF TurnOK, Active
      <4>2. Running(q) /\ calls[q].kind = "explore"
        BY <1>1, <4>1, <3>1 DEF RunsInv
      <4>3. calls[q].by = Chat
        BY <1>1, <4>1, <4>2 DEF RunsInv
      <4> QED
        BY <1>2, <1>6, <4>1, <4>2, <4>3 DEF Running
    <3> QED
      BY <3>1
  <2> QED
    BY <1>1, <1>5, <1>6, <2>1, <2>2, RunsKept
<1>9. AsksInv'
  <2>1. \A a \in asks : calls'[a.of].at = "runs"
    BY <1>1, <1>2, <1>6 DEF AsksInv, RunsInv, Running
  <2> QED
    BY <1>1, <1>4, <1>6, <2>1, AsksSame
<1>10. ReserveInv'
  BY <1>1, <1>4, <1>6, ReserveBy DEF TurnOK
<1>11. NotesInv'
  BY <1>1, <1>2, <1>3, <1>5, NotesKept
<1>12. ToldInv'
  <2>1. Chat \in DOMAIN runs
    BY <1>1 DEF TurnOK
  <2> QED
    BY <1>1, <1>2, <1>4, <1>5, <1>6, <2>1, ToldKept
<1> QED
  BY <1>7, <1>8, <1>9, <1>10, <1>11, <1>12 DEF TurnInv
\* What a completion does leaves the runs, and how far the calls are.
LEMMA AskKeeps ==
    ASSUME TurnInv, Kept, UNCHANGED <<runs, told>>, \A d \in Calls : calls'[d].at = calls[d].at,
           usage' \in Nat, AsksInv', asks' \in SUBSET AskRec, IsFiniteSet(asks'),
           completions' \in [made : Nat, pending : Nat, inside : Nat],
           \/ usage' = usage /\ completions'.pending <= completions.pending
           \/ usage' = usage /\ usage + completions'.pending < RequestLimit
           \/ usage' = usage + 1 /\ completions.pending >= 1 /\ completions'.pending = completions.pending - 1
    PROVE  TurnInv'
<1>1. TurnOK /\ RunsInv /\ AsksInv /\ ReserveInv /\ NotesInv /\ ToldInv
  BY DEF TurnInv
<1>2. TurnOK'
  <2>1. Calls' = Calls
    BY <1>1, KeptIs
  <2> QED
    BY <1>1, <2>1 DEF TurnOK, Chat, Kept
<1>3. RunsInv'
  <2>1. \A d \in Calls : calls'[d].at = "runs" => runs'[calls[d].by].at = "acts"
    BY <1>1 DEF RunsInv, Running
  <2>2. \A q \in DOMAIN runs \ {Chat} : runs'[q].at \in Active => calls'[q].at = "runs"
    BY <1>1 DEF RunsInv, Running, Active, TurnOK
  <2> QED
    BY <1>1, <2>1, <2>2, RunsKept
<1>4. ReserveInv'
  <2>1. completions.pending \in Nat /\ completions'.pending \in Nat
    BY <1>1 DEF TurnOK
  <2> QED
    BY <1>1, <2>1, ReserveBy
<1>5. NotesInv'
  BY <1>1, NotesKept
<1>6. ToldInv'
  BY <1>1, ToldKept
<1> QED
  BY <1>1, <1>2, <1>3, <1>4, <1>5, <1>6 DEF TurnInv

\* A completion is let in.
LEMMA Enters ==
    ASSUME TurnInv, NEW a \in asks, Enter(a)
    PROVE  TurnInv'
<1>1. TurnOK /\ AsksInv
  BY DEF TurnInv
<1>2. /\ completions' = [completions EXCEPT !.inside = completions.inside + 1]
      /\ a.at = "gate" /\ Moves(a, "opens") /\ UNCHANGED <<usage, runs, calls, told>>
  BY DEF Enter
<1>3. completions' = [completions EXCEPT !.pending = IF "opens" = "sent" THEN @ + 1 ELSE @,
                                         !.inside = IF a.at = "gate" THEN @ + 1 ELSE @]
  <2>1. completions \in [made : Nat, pending : Nat, inside : Nat]
    BY <1>1 DEF TurnOK
  <2> QED
    BY <1>2, <2>1
<1>4. /\ AsksInv' /\ asks' \in SUBSET AskRec /\ IsFiniteSet(asks')
      /\ completions' \in [made : Nat, pending : Nat, inside : Nat]
      /\ completions'.pending = completions.pending
  <2> DEFINE at == "opens"
  <2>1. /\ AsksInv' /\ asks' \in SUBSET AskRec /\ IsFiniteSet(asks')
        /\ completions' \in [made : Nat, pending : Nat, inside : Nat]
        /\ completions'.pending = IF at = "sent" THEN completions.pending + 1 ELSE completions.pending
    BY <1>1, <1>2, <1>3, OneMoves
  <2> QED
    BY <2>1
<1>5. usage' \in Nat /\ completions'.pending <= completions.pending
  BY <1>1, <1>2, <1>4 DEF TurnOK
<1> QED
  BY <1>1, <1>2, <1>4, <1>5, AskKeeps, SameCalls

\* A completion that was sent is answered, or one inside the gate runs out of time.
LEMMA Leaves ==
    ASSUME TurnInv, NEW a \in asks
    PROVE  Completed(a) \/ TimedOut(a) => TurnInv'
<1>1. TurnOK /\ AsksInv
  BY DEF TurnInv
<1>2. \A b \in asks : calls[b.of].at = "runs"
  BY <1>1 DEF AsksInv, Running
<1>3. ASSUME Completed(a) PROVE TurnInv'
  <2>1. Kept /\ UNCHANGED <<runs, calls, told>> /\ usage' = usage + 1 /\ asks' = asks \ {a} /\ completions' = Left(a)
        /\ a.at = "sent"
    BY <1>1, <1>3, SameCalls DEF Completed
  <2>2. /\ AsksInv' /\ asks' \in SUBSET AskRec /\ IsFiniteSet(asks')
        /\ completions' \in [made : Nat, pending : Nat, inside : Nat]
        /\ completions.pending >= 1 /\ completions'.pending = completions.pending - 1
    BY <1>1, <1>2, <2>1, OneLess
  <2>3. usage' \in Nat
    BY <1>1, <2>1 DEF TurnOK
  <2> QED
    BY <2>1, <2>2, <2>3, AskKeeps
<1>4. ASSUME TimedOut(a) PROVE TurnInv'
  <2>1. Kept /\ UNCHANGED <<usage, runs, calls, told>> /\ asks' = asks \ {a} /\ completions' = Left(a)
    BY <1>1, <1>4, SameCalls DEF TimedOut
  <2>2. /\ AsksInv' /\ asks' \in SUBSET AskRec /\ IsFiniteSet(asks')
        /\ completions' \in [made : Nat, pending : Nat, inside : Nat]
        /\ completions'.pending <= completions.pending
    BY <1>1, <1>2, <2>1, OneLess
  <2>3. usage' \in Nat
    BY <1>1, <2>1 DEF TurnOK
  <2> QED
    BY <2>1, <2>2, <2>3, AskKeeps
<1> QED
  BY <1>3, <1>4

\* A completion is refused, or its request goes out within the reserve.
LEMMA Opens ==
    ASSUME TurnInv, NEW a \in asks, Open(a)
    PROVE  TurnInv'
<1>1. TurnOK /\ AsksInv
  BY DEF TurnInv
<1>2. UNCHANGED <<usage, runs, told>> /\ usage' \in Nat /\ a.at = "opens"
  BY <1>1 DEF Open, TurnOK
<1>3. \A b \in asks : b.of \in Calls /\ calls[b.of].at = "runs"
  BY <1>1 DEF AsksInv, Running
<1>4. CASE usage >= RequestLimit \/ Refused
  <2> DEFINE ending == calls[a.of].ending \/ usage >= RequestLimit
             call == [calls[a.of] EXCEPT !.ending = ending]
  <2>1. asks' = asks \ {a} /\ completions' = Left(a) /\ calls' = [calls EXCEPT ![a.of] = call]
    BY <1>4 DEF Open
  <2>2. /\ calls[a.of] \in CallRec /\ call \in CallRec /\ call.by = calls[a.of].by
        /\ call.kind = calls[a.of].kind /\ call.since = calls[a.of].since /\ call.at = calls[a.of].at
    <3>1. ending \in BOOLEAN /\ calls[a.of] \in CallRec
      BY <1>1, <1>3, CallsAre DEF CallRec
    <3> HIDE DEF ending
    <3> QED
      BY <3>1 DEF CallRec
  <2> HIDE DEF call
  <2>3. Kept /\ calls'[a.of] = call /\ \A d \in Calls \ {a.of} : calls'[d] = calls[d]
    BY <1>1, <1>3, <2>1, <2>2, OneCall
  <2>4. \A d \in Calls : calls'[d].at = calls[d].at
    BY <2>2, <2>3
  <2>5. /\ AsksInv' /\ asks' \in SUBSET AskRec /\ IsFiniteSet(asks')
        /\ completions' \in [made : Nat, pending : Nat, inside : Nat]
        /\ completions'.pending <= completions.pending
    BY <1>1, <1>3, <2>1, <2>3, <2>4, OneLess
  <2> QED
    BY <1>2, <2>3, <2>4, <2>5, AskKeeps
<1>5. CASE ~(usage >= RequestLimit \/ Refused)
  <2>1. /\ Moves(a, "sent") /\ UNCHANGED calls
        /\ completions' = [completions EXCEPT !.pending = completions.pending + 1]
    BY <1>5 DEF Open
  <2>2. completions \in [made : Nat, pending : Nat, inside : Nat]
    BY <1>1 DEF TurnOK
  <2>3. completions' = [completions EXCEPT !.pending = IF "sent" = "sent" THEN @ + 1 ELSE @,
                                           !.inside = IF a.at = "gate" THEN @ + 1 ELSE @]
    BY <1>2, <2>1, <2>2
  <2> DEFINE at == "sent"
  <2>4. /\ AsksInv' /\ asks' \in SUBSET AskRec /\ IsFiniteSet(asks')
        /\ completions' \in [made : Nat, pending : Nat, inside : Nat]
        /\ completions'.pending = IF at = "sent" THEN completions.pending + 1 ELSE completions.pending
    BY <1>1, <1>2, <2>1, <2>3, OneMoves
  <2>5. usage + completions'.pending < RequestLimit
    <3>1. usage \in Nat /\ RequestLimit \in Nat
      BY <1>1, TurnBounds DEF TurnOK
    <3>2. completions'.pending = completions.pending + 1
      BY <2>4
    <3> QED
      BY <1>5, <2>2, <3>1, <3>2 DEF Refused
  <2> QED
    BY <1>1, <1>2, <2>1, <2>4, <2>5, AskKeeps, SameCalls
<1> QED
  BY <1>4, <1>5

\* A program calls complete.
LEMMA Completes ==
    ASSUME TurnInv, NEW c \in Calls, Complete(c)
    PROVE  TurnInv'
<1>1. TurnOK /\ AsksInv
  BY DEF TurnInv
<1> DEFINE call == [calls[c] EXCEPT !.hosts = calls[c].hosts + 1]
<1>2. /\ Running(c) /\ calls[c].kind = "program" /\ calls' = [calls EXCEPT ![c] = call]
      /\ UNCHANGED <<usage, runs, told>>
  BY DEF Complete
<1>3. /\ calls[c] \in CallRec /\ call \in CallRec /\ call.by = calls[c].by
      /\ call.kind = calls[c].kind /\ call.since = calls[c].since /\ call.at = calls[c].at
  BY <1>1, CallsAre DEF CallRec
<1> HIDE DEF call
<1>4. Kept /\ calls'[c] = call /\ \A d \in Calls \ {c} : calls'[d] = calls[d]
  BY <1>1, <1>2, <1>3, OneCall
<1>5. \A d \in Calls : calls'[d].at = calls[d].at
  BY <1>3, <1>4
<1>6. usage' \in Nat /\ completions \in [made : Nat, pending : Nat, inside : Nat]
  BY <1>1, <1>2 DEF TurnOK
<1>7. CASE completions.made >= MaxCompletions
  <2>1. UNCHANGED <<completions, asks>>
    BY <1>7 DEF Complete
  <2>2. AsksInv'
    BY <1>1, <1>4, <1>5, <2>1, AsksSame DEF AsksInv, Running
  <2>3. completions'.pending <= completions.pending
    BY <1>6, <2>1
  <2> QED
    BY <1>1, <1>2, <1>4, <1>5, <1>6, <2>1, <2>2, <2>3, AskKeeps DEF TurnOK
<1>8. CASE ~(completions.made >= MaxCompletions)
  <2>1. /\ completions' = [completions EXCEPT !.made = @ + 1]
        /\ asks' = asks \cup {[of |-> c, id |-> completions.made + 1, at |-> "gate"]}
    BY <1>8 DEF Complete
  <2>2. /\ AsksInv' /\ asks' \in SUBSET AskRec /\ IsFiniteSet(asks')
        /\ completions' \in [made : Nat, pending : Nat, inside : Nat]
        /\ completions'.pending = completions.pending
    BY <1>1, <1>2, <1>4, <1>5, <2>1, OneMore
  <2>3. completions'.pending <= completions.pending
    BY <1>6, <2>2
  <2> QED
    BY <1>2, <1>4, <1>5, <1>6, <2>2, <2>3, AskKeeps
<1> QED
  BY <1>7, <1>8

\* A program runs out of time.
LEMMA RunsOut ==
    ASSUME TurnInv, NEW c \in Calls, OutOfTime(c)
    PROVE  TurnInv'
<1>1. TurnOK /\ AsksInv
  BY DEF TurnInv
<1> DEFINE call == [calls[c] EXCEPT !.hosts = MaxHostCalls]
           cut == {a \in asks : a.of = c}
<1>2. /\ calls' = [calls EXCEPT ![c] = call] /\ asks' = asks \ cut
      /\ UNCHANGED <<usage, runs, told>>
      /\ completions' = [completions EXCEPT !.pending = @ - Cardinality({a \in cut : a.at = "sent"}),
                                            !.inside = @ - Cardinality({a \in cut : a.at # "gate"})]
  BY DEF OutOfTime
<1>3. /\ calls[c] \in CallRec /\ call \in CallRec /\ call.by = calls[c].by
      /\ call.kind = calls[c].kind /\ call.since = calls[c].since /\ call.at = calls[c].at
  BY <1>1, CallsAre, TurnBounds DEF CallRec
<1> HIDE DEF call
<1>4. Kept /\ calls'[c] = call /\ \A d \in Calls \ {c} : calls'[d] = calls[d]
  BY <1>1, <1>2, <1>3, OneCall
<1>5. \A d \in Calls : calls'[d].at = calls[d].at
  BY <1>3, <1>4
<1>6. usage' \in Nat /\ completions \in [made : Nat, pending : Nat, inside : Nat]
  BY <1>1, <1>2 DEF TurnOK
<1>7. /\ {a \in cut : a.at = "sent"} = Sent \cap cut /\ {a \in cut : a.at # "gate"} = Inside \cap cut
      /\ cut \in SUBSET asks
  BY DEF Sent, Inside
<1> HIDE DEF cut
<1>8. Cardinality(Sent \cap cut) \in Nat /\ Cardinality(Inside \cap cut) \in Nat
  <2>1. IsFiniteSet(Sent \cap cut) /\ IsFiniteSet(Inside \cap cut)
    BY <1>1, Counts, FS_Subset
  <2> QED
    BY <2>1, FS_CardinalityType
<1>9. /\ completions' \in [made : Int, pending : Int, inside : Int]
      /\ completions'.made = completions.made
      /\ completions'.pending = completions.pending - Cardinality(Sent \cap cut)
      /\ completions'.inside = completions.inside - Cardinality(Inside \cap cut)
  <2> DEFINE p == completions.pending - Cardinality(Sent \cap cut)
             i == completions.inside - Cardinality(Inside \cap cut)
  <2>1. p \in Int /\ i \in Int
    BY <1>6, <1>8
  <2>2. completions' = [completions EXCEPT !.pending = p, !.inside = i]
    BY <1>2, <1>7
  <2> HIDE DEF p, i
  <2>3. /\ completions' \in [made : Int, pending : Int, inside : Int]
        /\ completions'.made = completions.made /\ completions'.pending = p /\ completions'.inside = i
    BY <1>6, <2>1, <2>2, Tally
  <2> QED
    BY <2>3 DEF p, i
<1>10. \A a \in asks \ cut : calls'[a.of].at = "runs"
  BY <1>1, <1>5 DEF AsksInv, Running
<1>11. /\ AsksInv' /\ asks' \in SUBSET AskRec /\ IsFiniteSet(asks')
       /\ completions' \in [made : Nat, pending : Nat, inside : Nat]
       /\ completions'.pending <= completions.pending
  BY <1>1, <1>2, <1>4, <1>7, <1>9, <1>10, AsksLess
<1> QED
  BY <1>2, <1>4, <1>5, <1>6, <1>11, AskKeeps
\* A model's answer makes calls: each is new, and so is the run of each explore among them.
LEMMA Grows ==
    ASSUME TurnInv, NEW r \in DOMAIN runs, runs[r].at = "sent", NEW more \in Seq(CallRec), NEW at \in {"acts", "done"},
           calls' = calls \o more,
           \A i \in DOMAIN more : /\ more[i].by = r /\ more[i].since = usage + 1
                                  /\ more[i].kind \in {"program", "explore"} => r = Chat
                                  /\ more[i].at \in {"runs", "open"}
                                  /\ more[i].at = "runs" <=> at = "acts",
           at = "done" => r = Chat,
           UNCHANGED <<completions, asks, told>>, usage' = usage + 1,
           NEW explores \in SUBSET Nat,
           \A q \in explores : /\ q > Len(calls) /\ q - Len(calls) \in DOMAIN more
                               /\ more[q - Len(calls)].kind = "explore" /\ more[q - Len(calls)].at = "runs",
           \A i \in DOMAIN more : more[i].kind = "explore" => Len(calls) + i \in explores,
           runs' \in [DOMAIN runs \cup explores -> RunRec],
           runs'[r] = [runs[r] EXCEPT !.at = at],
           \A q \in DOMAIN runs \ {r} : runs'[q] = runs[q],
           \A q \in explores : runs'[q] = Fresh
    PROVE  TurnInv'
<1>1. TurnOK /\ RunsInv /\ AsksInv /\ ReserveInv /\ NotesInv /\ ToldInv
  BY DEF TurnInv
<1> DEFINE n == Len(calls)
           Old == 1 .. n
           New == Calls' \ Old
<1>2. /\ n \in Nat /\ Calls = Old /\ (\A c \in Old : calls[c] \in CallRec) /\ Chat \notin Old
      /\ calls \in Seq(CallRec)
  BY <1>1, CallsAre DEF TurnOK
<1>3. DOMAIN more = 1 .. Len(more) /\ Len(more) \in Nat /\ \A i \in DOMAIN more : more[i] \in CallRec
  OBVIOUS
<1>4. /\ calls' \in Seq(CallRec) /\ Calls' = 1 .. (n + Len(more))
      /\ \A c \in Old : calls'[c] = calls[c]
      /\ \A c \in New : c - n \in DOMAIN more /\ calls'[c] = more[c - n] /\ c = n + (c - n)
  BY <1>2, <1>3 DEF Calls
<1>5. /\ Old \subseteq Calls'
      /\ \A c \in New : /\ calls'[c].by = r /\ calls'[c].since = usage + 1
                        /\ calls'[c].kind \in {"program", "explore"} => r = Chat
                        /\ calls'[c].at = "runs" <=> at = "acts"
                        /\ at = "done" => calls'[c].at = "open"
                        /\ calls'[c].kind = "explore" => c \in explores
  <2>1. Old \subseteq Calls'
    BY <1>2, <1>3, <1>4
  <2>2. ASSUME NEW c \in New
        PROVE  /\ calls'[c].by = r /\ calls'[c].since = usage + 1
               /\ calls'[c].kind \in {"program", "explore"} => r = Chat
               /\ calls'[c].at = "runs" <=> at = "acts"
               /\ at = "done" => calls'[c].at = "open"
               /\ calls'[c].kind = "explore" => c \in explores
    <3> HIDE DEF Old, New
    <3> PICK i \in DOMAIN more : calls'[c] = more[i] /\ c = n + i
      BY <1>4
    <3>1. /\ more[i].by = r /\ more[i].since = usage + 1
          /\ more[i].kind \in {"program", "explore"} => r = Chat
          /\ more[i].at \in {"runs", "open"}
          /\ more[i].at = "runs" <=> at = "acts"
          /\ more[i].kind = "explore" => Len(calls) + i \in explores
      OBVIOUS
    <3>2. at = "done" => more[i].at = "open"
      BY <3>1
    <3> QED
      BY <3>1, <3>2
  <2> QED
    BY <2>1, <2>2
<1> HIDE DEF Old, New
<1>6. \A q \in explores : /\ q \in New /\ calls'[q].kind = "explore" /\ calls'[q].at = "runs"
                          /\ q \notin DOMAIN runs
  <2>1. ASSUME NEW q \in explores
        PROVE  q \in New /\ calls'[q].kind = "explore" /\ calls'[q].at = "runs"
    <3>1. q - n \in 1 .. Len(more) /\ q > n /\ q \in Nat
      BY <1>3
    <3>2. q \in New
      BY <1>2, <1>3, <1>4, <3>1 DEF Old, New
    <3> QED
      BY <1>4, <3>2
  <2>2. \A q \in explores : q \notin DOMAIN runs
    BY <1>1, <1>2, <2>1 DEF TurnOK, Chat, New
  <2> QED
    BY <2>1, <2>2
<1>7. /\ runs[r] \in RunRec /\ runs'[r].at = at /\ runs'[r].noted = runs[r].noted
      /\ runs'[r].notes = runs[r].notes /\ runs'[r].warned = runs[r].warned
  BY <1>1, CallsAre DEF RunRec
<1>8. DOMAIN runs' = DOMAIN runs \cup explores /\ r \in DOMAIN runs' /\ Chat \in DOMAIN runs
  BY <1>1 DEF TurnOK
<1>9. /\ \A c \in Old : Running(c) => calls[c].by # r
      /\ \A c \in Old : ~(Running(c) /\ calls[c].kind = "program" /\ Alone(c))
  BY <1>2, Answered
<1>10. /\ Of(Chat) \subseteq Of(Chat)' /\ \A c \in Old : c \in Of(Chat)' <=> c \in Of(Chat)
       /\ \A c \in Of(Chat)' : c \in Old \/ r = Chat
       /\ Of(Chat)' \subseteq Calls' /\ Of(Chat) \subseteq Old
  <2>1. Of(Chat)' = {c \in Calls' : calls'[c].by = Chat} /\ Of(Chat) = {c \in Old : calls[c].by = Chat}
    BY <1>2 DEF Of, Chat
  <2>2. \A c \in Calls' : c \in Old \/ calls'[c].by = r
    BY <1>5 DEF New
  <2> QED
    BY <1>4, <1>5, <2>1, <2>2
<1>11. TurnOK'
  <2>1. DOMAIN runs' \subseteq {Chat} \cup Calls'
    BY <1>1, <1>2, <1>5, <1>6, <1>8 DEF TurnOK, New
  <2>2. told' \in SUBSET Calls' /\ usage' \in Nat
    BY <1>1, <1>2, <1>5 DEF TurnOK
  <2>3. runs' \in [DOMAIN runs' -> RunRec]
    BY <1>8
  <2> QED
    BY <1>1, <1>4, <1>8, <2>1, <2>2, <2>3 DEF TurnOK, Chat
<1>12. RunsInv'
  <2>1. ASSUME NEW c \in Calls'
        PROVE  /\ calls'[c].by \in DOMAIN runs'
               /\ Running(c)' => runs'[calls'[c].by].at = "acts"
               /\ calls'[c].kind \in {"program", "explore"} => calls'[c].by = Chat
               /\ calls'[c].kind = "explore" => c \in DOMAIN runs'
    <3>1. CASE c \in Old
      BY <1>1, <1>2, <1>4, <1>8, <1>9, <3>1 DEF RunsInv, Running
    <3>2. CASE c \notin Old
      <4>1. c \in New
        BY <3>2 DEF New
      <4> QED
        BY <1>5, <1>7, <1>8, <4>1 DEF Running
    <3> QED
      BY <3>1, <3>2
  <2>2. ASSUME NEW q \in DOMAIN runs' \ {Chat}
        PROVE  calls'[q].kind = "explore" /\ (runs'[q].at \in {"asks", "sent", "acts"} => Running(q)')
    <3>1. CASE q \in explores
      BY <1>6, <3>1 DEF Running
    <3>2. CASE q \in DOMAIN runs
      <4>1. q \in Old /\ calls'[q] = calls[q]
        BY <1>1, <1>2, <1>4, <3>2 DEF TurnOK
      <4>2. calls[q].kind = "explore" /\ (runs[q].at \in {"asks", "sent", "acts"} => Running(q))
        BY <1>1, <3>2 DEF RunsInv
      <4>3. runs'[q].at \in {"asks", "sent", "acts"} => runs[q].at \in {"asks", "sent", "acts"}
        BY <3>2
      <4> QED
        BY <4>1, <4>2, <4>3 DEF Running
    <3> QED
      BY <1>8, <3>1, <3>2
  <2>3. ASSUME NEW c \in Of(Chat)', NEW d \in Of(Chat)', Running(c)', Running(d)'
        PROVE  calls'[c].since = calls'[d].since
    <3>1. CASE r = Chat
      <4>1. c \notin Old /\ d \notin Old
        BY <1>4, <1>9, <1>10, <2>3, <3>1 DEF Of, Running
      <4>2. c \in New /\ d \in New
        BY <1>10, <4>1 DEF New
      <4> QED
        BY <1>5, <4>2
    <3>2. CASE r # Chat
      <4>1. c \in Of(Chat) /\ d \in Of(Chat) /\ calls'[c] = calls[c] /\ calls'[d] = calls[d]
        BY <1>4, <1>10, <3>2
      <4> QED
        BY <1>1, <2>3, <4>1 DEF RunsInv, Running
    <3> QED
      BY <3>1, <3>2
  <2> QED
    BY <2>1, <2>2, <2>3 DEF RunsInv, Chat
<1>13. AsksInv'
  <2>1. Sent' = Sent /\ Inside' = Inside
    BY DEF Sent, Inside
  <2>2. \A a \in asks : /\ a.of \in Calls' /\ Running(a.of)' /\ calls'[a.of].kind = "program"
                        /\ a.id <= completions.made
    BY <1>1, <1>2, <1>4, <1>5 DEF AsksInv, Running
  <2> QED
    BY <1>1, <2>1, <2>2 DEF AsksInv
<1>14. ReserveInv'
  <2> SUFFICES ASSUME NEW c \in Calls', Running(c)', calls'[c].kind = "program", Alone(c)'
               PROVE  usage' = calls'[c].since /\ completions'.pending = 0
    BY DEF ReserveInv
  <2>1. CASE c \in Old
    <3>1. Running(c) /\ calls[c].kind = "program" /\ calls[c].since = calls'[c].since
      BY <1>4, <2>1 DEF Running
    <3>2. Alone(c)
      <4>1. ASSUME NEW d \in Of(Chat), calls[d].kind = "explore" PROVE calls[d].since < calls[c].since
        <5>1. d \in Of(Chat)' /\ calls'[d] = calls[d]
          BY <1>4, <1>10
        <5> QED
          BY <3>1, <4>1, <5>1 DEF Alone
      <4> QED
        BY <4>1 DEF Alone
    <3> QED
      BY <1>9, <2>1, <3>1, <3>2
  <2>2. CASE c \notin Old
    <3>1. r = Chat /\ calls'[c].since = usage + 1
      <4>1. c \in New
        BY <2>2 DEF New
      <4> QED
        BY <1>5, <2>2, <4>1
    <3>2. asks = {}
      BY <1>1, <1>2, <1>9, <3>1 DEF AsksInv, RunsInv
    <3>3. Sent = {}
      BY <3>2 DEF Sent
    <3>4. completions.pending = 0
      BY <1>1, <3>3, FS_EmptySet DEF AsksInv
    <3> QED
      BY <3>1, <3>4
  <2> QED
    BY <2>1, <2>2
<1>15. NotesInv'
  BY <1>1, <1>7, <1>8, NotesKept
<1>16. ToldInv'
  <2>1. told' \subseteq Of(Chat)'
    BY <1>1, <1>10 DEF ToldInv
  <2>2. ASSUME runs'[Chat].at = "sent" PROVE told' = Of(Chat)'
    <3>1. r # Chat
      BY <1>7, <2>2
    <3>2. runs[Chat].at = "sent"
      BY <1>8, <2>2, <3>1
    <3> QED
      BY <1>1, <1>10, <3>1, <3>2 DEF ToldInv
  <2>3. ASSUME runs'[Chat].at = "done", NEW c \in Of(Chat)' PROVE c \in told' \/ calls'[c].at = "open"
    <3>1. CASE r = Chat
      <4>1. told = Of(Chat) /\ at = "done"
        BY <1>1, <1>7, <2>3, <3>1 DEF ToldInv
      <4>2. c \in Old => c \in told
        BY <1>10, <4>1
      <4>3. c \notin Old => c \in New
        BY <1>10 DEF New
      <4> QED
        BY <1>5, <4>1, <4>2, <4>3
    <3>2. CASE r # Chat
      <4>1. runs[Chat].at = "done" /\ c \in Of(Chat) /\ calls'[c] = calls[c]
        BY <1>4, <1>8, <1>10, <2>3, <3>2
      <4> QED
        BY <1>1, <4>1 DEF ToldInv
    <3> QED
      BY <3>1, <3>2
  <2> QED
    BY <2>1, <2>2, <2>3 DEF ToldInv, Chat
<1> QED
  BY <1>11, <1>12, <1>13, <1>14, <1>15, <1>16 DEF TurnInv
\* A response is a sequence of kinds of calls.
LEMMA ResponsesAre == Responses \subseteq Seq(Kinds)
<1>1. \A k \in Kinds : <<k>> \in Seq(Kinds) /\ <<k, "explore">> \in Seq(Kinds)
  BY DEF Kinds
<1>2. {"tool", "program", "explore"} \subseteq Kinds
  BY DEF Kinds
<1>3. \A k \in {"tool", "program", "explore"} : <<k>> \in Seq(Kinds) /\ <<k, "explore">> \in Seq(Kinds)
  BY <1>1, <1>2
<1> QED
  BY <1>3 DEF Responses

\* The model asks for calls.
LEMMA Acts ==
    ASSUME TurnInv, NEW r \in DOMAIN runs, NEW kinds \in Seq(Kinds), Act(r, kinds)
    PROVE  TurnInv'
<1>1. TurnOK
  BY DEF TurnInv
<1> DEFINE more == [i \in DOMAIN kinds |-> Call(r, kinds[i])]
           explores == {Len(calls) + i : i \in {i \in DOMAIN kinds : kinds[i] = "explore"}}
<1>2. r \in Nat /\ usage \in Nat /\ Len(calls) \in Nat
  BY <1>1, CallsAre DEF TurnOK, Chat
<1>3. DOMAIN kinds = 1 .. Len(kinds) /\ Len(kinds) \in Nat /\ \A i \in DOMAIN kinds : kinds[i] \in Kinds
  OBVIOUS
<1>4. more \in Seq(CallRec) /\ DOMAIN more = DOMAIN kinds
  <2>1. \A i \in DOMAIN kinds : Call(r, kinds[i]) \in CallRec
    BY <1>2, <1>3 DEF Call, CallRec
  <2>2. more \in [1 .. Len(kinds) -> CallRec]
    BY <1>3, <2>1
  <2> QED
    BY <1>3, <2>2
<1>5. \A i \in DOMAIN more : /\ more[i].by = r /\ more[i].since = usage + 1 /\ more[i].kind = kinds[i]
                             /\ more[i].at = "runs"
  BY DEF Call
<1>6. r # Chat => \A i \in DOMAIN kinds : kinds[i] = "tool"
  BY DEF Act
<1>7. explores \in SUBSET Nat
  BY <1>2, <1>3
<1>8. \A q \in explores : /\ q > Len(calls) /\ q - Len(calls) \in DOMAIN more
                          /\ kinds[q - Len(calls)] = "explore"
  <2> SUFFICES ASSUME NEW q \in explores
               PROVE  q > Len(calls) /\ q - Len(calls) \in DOMAIN more /\ kinds[q - Len(calls)] = "explore"
    OBVIOUS
  <2> PICK i \in DOMAIN kinds : kinds[i] = "explore" /\ q = Len(calls) + i
    OBVIOUS
  <2>1. i \in Nat /\ i >= 1 /\ q - Len(calls) = i
    BY <1>2, <1>3
  <2> QED
    BY <1>2, <2>1
<1>9. \A i \in DOMAIN more : kinds[i] = "explore" => Len(calls) + i \in explores
  OBVIOUS
<1>10. /\ runs[r].at = "sent" /\ usage' = usage + 1 /\ calls' = calls \o more
       /\ UNCHANGED <<completions, asks, told>>
       /\ runs' = [q \in DOMAIN runs \cup explores |->
                     CASE q \in explores -> Fresh
                       [] q = r -> [runs[r] EXCEPT !.at = "acts"]
                       [] OTHER -> runs[q]]
  BY DEF Act
<1> HIDE DEF more, explores
<1>11. \A q \in explores : q \notin DOMAIN runs
  <2>1. \A q \in DOMAIN runs : q = 0 \/ q \in 1 .. Len(calls)
    BY <1>1, CallsAre DEF TurnOK, Chat
  <2> QED
    BY <1>2, <1>7, <1>8, <2>1
<1>12. /\ \A q \in explores : runs'[q] = Fresh
       /\ runs'[r] = [runs[r] EXCEPT !.at = "acts"]
       /\ \A q \in DOMAIN runs \ {r} : runs'[q] = runs[q]
  BY <1>10, <1>11
<1>13. runs' \in [DOMAIN runs \cup explores -> RunRec]
  <2>1. Fresh \in RunRec
    BY DEF Fresh, RunRec
  <2>2. \A q \in DOMAIN runs : runs[q] \in RunRec /\ [runs[q] EXCEPT !.at = "acts"] \in RunRec
    BY <1>1, CallsAre DEF RunRec
  <2>3. \A q \in DOMAIN runs \cup explores : runs'[q] \in RunRec
    BY <1>12, <2>1, <2>2
  <2> QED
    BY <1>10, <2>3
<1>14. \A i \in DOMAIN more : /\ more[i].by = r /\ more[i].since = usage + 1
                              /\ more[i].kind \in {"program", "explore"} => r = Chat
                              /\ more[i].at \in {"runs", "open"}
                              /\ more[i].at = "runs" <=> "acts" = "acts"
  BY <1>4, <1>5, <1>6
<1>15. /\ \A q \in explores : /\ q > Len(calls) /\ q - Len(calls) \in DOMAIN more
                              /\ more[q - Len(calls)].kind = "explore" /\ more[q - Len(calls)].at = "runs"
       /\ \A i \in DOMAIN more : more[i].kind = "explore" => Len(calls) + i \in explores
  BY <1>4, <1>5, <1>8, <1>9
<1>16. more \in Seq(CallRec) /\ explores \in SUBSET Nat /\ "acts" \in {"acts", "done"}
  BY <1>4, <1>7
<1> QED
  BY <1>10, <1>12, <1>13, <1>14, <1>15, <1>16, Grows

\* The model asks for what the user must allow.
LEMMA Defers == ASSUME TurnInv, Defer PROVE TurnInv'
<1>1. TurnOK
  BY DEF TurnInv
<1> DEFINE call == [Call(Chat, "gated") EXCEPT !.at = "open"]
           more == <<call>>
           at == "done"
<1>2. usage \in Nat /\ Chat \in DOMAIN runs /\ calls \in Seq(CallRec)
  BY <1>1 DEF TurnOK
<1>3. /\ call \in CallRec /\ call.by = Chat /\ call.since = usage + 1 /\ call.kind = "gated" /\ call.at = "open"
  BY <1>2 DEF Call, CallRec, Kinds, Chat
<1>4. /\ runs[Chat].at = "sent" /\ usage' = usage + 1 /\ calls' = Append(calls, call)
      /\ UNCHANGED <<completions, asks, told>>
      /\ runs' = [runs EXCEPT ![Chat].at = "done"]
  BY DEF Defer
<1> HIDE DEF call
<1>5. more \in Seq(CallRec) /\ DOMAIN more = {1} /\ more[1] = call
  BY <1>3
<1>6. calls' = calls \o more
  BY <1>2, <1>3, <1>4
<1> HIDE DEF more
<1>7. /\ runs' \in [DOMAIN runs \cup {} -> RunRec] /\ runs'[Chat] = [runs[Chat] EXCEPT !.at = "done"]
      /\ \A q \in DOMAIN runs \ {Chat} : runs'[q] = runs[q]
  <2>1. [runs[Chat] EXCEPT !.at = "done"] \in RunRec
    BY <1>1, <1>2, CallsAre DEF RunRec
  <2>2. runs \in [DOMAIN runs -> RunRec]
    BY <1>1 DEF TurnOK
  <2> QED
    BY <1>2, <1>4, <2>1, <2>2
<1>8. \A i \in DOMAIN more : /\ more[i].by = Chat /\ more[i].since = usage + 1
                             /\ more[i].kind \in {"program", "explore"} => Chat = Chat
                             /\ more[i].at \in {"runs", "open"}
                             /\ more[i].at = "runs" <=> "done" = "acts"
  BY <1>3, <1>5
<1> DEFINE explores == {}
<1>9. /\ \A q \in explores : /\ q > Len(calls) /\ q - Len(calls) \in DOMAIN more
                             /\ more[q - Len(calls)].kind = "explore" /\ more[q - Len(calls)].at = "runs"
      /\ \A i \in DOMAIN more : more[i].kind = "explore" => Len(calls) + i \in explores
      /\ \A q \in explores : runs'[q] = Fresh
      /\ explores \in SUBSET Nat /\ runs' \in [DOMAIN runs \cup explores -> RunRec]
  BY <1>3, <1>5, <1>7
<1> HIDE DEF explores
<1> QED
  BY <1>2, <1>4, <1>5, <1>6, <1>7, <1>8, <1>9, Grows

\* The turn begins.
LEMMA TurnStarts == ASSUME TurnInit PROVE TurnInv
<1>1. /\ usage = 0 /\ completions = [made |-> 0, pending |-> 0, inside |-> 0] /\ runs = [r \in {Chat} |-> Fresh]
      /\ calls = <<>> /\ asks = {} /\ told = {}
  BY DEF TurnInit
<1>2. Calls = {} /\ Of(Chat) = {} /\ DOMAIN runs = {Chat} /\ runs[Chat] = Fresh
  BY <1>1 DEF Calls, Of
<1>3. TurnOK
  <2>1. Fresh \in RunRec
    BY DEF Fresh, RunRec
  <2>2. runs \in [DOMAIN runs -> RunRec]
    BY <1>1, <2>1
  <2>3. calls \in Seq(CallRec)
    BY <1>1
  <2> QED
    BY <1>1, <1>2, <2>2, <2>3, FS_EmptySet DEF TurnOK
<1>4. RunsInv
  BY <1>2 DEF RunsInv
<1>5. AsksInv
  <2>1. Sent = {} /\ Inside = {}
    BY <1>1 DEF Sent, Inside
  <2> QED
    BY <1>1, <2>1, FS_EmptySet DEF AsksInv
<1>6. ReserveInv
  BY <1>2 DEF ReserveInv
<1>7. NotesInv
  <2>1. Fresh.noted = FALSE /\ Fresh.notes = 0 /\ Fresh.warned = FALSE
    BY DEF Fresh
  <2> QED
    BY <1>2, <2>1 DEF NotesInv
<1>8. ToldInv
  BY <1>1, <1>2 DEF ToldInv, Fresh
<1> QED
  BY <1>3, <1>4, <1>5, <1>6, <1>7, <1>8 DEF TurnInv
\* Nothing happens in the turn.
LEMMA TurnStays == ASSUME TurnInv, UNCHANGED turnVars PROVE TurnInv'
<1>1. /\ Calls' = Calls /\ \A r : Of(r)' = Of(r)
      /\ Sent' = Sent /\ Inside' = Inside
  BY DEF turnVars, Calls, Of, Sent, Inside
<1>2. \A c \in Calls : Running(c)' = Running(c) /\ Alone(c)' = Alone(c)
  BY <1>1 DEF turnVars, Running, Alone
<1>3. TurnOK' /\ RunsInv' /\ AsksInv'
  BY <1>1, <1>2 DEF TurnInv, TurnOK, RunsInv, AsksInv, turnVars, Calls, Of, Running
<1>4. ReserveInv' /\ NotesInv' /\ ToldInv'
  BY <1>1, <1>2 DEF TurnInv, ReserveInv, NotesInv, ToldInv, turnVars
<1> QED
  BY <1>3, <1>4 DEF TurnInv

\* Every step of the runs keeps the invariant.
LEMMA TurnSteps == ASSUME TurnInv PROVE TurnNext => TurnInv'
<1>1. ASSUME NEW r \in DOMAIN runs, Spent(r) PROVE TurnInv'
  <2>1. StopWith("failed") /\ UNCHANGED usage /\ told' \in {told, Of(Chat)}
    BY <1>1 DEF Spent
  <2> QED
    BY <2>1, Stopped
<1>2. ASSUME NEW r \in DOMAIN runs, NEW kinds \in Responses, Act(r, kinds) PROVE TurnInv'
  <2>1. kinds \in Seq(Kinds)
    BY ResponsesAre
  <2> QED
    BY <1>2, <2>1, Acts
<1>3. ASSUME Fail PROVE TurnInv'
  BY <1>3, Stopped DEF Fail
<1>4. ASSUME NEW c \in Calls, Return(c) PROVE TurnInv'
  <2>1. \A a \in asks : a.of # c
    BY <1>4 DEF TurnInv, AsksInv, Return
  <2> QED
    BY <1>4, <2>1, EndsHeard DEF Return
<1>5. ASSUME NEW c \in Calls, Explored(c) PROVE TurnInv'
  <2>1. \A a \in asks : a.of # c
    BY <1>5 DEF TurnInv, AsksInv, Explored
  <2> QED
    BY <1>5, <2>1, EndsHeard DEF Explored
<1>6. ASSUME NEW c \in Calls, Program(c) PROVE TurnInv'
  <2>1. CASE calls[c].ending
    <3>1. StopWith("failed") /\ UNCHANGED <<usage, told>>
      BY <1>6, <2>1 DEF Program
    <3> QED
      BY <3>1, Stopped
  <2>2. CASE ~calls[c].ending
    BY <1>6, <2>2, EndsHeard DEF Program
  <2> QED
    BY <2>1, <2>2
<1> QED
  BY <1>1, <1>2, <1>3, <1>4, <1>5, <1>6, Sends, Finishes, Defers, Recovers, Enters, Leaves, Opens, Completes, RunsOut
     DEF TurnNext, Progress
----------------------------------------------------------------------------
(* The relay *)

\* A call is its run's for good, and what a run was told it was told.
LEMMA HistoryGrows ==
    ASSUME TurnInv
    PROVE  TurnNext => told \subseteq told' /\ Of(Chat) \subseteq Of(Chat)'
<1>1. TurnOK /\ ToldInv
  BY DEF TurnInv
<1>2. \A c \in Calls : calls[c] \in CallRec
  BY <1>1, CallsAre
<1>3. Calls = 1 .. Len(calls) /\ Len(calls) \in Nat /\ calls \in Seq(CallRec)
  BY <1>1, CallsAre DEF TurnOK
<1> DEFINE Held == \A c \in Calls : c \in Calls' /\ calls'[c].by = calls[c].by
<1>4. Held => Of(Chat) \subseteq Of(Chat)'
  BY DEF Of, Chat
<1>5. ASSUME UNCHANGED calls PROVE Held
  BY <1>5 DEF Calls
<1>6. ASSUME NEW at, StopWith(at) PROVE Held
  <2>1. calls' = [c \in Calls |-> IF Running(c) THEN [calls[c] EXCEPT !.at = "cut"] ELSE calls[c]]
    BY <1>6 DEF StopWith
  <2>2. \A c \in Calls : [calls[c] EXCEPT !.at = "cut"].by = calls[c].by
    BY <1>2 DEF CallRec
  <2> QED
    BY <2>1, <2>2 DEF Calls
<1>7. ASSUME NEW c \in Calls, Ends(c) PROVE Held
  <2>1. [calls[c] EXCEPT !.at = "done"].by = calls[c].by
    BY <1>2 DEF CallRec
  <2> QED
    BY <1>7, <2>1 DEF Ends, Calls
<1>8. ASSUME NEW c \in Calls, Recover(c) PROVE Held
  <2>1. calls' = [d \in Calls |->
                   IF calls[d].by = c /\ Running(d) THEN [calls[d] EXCEPT !.at = "cut"] ELSE calls[d]]
    BY <1>8 DEF Recover
  <2>2. \A d \in Calls : [calls[d] EXCEPT !.at = "cut"].by = calls[d].by
    BY <1>2 DEF CallRec
  <2> QED
    BY <2>1, <2>2 DEF Calls
<1>9. ASSUME NEW c \in Calls, NEW n, calls' = [calls EXCEPT ![c].hosts = n] PROVE Held
  <2>1. [calls[c] EXCEPT !.hosts = n].by = calls[c].by
    BY <1>2 DEF CallRec
  <2> QED
    BY <1>9, <2>1 DEF Calls
<1>10. ASSUME NEW a \in asks, Open(a) PROVE Held
  <2>1. UNCHANGED calls \/ calls' = [calls EXCEPT ![a.of].ending = @ \/ usage >= RequestLimit]
    BY <1>10 DEF Open
  <2>2. a.of \in Calls
    BY DEF TurnInv, AsksInv
  <2>3. [calls[a.of] EXCEPT !.ending = @ \/ usage >= RequestLimit].by = calls[a.of].by
    BY <1>2, <2>2 DEF CallRec
  <2> QED
    BY <2>1, <2>2, <2>3 DEF Calls
<1>11. ASSUME NEW r, NEW kinds \in Responses, Act(r, kinds) PROVE Held
  <2> DEFINE more == [i \in DOMAIN kinds |-> Call(r, kinds[i])]
  <2>1. kinds \in Seq(Kinds)
    BY ResponsesAre
  <2>2. calls' = calls \o more
    BY <1>11 DEF Act
  <2>3. Len(more) \in Nat /\ more \in Seq({more[i] : i \in DOMAIN kinds})
    <3>1. DOMAIN kinds = 1 .. Len(kinds) /\ Len(kinds) \in Nat
      BY <2>1
    <3>2. more \in [1 .. Len(kinds) -> {more[i] : i \in DOMAIN kinds}]
      BY <3>1
    <3> QED
      BY <3>1, <3>2
  <2> HIDE DEF more
  <2> QED
    BY <1>3, <2>2, <2>3 DEF Calls
<1>12. ASSUME Defer PROVE Held
  BY <1>3, <1>12 DEF Defer, Calls
<1>13. ASSUME NEW c \in Calls, Program(c) PROVE Held
  BY <1>6, <1>7, <1>13 DEF Program
<1>14. TurnNext => Held
  <2> HIDE DEF Held
  <2>1. ASSUME NEW r \in DOMAIN runs PROVE Send(r) \/ Spent(r) \/ Finish(r) => Held
    BY <1>5, <1>6 DEF Send, Spent, Finish
  <2>2. Fail => Held
    BY <1>6 DEF Fail
  <2>3. ASSUME NEW c \in Calls PROVE Return(c) \/ Explored(c) \/ Complete(c) \/ OutOfTime(c) => Held
    BY <1>7, <1>9 DEF Return, Explored, Complete, OutOfTime
  <2>4. ASSUME NEW a \in asks PROVE Enter(a) \/ Completed(a) \/ TimedOut(a) => Held
    BY <1>5 DEF Enter, Completed, TimedOut
  <2> QED
    BY <1>8, <1>10, <1>11, <1>12, <1>13, <2>1, <2>2, <2>3, <2>4 DEF TurnNext, Progress
<1>15. TurnNext => told' \in {told, Of(Chat)}
  BY DEF TurnNext, Progress, Send, Spent, Finish, Act, Defer, Fail, Return, Explored, Recover, Program, Enter, Open,
         Completed, TimedOut, Complete, OutOfTime
<1> QED
  BY <1>1, <1>4, <1>14, <1>15 DEF ToldInv
\* What the relay captured stays what it is, while the history only grows.
LEMMA RelayKept ==
    ASSUME TurnInv, RelayInv, UNCHANGED <<relay, captured, stored>>, told \subseteq told', Of(Chat) \subseteq Of(Chat)',
           \/ ~Ended
           \/ UNCHANGED turnVars
    PROVE  RelayInv'
<1>1. CASE UNCHANGED turnVars
  <2>1. Of(Chat)' = Of(Chat) /\ Ended' = Ended
    BY <1>1 DEF turnVars, Of, Calls, Ended
  <2> QED
    BY <1>1, <2>1 DEF RelayInv, turnVars
<1>2. CASE ~Ended
  BY <1>2 DEF RelayInv
<1> QED
  BY <1>1, <1>2

\* The runs are torn down where they go on.
LEMMA Cancelled ==
    ASSUME TurnInv, Cancel, UNCHANGED <<usage, told>>
    PROVE  /\ TurnInv' /\ Ended' /\ Of(Chat)' = Of(Chat)
           /\ Ended => \A c \in Calls : calls'[c] = calls[c]
<1>1. TurnOK
  BY DEF TurnInv
<1>2. CASE Ended
  <2>1. UNCHANGED <<runs, calls, asks, completions>>
    BY <1>2 DEF Cancel
  <2> QED
    BY <1>2, <2>1, TurnStays DEF turnVars, Ended, Of, Calls
<1>3. CASE ~Ended
  <2>1. StopWith("cut")
    BY <1>3 DEF Cancel
  <2>2. TurnInv'
    BY <2>1, Stopped
  <2>3. Ended'
    <3>1. Chat \in DOMAIN runs /\ runs[Chat] \in RunRec /\ runs[Chat].at # "done"
      BY <1>1, <1>3, CallsAre DEF TurnOK, Ended
    <3>2. runs'[Chat] = [runs[Chat] EXCEPT !.at = "cut"]
      BY <2>1, <3>1 DEF StopWith
    <3> QED
      BY <3>1, <3>2 DEF Ended, RunRec, Chat
  <2>4. Of(Chat)' = Of(Chat)
    <3>1. calls' = [c \in Calls |-> IF Running(c) THEN [calls[c] EXCEPT !.at = "cut"] ELSE calls[c]]
      BY <2>1 DEF StopWith
    <3>2. \A c \in Calls : [calls[c] EXCEPT !.at = "cut"].by = calls[c].by
      BY <1>1, CallsAre DEF CallRec
    <3>3. Calls' = Calls /\ \A c \in Calls : calls'[c].by = calls[c].by
      BY <3>1, <3>2 DEF Calls
    <3> QED
      BY <3>3 DEF Of, Chat
  <2> QED
    BY <1>3, <2>2, <2>3, <2>4
<1> QED
  BY <1>2, <1>3

Inv == TurnInv /\ RelayInv

\* The relay begins with the turn.
LEMMA Starts == Init => Inv
  BY TurnStarts DEF Init, Inv, RelayInv, Nothing

\* Every step of the turn and of its relay keeps the invariant.
LEMMA Steps == Inv /\ [Next]_vars => Inv'
<1> SUFFICES ASSUME TurnInv, RelayInv, [Next]_vars PROVE TurnInv' /\ RelayInv'
  BY DEF Inv
<1>1. ASSUME Goes, TurnNext PROVE TurnInv' /\ RelayInv'
  <2>1. TurnInv' /\ told \subseteq told' /\ Of(Chat) \subseteq Of(Chat)'
    BY <1>1, TurnSteps, HistoryGrows
  <2> QED
    BY <1>1, <2>1, RelayKept DEF Goes
<1>2. ASSUME UNCHANGED turnVars PROVE TurnInv' /\ Of(Chat)' = Of(Chat) /\ told' = told /\ Ended' = Ended
  BY <1>2, TurnStays DEF turnVars, Of, Calls, Ended
<1>3. ASSUME Drained PROVE TurnInv' /\ RelayInv'
  <2>1. /\ relay = "streams" /\ Ended /\ relay' = "saves" /\ UNCHANGED turnVars /\ stored' = stored
        /\ captured' = IF runs[Chat].at = "done" THEN [calls |-> Of(Chat), closed |-> {}, how |-> "drained"]
                       ELSE Closing("drained")
    BY <1>3 DEF Drained
  <2>2. /\ captured'.how = "drained" /\ captured'.calls = Of(Chat)
        /\ \A c \in captured'.calls \ captured'.closed : c \in told \/ calls[c].at = "open"
    <3>1. CASE runs[Chat].at = "done"
      BY <2>1, <3>1 DEF TurnInv, ToldInv
    <3>2. CASE runs[Chat].at # "done"
      BY <2>1, <3>2 DEF Closing, Unanswered
    <3> QED
      BY <3>1, <3>2
  <2>3. RelayInv'
    BY <1>2, <2>1, <2>2 DEF RelayInv, turnVars
  <2> QED
    BY <1>2, <2>1, <2>3
<1>4. ASSUME LeaveWaiting PROVE TurnInv' /\ RelayInv'
  <2>1. /\ relay = "streams" /\ Cancel /\ relay' = "saves" /\ UNCHANGED <<usage, told, stored>>
        /\ captured' = Closing("left")
    BY <1>4 DEF LeaveWaiting
  <2>2. TurnInv' /\ Ended' /\ Of(Chat)' = Of(Chat)
    BY <2>1, Cancelled
  <2>3. /\ captured'.how = "left" /\ captured'.calls = Of(Chat)
        /\ \A c \in captured'.calls \ captured'.closed : c \in told
    BY <2>1 DEF Closing, Unanswered
  <2>4. RelayInv'
    BY <2>1, <2>2, <2>3 DEF RelayInv
  <2> QED
    BY <2>2, <2>4
<1>5. ASSUME LeaveSending PROVE TurnInv' /\ RelayInv'
  <2>1. /\ relay = "streams" /\ relay' = "saves" /\ UNCHANGED turnVars /\ stored' = stored
        /\ captured' = Closing("sending")
    BY <1>5 DEF LeaveSending
  <2>2. /\ captured'.how = "sending" /\ captured'.calls = Of(Chat)
        /\ \A c \in captured'.calls \ captured'.closed : c \in told
    BY <2>1 DEF Closing, Unanswered
  <2>3. RelayInv'
    BY <1>2, <2>1, <2>2 DEF RelayInv
  <2> QED
    BY <1>2, <2>1, <2>3
<1>6. ASSUME Save PROVE TurnInv' /\ RelayInv'
  <2>1. /\ relay = "saves" /\ relay' = "over" /\ stored' \in {captured, Nothing} /\ Cancel
        /\ UNCHANGED <<usage, told, captured>>
    BY <1>6 DEF Save
  <2>2. TurnInv' /\ Ended' /\ Of(Chat)' = Of(Chat) /\ (Ended => \A c \in Calls : calls'[c] = calls[c])
    BY <2>1, Cancelled
  <2>3. /\ captured.how \in {"drained", "left", "sending"} /\ captured.calls \subseteq Of(Chat)
        /\ captured.how # "sending" => Ended /\ captured.calls = Of(Chat)
        /\ \A c \in captured.calls \ captured.closed :
             c \in told \/ (calls[c].at = "open" /\ captured.how = "drained")
    BY <2>1 DEF RelayInv
  <2>4. \A c \in captured.calls \ captured.closed :
          c \in told \/ (calls'[c].at = "open" /\ captured.how = "drained")
    BY <2>2, <2>3 DEF Of
  <2>5. RelayInv'
    BY <2>1, <2>2, <2>3, <2>4 DEF RelayInv
  <2> QED
    BY <2>2, <2>5
<1>7. ASSUME UNCHANGED vars PROVE TurnInv' /\ RelayInv'
  <2>1. UNCHANGED turnVars /\ UNCHANGED <<relay, captured, stored>>
    BY <1>7 DEF vars
  <2> QED
    BY <1>2, <2>1, RelayKept
<1> QED
  BY <1>1, <1>3, <1>4, <1>5, <1>6, <1>7 DEF Next
----------------------------------------------------------------------------
(* Theorems *)

\* The invariant of the turn and its relay.
LEMMA Always == Spec => []Inv
  BY Starts, Steps, PTL DEF Spec

\* The runs, the calls and the completions are what the code takes them for: what is counted
\* in flight is in flight, and no call runs whose run is over.
THEOREM TurnTyped == Spec => [](TurnOK /\ RunsInv /\ AsksInv)
<1>1. Inv => TurnOK /\ RunsInv /\ AsksInv
  BY DEF Inv, TurnInv
<1> QED
  BY <1>1, Always, PTL

\* Completions leave the chat run the request it owes the model their result with, however
\* many are in flight and whatever the budget is (_PARENT_RESERVE).
THEOREM ReserveIsKept == Spec => []ReserveKept
<1>1. Inv => ReserveKept
  <2> SUFFICES ASSUME Inv, NEW c \in Calls, Running(c), calls[c].kind = "program",
                      \A d \in Of(Chat) : calls[d].kind = "explore" => calls[d].since < calls[c].since
               PROVE  usage + completions.pending < RequestLimit \/ usage = calls[c].since
    BY DEF ReserveKept
  <2> QED
    BY DEF Inv, TurnInv, ReserveInv, Alone
<1> QED
  BY <1>1, Always, PTL

\* Every run is told once that the budget runs low, with the first result it hears then.
THEOREM RunsAreTold == Spec => []ToldOnce
<1>1. Inv => ToldOnce
  BY DEF Inv, TurnInv, NotesInv, ToldOnce
<1> QED
  BY <1>1, Always, PTL

\* The turn that is stored tells what its tools did, and leaves open only what was asked.
THEOREM TurnIsStored == Spec => []StoredTurn
<1>1. Inv => StoredTurn
  <2> SUFFICES ASSUME Inv, stored # Nothing PROVE StoredTurn
    BY DEF StoredTurn, TellsWhatItDid, OpenIsAsked
  <2>1. stored = captured /\ relay # "streams"
    BY DEF Inv, RelayInv
  <2>2. TellsWhatItDid
    BY <2>1 DEF Inv, RelayInv, TellsWhatItDid
  <2>3. OpenIsAsked
    BY <2>1 DEF Inv, RelayInv, OpenIsAsked
  <2> QED
    BY <2>2, <2>3 DEF StoredTurn
<1> QED
  BY <1>1, Always, PTL
=============================================================================
