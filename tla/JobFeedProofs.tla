---------------------------- MODULE JobFeedProofs ----------------------------
(* Theorems about JobFeed, for every set of jobs and tabs and every limit. *)
EXTENDS JobFeed, FiniteSetTheorems, SequenceTheorems, TLAPS

(***************************************************************************)
(* Type correctness                                                        *)
(***************************************************************************)

Status == {"none"} \cup Active \cup Terminal
Snapshot == [status : Status, at : Nat]

Event ==
    {e \in [type : {"job", "ready", "changed"}, job : Job \cup {NoJob}, status : Status, at : Nat] :
        e.type = "job" => e.job \in Job}

TypeOK ==
    /\ jobs \in [Job -> Snapshot]
    /\ line \in Seq(Job)
    /\ created \in SUBSET Job /\ cancelling \in SUBSET Job /\ old \in SUBSET Job
    /\ released \in [Job -> Nat]
    /\ open \in SUBSET Client
    /\ feeds \in [Client -> Seq(Event)]
    /\ tray \in [Client -> [Job -> Snapshot]]
    /\ handled \in [Client -> Seq(Job)]
    /\ seeding \in SUBSET Client
    /\ answering \in [Client -> SUBSET Job] /\ awaiting \in [Client -> SUBSET Job]
    /\ fired \in [Client -> [Job -> Nat]]
    /\ fresh \in SUBSET Client /\ replying \in SUBSET Client

\* What a queue keeps is what it was given, the oldest aside; all of it where it
\* is not full afterwards.
LEMMA BoundedKeeps ==
    ASSUME NEW S, NEW q \in Seq(S)
    PROVE  /\ Bounded(q) \in Seq(S)
           /\ \A i \in DOMAIN Bounded(q) : \E k \in DOMAIN q : Bounded(q)[i] = q[k]
           /\ Len(Bounded(q)) < QueueSize => Bounded(q) = q
<1>1. QueueSize \in Nat /\ QueueSize > 0 /\ Len(q) \in Nat
  BY LimitsAssumption
<1>2. CASE Len(q) > QueueSize
  <2>1. Bounded(q) = SubSeq(q, Len(q) - QueueSize + 1, Len(q))
    BY <1>2 DEF Bounded
  <2>2. /\ Len(q) - QueueSize + 1 \in 1 .. Len(q) + 1 /\ Len(q) \in Len(q) - QueueSize .. Len(q)
    BY <1>1, <1>2
  <2>3. /\ SubSeq(q, Len(q) - QueueSize + 1, Len(q)) \in Seq(S)
        /\ Len(SubSeq(q, Len(q) - QueueSize + 1, Len(q))) = QueueSize
        /\ \A i \in 1 .. QueueSize : SubSeq(q, Len(q) - QueueSize + 1, Len(q))[i] = q[Len(q) - QueueSize + i]
    BY <1>1, <2>2, SubSeqProperties
  <2>4. \A i \in 1 .. QueueSize : Len(q) - QueueSize + i \in 1 .. Len(q)
    BY <1>1, <1>2
  <2> DEFINE b == SubSeq(q, Len(q) - QueueSize + 1, Len(q))
  <2>5. DOMAIN b = 1 .. QueueSize /\ b \in Seq(S)
    BY <2>3
  <2>6. ASSUME NEW i \in DOMAIN b PROVE \E k \in DOMAIN q : b[i] = q[k]
    <3>1. b[i] = q[Len(q) - QueueSize + i] /\ Len(q) - QueueSize + i \in DOMAIN q
      BY <2>3, <2>4, <2>5
    <3> QED
      BY <3>1
  <2>7. ~(Len(b) < QueueSize)
    BY <1>1, <2>3
  <2> HIDE DEF b
  <2> QED
    BY <2>1, <2>5, <2>6, <2>7 DEF b
<1>3. CASE ~(Len(q) > QueueSize)
  <2>1. Bounded(q) = q
    BY <1>3, SubSeqFull DEF Bounded
  <2> QED
    BY <2>1
<1> QED
  BY <1>2, <1>3

\* What a step tells the subscriptions, and what it leaves.
LEMMA BroadcastTells ==
    ASSUME TypeOK, NEW event \in Event, NEW exclude, Broadcast(event, exclude)
    PROVE  /\ feeds' \in [Client -> Seq(Event)]
           /\ \A c \in Client : \A i \in DOMAIN feeds'[c] :
                feeds'[c][i] = event \/ \E k \in DOMAIN feeds[c] : feeds'[c][i] = feeds[c][k]
           /\ \A c \in Client \ open : feeds'[c] = feeds[c]
           /\ \A c \in open : c # exclude /\ Len(feeds'[c]) < QueueSize => feeds'[c] = Append(feeds[c], event)
           /\ exclude \in Client => feeds'[exclude] = feeds[exclude]
<1>1. ASSUME NEW c \in Client
      PROVE  /\ Enqueue(feeds[c], event) \in Seq(Event)
             /\ \A i \in DOMAIN Enqueue(feeds[c], event) :
                  Enqueue(feeds[c], event)[i] = event
                  \/ \E k \in DOMAIN feeds[c] : Enqueue(feeds[c], event)[i] = feeds[c][k]
             /\ Len(Enqueue(feeds[c], event)) < QueueSize => Enqueue(feeds[c], event) = Append(feeds[c], event)
  <2>1. feeds[c] \in Seq(Event)
    BY DEF TypeOK
  <2>2. /\ Append(feeds[c], event) \in Seq(Event)
        /\ \A k \in DOMAIN Append(feeds[c], event) :
             Append(feeds[c], event)[k] = event \/ \E n \in DOMAIN feeds[c] : Append(feeds[c], event)[k] = feeds[c][n]
    BY <2>1
  <2> DEFINE q == Append(feeds[c], event)
  <2>3. Enqueue(feeds[c], event) = Bounded(q)
    BY DEF Enqueue
  <2> HIDE DEF q
  <2>4. /\ Bounded(q) \in Seq(Event)
        /\ \A i \in DOMAIN Bounded(q) : \E k \in DOMAIN q : Bounded(q)[i] = q[k]
        /\ Len(Bounded(q)) < QueueSize => Bounded(q) = q
    BY <2>2, BoundedKeeps DEF q
  <2>5. \A i \in DOMAIN Bounded(q) : Bounded(q)[i] = event \/ \E k \in DOMAIN feeds[c] : Bounded(q)[i] = feeds[c][k]
    BY <2>2, <2>4 DEF q
  <2> QED
    BY <2>3, <2>4, <2>5 DEF q
<1>2. \A c \in Client : feeds'[c] = IF c \in open /\ c # exclude THEN Enqueue(feeds[c], event) ELSE feeds[c]
  BY DEF Broadcast
<1>3. \A c \in Client : feeds[c] \in Seq(Event)
  BY DEF TypeOK
<1>4. feeds' = [c \in Client |-> IF c \in open /\ c # exclude THEN Enqueue(feeds[c], event) ELSE feeds[c]]
  BY DEF Broadcast
<1>5. open \subseteq Client
  BY DEF TypeOK
<1>6. feeds' \in [Client -> Seq(Event)]
  BY <1>1, <1>3, <1>4
<1>7. ASSUME NEW c \in Client, NEW i \in DOMAIN feeds'[c]
      PROVE  feeds'[c][i] = event \/ \E k \in DOMAIN feeds[c] : feeds'[c][i] = feeds[c][k]
  <2>1. CASE c \in open /\ c # exclude
    <3>1. feeds'[c] = Enqueue(feeds[c], event)
      BY <1>2, <2>1
    <3>2. i \in DOMAIN Enqueue(feeds[c], event)
      BY <1>7, <3>1
    <3>3. Enqueue(feeds[c], event)[i] = event \/ \E k \in DOMAIN feeds[c] : Enqueue(feeds[c], event)[i] = feeds[c][k]
      BY <1>1, <3>2
    <3> QED
      BY <3>1, <3>3
  <2>2. CASE ~(c \in open /\ c # exclude)
    <3>1. feeds'[c] = feeds[c]
      BY <1>2, <2>2
    <3> QED
      BY <1>7, <3>1
  <2> QED
    BY <2>1, <2>2
<1>8. \A c \in Client \ open : feeds'[c] = feeds[c]
  BY <1>2
<1>9. \A c \in open : c # exclude /\ Len(feeds'[c]) < QueueSize => feeds'[c] = Append(feeds[c], event)
  BY <1>1, <1>2, <1>5
<1>10. exclude \in Client => feeds'[exclude] = feeds[exclude]
  BY <1>2
<1> QED
  BY <1>6, <1>7, <1>8, <1>9, <1>10

\* Who leaves the line leaves the others as they stood.
LEMMA LineWithout ==
    ASSUME NEW s \in Seq(Job), NEW k \in DOMAIN s, \A i, n \in DOMAIN s : s[i] = s[n] => i = n
    PROVE  /\ RemoveAt(s, k) \in Seq(Job)
           /\ \A i, n \in DOMAIN RemoveAt(s, k) : RemoveAt(s, k)[i] = RemoveAt(s, k)[n] => i = n
           /\ {RemoveAt(s, k)[i] : i \in DOMAIN RemoveAt(s, k)} = {s[i] : i \in DOMAIN s} \ {s[k]}
<1> DEFINE a == SubSeq(s, 1, k - 1)
           b == SubSeq(s, k + 1, Len(s))
           r == RemoveAt(s, k)
<1>1. Len(s) \in Nat /\ DOMAIN s = 1 .. Len(s) /\ k \in Nat /\ 1 <= k /\ k <= Len(s)
  OBVIOUS
<1>2. a \in Seq(Job) /\ Len(a) = k - 1 /\ \A i \in 1 .. k - 1 : a[i] = s[i]
  <2>1. 1 \in 1 .. Len(s) + 1 /\ k - 1 \in 0 .. Len(s)
    BY <1>1
  <2> QED
    BY <1>1, <2>1, SubSeqProperties
<1>3. b \in Seq(Job) /\ Len(b) = Len(s) - k /\ \A i \in 1 .. Len(s) - k : b[i] = s[k + i]
  <2>1. k + 1 \in 1 .. Len(s) + 1 /\ Len(s) \in k .. Len(s)
    BY <1>1
  <2> QED
    BY <1>1, <2>1, SubSeqProperties
<1>4. r = a \o b
  BY DEF RemoveAt
<1> HIDE DEF a, b, r
<1>5. /\ r \in Seq(Job) /\ Len(r) = Len(s) - 1 /\ DOMAIN r = 1 .. Len(s) - 1
      /\ \A i \in 1 .. Len(s) - 1 : r[i] = IF i < k THEN s[i] ELSE s[i + 1]
  <2>1. r \in Seq(Job) /\ Len(r) = Len(a) + Len(b)
    BY <1>2, <1>3, <1>4, ConcatProperties
  <2>2. Len(r) = Len(s) - 1 /\ DOMAIN r = 1 .. Len(s) - 1
    BY <1>1, <1>2, <1>3, <2>1
  <2>3. \A i \in 1 .. Len(a) + Len(b) : r[i] = IF i <= Len(a) THEN a[i] ELSE b[i - Len(a)]
    BY <1>2, <1>3, <1>4, ConcatProperties
  <2>4. \A i \in 1 .. Len(s) - 1 : r[i] = IF i < k THEN s[i] ELSE s[i + 1]
    <3> SUFFICES ASSUME NEW i \in 1 .. Len(s) - 1 PROVE r[i] = IF i < k THEN s[i] ELSE s[i + 1]
      OBVIOUS
    <3>1. CASE i < k
      BY <1>1, <1>2, <1>3, <2>3, <3>1
    <3>2. CASE ~(i < k)
      <4>1. i - (k - 1) \in 1 .. Len(s) - k /\ k + (i - (k - 1)) = i + 1
        BY <1>1, <3>2
      <4>2. r[i] = b[i - (k - 1)]
        BY <1>1, <1>2, <1>3, <2>3, <3>2
      <4> QED
        BY <1>3, <3>2, <4>1, <4>2
    <3> QED
      BY <3>1, <3>2
  <2> QED
    BY <2>1, <2>2, <2>4
<1>6. \A i, n \in DOMAIN r : r[i] = r[n] => i = n
  BY <1>1, <1>5
<1>7. \A i \in DOMAIN r : r[i] \in {s[n] : n \in DOMAIN s} \ {s[k]}
  BY <1>1, <1>5
<1>8. \A i \in DOMAIN s : i # k => \E n \in DOMAIN r : r[n] = s[i]
  <2> SUFFICES ASSUME NEW i \in DOMAIN s, i # k PROVE \E n \in DOMAIN r : r[n] = s[i]
    OBVIOUS
  <2>1. CASE i < k
    BY <1>1, <1>5, <2>1
  <2>2. CASE i > k
    <3>1. i - 1 \in DOMAIN r /\ r[i - 1] = s[i]
      BY <1>1, <1>5, <2>2
    <3> QED
      BY <3>1
  <2> QED
    BY <1>1, <2>1, <2>2
<1>9. {r[i] : i \in DOMAIN r} = {s[i] : i \in DOMAIN s} \ {s[k]}
  BY <1>7, <1>8
<1> QED
  BY <1>5, <1>6, <1>9 DEF r

----------------------------------------------------------------------------
(* The registry *)

Waiting == {line[i] : i \in DOMAIN line}

\* A job waits exactly while it is queued, and its payload is released exactly when it
\* has settled; only settled jobs go.
ServerInv ==
    /\ \A j \in Job : /\ j \notin created => jobs[j] = Absent
                      /\ jobs[j].status = "none" => jobs[j] = Absent
                      /\ jobs[j].status # "none" => jobs[j].at >= 1
                      /\ released[j] = IF j \in created /\ jobs[j].status \notin Active THEN 1 ELSE 0
                      /\ j \in old => jobs[j].status \in Terminal
                      /\ j \in Waiting <=> jobs[j].status = "queued"
    /\ \A i, k \in DOMAIN line : line[i] = line[k] => i = k

\* What is told of a job is an event.
LEMMA ViewTyped ==
    ASSUME NEW j \in Job
    PROVE  /\ jobs \in [Job -> Snapshot] => View(j) \in Event
           /\ jobs' \in [Job -> Snapshot] => View(j)' \in Event
  BY DEF Snapshot, Event, View

\* The two events that carry no job are events.
LEMMA MarkersTyped == Ready \in Event /\ Changed \in Event
  BY DEF Ready, Changed, Event, Status

\* What a change of a job does to the registry and the feeds.
LEMMA TouchTyped ==
    ASSUME TypeOK, NEW j \in Job, NEW status \in Status, NEW table \in [Job -> Snapshot], Touch(j, status, table)
    PROVE  jobs' \in [Job -> Snapshot] /\ feeds' \in [Client -> Seq(Event)] /\ View(j)' \in Event
<1>1. [status |-> status, at |-> jobs[j].at + 1] \in Snapshot
  BY DEF TypeOK, Snapshot
<1>2. jobs' \in [Job -> Snapshot]
  BY <1>1 DEF Touch
<1>3. View(j)' \in Event
  BY <1>2, ViewTyped
<1> QED
  BY <1>2, <1>3, BroadcastTells DEF Touch, Publish

\* Pruning keeps the table of jobs a table of jobs.
LEMMA PrunedTyped ==
    ASSUME NEW table \in [Job -> Snapshot]
    PROVE  Pruned(table) \in [Job -> Snapshot]
  BY DEF Pruned, Snapshot, Absent, Status

\* A job that settles is one still, and is published as such.
LEMMA SettleTyped ==
    ASSUME TypeOK, NEW j \in Job, NEW outcome \in Terminal, Settle(j, outcome)
    PROVE  /\ jobs' \in [Job -> Snapshot] /\ feeds' \in [Client -> Seq(Event)]
           /\ old' = {} /\ released' \in [Job -> Nat] /\ UNCHANGED <<created, cancelling, open>>
<1>1. Pruned(jobs) \in [Job -> Snapshot] /\ outcome \in Status
  BY PrunedTyped DEF TypeOK, Status
<1>2. Touch(j, outcome, Pruned(jobs))
  BY DEF Settle
<1>3. released' \in [Job -> Nat]
  BY DEF Settle, TypeOK
<1> QED
  BY <1>1, <1>2, <1>3, TouchTyped DEF Settle

\* The steps of the server.
LEMMA ServerTyped ==
    ASSUME TypeOK, ServerInv, NEW j \in Job
    PROVE  Works(j) \/ Settles(j) \/ Forget(j) => TypeOK'
<1>1. ASSUME Start(j), UNCHANGED tabs PROVE TypeOK'
  <2>1. line' \in Seq(Job)
    BY <1>1 DEF Start, TypeOK
  <2>2. jobs' \in [Job -> Snapshot] /\ feeds' \in [Client -> Seq(Event)]
    <3>1. "running" \in Status /\ jobs \in [Job -> Snapshot] /\ Touch(j, "running", jobs)
      BY <1>1 DEF Start, Status, Active, TypeOK
    <3> QED
      BY <3>1, TouchTyped
  <2> QED
    BY <1>1, <2>1, <2>2 DEF Start, TypeOK, tabs
<1>2. ASSUME Report(j), UNCHANGED tabs PROVE TypeOK'
  <2>1. jobs' \in [Job -> Snapshot] /\ feeds' \in [Client -> Seq(Event)]
    <3>1. "running" \in Status /\ jobs \in [Job -> Snapshot] /\ Touch(j, "running", jobs)
      BY <1>2 DEF Report, Status, Active, TypeOK
    <3> QED
      BY <3>1, TouchTyped
  <2> QED
    BY <1>2, <2>1 DEF Report, TypeOK, tabs
<1>3. ASSUME Cancel(j), UNCHANGED tabs PROVE TypeOK'
  BY <1>3 DEF Cancel, TypeOK, tabs
<1>4. ASSUME Settles(j) PROVE TypeOK'
  <2>1. PICK outcome \in Terminal : Settle(j, outcome)
    BY <1>4 DEF Settles, Finish, CancelWaiting, Terminal
  <2>2. line' \in Seq(Job)
    <3>1. CASE Finish(j)
      BY <3>1 DEF Finish, TypeOK
    <3>2. CASE CancelWaiting(j)
      <4> DEFINE k == CHOOSE i \in DOMAIN line : line[i] = j
      <4>1. k \in DOMAIN line /\ line' = RemoveAt(line, k)
        BY <3>2 DEF CancelWaiting, LeaveLine, ServerInv, Waiting
      <4> HIDE DEF k
      <4> QED
        BY <4>1, LineWithout DEF TypeOK, ServerInv
    <3> QED
      BY <1>4, <3>1, <3>2 DEF Settles
  <2>3. fresh' \in SUBSET Client
    BY <1>4 DEF Settles, TypeOK
  <2> QED
    BY <1>4, <2>1, <2>2, <2>3, SettleTyped DEF Settles, TypeOK
<1>5. ASSUME Forget(j) PROVE TypeOK'
  BY <1>5 DEF Forget, Expire, TypeOK, tabs
<1> QED
  BY <1>1, <1>2, <1>3, <1>4, <1>5 DEF Works

\* What a tab does with a snapshot keeps the types.
LEMMA MarkedTyped ==
    ASSUME TypeOK, NEW c \in Client, NEW j \in Job
    PROVE  Marked(c, j) \in Seq(Job)
<1>1. handled[c] \in Seq(Job)
  BY DEF TypeOK
<1>2. Append(handled[c], j) \in Seq(Job) /\ Append(handled[c], j) # <<>>
  BY <1>1, AppendProperties
<1>3. Tail(Append(handled[c], j)) \in Seq(Job)
  BY <1>2, HeadTailProperties
<1> QED
  BY <1>2, <1>3 DEF Marked

\* A tab that takes a snapshot in keeps its tray and what it remembers well formed.
LEMMA UpsertTyped ==
    ASSUME TypeOK, NEW c \in Client, NEW v \in Event, v.type = "job", Upsert(c, v)
    PROVE  /\ tray' \in [Client -> [Job -> Snapshot]] /\ handled' \in [Client -> Seq(Job)]
           /\ fired' \in [Client -> [Job -> Nat]] /\ awaiting' \in [Client -> SUBSET Job]
           /\ fresh' \in SUBSET Client
<1>1. v.job \in Job /\ [status |-> v.status, at |-> v.at] \in Snapshot
  BY DEF Event, Snapshot
<1>2. Marked(c, v.job) \in Seq(Job)
  BY <1>1, MarkedTyped
<1>3. handled' = [handled EXCEPT ![c] = Marked(c, v.job)] \/ UNCHANGED handled
  BY DEF Upsert, store
<1>4. handled' \in [Client -> Seq(Job)]
  BY <1>2, <1>3 DEF TypeOK
<1>5. tray' \in [Client -> [Job -> Snapshot]]
  <2>1. tray' = [tray EXCEPT ![c][v.job] = [status |-> v.status, at |-> v.at]] \/ UNCHANGED tray
    BY DEF Upsert, store
  <2>2. tray[c] \in [Job -> Snapshot]
    BY DEF TypeOK
  <2>3. [tray[c] EXCEPT ![v.job] = [status |-> v.status, at |-> v.at]] \in [Job -> Snapshot]
    BY <1>1, <2>2
  <2>4. [tray EXCEPT ![c][v.job] = [status |-> v.status, at |-> v.at]] \in [Client -> [Job -> Snapshot]]
    BY <2>3 DEF TypeOK
  <2> QED
    BY <2>1, <2>4 DEF TypeOK
<1>6. fired' \in [Client -> [Job -> Nat]]
  <2>1. fired' = [fired EXCEPT ![c][v.job] = @ + 1] \/ UNCHANGED fired
    BY DEF Upsert, store
  <2>2. fired[c] \in [Job -> Nat]
    BY DEF TypeOK
  <2>3. [fired[c] EXCEPT ![v.job] = @ + 1] \in [Job -> Nat]
    BY <1>1, <2>2
  <2>4. [fired EXCEPT ![c][v.job] = @ + 1] \in [Client -> [Job -> Nat]]
    BY <2>3 DEF TypeOK
  <2> QED
    BY <2>1, <2>4 DEF TypeOK
<1>7. awaiting' \in [Client -> SUBSET Job] /\ fresh' \in SUBSET Client
  <2>1. awaiting' = [awaiting EXCEPT ![c] = @ \ {v.job}] \/ UNCHANGED awaiting
    BY DEF Upsert, store
  <2>2. fresh' = fresh \cup {c} \/ UNCHANGED fresh
    BY DEF Upsert, store
  <2> QED
    BY <2>1, <2>2 DEF TypeOK
<1> QED
  BY <1>4, <1>5, <1>6, <1>7

\* What a new subscription starts with.
LEMMA SnapshotTyped ==
    ASSUME TypeOK, NEW c \in Client, Subscribe(c)
    PROVE  /\ feeds' \in [Client -> Seq(Event)] /\ open' = open \cup {c} /\ UNCHANGED registry
           /\ \A d \in Client \ {c} : feeds'[d] = feeds[d]
           /\ \A i \in DOMAIN feeds'[c] : feeds'[c][i] = Ready \/ \E j \in Retained : feeds'[c][i] = View(j)
           /\ Len(feeds'[c]) < QueueSize =>
                /\ \E i \in DOMAIN feeds'[c] : feeds'[c][i] = Ready
                /\ \A j \in Retained : \E i \in DOMAIN feeds'[c] : feeds'[c][i] = View(j)
<1>1. PICK kept \in Orders(Retained) :
        feeds' = [feeds EXCEPT ![c] = Bounded(Append([i \in DOMAIN kept |-> View(kept[i])], Ready))]
  BY DEF Subscribe
<1>2. /\ Retained \subseteq Job /\ Cardinality(Retained) \in Nat
      /\ kept \in [1 .. Cardinality(Retained) -> Retained] /\ Range(kept) = Retained
  <2>1. Retained \subseteq Job
    BY DEF Retained, TypeOK
  <2>2. IsFiniteSet(Retained)
    BY <2>1, JobsAssumption, FS_Subset
  <2> QED
    BY <2>1, <2>2, FS_CardinalityType DEF Orders
<1> DEFINE views == [i \in DOMAIN kept |-> View(kept[i])]
           q == Append(views, Ready)
           n == Cardinality(Retained)
<1>3. views \in Seq(Event) /\ Len(views) = n /\ \A i \in 1 .. n : views[i] = View(kept[i])
  <2>1. \A i \in 1 .. n : View(kept[i]) \in Event
    BY <1>2, ViewTyped DEF TypeOK
  <2> QED
    BY <1>2, <2>1
<1> HIDE DEF views
<1>4. /\ q \in Seq(Event) /\ Len(q) = n + 1 /\ DOMAIN q = 1 .. n + 1
      /\ q[n + 1] = Ready /\ \A i \in 1 .. n : q[i] = View(kept[i])
  BY <1>2, <1>3, MarkersTyped
<1> HIDE DEF q
<1>5. /\ Bounded(q) \in Seq(Event)
      /\ \A i \in DOMAIN Bounded(q) : \E k \in DOMAIN q : Bounded(q)[i] = q[k]
      /\ Len(Bounded(q)) < QueueSize => Bounded(q) = q
  BY <1>4, BoundedKeeps
<1>6. feeds'[c] = Bounded(q) /\ feeds' \in [Client -> Seq(Event)] /\ \A d \in Client \ {c} : feeds'[d] = feeds[d]
  BY <1>1, <1>5 DEF TypeOK, q, views
<1>7. \A k \in DOMAIN q : q[k] = Ready \/ \E j \in Retained : q[k] = View(j)
  BY <1>2, <1>4
<1>8. \A j \in Retained : \E k \in DOMAIN q : q[k] = View(j)
  <2> SUFFICES ASSUME NEW j \in Retained PROVE \E k \in DOMAIN q : q[k] = View(j)
    OBVIOUS
  <2>1. PICK k \in 1 .. n : kept[k] = j
    BY <1>2 DEF Range
  <2>2. k \in DOMAIN q /\ q[k] = View(j)
    BY <1>2, <1>4, <2>1
  <2> QED
    BY <2>2
<1>9. \E k \in DOMAIN q : q[k] = Ready
  <2>1. n + 1 \in DOMAIN q
    BY <1>2, <1>4
  <2> QED
    BY <1>4, <2>1
<1>10. \A i \in DOMAIN Bounded(q) : Bounded(q)[i] = Ready \/ \E j \in Retained : Bounded(q)[i] = View(j)
  BY <1>5, <1>7
<1> QED
  BY <1>5, <1>6, <1>8, <1>9, <1>10 DEF Subscribe

\* The steps of a tab.
LEMMA TabTyped ==
    ASSUME TypeOK, NEW c \in Client
    PROVE  \/ Connect(c) \/ Drop(c) \/ Receive(c) \/ Replied(c)
           \/ \E j \in Job : Answered(c, j) \/ GiveUp(c, j) \/ Dismiss(c, j)
           => TypeOK'
<1>1. ASSUME Connect(c) PROVE TypeOK'
  <2>1. feeds' \in [Client -> Seq(Event)] /\ open' = open \cup {c} /\ UNCHANGED registry
    BY <1>1, SnapshotTyped DEF Connect
  <2> QED
    BY <1>1, <2>1 DEF Connect, TypeOK, registry, store
<1>2. ASSUME Drop(c) PROVE TypeOK'
  <2>1. feeds' \in [Client -> Seq(Event)]
    BY <1>2 DEF Drop, Unsubscribe, TypeOK
  <2> QED
    BY <1>2, <2>1 DEF Drop, Unsubscribe, TypeOK, registry, store
<1>3. ASSUME Receive(c) PROVE TypeOK'
  <2>1. feeds[c] \in Seq(Event) /\ Head(feeds[c]) \in Event /\ Tail(feeds[c]) \in Seq(Event)
    BY <1>3 DEF Receive, TypeOK
  <2>2. feeds' \in [Client -> Seq(Event)]
    BY <1>3, <2>1 DEF Receive, TypeOK
  <2>3. CASE Head(feeds[c]).type = "job" /\ Upsert(c, Head(feeds[c])) /\ UNCHANGED seeding
    BY <1>3, <2>1, <2>2, <2>3, UpsertTyped DEF Receive, TypeOK, registry
  <2>4. CASE /\ Head(feeds[c]).type # "job"
             /\ seeding' = IF Head(feeds[c]).type = "ready" THEN seeding \ {c} ELSE seeding
             /\ fresh' = IF Refreshed(Head(feeds[c]).type) THEN fresh \cup {c} ELSE fresh
             /\ UNCHANGED <<tray, handled, fired, awaiting>>
    BY <1>3, <2>2, <2>4 DEF Receive, TypeOK, registry
  <2> QED
    BY <1>3, <2>3, <2>4 DEF Receive
<1>4. ASSUME Replied(c) PROVE TypeOK'
  BY <1>4 DEF Replied, TypeOK, registry
<1>5. ASSUME NEW j \in Job, Answered(c, j) PROVE TypeOK'
  <2>1. tray' \in [Client -> [Job -> Snapshot]]
    BY <1>5 DEF Answered, TypeOK, Snapshot, Status, Active
  <2>2. answering' \in [Client -> SUBSET Job] /\ awaiting' \in [Client -> SUBSET Job]
    BY <1>5 DEF Answered, TypeOK
  <2> QED
    BY <1>5, <2>1, <2>2 DEF Answered, TypeOK, registry
<1>6. ASSUME NEW j \in Job, GiveUp(c, j) PROVE TypeOK'
  BY <1>6 DEF GiveUp, TypeOK, registry
<1>7. ASSUME NEW j \in Job, Dismiss(c, j) PROVE TypeOK'
  BY <1>7 DEF Dismiss, TypeOK, registry, Absent, Snapshot, Status
<1> QED
  BY <1>1, <1>2, <1>3, <1>4, <1>5, <1>6, <1>7

\* Submissions, changes that are no job, and the start.
LEMMA SubmitTyped ==
    ASSUME TypeOK, NEW j \in Job, Submit(j)
    PROVE  jobs' \in [Job -> Snapshot] /\ feeds' \in [Client -> Seq(Event)] /\ line' \in Seq(Job)
<1>1. [status |-> "queued", at |-> 1] \in Snapshot
  BY DEF Snapshot, Status, Active
<1>2. [jobs EXCEPT ![j] = [status |-> "queued", at |-> 1]] \in [Job -> Snapshot]
  BY <1>1 DEF TypeOK
<1>3. jobs' \in [Job -> Snapshot]
  BY <1>2, PrunedTyped DEF Submit
<1>4. View(j)' \in Event
  BY <1>3, ViewTyped
<1>5. line' \in Seq(Job)
  BY DEF Submit, TypeOK
<1> QED
  BY <1>3, <1>4, <1>5, BroadcastTells DEF Submit, Publish

\* A change or a request of anybody, a client or none of them, keeps the types.
LEMMA AnyTyped ==
    ASSUME TypeOK, NEW c \in Client \cup {NoClient}
    PROVE  Change(c) \/ (\E j \in Job : Request(c, j)) => TypeOK'
<1>1. ASSUME Change(c) PROVE TypeOK'
  <2>1. feeds' \in [Client -> Seq(Event)]
    BY <1>1, MarkersTyped, BroadcastTells DEF Change, Notify
  <2> QED
    BY <1>1, <2>1 DEF Change, Notify, TypeOK, registry
<1>2. ASSUME NEW j \in Job, Request(c, j) PROVE TypeOK'
  <2>1. jobs' \in [Job -> Snapshot] /\ feeds' \in [Client -> Seq(Event)] /\ line' \in Seq(Job)
    BY <1>2, SubmitTyped DEF Request
  <2>2. answering' \in [Client -> SUBSET Job]
    BY <1>2 DEF Request, TypeOK
  <2> QED
    BY <1>2, <2>1, <2>2 DEF Request, Submit, TypeOK, store
<1> QED
  BY <1>1, <1>2

\* At first every variable has its type.
LEMMA TypeInit == Init => TypeOK
  BY DEF Init, ManagerInit, TypeOK, Absent, Snapshot, Status

\* Every step of the server, the network and the tabs keeps the types.
LEMMA TypeKept == TypeOK /\ ServerInv /\ [Next]_vars => TypeOK'
<1> SUFFICES ASSUME TypeOK, ServerInv, [Next]_vars PROVE TypeOK'
  OBVIOUS
<1>1. CASE UNCHANGED vars
  BY <1>1 DEF vars, registry, tabs, TypeOK
<1>2. CASE Next
  BY <1>2, ServerTyped, TabTyped, AnyTyped DEF Next
<1> QED
  BY <1>1, <1>2

----------------------------------------------------------------------------
(* The registry is kept *)

\* What a step does to the table: one job changes and the settled ones past their
\* retention may go.
Moves(j, status, gone) ==
    jobs' = [k \in Job |-> IF k = j THEN [status |-> status, at |-> jobs[j].at + 1]
                           ELSE IF k \in gone THEN Absent ELSE jobs[k]]

\* A submission, a start, a report and a settling are moves of the job.
LEMMA TableMoves ==
    ASSUME TypeOK, ServerInv, NEW j \in Job
    PROVE  /\ Submit(j) => Moves(j, "queued", old)
           /\ Start(j) => Moves(j, "running", {})
           /\ Report(j) => Moves(j, "running", {})
           /\ \A outcome \in Terminal : jobs[j].status \in Active /\ Settle(j, outcome) => Moves(j, outcome, old)
<1>1. jobs = [k \in Job |-> jobs[k]]
  BY DEF TypeOK
<1>2. ASSUME Submit(j) PROVE Moves(j, "queued", old)
  <2>1. jobs[j] = Absent /\ j \notin old
    BY <1>2 DEF Submit, ServerInv, Absent, Terminal
  <2>2. jobs[j].at + 1 = 1
    BY <2>1 DEF Absent
  <2>3. \A k \in Job : [jobs EXCEPT ![j] = [status |-> "queued", at |-> 1]][k]
                       = IF k = j THEN [status |-> "queued", at |-> 1] ELSE jobs[k]
    BY <1>1
  <2> QED
    BY <1>2, <2>1, <2>2, <2>3 DEF Submit, Pruned, Moves
<1>3. ASSUME Start(j) PROVE Moves(j, "running", {})
  BY <1>1, <1>3 DEF Start, Touch, Moves
<1>4. ASSUME Report(j) PROVE Moves(j, "running", {})
  BY <1>1, <1>4 DEF Report, Touch, Moves
<1>5. ASSUME NEW outcome \in Terminal, jobs[j].status \in Active, Settle(j, outcome)
      PROVE  Moves(j, outcome, old)
  BY <1>5 DEF Settle, Touch, Pruned, Moves
<1> QED
  BY <1>2, <1>3, <1>4, <1>5

\* The parts of ServerInv that speak of the table.
LEMMA TableKept ==
    ASSUME TypeOK, ServerInv, NEW j \in Job, NEW status \in Active \cup Terminal, NEW gone \in SUBSET old,
           Moves(j, status, gone), old' = old \ gone,
           j \notin old, created' = created \cup {j},
           released' = IF status \in Terminal THEN [released EXCEPT ![j] = 1] ELSE released,
           status \in Active => j \notin created \/ jobs[j].status \in Active
    PROVE  \A k \in Job : /\ k \notin created' => jobs'[k] = Absent
                          /\ jobs'[k].status = "none" => jobs'[k] = Absent
                          /\ jobs'[k].status # "none" => jobs'[k].at >= 1
                          /\ released'[k] = IF k \in created' /\ jobs'[k].status \notin Active THEN 1 ELSE 0
                          /\ k \in old' => jobs'[k].status \in Terminal
                          /\ k # j => (jobs'[k].status = "queued" <=> jobs[k].status = "queued")
<1> SUFFICES ASSUME NEW k \in Job
             PROVE  /\ k \notin created' => jobs'[k] = Absent
                    /\ jobs'[k].status = "none" => jobs'[k] = Absent
                    /\ jobs'[k].status # "none" => jobs'[k].at >= 1
                    /\ released'[k] = IF k \in created' /\ jobs'[k].status \notin Active THEN 1 ELSE 0
                    /\ k \in old' => jobs'[k].status \in Terminal
                    /\ k # j => (jobs'[k].status = "queued" <=> jobs[k].status = "queued")
  OBVIOUS
<1>1. jobs[k] \in Snapshot /\ jobs[j] \in Snapshot /\ released \in [Job -> Nat]
  BY DEF TypeOK
<1>2. CASE k = j
  <2>1. jobs'[k] = [status |-> status, at |-> jobs[j].at + 1]
    BY <1>2 DEF Moves
  <2>2. jobs'[k].status = status /\ jobs'[k].at >= 1 /\ status # "none" /\ (status \in Active <=> status \notin Terminal)
    BY <1>1, <2>1 DEF Snapshot, Active, Terminal
  <2>3. released'[k] = IF status \in Terminal THEN 1 ELSE 0
    BY <1>1, <1>2, <2>2 DEF ServerInv
  <2> QED
    BY <1>2, <2>2, <2>3
<1>3. CASE k # j /\ k \in gone
  <2>1. jobs'[k] = Absent /\ jobs[k].status \in Terminal /\ k \notin old'
    BY <1>3 DEF Moves, ServerInv
  <2>2. k \in created /\ released'[k] = released[k] /\ jobs[k].status \notin Active
    BY <1>1, <1>3, <2>1 DEF ServerInv, Absent, Terminal, Active
  <2> QED
    BY <1>3, <2>1, <2>2 DEF ServerInv, Absent, Active, Terminal
<1>4. CASE k # j /\ k \notin gone
  <2>1. jobs'[k] = jobs[k] /\ released'[k] = released[k] /\ (k \in old' => k \in old)
    BY <1>1, <1>4 DEF Moves
  <2> QED
    BY <1>4, <2>1 DEF ServerInv
<1> QED
  BY <1>2, <1>3, <1>4

\* Whoever leaves the line is alone in leaving it.
LEMMA HeadLeaves ==
    ASSUME NEW s \in Seq(Job), s # <<>>, \A i, n \in DOMAIN s : s[i] = s[n] => i = n
    PROVE  /\ \A i, n \in DOMAIN Tail(s) : Tail(s)[i] = Tail(s)[n] => i = n
           /\ {Tail(s)[i] : i \in DOMAIN Tail(s)} = {s[i] : i \in DOMAIN s} \ {Head(s)}
<1>1. /\ Tail(s) \in Seq(Job) /\ Len(Tail(s)) = Len(s) - 1 /\ Head(s) = s[1] /\ Len(s) \in Nat /\ Len(s) >= 1
      /\ \A i \in 1 .. Len(Tail(s)) : Tail(s)[i] = s[i + 1]
  BY HeadTailProperties
<1>2. DOMAIN s = 1 .. Len(s) /\ DOMAIN Tail(s) = 1 .. Len(s) - 1
  BY <1>1
<1>3. \A i, n \in DOMAIN Tail(s) : Tail(s)[i] = Tail(s)[n] => i = n
  BY <1>1, <1>2
<1>4. \A i \in DOMAIN Tail(s) : Tail(s)[i] \in {s[n] : n \in DOMAIN s} \ {Head(s)}
  BY <1>1, <1>2
<1>5. \A i \in DOMAIN s : s[i] # Head(s) => \E n \in DOMAIN Tail(s) : Tail(s)[n] = s[i]
  <2> SUFFICES ASSUME NEW i \in DOMAIN s, s[i] # Head(s) PROVE \E n \in DOMAIN Tail(s) : Tail(s)[n] = s[i]
    OBVIOUS
  <2>1. i - 1 \in DOMAIN Tail(s) /\ Tail(s)[i - 1] = s[i]
    BY <1>1, <1>2
  <2> QED
    BY <2>1
<1> QED
  BY <1>3, <1>4, <1>5

\* Whoever joins it had not stood in it.
LEMMA LastJoins ==
    ASSUME NEW s \in Seq(Job), NEW j \in Job, \A i, n \in DOMAIN s : s[i] = s[n] => i = n,
           j \notin {s[i] : i \in DOMAIN s}
    PROVE  /\ \A i, n \in DOMAIN Append(s, j) : Append(s, j)[i] = Append(s, j)[n] => i = n
           /\ {Append(s, j)[i] : i \in DOMAIN Append(s, j)} = {s[i] : i \in DOMAIN s} \cup {j}
<1>1. /\ Append(s, j) \in Seq(Job) /\ Len(Append(s, j)) = Len(s) + 1 /\ Len(s) \in Nat
      /\ \A i \in 1 .. Len(s) : Append(s, j)[i] = s[i]
      /\ Append(s, j)[Len(s) + 1] = j
  BY AppendProperties
<1>2. DOMAIN s = 1 .. Len(s) /\ DOMAIN Append(s, j) = 1 .. Len(s) + 1
  BY <1>1
<1>3. \A i \in DOMAIN Append(s, j) : i \in DOMAIN s \/ i = Len(s) + 1
  BY <1>1, <1>2
<1>4. \A i, n \in DOMAIN Append(s, j) : Append(s, j)[i] = Append(s, j)[n] => i = n
  BY <1>1, <1>2, <1>3
<1>5. Len(s) + 1 \in DOMAIN Append(s, j) /\ \A i \in DOMAIN s : i \in DOMAIN Append(s, j)
  BY <1>1, <1>2
<1> QED
  BY <1>1, <1>2, <1>3, <1>4, <1>5

\* A job that moves, with the place it takes or leaves in the line.
LEMMA ServerKept ==
    ASSUME TypeOK, ServerInv, NEW j \in Job
    PROVE  Submit(j) \/ Works(j) \/ Settles(j) \/ Forget(j) => ServerInv'
<1> USE DEF Waiting
<1>1. line \in Seq(Job) /\ \A i, k \in DOMAIN line : line[i] = line[k] => i = k
  BY DEF TypeOK, ServerInv
<1>2. released \in [Job -> Nat]
  BY DEF TypeOK
<1>3. ASSUME Submit(j) PROVE ServerInv'
  <2>1. jobs[j] = Absent /\ j \notin old /\ j \notin Waiting
    BY <1>3 DEF Submit, ServerInv, Absent, Terminal
  <2>2. Moves(j, "queued", old) /\ "queued" \in Active /\ "queued" \notin Terminal
    BY <1>3, TableMoves DEF Active, Terminal
  <2>3. \A i, k \in DOMAIN line' : line'[i] = line'[k] => i = k
    BY <1>1, <1>3, <2>1, LastJoins DEF Submit
  <2>4. Waiting' = Waiting \cup {j}
    BY <1>1, <1>3, <2>1, LastJoins DEF Submit
  <2>5. jobs'[j].status = "queued"
    BY <2>2 DEF Moves
  <2>6. \A k \in Job : /\ k \notin created' => jobs'[k] = Absent
                       /\ jobs'[k].status = "none" => jobs'[k] = Absent
                       /\ jobs'[k].status # "none" => jobs'[k].at >= 1
                       /\ released'[k] = IF k \in created' /\ jobs'[k].status \notin Active THEN 1 ELSE 0
                       /\ k \in old' => jobs'[k].status \in Terminal
                       /\ k # j => (jobs'[k].status = "queued" <=> jobs[k].status = "queued")
    <3>1. /\ created' = created \cup {j} /\ j \notin created /\ old' = old \ old /\ old \in SUBSET old
          /\ released' = IF "queued" \in Terminal THEN [released EXCEPT ![j] = 1] ELSE released
      BY <1>3, <2>2 DEF Submit
    <3> QED
      BY <2>1, <2>2, <3>1, TableKept
  <2> HIDE DEF Waiting
  <2> QED
    BY <2>3, <2>4, <2>5, <2>6 DEF ServerInv
<1>4. ASSUME Start(j) PROVE ServerInv'
  <2>1. j \in Waiting
    BY <1>1, <1>4 DEF Start
  <2>2. jobs[j].status = "queued" /\ j \in created /\ j \notin old
    BY <2>1 DEF ServerInv, Absent, Terminal
  <2>3. Moves(j, "running", {}) /\ "running" \in Active /\ "running" \notin Terminal
    BY <1>4, TableMoves DEF Active, Terminal
  <2>4. \A i, k \in DOMAIN line' : line'[i] = line'[k] => i = k
    BY <1>1, <1>4, HeadLeaves DEF Start
  <2>5. Waiting' = Waiting \ {j}
    BY <1>1, <1>4, HeadLeaves DEF Start
  <2>6. jobs'[j].status = "running"
    BY <2>3 DEF Moves
  <2>7. \A k \in Job : /\ k \notin created' => jobs'[k] = Absent
                       /\ jobs'[k].status = "none" => jobs'[k] = Absent
                       /\ jobs'[k].status # "none" => jobs'[k].at >= 1
                       /\ released'[k] = IF k \in created' /\ jobs'[k].status \notin Active THEN 1 ELSE 0
                       /\ k \in old' => jobs'[k].status \in Terminal
                       /\ k # j => (jobs'[k].status = "queued" <=> jobs[k].status = "queued")
    <3>1. /\ created' = created \cup {j} /\ old' = old \ {} /\ {} \in SUBSET old
          /\ released' = IF "running" \in Terminal THEN [released EXCEPT ![j] = 1] ELSE released
          /\ jobs[j].status \in Active
      BY <1>4, <2>2, <2>3 DEF Start, Active
    <3> QED
      BY <2>2, <2>3, <3>1, TableKept
  <2> HIDE DEF Waiting
  <2> QED
    BY <2>4, <2>5, <2>6, <2>7 DEF ServerInv
<1>5. ASSUME Report(j) PROVE ServerInv'
  <2>1. jobs[j].status = "running" /\ j \in created /\ j \notin old /\ UNCHANGED <<line, Waiting>>
    BY <1>5 DEF Report, ServerInv, Absent, Terminal
  <2>2. Moves(j, "running", {}) /\ "running" \in Active /\ "running" \notin Terminal
    BY <1>5, TableMoves DEF Active, Terminal
  <2>3. jobs'[j].status = "running"
    BY <2>2 DEF Moves
  <2>4. \A k \in Job : /\ k \notin created' => jobs'[k] = Absent
                       /\ jobs'[k].status = "none" => jobs'[k] = Absent
                       /\ jobs'[k].status # "none" => jobs'[k].at >= 1
                       /\ released'[k] = IF k \in created' /\ jobs'[k].status \notin Active THEN 1 ELSE 0
                       /\ k \in old' => jobs'[k].status \in Terminal
                       /\ k # j => (jobs'[k].status = "queued" <=> jobs[k].status = "queued")
    <3>1. /\ created' = created \cup {j} /\ old' = old \ {} /\ {} \in SUBSET old
          /\ released' = IF "running" \in Terminal THEN [released EXCEPT ![j] = 1] ELSE released
          /\ jobs[j].status \in Active
      BY <1>5, <2>1, <2>2 DEF Report, Active
    <3> QED
      BY <2>1, <2>2, <3>1, TableKept
  <2> HIDE DEF Waiting
  <2> QED
    BY <2>1, <2>3, <2>4 DEF ServerInv
<1>6. ASSUME Settles(j) PROVE ServerInv'
  <2>1. PICK outcome \in Terminal : Settle(j, outcome)
    BY <1>6 DEF Settles, Finish, CancelWaiting, Terminal
  <2>2. jobs[j].status \in Active /\ j \in created /\ j \notin old
    BY <1>6 DEF Settles, Finish, CancelWaiting, Active, ServerInv, Absent, Terminal
  <2>3. Moves(j, outcome, old)
    BY <2>1, <2>2, TableMoves
  <2>4. released' = [released EXCEPT ![j] = 1]
    <3>1. released[j] = 0
      BY <2>2 DEF ServerInv
    <3> QED
      BY <1>2, <2>1, <3>1 DEF Settle
  <2>5. jobs'[j].status = outcome /\ outcome # "queued" /\ outcome \notin Active
    BY <2>3 DEF Moves, Terminal, Active
  <2>6. \A k \in Job : /\ k \notin created' => jobs'[k] = Absent
                       /\ jobs'[k].status = "none" => jobs'[k] = Absent
                       /\ jobs'[k].status # "none" => jobs'[k].at >= 1
                       /\ released'[k] = IF k \in created' /\ jobs'[k].status \notin Active THEN 1 ELSE 0
                       /\ k \in old' => jobs'[k].status \in Terminal
                       /\ k # j => (jobs'[k].status = "queued" <=> jobs[k].status = "queued")
    <3>1. /\ created' = created \cup {j} /\ old' = old \ old /\ old \in SUBSET old /\ outcome \in Active \cup Terminal
          /\ released' = IF outcome \in Terminal THEN [released EXCEPT ![j] = 1] ELSE released
      BY <2>1, <2>2, <2>4 DEF Settle
    <3> QED
      BY <2>2, <2>3, <2>5, <3>1, TableKept
  <2>7. Waiting' = Waiting \ {j} /\ \A i, k \in DOMAIN line' : line'[i] = line'[k] => i = k
    <3>1. CASE Finish(j)
      <4>1. j \notin Waiting /\ UNCHANGED line
        BY <3>1 DEF Finish, ServerInv
      <4> QED
        BY <1>1, <4>1
    <3>2. CASE CancelWaiting(j)
      <4> DEFINE n == CHOOSE i \in DOMAIN line : line[i] = j
      <4>1. n \in DOMAIN line /\ line[n] = j /\ line' = RemoveAt(line, n)
        BY <3>2 DEF CancelWaiting, LeaveLine, ServerInv
      <4> HIDE DEF n
      <4>2. /\ \A i, k \in DOMAIN RemoveAt(line, n) : RemoveAt(line, n)[i] = RemoveAt(line, n)[k] => i = k
            /\ {RemoveAt(line, n)[i] : i \in DOMAIN RemoveAt(line, n)} = {line[i] : i \in DOMAIN line} \ {line[n]}
        BY <1>1, <4>1, LineWithout
      <4> QED
        BY <4>1, <4>2
    <3> QED
      BY <1>6, <3>1, <3>2 DEF Settles
  <2> HIDE DEF Waiting
  <2> QED
    BY <2>5, <2>6, <2>7 DEF ServerInv
<1>7. ASSUME Cancel(j) PROVE ServerInv'
  BY <1>7 DEF Cancel, ServerInv
<1>8. ASSUME Forget(j) PROVE ServerInv'
  BY <1>8 DEF Forget, Expire, ServerInv
<1> QED
  BY <1>3, <1>4, <1>5, <1>6, <1>7, <1>8 DEF Works

\* At first no job has been submitted.
LEMMA RegistryInit == Init => ServerInv
  BY DEF Init, ManagerInit, ServerInv, Absent, Active, Terminal, Waiting

\* The tabs and their connections leave the registry alone.
LEMMA RegistryLeft ==
    ASSUME NEW c
    PROVE  Change(c) \/ Connect(c) \/ Drop(c) \/ Receive(c) \/ Replied(c)
           \/ (\E j \in Job : Answered(c, j) \/ GiveUp(c, j) \/ Dismiss(c, j)) => UNCHANGED registry
  BY DEF Change, Notify, Connect, Subscribe, Drop, Unsubscribe, Receive, Replied, Answered, GiveUp, Dismiss

\* Every step keeps what the registry promises.
LEMMA RegistryKept == TypeOK /\ ServerInv /\ [Next]_vars => ServerInv'
<1> SUFFICES ASSUME TypeOK, ServerInv, [Next]_vars PROVE ServerInv'
  OBVIOUS
<1>1. ASSUME UNCHANGED registry PROVE ServerInv'
  BY <1>1 DEF registry, ServerInv, Waiting
<1>2. CASE UNCHANGED vars
  BY <1>1, <1>2 DEF vars
<1>3. CASE Next
  BY <1>1, <1>3, ServerKept, RegistryLeft DEF Next, Request
<1> QED
  BY <1>2, <1>3

\* The types of the variables, and what the registry keeps.
THEOREM FeedTyped == Spec => [](TypeOK /\ ServerInv)
<1>1. Init => TypeOK /\ ServerInv
  BY TypeInit, RegistryInit
<1>2. TypeOK /\ ServerInv /\ [Next]_vars => TypeOK' /\ ServerInv'
  BY TypeKept, RegistryKept
<1> QED
  BY <1>1, <1>2, PTL DEF Spec

----------------------------------------------------------------------------
(* A job settles once *)

\* A tab remembers every job it could ever see.
Remembers == Cardinality(Job) <= SettledCap

\* The settle listeners have run only for a job the tab remembers, and it remembers
\* none twice.
OnceInv ==
    /\ \A c \in Client, j \in Job : fired[c][j] <= 1 /\ (fired[c][j] = 1 => j \in Handled(c))
    /\ \A c \in Client : \A i, k \in DOMAIN handled[c] : handled[c][i] = handled[c][k] => i = k

\* A sequence without repetitions is no longer than the set it is of.
LEMMA NoLonger ==
    ASSUME NEW s \in Seq(Job), \A i, k \in DOMAIN s : s[i] = s[k] => i = k
    PROVE  Len(s) <= Cardinality(Job)
<1>1. Len(s) \in Nat /\ DOMAIN s = 1 .. Len(s)
  OBVIOUS
<1>2. IsFiniteSet(1 .. Len(s)) /\ Cardinality(1 .. Len(s)) = Len(s)
  BY <1>1, FS_Interval
<1>3. s \in Injection(1 .. Len(s), Job)
  BY <1>1 DEF Injection, IsInjective
<1> QED
  BY <1>2, <1>3, JobsAssumption, FS_Injection DEF ExistsInjection

\* Marking a job settled remembers it, and forgets no other where there is room.
LEMMA MarkedSet ==
    ASSUME TypeOK, NEW c \in Client, NEW j \in Job
    PROVE  /\ ToSet(Marked(c, j)) \subseteq Handled(c) \cup {j}
           /\ OnceInv /\ Remembers /\ j \notin Handled(c) =>
                /\ ToSet(Marked(c, j)) = Handled(c) \cup {j}
                /\ \A i, k \in DOMAIN Marked(c, j) : Marked(c, j)[i] = Marked(c, j)[k] => i = k
<1> DEFINE s == handled[c]
           longer == Append(s, j)
<1>1. s \in Seq(Job) /\ Len(s) \in Nat /\ SettledCap \in Nat /\ SettledCap >= 1
  BY CapAssumption DEF TypeOK
<1>2. /\ longer \in Seq(Job) /\ Len(longer) = Len(s) + 1 /\ longer # <<>>
      /\ \A i \in 1 .. Len(s) : longer[i] = s[i]
      /\ longer[Len(s) + 1] = j
  BY <1>1, AppendProperties
<1>3. Marked(c, j) = IF Len(longer) > SettledCap THEN Tail(longer) ELSE longer
  BY DEF Marked
<1>4. DOMAIN s = 1 .. Len(s) /\ DOMAIN longer = 1 .. Len(s) + 1
  BY <1>1, <1>2
<1> HIDE DEF longer
<1>5. /\ Tail(longer) \in Seq(Job) /\ Len(Tail(longer)) = Len(s)
      /\ \A i \in 1 .. Len(Tail(longer)) : Tail(longer)[i] = longer[i + 1]
  BY <1>1, <1>2, HeadTailProperties
<1>6. \A i \in DOMAIN longer : longer[i] \in Handled(c) \cup {j}
  BY <1>1, <1>2, <1>4 DEF Handled, ToSet
<1>7. \A i \in DOMAIN Tail(longer) : Tail(longer)[i] \in Handled(c) \cup {j}
  <2>1. \A i \in 1 .. Len(s) : i + 1 \in DOMAIN longer
    BY <1>1, <1>4
  <2>2. DOMAIN Tail(longer) = 1 .. Len(s)
    BY <1>5
  <2> QED
    BY <1>5, <1>6, <2>1, <2>2
<1>8. ToSet(Marked(c, j)) \subseteq Handled(c) \cup {j}
  BY <1>3, <1>6, <1>7 DEF ToSet
<1>9. ASSUME OnceInv, Remembers, j \notin Handled(c)
      PROVE  /\ ToSet(Marked(c, j)) = Handled(c) \cup {j}
             /\ \A i, k \in DOMAIN Marked(c, j) : Marked(c, j)[i] = Marked(c, j)[k] => i = k
  <2>1. \A i, k \in DOMAIN s : s[i] = s[k] => i = k
    BY <1>9 DEF OnceInv
  <2>2. \A i \in DOMAIN s : s[i] # j
    BY <1>9 DEF Handled, ToSet
  <2>3. \A i, k \in DOMAIN longer : longer[i] = longer[k] => i = k
    <3>1. \A i \in DOMAIN longer : i \in DOMAIN s \/ i = Len(s) + 1
      BY <1>1, <1>4
    <3> QED
      BY <1>1, <1>2, <1>4, <2>1, <2>2, <3>1
  <2>4. Len(longer) <= Cardinality(Job)
    BY <1>2, <2>3, NoLonger
  <2>5. Cardinality(Job) \in Nat
    BY JobsAssumption, FS_CardinalityType
  <2>6. Marked(c, j) = longer
    BY <1>1, <1>2, <1>3, <1>9, <2>4, <2>5 DEF Remembers
  <2>7. \A i \in DOMAIN s : i \in DOMAIN longer /\ longer[i] = s[i]
    BY <1>1, <1>2, <1>4
  <2>8. Len(s) + 1 \in DOMAIN longer /\ longer[Len(s) + 1] = j
    BY <1>1, <1>2, <1>4
  <2>9. ToSet(longer) = Handled(c) \cup {j}
    BY <1>6, <2>7, <2>8 DEF ToSet, Handled
  <2> QED
    BY <2>3, <2>6, <2>9
<1> QED
  BY <1>8, <1>9

\* At first no tab remembers a job.
LEMMA OnceInit == Init => OnceInv /\ NoResurrection
  BY DEF Init, OnceInv, NoResurrection, Handled, ToSet, Absent, Active

\* What a tab does with a snapshot: it runs the listeners for no job it remembers, and
\* shows none of those as active.
LEMMA UpsertOnce ==
    ASSUME TypeOK, Remembers, OnceInv, NoResurrection,
           NEW c \in Client, NEW v \in Event, v.type = "job", Upsert(c, v)
    PROVE  OnceInv' /\ NoResurrection'
<1>1. v.job \in Job /\ v.status \in Status
  BY DEF Event
<1> DEFINE k == v.job
<1>2. /\ tray \in [Client -> [Job -> Snapshot]] /\ handled \in [Client -> Seq(Job)]
      /\ fired \in [Client -> [Job -> Nat]]
  BY DEF TypeOK
<1>3. CASE UNCHANGED store
  BY <1>3 DEF store, OnceInv, NoResurrection, Handled, Active
<1>4. ASSUME k \notin Handled(c), handled' = [handled EXCEPT ![c] = Marked(c, k)]
      PROVE  /\ Handled(c)' = Handled(c) \cup {k} /\ \A d \in Client \ {c} : Handled(d)' = Handled(d)
             /\ \A d \in Client : \A i, n \in DOMAIN handled'[d] : handled'[d][i] = handled'[d][n] => i = n
  <2>1. handled'[c] = Marked(c, k) /\ \A d \in Client \ {c} : handled'[d] = handled[d]
    BY <1>2, <1>4
  <2>2. /\ ToSet(Marked(c, k)) = Handled(c) \cup {k}
        /\ \A i, n \in DOMAIN Marked(c, k) : Marked(c, k)[i] = Marked(c, k)[n] => i = n
    BY <1>1, <1>4, MarkedSet
  <2>3. Handled(c)' = Handled(c) \cup {k} /\ \A d \in Client \ {c} : Handled(d)' = Handled(d)
    BY <2>1, <2>2 DEF Handled
  <2> QED
    BY <2>1, <2>2, <2>3 DEF OnceInv
<1>5. CASE /\ ~Stale(c, v) /\ Past(c, v)
           /\ handled' = [handled EXCEPT ![c] = Marked(c, v.job)]
           /\ UNCHANGED <<tray, fired, awaiting, fresh>>
  <2>1. k \notin Handled(c) /\ tray[c][k].status \notin Active
    BY <1>5 DEF Stale, Past, Absent, Active
  <2> QED
    BY <1>1, <1>4, <1>5, <2>1 DEF OnceInv, NoResurrection, Active
<1>6. CASE /\ ~Stale(c, v) /\ ~Past(c, v)
           /\ tray' = [tray EXCEPT ![c][v.job] = [status |-> v.status, at |-> v.at]]
           /\ v.status \in Terminal
           /\ handled' = [handled EXCEPT ![c] = Marked(c, v.job)]
           /\ fired' = [fired EXCEPT ![c][v.job] = @ + 1]
  <2>1. k \notin Handled(c)
    BY <1>6 DEF Stale
  <2>2. \A d \in Client, j \in Job : tray'[d][j].status = IF d = c /\ j = k THEN v.status ELSE tray[d][j].status
    BY <1>1, <1>2, <1>6
  <2>3. \A d \in Client, j \in Job : fired'[d][j] = IF d = c /\ j = k THEN fired[d][j] + 1 ELSE fired[d][j]
    BY <1>1, <1>2, <1>6
  <2>4. fired[c][k] = 0
    <3>1. fired[c][k] \in Nat /\ fired[c][k] <= 1 /\ fired[c][k] # 1
      BY <1>1, <1>2, <2>1 DEF OnceInv
    <3> QED
      BY <3>1
  <2>5. /\ Handled(c)' = Handled(c) \cup {k} /\ \A d \in Client \ {c} : Handled(d)' = Handled(d)
        /\ \A d \in Client : \A i, n \in DOMAIN handled'[d] : handled'[d][i] = handled'[d][n] => i = n
    BY <1>4, <1>6, <2>1
  <2>6. NoResurrection'
    BY <1>6, <2>2, <2>5 DEF NoResurrection, Active, Terminal
  <2>7. \A d \in Client, j \in Job : fired'[d][j] <= 1 /\ (fired'[d][j] = 1 => j \in Handled(d)')
    BY <2>3, <2>4, <2>5 DEF OnceInv
  <2> QED
    BY <2>5, <2>6, <2>7 DEF OnceInv
<1>7. CASE /\ ~Stale(c, v)
           /\ tray' = [tray EXCEPT ![c][v.job] = [status |-> v.status, at |-> v.at]]
           /\ UNCHANGED <<handled, fired>>
  <2>1. k \notin Handled(c)
    BY <1>7 DEF Stale
  <2>2. \A d \in Client, j \in Job : tray'[d][j] = tray[d][j] \/ (d = c /\ j = k)
    BY <1>1, <1>2, <1>7
  <2> QED
    BY <1>7, <2>1, <2>2 DEF OnceInv, NoResurrection, Handled, Active
<1> QED
  BY <1>3, <1>5, <1>6, <1>7 DEF Upsert

\* The other steps mark no job and show none that is marked as active.
LEMMA OnceKept == Remembers /\ TypeOK /\ OnceInv /\ NoResurrection /\ [Next]_vars => OnceInv' /\ NoResurrection'
<1> SUFFICES ASSUME Remembers, TypeOK, OnceInv, NoResurrection, [Next]_vars PROVE OnceInv' /\ NoResurrection'
  OBVIOUS
<1> USE DEF OnceInv, NoResurrection, Handled, Active
<1>1. ASSUME UNCHANGED <<tray, handled, fired>> PROVE OnceInv' /\ NoResurrection'
  BY <1>1
<1>2. ASSUME NEW c \in Client, Receive(c) PROVE OnceInv' /\ NoResurrection'
  <2>1. Head(feeds[c]) \in Event
    BY <1>2 DEF Receive, TypeOK
  <2> HIDE DEF OnceInv, NoResurrection
  <2> QED
    BY <1>1, <1>2, <2>1, UpsertOnce DEF Receive
<1>3. ASSUME NEW c \in Client, NEW j \in Job, Answered(c, j) PROVE OnceInv' /\ NoResurrection'
  <2>1. CASE UNCHANGED tray
    BY <1>1, <1>3, <2>1 DEF Answered
  <2>2. CASE tray' # tray
    <3>1. j \notin Handled(c) /\ tray' = [tray EXCEPT ![c][j] = [status |-> "queued", at |-> 1]]
      BY <1>3, <2>2 DEF Answered, Stale
    <3>2. \A d \in Client, k \in Job : tray'[d][k] = tray[d][k] \/ (d = c /\ k = j)
      BY <3>1 DEF TypeOK
    <3> QED
      BY <1>3, <3>1, <3>2 DEF Answered
  <2> QED
    BY <2>1, <2>2
<1>4. ASSUME NEW c \in Client, NEW j \in Job, Dismiss(c, j) PROVE OnceInv' /\ NoResurrection'
  <2>1. \A d \in Client, k \in Job : tray'[d][k] = tray[d][k] \/ tray'[d][k] = Absent
    BY <1>4 DEF Dismiss, TypeOK
  <2> QED
    BY <1>4, <2>1 DEF Dismiss, Absent
<1>5. CASE UNCHANGED vars
  BY <1>1, <1>5 DEF vars, tabs
<1>6. CASE Next
  <2>1. ASSUME NEW j \in Job, Works(j) \/ Settles(j) \/ Forget(j) PROVE UNCHANGED <<tray, handled, fired>>
    BY <2>1 DEF Works, Settles, Forget, tabs
  <2>2. ASSUME NEW c, Change(c) \/ Connect(c) \/ Drop(c) \/ Replied(c)
                      \/ \E j \in Job : Request(c, j) \/ GiveUp(c, j)
        PROVE  UNCHANGED <<tray, handled, fired>>
    BY <2>2 DEF Change, Connect, Drop, Replied, Request, GiveUp, store
  <2> HIDE DEF OnceInv, NoResurrection, Handled, Active
  <2> QED
    BY <1>1, <1>2, <1>3, <1>4, <1>6, <2>1, <2>2 DEF Next
<1> QED
  BY <1>5, <1>6

\* A job settles once: the server releases its payload exactly when it settles, the
\* listeners of a tab that remembers enough run at most once for it, and it never comes
\* back to a tab as active (JobManager._settle; jobs-store.ts, settledJobIds).
THEOREM JobsSettleForGood == ASSUME Remembers PROVE Spec => []SettledForGood
<1> DEFINE Inv == TypeOK /\ ServerInv /\ OnceInv /\ NoResurrection
<1>1. Init => Inv
  BY TypeInit, RegistryInit, OnceInit
<1>2. Inv /\ [Next]_vars => Inv'
  BY TypeKept, RegistryKept, OnceKept
<1>3. Inv => SettledForGood
  BY DEF ServerInv, ReleasedOnce, OnceInv, SettledOnce, SettledForGood
<1> QED
  BY <1>1, <1>2, <1>3, PTL DEF Spec

----------------------------------------------------------------------------
(* What the queues and the trays say of a job *)

Ev(c) == {feeds[c][i] : i \in DOMAIN feeds[c]}
About(c, j) == {e \in Ev(c) : e.type = "job" /\ e.job = j}

\* No tab is ahead of the server, and no job that is active has settled for a tab.
TrayInv ==
    \A c \in Client, j \in Job :
        /\ jobs[j].status \in Active => tray[c][j].status \notin Terminal /\ j \notin Handled(c)
        /\ jobs[j].status # "none" => tray[c][j].at <= jobs[j].at
        /\ j \notin created => tray[c][j] = Absent /\ j \notin Handled(c) /\ j \notin answering[c]

\* No event is, and one that says a job settled is the job as it is.
EventInv ==
    \A c \in Client, j \in Job : \A e \in About(c, j) :
        /\ j \in created /\ e.status # "none" /\ 1 <= e.at
        /\ jobs[j].status \in Active => e.status \notin Terminal
        /\ jobs[j].status # "none" => e.at <= jobs[j].at
        /\ jobs[j].status # "none" /\ e.status \in Terminal => e = View(j)

\* Nothing anybody shows or is told of a job is later than that it settled, though the
\* server has forgotten it.
FinalInv ==
    \A c, d \in Client, j \in Job : \A e \in About(c, j) : e.status \in Terminal =>
        /\ tray[d][j].at <= e.at
        /\ \A f \in About(d, j) : f.at <= e.at

OrderInv == TrayInv /\ EventInv /\ FinalInv

\* The fields of what is told of a job.
LEMMA ViewIs ==
    ASSUME NEW j
    PROVE  /\ View(j).type = "job" /\ View(j).job = j
           /\ View(j).status = jobs[j].status /\ View(j).at = jobs[j].at
           /\ View(j)'.type = "job" /\ View(j)'.job = j
           /\ View(j)'.status = jobs'[j].status /\ View(j)'.at = jobs'[j].at
           /\ jobs'[j] = jobs[j] => View(j)' = View(j)
  BY DEF View

\* Events in the queues are well-formed.
LEMMA EvTyped ==
    ASSUME TypeOK, NEW c \in Client
    PROVE  Ev(c) \subseteq Event
  BY DEF TypeOK, Ev

\* The order survives a job that moves and is told of.
LEMMA OrderMoves ==
    ASSUME TypeOK, ServerInv, OrderInv, NEW j \in Job, NEW status \in Active \cup Terminal,
           NEW gone \in SUBSET old, Moves(j, status, gone), created' = created \cup {j},
           (j \notin created /\ status = "queued") \/ jobs[j].status \in Active,
           UNCHANGED <<tray, handled>>,
           \A c \in Client : answering'[c] \subseteq answering[c] \cup {j},
           \A c \in Client : Ev(c)' \subseteq Ev(c) \cup {View(j)'}
    PROVE  OrderInv'
<1>1. /\ \A k \in Job : jobs[k].at \in Nat
      /\ \A c \in Client, k \in Job : tray[c][k].at \in Nat
      /\ \A c \in Client : Ev(c) \subseteq Event
  BY EvTyped DEF TypeOK, Snapshot
<1>2. /\ jobs'[j].status = status /\ jobs'[j].at = jobs[j].at + 1 /\ status # "none"
      /\ \A k \in Job \ {j} : jobs'[k] = jobs[k] \/ jobs'[k] = Absent
  BY DEF Moves, Active, Terminal
<1>3. Absent.status = "none" /\ "none" \notin Active /\ "none" \notin Terminal /\ Active \cap Terminal = {}
      /\ Absent.at = 0
  BY DEF Absent, Active, Terminal
<1>4. j \notin created => jobs[j] = Absent /\ \A c \in Client : tray[c][j] = Absent /\ j \notin Handled(c)
  BY DEF ServerInv, OrderInv, TrayInv
<1>5. \A c \in Client : Handled(c)' = Handled(c)
  BY DEF Handled
<1>6. TrayInv'
  <2> SUFFICES ASSUME NEW c \in Client, NEW k \in Job
               PROVE  /\ jobs'[k].status \in Active => tray[c][k].status \notin Terminal /\ k \notin Handled(c)
                      /\ jobs'[k].status # "none" => tray[c][k].at <= jobs'[k].at
                      /\ k \notin created' => tray[c][k] = Absent /\ k \notin Handled(c) /\ k \notin answering'[c]
    BY <1>5 DEF TrayInv
  <2>1. CASE k = j
    <3>1. CASE j \notin created
      BY <1>1, <1>2, <1>3, <1>4, <2>1, <3>1
    <3>2. CASE jobs[j].status \in Active
      <4>1. tray[c][j].status \notin Terminal /\ j \notin Handled(c) /\ tray[c][j].at <= jobs[j].at
        BY <1>3, <3>2 DEF OrderInv, TrayInv
      <4> QED
        BY <1>1, <1>2, <2>1, <4>1
    <3> QED
      BY <3>1, <3>2
  <2>2. CASE k # j
    BY <1>2, <1>3, <2>2 DEF OrderInv, TrayInv
  <2> QED
    BY <2>1, <2>2
<1>7. \A c \in Client, k \in Job : \A e \in About(c, k)' : e \in About(c, k) \/ (k = j /\ e = View(j)')
  BY ViewIs DEF About
<1>8. ASSUME NEW c \in Client, NEW e \in About(c, j)
      PROVE  /\ j \in created /\ e.status # "none" /\ 1 <= e.at /\ e.at \in Nat
             /\ jobs[j].status \in Active /\ e.status \notin Terminal /\ e.at <= jobs[j].at
  <2>1. e.at \in Nat
    BY <1>1 DEF About, Event
  <2>2. j \in created /\ e.status # "none" /\ 1 <= e.at
    BY DEF OrderInv, EventInv
  <2>3. jobs[j].status \in Active /\ jobs[j].status # "none"
    BY <1>3, <2>2
  <2>4. e.status \notin Terminal /\ e.at <= jobs[j].at
    BY <2>3 DEF OrderInv, EventInv
  <2> QED
    BY <2>1, <2>2, <2>3, <2>4
<1>9. EventInv'
  <2> SUFFICES ASSUME NEW c \in Client, NEW k \in Job, NEW e \in About(c, k)'
               PROVE  /\ k \in created' /\ e.status # "none" /\ 1 <= e.at
                      /\ jobs'[k].status \in Active => e.status \notin Terminal
                      /\ jobs'[k].status # "none" => e.at <= jobs'[k].at
                      /\ jobs'[k].status # "none" /\ e.status \in Terminal => e = View(k)'
    BY DEF EventInv
  <2>1. CASE k = j /\ e = View(j)'
    BY <1>1, <1>2, <1>3, <2>1, ViewIs
  <2>2. CASE k = j /\ e \in About(c, j)
    BY <1>1, <1>2, <1>8, <2>2
  <2>3. CASE k # j
    <3>1. e \in About(c, k)
      BY <1>7, <2>3
    <3>2. /\ k \in created /\ e.status # "none" /\ 1 <= e.at
          /\ jobs[k].status \in Active => e.status \notin Terminal
          /\ jobs[k].status # "none" => e.at <= jobs[k].at
          /\ jobs[k].status # "none" /\ e.status \in Terminal => e = View(k)
      BY <3>1 DEF OrderInv, EventInv
    <3> QED
      BY <1>2, <1>3, <2>3, <3>2, ViewIs
  <2> QED
    BY <1>7, <2>1, <2>2, <2>3
<1>10. FinalInv'
  <2> SUFFICES ASSUME NEW c \in Client, NEW d \in Client, NEW k \in Job, NEW e \in About(c, k)',
                      e.status \in Terminal
               PROVE  tray[d][k].at <= e.at /\ \A f \in About(d, k)' : f.at <= e.at
    BY DEF FinalInv
  <2>1. CASE k = j
    <3>1. e = View(j)' /\ e.at = jobs[j].at + 1 /\ status \in Terminal
      BY <1>2, <1>7, <1>8, <2>1, ViewIs
    <3>2. jobs[j].status \in Active /\ jobs[j].status # "none"
      BY <1>3, <3>1 DEF Active, Terminal
    <3>3. tray[d][j].at <= jobs[j].at
      BY <3>2 DEF OrderInv, TrayInv
    <3>4. \A f \in About(d, j)' : f.at <= e.at
      BY <1>1, <1>7, <1>8, <3>1
    <3> QED
      BY <1>1, <2>1, <3>1, <3>3, <3>4
  <2>2. CASE k # j
    <3>1. e \in About(c, k) /\ \A f \in About(d, k)' : f \in About(d, k)
      BY <1>7, <2>2
    <3> QED
      BY <3>1 DEF OrderInv, FinalInv
  <2> QED
    BY <2>1, <2>2
<1> QED
  BY <1>6, <1>9, <1>10 DEF OrderInv

\* It survives events that are handled, lost or no news of a job, and a subscription
\* that starts with every job as it is.
LEMMA OrderFlows ==
    ASSUME TypeOK, ServerInv, OrderInv, UNCHANGED <<jobs, created, tray, handled>>,
           \A c \in Client : answering'[c] \subseteq answering[c],
           \A c \in Client : \A e \in Ev(c)' : e \in Ev(c) \/ e.type # "job" \/ \E k \in Retained : e = View(k)
    PROVE  OrderInv'
<1>1. /\ \A k \in Job : jobs[k].at \in Nat
      /\ \A c \in Client, k \in Job : tray[c][k].at \in Nat
      /\ \A c \in Client : Ev(c) \subseteq Event
  BY EvTyped DEF TypeOK, Snapshot
<1>2. \A k : View(k)' = View(k)
  BY DEF View
<1>3. \A c \in Client : Handled(c)' = Handled(c)
  BY DEF Handled
<1>4. "none" \notin Active /\ "none" \notin Terminal /\ Active \cap Terminal = {}
  BY DEF Active, Terminal
<1>5. TrayInv'
  BY <1>3 DEF OrderInv, TrayInv
<1>6. \A c \in Client, k \in Job : \A e \in About(c, k)' : e \in About(c, k) \/ (k \in Retained /\ e = View(k))
  BY ViewIs DEF About
<1>7. \A k \in Retained : k \in created /\ jobs[k].status # "none" /\ jobs[k].at >= 1
  <2>1. \A k \in Retained : k \in Job /\ k \in created /\ jobs[k].status # "none"
    BY <1>4 DEF Retained, TypeOK
  <2> QED
    BY <2>1 DEF ServerInv
<1>8. EventInv'
  <2> SUFFICES ASSUME NEW c \in Client, NEW k \in Job, NEW e \in About(c, k)'
               PROVE  /\ k \in created /\ e.status # "none" /\ 1 <= e.at
                      /\ jobs[k].status \in Active => e.status \notin Terminal
                      /\ jobs[k].status # "none" => e.at <= jobs[k].at
                      /\ jobs[k].status # "none" /\ e.status \in Terminal => e = View(k)
    BY <1>2 DEF EventInv
  <2>1. CASE e \in About(c, k)
    BY <2>1 DEF OrderInv, EventInv
  <2>2. CASE k \in Retained /\ e = View(k)
    BY <1>1, <1>4, <1>7, <2>2, ViewIs
  <2> QED
    BY <1>6, <2>1, <2>2
<1>9. FinalInv'
  <2> SUFFICES ASSUME NEW c \in Client, NEW d \in Client, NEW k \in Job, NEW e \in About(c, k)',
                      e.status \in Terminal
               PROVE  tray[d][k].at <= e.at /\ \A f \in About(d, k)' : f.at <= e.at
    BY DEF FinalInv
  <2>1. CASE k \in Retained
    <3>1. e = View(k) /\ e.at = jobs[k].at
      BY <1>6, <1>7, <2>1, ViewIs DEF OrderInv, EventInv
    <3>2. tray[d][k].at <= jobs[k].at
      BY <1>7, <2>1 DEF OrderInv, TrayInv
    <3>3. ASSUME NEW f \in About(d, k)' PROVE f.at <= jobs[k].at
      <4>1. CASE f \in About(d, k)
        BY <1>7, <2>1, <4>1 DEF OrderInv, EventInv
      <4>2. CASE f = View(k)
        BY <1>1, <4>2, ViewIs
      <4> QED
        BY <1>6, <4>1, <4>2
    <3> QED
      BY <3>1, <3>2, <3>3
  <2>2. CASE k \notin Retained
    <3>1. e \in About(c, k) /\ \A f \in About(d, k)' : f \in About(d, k)
      BY <1>6, <2>2
    <3> QED
      BY <3>1 DEF OrderInv, FinalInv
  <2> QED
    BY <2>1, <2>2
<1> QED
  BY <1>5, <1>8, <1>9 DEF OrderInv

\* It survives a tab that shows something no later than what it was told.
LEMMA OrderShows ==
    ASSUME TypeOK, ServerInv, OrderInv, UNCHANGED <<jobs, created>>,
           NEW c \in Client, NEW j \in Job, NEW shown \in Snapshot, j \in created,
           tray' = tray \/ tray' = [tray EXCEPT ![c][j] = shown],
           jobs[j].status \in Active => shown.status \notin Terminal /\ j \notin Handled(c)',
           jobs[j].status # "none" => shown.at <= jobs[j].at,
           \A d \in Client : \A e \in About(d, j) : e.status \in Terminal => shown.at <= e.at,
           Handled(c)' \subseteq Handled(c) \cup {j}, \A d \in Client \ {c} : Handled(d)' = Handled(d),
           \A d \in Client : answering'[d] \subseteq answering[d],
           \A d \in Client : Ev(d)' \subseteq Ev(d)
    PROVE  OrderInv'
<1>1. \A k : View(k)' = View(k)
  BY DEF View
<1>2. \A d \in Client, k \in Job : tray'[d][k] = tray[d][k] \/ (d = c /\ k = j /\ tray'[d][k] = shown)
  BY DEF TypeOK
<1>3. TrayInv'
  <2> SUFFICES ASSUME NEW d \in Client, NEW k \in Job
               PROVE  /\ jobs[k].status \in Active => tray'[d][k].status \notin Terminal /\ k \notin Handled(d)'
                      /\ jobs[k].status # "none" => tray'[d][k].at <= jobs[k].at
                      /\ k \notin created => tray'[d][k] = Absent /\ k \notin Handled(d)' /\ k \notin answering'[d]
    BY DEF TrayInv
  <2>1. CASE d = c /\ k = j
    BY <1>2, <2>1 DEF OrderInv, TrayInv
  <2>2. CASE ~(d = c /\ k = j)
    <3>1. tray'[d][k] = tray[d][k] /\ (k \in Handled(d)' => k \in Handled(d))
      BY <1>2, <2>2
    <3> QED
      BY <3>1 DEF OrderInv, TrayInv
  <2> QED
    BY <2>1, <2>2
<1>4. \A d \in Client, k \in Job : About(d, k)' \subseteq About(d, k)
  BY DEF About
<1>5. EventInv'
  BY <1>1, <1>4 DEF OrderInv, EventInv
<1>6. FinalInv'
  <2> SUFFICES ASSUME NEW b \in Client, NEW d \in Client, NEW k \in Job, NEW e \in About(b, k),
                      e.status \in Terminal
               PROVE  tray'[d][k].at <= e.at /\ \A f \in About(d, k)' : f.at <= e.at
    BY <1>4 DEF FinalInv
  <2>1. tray[d][k].at <= e.at /\ \A f \in About(d, k)' : f.at <= e.at
    BY <1>4 DEF OrderInv, FinalInv
  <2> QED
    BY <1>2, <2>1
<1> QED
  BY <1>3, <1>5, <1>6 DEF OrderInv

\* A queue that is told something says what it said and that.
LEMMA EvTold ==
    ASSUME TypeOK, NEW event \in Event, NEW exclude, Broadcast(event, exclude), NEW c \in Client
    PROVE  /\ Ev(c)' \subseteq Ev(c) \cup {event}
           /\ c \notin open \/ c = exclude => feeds'[c] = feeds[c]
           /\ c \in open /\ c # exclude /\ Len(feeds'[c]) < QueueSize =>
                feeds'[c] = Append(feeds[c], event) /\ Ev(c)' = Ev(c) \cup {event}
<1>1. \A i \in DOMAIN feeds'[c] : feeds'[c][i] = event \/ \E k \in DOMAIN feeds[c] : feeds'[c][i] = feeds[c][k]
  BY BroadcastTells
<1>2. Ev(c)' \subseteq Ev(c) \cup {event}
  BY <1>1 DEF Ev
<1>3. c \notin open \/ c = exclude => feeds'[c] = feeds[c]
  BY BroadcastTells
<1>4. ASSUME c \in open, c # exclude, Len(feeds'[c]) < QueueSize
      PROVE  feeds'[c] = Append(feeds[c], event) /\ Ev(c)' = Ev(c) \cup {event}
  <2>1. feeds'[c] = Append(feeds[c], event)
    BY <1>4, BroadcastTells
  <2>2. feeds[c] \in Seq(Event)
    BY DEF TypeOK
  <2>3. /\ Len(feeds[c]) \in Nat /\ Len(feeds'[c]) = Len(feeds[c]) + 1 /\ feeds'[c] \in Seq(Event)
        /\ \A i \in 1 .. Len(feeds[c]) : feeds'[c][i] = feeds[c][i]
        /\ feeds'[c][Len(feeds[c]) + 1] = event
    BY <2>1, <2>2, AppendProperties
  <2>4. DOMAIN feeds[c] = 1 .. Len(feeds[c]) /\ DOMAIN feeds'[c] = 1 .. Len(feeds[c]) + 1
    BY <2>2, <2>3
  <2>5. Ev(c) \subseteq Ev(c)'
    BY <2>3, <2>4 DEF Ev
  <2>6. event \in Ev(c)'
    BY <2>3, <2>4 DEF Ev
  <2> QED
    BY <1>2, <2>1, <2>5, <2>6
<1> QED
  BY <1>2, <1>3, <1>4

\* A queue whose head is taken still says the rest.
LEMMA EvTaken ==
    ASSUME TypeOK, NEW c \in Client, feeds[c] # <<>>, feeds' = [feeds EXCEPT ![c] = Tail(@)]
    PROVE  /\ Head(feeds[c]) \in Event /\ Ev(c) = {Head(feeds[c])} \cup Ev(c)'
           /\ \A d \in Client \ {c} : feeds'[d] = feeds[d] /\ Ev(d)' = Ev(d)
<1>1. feeds[c] \in Seq(Event) /\ feeds'[c] = Tail(feeds[c]) /\ \A d \in Client \ {c} : feeds'[d] = feeds[d]
  BY DEF TypeOK
<1> DEFINE s == feeds[c]
<1>2. /\ Head(s) = s[1] /\ Head(s) \in Event /\ Tail(s) \in Seq(Event) /\ Len(Tail(s)) = Len(s) - 1
      /\ Len(s) \in Nat /\ Len(s) >= 1
      /\ \A i \in 1 .. Len(Tail(s)) : Tail(s)[i] = s[i + 1]
  BY <1>1, HeadTailProperties
<1>3. DOMAIN s = 1 .. Len(s) /\ DOMAIN Tail(s) = 1 .. Len(s) - 1
  BY <1>1, <1>2
<1>4. \A i \in DOMAIN s : i = 1 \/ (i - 1 \in DOMAIN Tail(s) /\ Tail(s)[i - 1] = s[i])
  BY <1>2, <1>3
<1>5. \A i \in DOMAIN Tail(s) : i + 1 \in DOMAIN s /\ Tail(s)[i] = s[i + 1]
  BY <1>2, <1>3
<1>6. Ev(c) = {Head(s)} \cup Ev(c)'
  <2>1. Ev(c) \subseteq {Head(s)} \cup Ev(c)'
    <3> SUFFICES ASSUME NEW i \in DOMAIN s PROVE s[i] = Head(s) \/ s[i] \in Ev(c)'
      BY DEF Ev
    <3>1. CASE i = 1
      BY <1>2, <3>1
    <3>2. CASE i # 1
      <4>1. i - 1 \in DOMAIN feeds'[c] /\ feeds'[c][i - 1] = s[i]
        BY <1>1, <1>4, <3>2
      <4> QED
        BY <4>1 DEF Ev
    <3> QED
      BY <3>1, <3>2
  <2>2. Ev(c)' \subseteq Ev(c)
    BY <1>1, <1>5 DEF Ev
  <2>3. Head(s) \in Ev(c)
    <3>1. 1 \in DOMAIN s
      BY <1>2, <1>3
    <3> QED
      BY <1>2, <3>1 DEF Ev
  <2> QED
    BY <2>1, <2>2, <2>3
<1>7. \A d \in Client \ {c} : Ev(d)' = Ev(d)
  BY <1>1 DEF Ev
<1> QED
  BY <1>1, <1>2, <1>6, <1>7

\* At first nothing is under way.
LEMMA OrderInit == Init => OrderInv
<1> SUFFICES ASSUME Init PROVE OrderInv
  OBVIOUS
<1>1. \A c \in Client : Ev(c) = {}
  BY DEF Init, ManagerInit, Ev
<1> QED
  BY <1>1 DEF Init, ManagerInit, OrderInv, TrayInv, EventInv, FinalInv, About, Handled, ToSet, Absent, Active, Terminal

\* A job that moves is told to every tab as it then is.
LEMMA JobMoves ==
    ASSUME TypeOK, TypeOK', ServerInv, NEW j \in Job
    PROVE  /\ \A c : Request(c, j) => /\ Moves(j, "queued", old) /\ created' = created \cup {j} /\ j \notin created
                                      /\ Broadcast(View(j)', NoClient) /\ UNCHANGED <<tray, handled, fresh, seeding, replying, open>>
                                      /\ \A d \in Client : answering'[d] \subseteq answering[d] \cup {j}
           /\ (Start(j) \/ Report(j)) /\ UNCHANGED tabs =>
                 /\ Moves(j, "running", {}) /\ created' = created \cup {j} /\ jobs[j].status \in Active
                 /\ Broadcast(View(j)', NoClient) /\ UNCHANGED <<tray, handled, fresh, seeding, replying, open, answering>>
           /\ Settles(j) => \E outcome \in Terminal :
                 /\ Moves(j, outcome, old) /\ created' = created \cup {j} /\ jobs[j].status \in Active
                 /\ Broadcast(View(j)', NoClient) /\ UNCHANGED <<tray, handled, seeding, replying, open, answering>>
<1>1. ASSUME NEW c, Request(c, j)
      PROVE  /\ Moves(j, "queued", old) /\ created' = created \cup {j} /\ j \notin created
             /\ Broadcast(View(j)', NoClient) /\ UNCHANGED <<tray, handled, fresh, seeding, replying, open>>
             /\ \A d \in Client : answering'[d] \subseteq answering[d] \cup {j}
  <2>1. Submit(j) /\ Moves(j, "queued", old)
    BY <1>1, TableMoves DEF Request
  <2>2. \A d \in Client : answering'[d] \subseteq answering[d] \cup {j}
    BY <1>1 DEF Request
  <2> QED
    BY <1>1, <2>1, <2>2 DEF Request, Submit, Publish, store
<1>2. ASSUME Start(j) \/ Report(j), UNCHANGED tabs
      PROVE  /\ Moves(j, "running", {}) /\ created' = created \cup {j} /\ jobs[j].status \in Active
             /\ Broadcast(View(j)', NoClient) /\ UNCHANGED <<tray, handled, fresh, seeding, replying, open, answering>>
  <2>1. Moves(j, "running", {})
    BY <1>2, TableMoves
  <2>2. jobs[j].status \in Active
    <3>1. CASE Start(j)
      <4>1. line \in Seq(Job) /\ line # <<>> /\ j = Head(line)
        BY <3>1 DEF Start, TypeOK
      <4>2. j \in Waiting
        BY <4>1 DEF Waiting
      <4> QED
        BY <4>2 DEF ServerInv, Active
    <3>2. CASE Report(j)
      BY <3>2 DEF Report, Active
    <3> QED
      BY <1>2, <3>1, <3>2
  <2>3. j \in created
    BY <2>2 DEF ServerInv, Absent, Active
  <2> QED
    BY <1>2, <2>1, <2>2, <2>3 DEF Start, Report, Touch, Publish, tabs
<1>3. ASSUME Settles(j)
      PROVE  \E outcome \in Terminal :
                 /\ Moves(j, outcome, old) /\ created' = created \cup {j} /\ jobs[j].status \in Active
                 /\ Broadcast(View(j)', NoClient) /\ UNCHANGED <<tray, handled, seeding, replying, open, answering>>
  <2>1. PICK outcome \in Terminal : Settle(j, outcome)
    BY <1>3 DEF Settles, Finish, CancelWaiting, Terminal
  <2>2. jobs[j].status \in Active /\ j \in created
    BY <1>3 DEF Settles, Finish, CancelWaiting, Active, ServerInv, Absent
  <2>3. Moves(j, outcome, old)
    BY <2>1, <2>2, TableMoves
  <2> QED
    BY <1>3, <2>1, <2>2, <2>3 DEF Settles, Settle, Touch, Publish
<1> QED
  BY <1>1, <1>2, <1>3

\* The order survives what a tab is told next.
LEMMA OrderReceived ==
    ASSUME TypeOK, ServerInv, OrderInv, NEW c \in Client, Receive(c)
    PROVE  OrderInv'
<1> DEFINE v == Head(feeds[c])
<1>1. /\ v \in Event /\ Ev(c) = {v} \cup Ev(c)' /\ \A d \in Client \ {c} : Ev(d)' = Ev(d)
      /\ UNCHANGED <<jobs, created, answering>>
  BY EvTaken DEF Receive, registry
<1> HIDE DEF v
<1>2. \A d \in Client : Ev(d)' \subseteq Ev(d)
  BY <1>1
<1>3. CASE UNCHANGED <<tray, handled>>
  BY <1>1, <1>2, <1>3, OrderFlows
<1>4. CASE v.type = "job" /\ Upsert(c, v) /\ ~ UNCHANGED <<tray, handled>>
  <2> DEFINE j == v.job
             shown == [status |-> v.status, at |-> v.at]
  <2>1. j \in Job /\ shown \in Snapshot /\ v \in About(c, j)
    BY <1>1, <1>4 DEF Event, Snapshot, About
  <2>2. /\ tray' = tray \/ tray' = [tray EXCEPT ![c][j] = shown]
        /\ handled' = handled \/ (v.status \in Terminal /\ handled' = [handled EXCEPT ![c] = Marked(c, j)])
    BY <1>4 DEF Upsert, Past, store
  <2>3. /\ j \in created /\ jobs[j].status \in Active => v.status \notin Terminal /\ j \notin Handled(c)
        /\ jobs[j].status # "none" => v.at <= jobs[j].at
    BY <2>1 DEF OrderInv, EventInv, TrayInv
  <2>4. \A d \in Client : \A e \in About(d, j) : e.status \in Terminal => v.at <= e.at
    BY <2>1 DEF OrderInv, FinalInv
  <2>5. Handled(c)' \subseteq Handled(c) \cup {j} /\ \A d \in Client \ {c} : Handled(d)' = Handled(d)
    BY <2>1, <2>2, MarkedSet DEF Handled, TypeOK
  <2>6. j \in created /\ (jobs[j].status \in Active => j \notin Handled(c)')
    <3>1. j \in created
      BY <2>1 DEF OrderInv, EventInv
    <3>2. jobs[j].status \in Active => handled' = handled
      BY <2>1, <2>2 DEF OrderInv, EventInv
    <3> QED
      BY <2>3, <3>1, <3>2 DEF Handled
  <2>7. shown.status = v.status /\ shown.at = v.at
    OBVIOUS
  <2> HIDE DEF j, shown
  <2>8. jobs[j].status \in Active => shown.status \notin Terminal /\ j \notin Handled(c)'
    BY <2>3, <2>6, <2>7
  <2> QED
    BY <1>1, <1>2, <2>1, <2>2, <2>3, <2>4, <2>5, <2>6, <2>7, <2>8, OrderShows
<1> QED
  BY <1>3, <1>4 DEF Receive, v, store

\* And every other step.
LEMMA OrderKept == TypeOK /\ TypeOK' /\ ServerInv /\ OrderInv /\ [Next]_vars => OrderInv'
<1> SUFFICES ASSUME TypeOK, TypeOK', ServerInv, OrderInv, [Next]_vars PROVE OrderInv'
  OBVIOUS
<1>1. ASSUME UNCHANGED <<jobs, created, tray, handled, answering, feeds>> PROVE OrderInv'
  <2>1. \A c : Ev(c)' = Ev(c)
    BY <1>1 DEF Ev
  <2> QED
    BY <1>1, <2>1, OrderFlows
<1>2. ASSUME NEW j \in Job, NEW status \in Active \cup Terminal, NEW gone \in SUBSET old,
             Moves(j, status, gone), created' = created \cup {j},
             (j \notin created /\ status = "queued") \/ jobs[j].status \in Active,
             Broadcast(View(j)', NoClient), UNCHANGED <<tray, handled>>,
             \A d \in Client : answering'[d] \subseteq answering[d] \cup {j}
      PROVE  OrderInv'
  <2>1. View(j)' \in Event
    BY ViewTyped DEF TypeOK
  <2>2. \A c \in Client : Ev(c)' \subseteq Ev(c) \cup {View(j)'}
    BY <1>2, <2>1, EvTold
  <2> QED
    BY <1>2, <2>2, OrderMoves
<1>3. ASSUME NEW j \in Job, NEW c, Request(c, j) PROVE OrderInv'
  <2>1. /\ Moves(j, "queued", old) /\ created' = created \cup {j} /\ j \notin created
        /\ Broadcast(View(j)', NoClient) /\ UNCHANGED <<tray, handled>>
        /\ \A d \in Client : answering'[d] \subseteq answering[d] \cup {j}
    BY <1>3, JobMoves
  <2>2. "queued" \in Active \cup Terminal /\ old \in SUBSET old
    BY DEF Active
  <2> QED
    BY <1>2, <2>1, <2>2
<1>4. ASSUME NEW j \in Job, Works(j) \/ Settles(j) \/ Forget(j) PROVE OrderInv'
  <2>1. CASE (Start(j) \/ Report(j)) /\ UNCHANGED tabs
    <3>1. /\ Moves(j, "running", {}) /\ created' = created \cup {j} /\ jobs[j].status \in Active
          /\ Broadcast(View(j)', NoClient) /\ UNCHANGED <<tray, handled, answering>>
      BY <2>1, JobMoves
    <3>2. "running" \in Active \cup Terminal /\ {} \in SUBSET old
      BY DEF Active
    <3>3. \A d \in Client : answering'[d] \subseteq answering[d] \cup {j}
      BY <3>1
    <3> QED
      BY <1>2, <3>1, <3>2, <3>3
  <2>2. CASE Settles(j)
    <3>1. PICK outcome \in Terminal :
             /\ Moves(j, outcome, old) /\ created' = created \cup {j} /\ jobs[j].status \in Active
             /\ Broadcast(View(j)', NoClient) /\ UNCHANGED <<tray, handled, answering>>
      BY <2>2, JobMoves
    <3>2. outcome \in Active \cup Terminal /\ old \in SUBSET old
      OBVIOUS
    <3>3. \A d \in Client : answering'[d] \subseteq answering[d] \cup {j}
      BY <3>1
    <3> QED
      BY <1>2, <3>1, <3>2, <3>3
  <2>3. CASE Cancel(j) /\ UNCHANGED tabs
    BY <1>1, <2>3 DEF Cancel, tabs
  <2>4. CASE Forget(j)
    BY <1>1, <2>4 DEF Forget, Expire, tabs
  <2> QED
    BY <1>4, <2>1, <2>2, <2>3, <2>4 DEF Works
<1>5. ASSUME NEW c, Change(c) PROVE OrderInv'
  <2>1. UNCHANGED <<jobs, created, tray, handled, answering>> /\ Broadcast(Changed, c)
    BY <1>5 DEF Change, Notify, registry
  <2>2. \A d \in Client : Ev(d)' \subseteq Ev(d) \cup {Changed}
    BY <2>1, EvTold, MarkersTyped
  <2>3. Changed.type # "job"
    BY DEF Changed
  <2> QED
    BY <2>1, <2>2, <2>3, OrderFlows
<1>6. ASSUME NEW c \in Client, Connect(c) PROVE OrderInv'
  <2>1. UNCHANGED <<jobs, created, tray, handled, answering>> /\ Subscribe(c)
    BY <1>6 DEF Connect, Subscribe, registry, store
  <2>2. \A d \in Client : \A e \in Ev(d)' : e \in Ev(d) \/ e = Ready \/ \E k \in Retained : e = View(k)
    <3> SUFFICES ASSUME NEW d \in Client, NEW i \in DOMAIN feeds'[d]
                 PROVE  feeds'[d][i] \in Ev(d) \/ feeds'[d][i] = Ready \/ \E k \in Retained : feeds'[d][i] = View(k)
      BY DEF Ev
    <3>1. CASE d = c
      BY <2>1, <3>1, SnapshotTyped
    <3>2. CASE d # c
      BY <2>1, <3>2, SnapshotTyped DEF Ev
    <3> QED
      BY <3>1, <3>2
  <2>3. Ready.type # "job"
    BY DEF Ready
  <2> QED
    BY <2>1, <2>2, <2>3, OrderFlows
<1>7. ASSUME NEW c \in Client, Drop(c) PROVE OrderInv'
  <2>1. UNCHANGED <<jobs, created, tray, handled, answering>> /\ feeds' = [feeds EXCEPT ![c] = <<>>]
    BY <1>7 DEF Drop, Unsubscribe, registry, store
  <2>2. \A d \in Client : feeds'[d] = feeds[d] \/ feeds'[d] = <<>>
    BY <2>1 DEF TypeOK
  <2>3. \A d \in Client : Ev(d)' \subseteq Ev(d)
    BY <2>2 DEF Ev
  <2> QED
    BY <2>1, <2>3, OrderFlows
<1>8. ASSUME NEW c \in Client, NEW j \in Job, Answered(c, j) PROVE OrderInv'
  <2> DEFINE shown == [status |-> "queued", at |-> 1]
  <2>1. j \in created /\ shown \in Snapshot /\ shown.status \notin Terminal
    BY <1>8 DEF Answered, OrderInv, TrayInv, Snapshot, Status, Active, Terminal
  <2>2. /\ UNCHANGED <<jobs, created, handled, feeds>> /\ \A d \in Client : answering'[d] \subseteq answering[d]
        /\ tray' = tray \/ tray' = [tray EXCEPT ![c][j] = shown]
    BY <1>8 DEF Answered, registry, TypeOK
  <2>3. jobs[j].status \in Active => j \notin Handled(c)
    BY DEF OrderInv, TrayInv
  <2>4. jobs[j].status # "none" => shown.at <= jobs[j].at
    BY DEF ServerInv, TypeOK, Snapshot
  <2>5. \A d \in Client : \A e \in About(d, j) : shown.at <= e.at
    BY DEF OrderInv, EventInv
  <2>6. \A d \in Client : Ev(d)' = Ev(d) /\ Handled(d)' = Handled(d)
    BY <2>2 DEF Ev, Handled
  <2> HIDE DEF shown
  <2> QED
    BY <2>1, <2>2, <2>3, <2>4, <2>5, <2>6, OrderShows
<1>9. ASSUME NEW c \in Client, NEW j \in Job, Dismiss(c, j) PROVE OrderInv'
  <2>1. j \in created
    BY <1>9 DEF Dismiss, OrderInv, TrayInv, Absent, Terminal
  <2>2. /\ UNCHANGED <<jobs, created, handled, feeds, answering>>
        /\ tray' = [tray EXCEPT ![c][j] = Absent]
    BY <1>9 DEF Dismiss, registry
  <2>3. Absent \in Snapshot /\ Absent.status \notin Terminal /\ Absent.at = 0
    BY DEF Absent, Snapshot, Status, Terminal
  <2>4. jobs[j].status \in Active => j \notin Handled(c)
    BY DEF OrderInv, TrayInv
  <2>5. jobs[j].at >= 0 /\ \A d \in Client : \A e \in About(d, j) : 0 <= e.at
    <3>1. jobs[j].at \in Nat /\ \A d \in Client : \A e \in About(d, j) : e.at \in Nat
      BY EvTyped DEF TypeOK, Snapshot, Event, About
    <3> QED
      BY <3>1
  <2>6. \A d \in Client : Ev(d)' = Ev(d) /\ Handled(d)' = Handled(d)
    BY <2>2 DEF Ev, Handled
  <2>7. /\ jobs[j].status # "none" => Absent.at <= jobs[j].at
        /\ \A d \in Client : \A e \in About(d, j) : e.status \in Terminal => Absent.at <= e.at
        /\ jobs[j].status \in Active => Absent.status \notin Terminal /\ j \notin Handled(c)'
    BY <2>3, <2>4, <2>5, <2>6
  <2>8. \A d \in Client : answering'[d] \subseteq answering[d]
    BY <2>2
  <2>9. /\ tray' = tray \/ tray' = [tray EXCEPT ![c][j] = Absent]
        /\ UNCHANGED <<jobs, created>>
        /\ Handled(c)' \subseteq Handled(c) \cup {j} /\ \A d \in Client \ {c} : Handled(d)' = Handled(d)
        /\ \A d \in Client : Ev(d)' \subseteq Ev(d)
    BY <2>2, <2>6
  <2> HIDE DEF Absent
  <2> QED
    BY <2>1, <2>3, <2>7, <2>8, <2>9, OrderShows
<1>10. ASSUME NEW c \in Client, Replied(c) \/ \E j \in Job : GiveUp(c, j) PROVE OrderInv'
  BY <1>1, <1>10 DEF Replied, GiveUp, registry
<1>11. CASE UNCHANGED vars
  BY <1>1, <1>11 DEF vars, registry, tabs
<1>12. CASE Next
  BY <1>3, <1>4, <1>5, <1>6, <1>7, <1>8, <1>9, <1>10, <1>12, OrderReceived DEF Next
<1> QED
  BY <1>11, <1>12

----------------------------------------------------------------------------
(* No change goes unnoticed *)

\* No subscription is ever full, so none drops an event.
Roomy == \A c \in Client : Len(feeds[c]) < QueueSize

\* What will make the tab ask again.
Refreshing(c, e) ==
    \/ e.type \in {"ready", "changed"}
    \/ e.type = "job" /\ e.status \in Terminal /\ e.job \notin Handled(c) /\ c \notin seeding

\* A tab that has to ask again, and one that is replayed to, has still to hear why.
FreshInv ==
    \A c \in Client :
        /\ c \in open /\ c \in seeding => \E e \in Ev(c) : e.type = "ready"
        /\ c \in open /\ c \notin fresh /\ c \notin replying => \E e \in Ev(c) : Refreshing(c, e)

\* At first no view is stale.
LEMMA FreshInit == Init => FreshInv
  BY DEF Init, ManagerInit, FreshInv

\* A job that moves, told to every tab: a tab the change makes stale hears of it.
LEMMA FreshMoves ==
    ASSUME TypeOK, TypeOK', Roomy', OrderInv, FreshInv, NEW j \in Job, NEW status, NEW gone,
           Moves(j, status, gone), Broadcast(View(j)', NoClient), UNCHANGED <<handled, seeding, replying, open>>,
           \/ UNCHANGED fresh
           \/ fresh' = {} /\ status \in Terminal /\ jobs[j].status \in Active
    PROVE  FreshInv'
<1>1. View(j)' \in Event
  BY ViewTyped DEF TypeOK
<1>2. \A c \in open : Ev(c)' = Ev(c) \cup {View(j)'}
  <2> SUFFICES ASSUME NEW c \in open PROVE Ev(c)' = Ev(c) \cup {View(j)'}
    OBVIOUS
  <2>1. c \in Client /\ c # NoClient /\ Len(feeds'[c]) < QueueSize
    BY NoneAssumption DEF TypeOK, Roomy
  <2> QED
    BY <1>1, <2>1, EvTold
<1>3. \A c, e : Refreshing(c, e)' = Refreshing(c, e)
  BY DEF Refreshing, Handled
<1>4. ASSUME NEW c \in Client, c \in open, c \notin fresh', c \notin replying
      PROVE  \E e \in Ev(c)' : Refreshing(c, e)
  <2>1. CASE c \in seeding
    BY <1>2, <1>4, <2>1 DEF FreshInv, Refreshing
  <2>2. CASE c \notin seeding /\ status \in Terminal /\ jobs[j].status \in Active
    <3>1. j \notin Handled(c) /\ View(j)'.type = "job" /\ View(j)'.job = j /\ View(j)'.status \in Terminal
      BY <2>2, ViewIs DEF OrderInv, TrayInv, Moves
    <3>2. Refreshing(c, View(j)')
      BY <2>2, <3>1 DEF Refreshing
    <3> QED
      BY <1>2, <1>4, <3>2
  <2>3. CASE UNCHANGED fresh
    BY <1>2, <1>4, <2>3 DEF FreshInv
  <2> QED
    BY <2>1, <2>2, <2>3
<1> QED
  BY <1>2, <1>3, <1>4 DEF FreshInv

\* What a tab hears either makes it ask again or leaves it something that will.
LEMMA FreshReceived ==
    ASSUME TypeOK, OrderInv, FreshInv, NEW c \in Client, Receive(c)
    PROVE  FreshInv'
<1> DEFINE v == Head(feeds[c])
<1>1. /\ v \in Event /\ Ev(c) = {v} \cup Ev(c)' /\ \A d \in Client \ {c} : Ev(d)' = Ev(d)
      /\ UNCHANGED <<jobs, created, answering, open, replying>>
  BY EvTaken DEF Receive, registry
<1>2. c \in open
  BY DEF Receive
<1>3. \/ v.type = "job" /\ Upsert(c, v) /\ UNCHANGED seeding
      \/ /\ v.type # "job"
         /\ seeding' = IF v.type = "ready" THEN seeding \ {c} ELSE seeding
         /\ fresh' = IF Refreshed(v.type) THEN fresh \cup {c} ELSE fresh
         /\ UNCHANGED <<tray, handled, fired, awaiting>>
  BY DEF Receive
<1> HIDE DEF v
<1>4. \A d \in Client \ {c} : /\ Handled(d)' = Handled(d) /\ (d \in seeding' <=> d \in seeding)
                              /\ (d \in fresh' <=> d \in fresh)
  <2>1. \A d \in Client \ {c} : handled'[d] = handled[d]
    BY <1>3 DEF Upsert, store, TypeOK
  <2>2. \A d \in Client \ {c} : (d \in seeding' <=> d \in seeding) /\ (d \in fresh' <=> d \in fresh)
    BY <1>3 DEF Upsert, store
  <2> QED
    BY <2>1, <2>2 DEF Handled
<1>5. \A d \in Client \ {c} : /\ d \in open /\ d \in seeding' => \E e \in Ev(d)' : e.type = "ready"
                              /\ d \in open /\ d \notin fresh' /\ d \notin replying => \E e \in Ev(d)' : Refreshing(d, e)'
  BY <1>1, <1>4 DEF FreshInv, Refreshing
<1>6. c \in seeding' => \E e \in Ev(c)' : e.type = "ready"
  <2> SUFFICES ASSUME c \in seeding' PROVE \E e \in Ev(c)' : e.type = "ready"
    OBVIOUS
  <2>1. c \in seeding /\ v.type # "ready"
    BY <1>3
  <2> QED
    BY <1>1, <1>2, <2>1 DEF FreshInv
<1>7. c \notin fresh' /\ c \notin replying => \E e \in Ev(c)' : Refreshing(c, e)'
  <2> SUFFICES ASSUME c \notin fresh', c \notin replying PROVE \E e \in Ev(c)' : Refreshing(c, e)'
    OBVIOUS
  <2>1. v.type = "job" /\ Upsert(c, v) /\ UNCHANGED seeding /\ c \notin fresh
    BY <1>1, <1>3 DEF Upsert, store, Refreshed, Event
  <2>2. PICK e \in Ev(c) : Refreshing(c, e)
    BY <1>1, <1>2, <2>1 DEF FreshInv
  <2>3. v \in About(c, v.job) /\ v.job \in Job
    BY <1>1, <2>1 DEF About, Event
  <2>4. handled' = handled \/ c \in seeding
    BY <2>1 DEF Upsert, Past, store
  <2>5. e \in Ev(c)'
    <3> SUFFICES ASSUME e = v PROVE FALSE
      BY <1>1, <2>2
    <3>1. v.status \in Terminal /\ v.job \notin Handled(c) /\ c \notin seeding
      BY <2>1, <2>2 DEF Refreshing
    <3>2. tray[c][v.job].at <= v.at
      BY <2>3, <3>1 DEF OrderInv, FinalInv
    <3>3. ~Stale(c, v)
      <4>1. tray[c][v.job].at \in Nat /\ v.at \in Nat
        BY <1>1, <2>3 DEF TypeOK, Snapshot, Event
      <4> QED
        BY <3>1, <3>2, <4>1 DEF Stale
    <3> QED
      BY <2>1, <3>1, <3>3 DEF Upsert, Past
  <2>6. Refreshing(c, e)'
    BY <2>1, <2>2, <2>4 DEF Refreshing, Handled
  <2> QED
    BY <2>5, <2>6
<1> QED
  BY <1>1, <1>2, <1>5, <1>6, <1>7 DEF FreshInv

\* Every step keeps it where no queue is full.
LEMMA FreshKept ==
    TypeOK /\ TypeOK' /\ ServerInv /\ OrderInv /\ FreshInv /\ Roomy' /\ [Next]_vars => FreshInv'
<1> SUFFICES ASSUME TypeOK, TypeOK', ServerInv, OrderInv, FreshInv, Roomy', [Next]_vars PROVE FreshInv'
  OBVIOUS
<1>1. ASSUME UNCHANGED <<handled, seeding, feeds, open>>,
             \A c \in Client : c \notin fresh' /\ c \notin replying' => c \notin fresh /\ c \notin replying
      PROVE  FreshInv'
  <2>1. \A c, e : Ev(c)' = Ev(c) /\ Refreshing(c, e)' = Refreshing(c, e)
    BY <1>1 DEF Ev, Refreshing, Handled
  <2> QED
    BY <1>1, <2>1 DEF FreshInv
<1>2. ASSUME NEW j \in Job, NEW c, Request(c, j) PROVE FreshInv'
  <2>1. /\ Moves(j, "queued", old)
        /\ Broadcast(View(j)', NoClient) /\ UNCHANGED <<handled, fresh, seeding, replying, open>>
    BY <1>2, JobMoves
  <2> QED
    BY <2>1, FreshMoves
<1>3. ASSUME NEW j \in Job, Works(j) \/ Settles(j) \/ Forget(j) PROVE FreshInv'
  <2>1. CASE (Start(j) \/ Report(j)) /\ UNCHANGED tabs
    <3>1. /\ Moves(j, "running", {})
          /\ Broadcast(View(j)', NoClient) /\ UNCHANGED <<handled, fresh, seeding, replying, open>>
      BY <2>1, JobMoves
    <3> QED
      BY <3>1, FreshMoves
  <2>2. CASE Settles(j)
    <3>1. PICK outcome \in Terminal :
             /\ Moves(j, outcome, old) /\ jobs[j].status \in Active
             /\ Broadcast(View(j)', NoClient) /\ UNCHANGED <<handled, seeding, replying, open>>
      BY <2>2, JobMoves
    <3>2. fresh' = {} \/ UNCHANGED fresh
      BY <2>2 DEF Settles
    <3> QED
      BY <3>1, <3>2, FreshMoves
  <2>3. CASE Cancel(j) /\ UNCHANGED tabs
    BY <1>1, <2>3 DEF Cancel, tabs
  <2>4. CASE Forget(j)
    BY <1>1, <2>4 DEF Forget, Expire, tabs
  <2> QED
    BY <1>3, <2>1, <2>2, <2>3, <2>4 DEF Works
<1>4. ASSUME NEW c \in Client \cup {NoClient}, Change(c) PROVE FreshInv'
  <2>1. UNCHANGED <<open, seeding, handled>> /\ Broadcast(Changed, c) /\ replying' = replying \cup ({c} \cap Client)
    BY <1>4 DEF Change, Notify
  <2>2. Changed \in Event /\ Changed.type = "changed"
    BY MarkersTyped DEF Changed
  <2>3. \A d \in open : d # c => Ev(d)' = Ev(d) \cup {Changed}
    BY <2>1, <2>2, EvTold DEF TypeOK, Roomy
  <2>4. \A d \in Client : d = c => Ev(d)' = Ev(d) /\ d \in replying'
    BY <2>1, <2>2, EvTold DEF Ev
  <2>5. \A d : Refreshing(d, Changed)'
    BY <2>2 DEF Refreshing
  <2>6. open \subseteq Client
    BY DEF TypeOK
  <2> QED
    BY <2>1, <2>3, <2>4, <2>5, <2>6 DEF FreshInv
<1>5. ASSUME NEW c \in Client, Connect(c) PROVE FreshInv'
  <2>1. Subscribe(c) /\ seeding' = seeding \cup {c} /\ UNCHANGED <<handled, fresh, replying>>
    BY <1>5 DEF Connect, store
  <2>2. open' = open \cup {c} /\ (\A d \in Client \ {c} : feeds'[d] = feeds[d])
        /\ \E i \in DOMAIN feeds'[c] : feeds'[c][i] = Ready
    BY <2>1, SnapshotTyped DEF Roomy
  <2>3. Ready \in Ev(c)' /\ Ready.type = "ready" /\ \A d \in Client \ {c} : Ev(d)' = Ev(d)
    BY <2>2 DEF Ev, Ready
  <2>4. \A d \in Client \ {c} : \A e : Refreshing(d, e)' = Refreshing(d, e)
    BY <2>1 DEF Refreshing, Handled
  <2>5. Refreshing(c, Ready)'
    BY <2>3 DEF Refreshing
  <2> QED
    BY <2>1, <2>2, <2>3, <2>4, <2>5 DEF FreshInv
<1>6. ASSUME NEW c \in Client, Drop(c) PROVE FreshInv'
  <2>1. /\ UNCHANGED <<handled, fresh, seeding, replying>> /\ open' = open \ {c}
        /\ \A d \in Client \ {c} : feeds'[d] = feeds[d]
    BY <1>6 DEF Drop, Unsubscribe, store, TypeOK
  <2>2. \A d \in Client \ {c} : Ev(d)' = Ev(d) /\ \A e : Refreshing(d, e)' = Refreshing(d, e)
    BY <2>1 DEF Ev, Refreshing, Handled
  <2> QED
    BY <2>1, <2>2 DEF FreshInv
<1>7. ASSUME NEW c \in Client, NEW j \in Job, Answered(c, j) \/ GiveUp(c, j) \/ Dismiss(c, j) PROVE FreshInv'
  BY <1>1, <1>7 DEF Answered, GiveUp, Dismiss
<1>8. ASSUME NEW c \in Client, Replied(c) PROVE FreshInv'
  BY <1>1, <1>8 DEF Replied
<1>9. CASE UNCHANGED vars
  BY <1>1, <1>9 DEF vars, tabs
<1>10. CASE Next
  BY <1>2, <1>3, <1>4, <1>5, <1>6, <1>7, <1>8, <1>10, FreshReceived DEF Next
<1> QED
  BY <1>9, <1>10

\* Where no subscription overflows, a tab that has handled all its feed brought has asked
\* for its views since the last change anybody made (onWorkspaceStale).
THEOREM NoChangeIsMissed == Spec /\ []Roomy => []NothingMissed
<1> DEFINE Inv == TypeOK /\ ServerInv /\ OrderInv /\ FreshInv
<1>1. Init => Inv
  BY TypeInit, RegistryInit, OrderInit, FreshInit
<1>2. Inv /\ Roomy' /\ [Next]_vars => Inv'
  BY TypeKept, RegistryKept, OrderKept, FreshKept
<1>3. Inv => NothingMissed
  <2> SUFFICES ASSUME Inv, NEW c \in Client, CaughtUp(c), c \notin replying PROVE c \in fresh
    BY DEF NothingMissed
  <2>1. Ev(c) = {} /\ c \in open
    BY DEF CaughtUp, Ev
  <2> QED
    BY <2>1 DEF FreshInv
<1> QED
  BY <1>1, <1>2, <1>3, PTL DEF Spec

----------------------------------------------------------------------------
(* A tab that is caught up shows what is *)

\* A job that was just submitted is queued.
AtInv == \A j \in Job : jobs[j].at = 1 => jobs[j].status = "queued"

Gone(j) == j \in old \/ (j \in created /\ jobs[j].status = "none")

\* What the server forgets has settled for every tab.
GoneInv ==
    \A j \in Job : Gone(j) => \A c \in Client :
        /\ tray[c][j].status \notin Active /\ j \notin answering[c]
        /\ \A e \in About(c, j) : e.status \in Terminal

\* The last a queue says of a job.
LastOf(c, j, i) ==
    /\ i \in DOMAIN feeds[c] /\ feeds[c][i].type = "job" /\ feeds[c][i].job = j
    /\ \A k \in DOMAIN feeds[c] : k > i => ~(feeds[c][k].type = "job" /\ feeds[c][k].job = j)

\* It is the job as it is.
LastInv ==
    \A c \in open, j \in Job : jobs[j].status # "none" =>
        \A i \in DOMAIN feeds[c] : LastOf(c, j, i) => feeds[c][i] = View(j)

\* The tab shows the job as it is, or it is over and no late answer will bring it back.
Shows(c, j) ==
    \/ tray[c][j].status \in Active /\ tray[c][j] = jobs[j]
    \/ /\ tray[c][j].status \notin Active /\ jobs[j].status \notin Active
       /\ j \in answering[c] => j \in Handled(c)

\* That is so for every job the tab has no more to hear of.
ShowsInv == \A c \in open, j \in Job : About(c, j) = {} => Shows(c, j)

ConvergeInv == AtInv /\ GoneInv /\ LastInv /\ ShowsInv

\* At first no tab shows anything.
LEMMA ConvergeInit == Init => ConvergeInv
  BY DEF Init, ManagerInit, ConvergeInv, AtInv, GoneInv, LastInv, ShowsInv, Gone, Absent

\* The last of a queue that was told something more.
LEMMA LastTold ==
    ASSUME TypeOK, NEW c \in Client, NEW e \in Event, feeds'[c] = Append(feeds[c], e),
           NEW k \in Job, NEW i, LastOf(c, k, i)'
    PROVE  \/ feeds'[c][i] = e /\ e.job = k
           \/ LastOf(c, k, i) /\ feeds'[c][i] = feeds[c][i] /\ ~(e.type = "job" /\ e.job = k)
<1>1. feeds[c] \in Seq(Event)
  BY DEF TypeOK
<1> DEFINE n == Len(feeds[c])
<1>2. n \in Nat /\ DOMAIN feeds[c] = 1 .. n /\ DOMAIN feeds'[c] = 1 .. n + 1 /\ feeds'[c][n + 1] = e
      /\ \A m \in 1 .. n : feeds'[c][m] = feeds[c][m]
  BY <1>1, AppendProperties
<1> HIDE DEF n
<1>3. /\ i \in 1 .. n + 1 /\ feeds'[c][i].type = "job" /\ feeds'[c][i].job = k
      /\ \A m \in 1 .. n + 1 : m > i => ~(feeds'[c][m].type = "job" /\ feeds'[c][m].job = k)
  BY <1>2 DEF LastOf
<1>4. CASE i = n + 1
  BY <1>2, <1>3, <1>4
<1>5. CASE i # n + 1
  <2>1. i \in 1 .. n /\ n + 1 > i /\ n + 1 \in 1 .. n + 1 /\ \A m \in 1 .. n : m \in 1 .. n + 1
    BY <1>2, <1>3, <1>5
  <2>2. ~(e.type = "job" /\ e.job = k)
    BY <1>2, <1>3, <2>1
  <2>3. LastOf(c, k, i)
    BY <1>2, <1>3, <2>1 DEF LastOf
  <2> QED
    BY <1>2, <2>1, <2>2, <2>3
<1> QED
  BY <1>4, <1>5

\* The last of a queue whose head was taken.
LEMMA LastTaken ==
    ASSUME TypeOK, NEW c \in Client, feeds[c] # <<>>, feeds' = [feeds EXCEPT ![c] = Tail(@)]
    PROVE  /\ \A k, i : LastOf(c, k, i)' => LastOf(c, k, i + 1) /\ feeds'[c][i] = feeds[c][i + 1]
           /\ \A k : Head(feeds[c]).type = "job" /\ Head(feeds[c]).job = k /\ About(c, k)' = {} =>
                    LastOf(c, k, 1) /\ feeds[c][1] = Head(feeds[c])
<1> DEFINE s == feeds[c]
           n == Len(s)
<1>1. s \in Seq(Event) /\ feeds'[c] = Tail(s)
  BY DEF TypeOK
<1>2. /\ n \in Nat /\ n >= 1 /\ DOMAIN s = 1 .. n /\ DOMAIN feeds'[c] = 1 .. n - 1
      /\ Head(s) = s[1] /\ \A i \in 1 .. n - 1 : feeds'[c][i] = s[i + 1]
  <2>1. /\ Head(s) = s[1] /\ Tail(s) \in Seq(Event) /\ Len(Tail(s)) = Len(s) - 1
        /\ Len(s) \in Nat /\ Len(s) >= 1
        /\ \A i \in 1 .. Len(Tail(s)) : Tail(s)[i] = s[i + 1]
    BY <1>1, HeadTailProperties
  <2>2. DOMAIN s = 1 .. Len(s) /\ DOMAIN Tail(s) = 1 .. Len(s) - 1
    BY <1>1, <2>1
  <2> QED
    BY <1>1, <2>1, <2>2
<1> HIDE DEF n
<1>3. ASSUME NEW k, NEW i, LastOf(c, k, i)' PROVE LastOf(c, k, i + 1) /\ feeds'[c][i] = feeds[c][i + 1]
  <2>1. /\ i \in 1 .. n - 1 /\ feeds'[c][i].type = "job" /\ feeds'[c][i].job = k
        /\ \A m \in 1 .. n - 1 : m > i => ~(feeds'[c][m].type = "job" /\ feeds'[c][m].job = k)
    BY <1>2, <1>3 DEF LastOf
  <2>2. i + 1 \in 1 .. n /\ s[i + 1].type = "job" /\ s[i + 1].job = k /\ feeds'[c][i] = s[i + 1]
    BY <1>2, <2>1
  <2>3. ASSUME NEW m \in 1 .. n, m > i + 1 PROVE ~(s[m].type = "job" /\ s[m].job = k)
    <3>1. m - 1 \in 1 .. n - 1 /\ m - 1 > i /\ (m - 1) + 1 = m
      BY <1>2, <2>1, <2>3
    <3> QED
      BY <1>2, <2>1, <3>1
  <2> QED
    BY <1>2, <2>2, <2>3 DEF LastOf
<1>4. ASSUME NEW k, Head(s).type = "job", Head(s).job = k, About(c, k)' = {} PROVE LastOf(c, k, 1)
  <2>1. ASSUME NEW m \in 1 .. n, m > 1 PROVE ~(s[m].type = "job" /\ s[m].job = k)
    <3>1. m - 1 \in 1 .. n - 1 /\ (m - 1) + 1 = m
      BY <1>2, <2>1
    <3>2. s[m] = feeds'[c][m - 1] /\ m - 1 \in DOMAIN feeds'[c]
      BY <1>2, <3>1
    <3>3. s[m] \in Ev(c)'
      BY <3>2 DEF Ev
    <3> QED
      BY <1>4, <3>3 DEF About
  <2> QED
    BY <1>2, <1>4, <2>1 DEF LastOf
<1> QED
  BY <1>2, <1>3, <1>4

\* A job that moves and is told to every tab.
LEMMA ConvergeMoves ==
    ASSUME TypeOK, TypeOK', ServerInv, Roomy', ConvergeInv, NEW j \in Job, NEW status \in Active \cup Terminal,
           NEW gone \in SUBSET old, Moves(j, status, gone), created' = created \cup {j},
           old' = old \ gone, j \notin old,
           (j \notin created /\ status = "queued") \/ jobs[j].status \in Active,
           UNCHANGED <<tray, handled, open>>,
           \A c \in Client : answering'[c] \subseteq answering[c] \cup {j},
           Broadcast(View(j)', NoClient)
    PROVE  ConvergeInv'
<1>1. View(j)' \in Event
  BY ViewTyped DEF TypeOK
<1>2. open \subseteq Client /\ NoClient \notin Client
  BY NoneAssumption DEF TypeOK
<1>3. ASSUME NEW c \in open PROVE Ev(c)' = Ev(c) \cup {View(j)'} /\ feeds'[c] = Append(feeds[c], View(j)')
  BY <1>1, <1>2, EvTold DEF Roomy
<1>4. \A c \in Client : Ev(c)' \subseteq Ev(c) \cup {View(j)'}
  BY <1>1, EvTold
<1>5. /\ jobs'[j].status = status /\ jobs'[j].at = jobs[j].at + 1 /\ status # "none"
      /\ \A k \in Job \ {j} : jobs'[k] = jobs[k] \/ (k \in old /\ jobs'[k] = Absent)
  BY DEF Moves, Active, Terminal
<1>6. \A c \in Client, k \in Job \ {j} : About(c, k)' \subseteq About(c, k)
  BY <1>4, ViewIs DEF About
<1>7. AtInv'
  <2> SUFFICES ASSUME NEW k \in Job, jobs'[k].at = 1 PROVE jobs'[k].status = "queued"
    BY DEF AtInv
  <2>1. CASE k # j
    BY <1>5, <2>1 DEF ConvergeInv, AtInv, Absent
  <2>2. CASE k = j
    <3>1. jobs[j].at \in Nat /\ jobs[j].at + 1 = 1
      BY <1>5, <2>2 DEF TypeOK, Snapshot
    <3>2. jobs[j].at = 0
      BY <3>1
    <3>3. jobs[j].status = "none"
      BY <3>2 DEF ServerInv
    <3> QED
      BY <1>5, <2>2, <3>3 DEF Active
  <2> QED
    BY <2>1, <2>2
<1>8. GoneInv'
  <2> SUFFICES ASSUME NEW k \in Job, Gone(k)', NEW c \in Client
               PROVE  /\ tray[c][k].status \notin Active /\ k \notin answering'[c]
                      /\ \A e \in About(c, k)' : e.status \in Terminal
    BY DEF GoneInv
  <2>1. k # j
    BY <1>5 DEF Gone
  <2>2. Gone(k)
    BY <1>5, <2>1 DEF Gone
  <2> QED
    BY <1>6, <2>1, <2>2 DEF ConvergeInv, GoneInv
<1>9. LastInv'
  <2> SUFFICES ASSUME NEW c \in open, NEW k \in Job, jobs'[k].status # "none", NEW i \in DOMAIN feeds'[c],
                      LastOf(c, k, i)'
               PROVE  feeds'[c][i] = View(k)'
    BY DEF LastInv
  <2>1. CASE feeds'[c][i] = View(j)' /\ View(j)'.job = k
    BY <2>1, ViewIs
  <2>2. CASE LastOf(c, k, i) /\ feeds'[c][i] = feeds[c][i] /\ ~(View(j)'.type = "job" /\ View(j)'.job = k)
    <3>1. k # j /\ jobs'[k] = jobs[k]
      BY <1>5, <2>2, ViewIs DEF Absent
    <3>2. feeds[c][i] = View(k)
      BY <2>2, <3>1 DEF ConvergeInv, LastInv, LastOf
    <3> QED
      BY <2>2, <3>1, <3>2, ViewIs
  <2> QED
    BY <1>1, <1>2, <1>3, <2>1, <2>2, LastTold
<1>10. ShowsInv'
  <2> SUFFICES ASSUME NEW c \in open, NEW k \in Job, About(c, k)' = {} PROVE Shows(c, k)'
    BY DEF ShowsInv
  <2>1. k # j
    <3>1. View(j)' \in About(c, j)'
      BY <1>3, ViewIs DEF About
    <3> QED
      BY <3>1
  <2>2. About(c, k) = {}
    BY <1>3, <2>1 DEF About
  <2>3. Shows(c, k)
    BY <2>2 DEF ConvergeInv, ShowsInv
  <2>4. k \in answering'[c] => k \in answering[c]
    BY <1>2, <2>1
  <2>5. CASE jobs'[k] = jobs[k]
    BY <2>3, <2>4, <2>5 DEF Shows, Handled
  <2>6. CASE k \in old /\ jobs'[k] = Absent
    <3>1. tray[c][k].status \notin Active /\ k \notin answering[c]
      BY <1>2, <2>6 DEF ConvergeInv, GoneInv, Gone
    <3> QED
      BY <2>4, <2>6, <3>1 DEF Shows, Absent, Active
  <2> QED
    BY <1>5, <2>1, <2>5, <2>6
<1> QED
  BY <1>7, <1>8, <1>9, <1>10 DEF ConvergeInv

\* What a tab hears of a job last is the job as it is.
LEMMA ConvergeReceived ==
    ASSUME TypeOK, ServerInv, OrderInv, Remembers, OnceInv, NoResurrection, ConvergeInv,
           NEW c \in Client, Receive(c)
    PROVE  ConvergeInv'
<1> PICK v : v = Head(feeds[c])
  OBVIOUS
<1> DEFINE j == v.job
<1>1. /\ v \in Event /\ Ev(c) = {v} \cup Ev(c)' /\ \A d \in Client \ {c} : Ev(d)' = Ev(d) /\ feeds'[d] = feeds[d]
  BY EvTaken DEF Receive
<1>2. /\ \A k, i : LastOf(c, k, i)' => LastOf(c, k, i + 1) /\ feeds'[c][i] = feeds[c][i + 1]
      /\ v.type = "job" /\ About(c, j)' = {} => LastOf(c, j, 1) /\ feeds[c][1] = v
  BY LastTaken DEF Receive
<1>3. UNCHANGED <<jobs, created, old, answering, open>> /\ c \in open
  BY DEF Receive, registry
<1>4. \/ v.type = "job" /\ Upsert(c, v)
      \/ v.type # "job" /\ UNCHANGED <<tray, handled>>
  BY DEF Receive
<1>5. open \subseteq Client /\ \A k : View(k)' = View(k)
  BY <1>3 DEF TypeOK, View
<1>6. \A d \in Client : \A k : About(d, k)' \subseteq About(d, k)
  BY <1>1 DEF About
<1>7. \A d \in Client \ {c} : \A k : About(d, k)' = About(d, k) /\ (\A i : LastOf(d, k, i)' => LastOf(d, k, i))
  BY <1>1 DEF About, LastOf
<1>8. v.type = "job" => j \in Job /\ v \in About(c, j) /\ v.status \in Status /\ v.at \in Nat
  BY <1>1 DEF Event, About
<1>9. \A d \in Client, k \in Job :
        \/ tray'[d][k] = tray[d][k]
        \/ d = c /\ v.type = "job" /\ k = j /\ tray'[d][k] = [status |-> v.status, at |-> v.at]
  BY <1>4, <1>8 DEF Upsert, store, TypeOK
<1>10. \A d \in Client, k \in Job : k \in Handled(d) => k \in Handled(d)'
  <2>1. CASE handled' = handled
    BY <2>1 DEF Handled
  <2>2. CASE handled' # handled
    <3>1. v.type = "job" /\ j \notin Handled(c) /\ handled' = [handled EXCEPT ![c] = Marked(c, j)]
      BY <1>4, <2>2 DEF Upsert, Stale, store
    <3>2. ToSet(Marked(c, j)) = Handled(c) \cup {j}
      BY <1>8, <3>1, MarkedSet
    <3> QED
      BY <3>1, <3>2 DEF Handled, TypeOK
  <2> QED
    BY <2>1, <2>2
<1>11. AtInv' /\ LastInv'
  <2>1. AtInv'
    BY <1>3 DEF ConvergeInv, AtInv
  <2>2. ASSUME NEW d \in open, NEW k \in Job, jobs[k].status # "none", NEW i \in DOMAIN feeds'[d], LastOf(d, k, i)'
        PROVE  feeds'[d][i] = View(k)
    <3>1. CASE d = c
      BY <1>2, <2>2, <3>1 DEF ConvergeInv, LastInv, LastOf
    <3>2. CASE d # c
      BY <1>1, <1>5, <1>7, <2>2, <3>2 DEF ConvergeInv, LastInv
    <3> QED
      BY <3>1, <3>2
  <2> QED
    BY <1>3, <1>5, <2>1, <2>2 DEF LastInv
<1>12. GoneInv'
  <2> SUFFICES ASSUME NEW k \in Job, Gone(k), NEW d \in Client
               PROVE  /\ tray'[d][k].status \notin Active /\ k \notin answering[d]
                      /\ \A e \in About(d, k) : e.status \in Terminal
    BY <1>3, <1>6 DEF GoneInv, Gone
  <2>1. /\ tray[d][k].status \notin Active /\ k \notin answering[d]
        /\ \A e \in About(d, k) : e.status \in Terminal
    BY DEF ConvergeInv, GoneInv
  <2>2. Active \cap Terminal = {}
    BY DEF Active, Terminal
  <2> QED
    BY <1>8, <1>9, <2>1, <2>2
<1>13. ASSUME v.type = "job", About(c, j)' = {} PROVE Shows(c, j)'
  <2>1. j \in Job /\ v \in About(c, j) /\ j \in created
    BY <1>8, <1>13 DEF OrderInv, EventInv
  <2>2. tray[c][j] \in Snapshot /\ jobs[j] \in Snapshot
    BY <2>1 DEF TypeOK
  <2>3. CASE jobs[j].status = "none"
    <3>1. Gone(j)
      BY <2>1, <2>3 DEF Gone
    <3>2. tray'[c][j].status \notin Active /\ j \notin answering[c]
      BY <1>3, <1>12, <2>1, <3>1 DEF GoneInv, Gone
    <3> QED
      BY <1>3, <2>3, <3>2 DEF Shows, Active
  <2>4. CASE jobs[j].status # "none"
    <3>1. v.status = jobs[j].status /\ v.at = jobs[j].at
      <4>1. v = View(j)
        BY <1>2, <1>3, <1>13, <2>1, <2>4 DEF ConvergeInv, LastInv, LastOf
      <4> QED
        BY <4>1, ViewIs
    <3>2. CASE Stale(c, v) /\ UNCHANGED store
      <4>1. j \in Handled(c)
        BY <2>1, <2>2, <2>4, <3>1, <3>2 DEF Stale, OrderInv, TrayInv, Snapshot
      <4>2. jobs[j].status \notin Active /\ tray[c][j].status \notin Active
        BY <2>1, <4>1 DEF OrderInv, TrayInv, NoResurrection
      <4> QED
        BY <1>3, <3>2, <4>1, <4>2 DEF Shows, store, Handled
    <3>3. ASSUME handled' = [handled EXCEPT ![c] = Marked(c, j)], ~Stale(c, v) PROVE j \in Handled(c)'
      BY <2>1, <3>3, MarkedSet DEF Handled, Stale, TypeOK
    <3>4. CASE ~Stale(c, v) /\ Past(c, v) /\ handled' = [handled EXCEPT ![c] = Marked(c, j)] /\ UNCHANGED tray
      <4>1. tray'[c][j] = Absent /\ jobs[j].status \in Terminal
        BY <3>1, <3>4 DEF Past
      <4> QED
        BY <1>3, <3>3, <3>4, <4>1 DEF Shows, Absent, Active, Terminal
    <3>5. CASE /\ ~Stale(c, v) /\ tray' = [tray EXCEPT ![c][j] = [status |-> v.status, at |-> v.at]]
               /\ v.status \in Terminal => handled' = [handled EXCEPT ![c] = Marked(c, j)]
      <4>1. tray'[c][j] = [status |-> v.status, at |-> v.at]
        BY <2>1, <3>5 DEF TypeOK
      <4>2. tray'[c][j] = jobs[j]
        BY <2>2, <3>1, <4>1 DEF Snapshot
      <4>3. CASE v.status \in Terminal
        BY <1>3, <3>1, <3>3, <3>5, <4>2, <4>3 DEF Shows, Active, Terminal
      <4>4. CASE v.status \notin Terminal
        <5>1. jobs[j].status \in Active
          BY <2>2, <2>4, <3>1, <4>4 DEF Snapshot, Status
        <5> QED
          BY <1>3, <4>2, <5>1 DEF Shows
      <4> QED
        BY <4>3, <4>4
    <3> QED
      BY <1>4, <1>13, <3>2, <3>4, <3>5 DEF Upsert
  <2> QED
    BY <2>3, <2>4
<1>14. ShowsInv'
  <2> SUFFICES ASSUME NEW d \in open, NEW k \in Job, About(d, k)' = {} PROVE Shows(d, k)'
    BY <1>3 DEF ShowsInv
  <2>1. CASE d = c /\ v.type = "job" /\ k = j
    BY <1>13, <2>1
  <2>2. CASE ~(d = c /\ v.type = "job" /\ k = j)
    <3>1. About(d, k) = {}
      BY <1>1, <1>5, <1>7, <2>2 DEF About
    <3>2. Shows(d, k) /\ tray'[d][k] = tray[d][k]
      BY <1>5, <1>9, <2>2, <3>1 DEF ConvergeInv, ShowsInv
    <3> QED
      BY <1>3, <1>5, <1>10, <3>2 DEF Shows
  <2> QED
    BY <2>1, <2>2
<1> QED
  BY <1>11, <1>12, <1>14 DEF ConvergeInv

\* Nothing the invariant speaks of changes.
LEMMA ConvergeFrame ==
    ASSUME ConvergeInv, UNCHANGED <<jobs, created, old, tray, handled, open, feeds, answering>>
    PROVE  ConvergeInv'
<1>1. /\ \A c : Ev(c)' = Ev(c) /\ Handled(c)' = Handled(c)
      /\ \A k : View(k)' = View(k)
  BY DEF Ev, Handled, View
<1>2. \A c, k : About(c, k)' = About(c, k) /\ Gone(k)' = Gone(k)
  BY <1>1 DEF About, Gone
<1>3. \A c, k : Shows(c, k)' = Shows(c, k) /\ \A i : LastOf(c, k, i)' = LastOf(c, k, i)
  BY <1>1 DEF Shows, LastOf
<1>4. AtInv' /\ GoneInv'
  BY <1>2 DEF ConvergeInv, AtInv, GoneInv
<1>5. LastInv' /\ ShowsInv'
  BY <1>1, <1>2, <1>3 DEF ConvergeInv, LastInv, ShowsInv
<1> QED
  BY <1>4, <1>5 DEF ConvergeInv

\* A job whose retention is over has settled for every tab.
LEMMA ConvergeForgets ==
    ASSUME ConvergeInv, NEW j \in Job, Forget(j)
    PROVE  ConvergeInv'
<1>1. UNCHANGED <<jobs, created, tray, handled, open, feeds, answering>> /\ old' = old \cup {j}
  BY DEF Forget, Expire, tabs
<1>2. \A c \in Client : tray[c][j].status \notin Active /\ j \notin answering[c] /\ About(c, j) = {}
  BY DEF Forget, About, Ev
<1>3. /\ \A c : Ev(c)' = Ev(c) /\ Handled(c)' = Handled(c)
      /\ \A k : View(k)' = View(k)
  BY <1>1 DEF Ev, Handled, View
<1>4. \A c, k : About(c, k)' = About(c, k)
  BY <1>3 DEF About
<1>5. \A c, k : Shows(c, k)' = Shows(c, k) /\ \A i : LastOf(c, k, i)' = LastOf(c, k, i)
  BY <1>1, <1>3 DEF Shows, LastOf
<1>6. \A k \in Job : Gone(k)' => Gone(k) \/ k = j
  BY <1>1 DEF Gone
<1>7. GoneInv'
  BY <1>1, <1>2, <1>4, <1>6 DEF ConvergeInv, GoneInv
<1>8. AtInv' /\ LastInv' /\ ShowsInv'
  BY <1>1, <1>3, <1>4, <1>5 DEF ConvergeInv, AtInv, LastInv, ShowsInv
<1> QED
  BY <1>7, <1>8 DEF ConvergeInv

\* A change without a job says nothing of one.
LEMMA ConvergeChanges ==
    ASSUME TypeOK, Roomy', ConvergeInv, NEW x, Change(x)
    PROVE  ConvergeInv'
<1>1. UNCHANGED <<jobs, created, old, tray, handled, open, answering>> /\ Broadcast(Changed, x)
  BY DEF Change, Notify, registry
<1>2. Changed \in Event /\ Changed.type # "job" /\ open \subseteq Client
  BY MarkersTyped DEF Changed, TypeOK
<1>3. \A c \in Client : Ev(c)' \subseteq Ev(c) \cup {Changed}
  BY <1>1, <1>2, EvTold
<1>4. \A c \in open : Ev(c) \subseteq Ev(c)' /\ (feeds'[c] = feeds[c] \/ feeds'[c] = Append(feeds[c], Changed))
  <2> SUFFICES ASSUME NEW c \in open
               PROVE  Ev(c) \subseteq Ev(c)' /\ (feeds'[c] = feeds[c] \/ feeds'[c] = Append(feeds[c], Changed))
    OBVIOUS
  <2>1. CASE c = x
    BY <1>1, <1>2, <2>1, EvTold DEF Ev
  <2>2. CASE c # x
    BY <1>1, <1>2, <2>2, EvTold DEF Roomy
  <2> QED
    BY <2>1, <2>2
<1>5. \A c \in Client : \A k : About(c, k)' \subseteq About(c, k)
  BY <1>2, <1>3 DEF About
<1>6. \A c \in open : \A k : About(c, k)' = About(c, k)
  BY <1>2, <1>4, <1>5 DEF About
<1>7. \A k : View(k)' = View(k) /\ Gone(k)' = Gone(k) /\ \A c : Shows(c, k)' = Shows(c, k)
  BY <1>1 DEF View, Gone, Shows, Handled
<1>8. LastInv'
  <2> SUFFICES ASSUME NEW c \in open, NEW k \in Job, jobs[k].status # "none", NEW i \in DOMAIN feeds'[c],
                      LastOf(c, k, i)'
               PROVE  feeds'[c][i] = View(k)
    BY <1>1, <1>7 DEF LastInv
  <2>1. CASE feeds'[c] = feeds[c]
    BY <2>1 DEF ConvergeInv, LastInv, LastOf
  <2>2. CASE feeds'[c] = Append(feeds[c], Changed)
    <3>1. feeds'[c][i].type = "job"
      BY DEF LastOf
    <3>2. LastOf(c, k, i) /\ feeds'[c][i] = feeds[c][i]
      BY <1>2, <2>2, <3>1, LastTold
    <3> QED
      BY <3>2 DEF ConvergeInv, LastInv, LastOf
  <2> QED
    BY <1>4, <2>1, <2>2
<1>9. AtInv' /\ GoneInv'
  BY <1>1, <1>5, <1>7 DEF ConvergeInv, AtInv, GoneInv
<1>10. ShowsInv'
  BY <1>1, <1>6, <1>7 DEF ConvergeInv, ShowsInv
<1> QED
  BY <1>8, <1>9, <1>10 DEF ConvergeInv

\* A new connection starts with every job as it is.
LEMMA ConvergeConnects ==
    ASSUME TypeOK, ServerInv, OrderInv, Roomy', ConvergeInv, NEW c \in Client, Connect(c)
    PROVE  ConvergeInv'
<1>1. UNCHANGED <<jobs, created, old, tray, handled, answering>> /\ Subscribe(c) /\ open' = open \cup {c}
  BY DEF Connect, Subscribe, registry, store
<1>2. /\ \A d \in Client \ {c} : feeds'[d] = feeds[d]
      /\ \A i \in DOMAIN feeds'[c] : feeds'[c][i] = Ready \/ \E j \in Retained : feeds'[c][i] = View(j)
      /\ \A j \in Retained : \E i \in DOMAIN feeds'[c] : feeds'[c][i] = View(j)
  BY <1>1, SnapshotTyped DEF Roomy
<1>3. Ready.type # "job" /\ open \subseteq Client
  BY DEF Ready, TypeOK
<1>4. \A d \in Client \ {c} : \A k : About(d, k)' = About(d, k) /\ \A i : LastOf(d, k, i)' = LastOf(d, k, i)
  BY <1>2 DEF About, Ev, LastOf
<1>5. \A k : View(k)' = View(k) /\ Gone(k)' = Gone(k) /\ \A d : Shows(d, k)' = Shows(d, k)
  BY <1>1 DEF View, Gone, Shows, Handled
<1>6. \A k \in Job : \A e \in About(c, k)' : k \in Retained /\ e = View(k)
  BY <1>2, <1>3, ViewIs DEF About, Ev
<1>7. \A k \in Retained : View(k) \in About(c, k)'
  BY <1>2, ViewIs DEF About, Ev
<1>8. AtInv'
  BY <1>1 DEF ConvergeInv, AtInv
<1>9. GoneInv'
  <2> SUFFICES ASSUME NEW k \in Job, Gone(k), NEW d \in Client
               PROVE  /\ tray[d][k].status \notin Active /\ k \notin answering[d]
                      /\ \A e \in About(d, k)' : e.status \in Terminal
    BY <1>1, <1>5 DEF GoneInv
  <2>1. /\ tray[d][k].status \notin Active /\ k \notin answering[d]
        /\ \A e \in About(d, k) : e.status \in Terminal
    BY DEF ConvergeInv, GoneInv
  <2>2. ASSUME k \in Retained PROVE View(k).status \in Terminal
    BY <2>2, ViewIs DEF Retained, Gone, ServerInv, Active, Terminal
  <2> QED
    BY <1>4, <1>6, <2>1, <2>2
<1>10. LastInv'
  <2> SUFFICES ASSUME NEW d \in open', NEW k \in Job, jobs[k].status # "none", NEW i \in DOMAIN feeds'[d],
                      LastOf(d, k, i)'
               PROVE  feeds'[d][i] = View(k)
    BY <1>1, <1>5 DEF LastInv
  <2>1. CASE d = c
    <3>1. feeds'[c][i].type = "job" /\ feeds'[c][i].job = k
      BY <2>1 DEF LastOf
    <3> QED
      BY <1>2, <1>3, <2>1, <3>1, ViewIs
  <2>2. CASE d # c
    <3>1. d \in open /\ LastOf(d, k, i) /\ feeds'[d] = feeds[d]
      BY <1>1, <1>2, <1>3, <1>4, <2>2
    <3> QED
      BY <3>1 DEF ConvergeInv, LastInv, LastOf
  <2> QED
    BY <2>1, <2>2
<1>11. ShowsInv'
  <2> SUFFICES ASSUME NEW d \in open', NEW k \in Job, About(d, k)' = {} PROVE Shows(d, k)
    BY <1>5 DEF ShowsInv
  <2>1. CASE d = c
    <3>1. k \notin Retained
      BY <1>7, <2>1
    <3>2. jobs[k].status = "none"
      <4>1. jobs[k] \in Snapshot
        BY DEF TypeOK
      <4> QED
        BY <3>1, <4>1 DEF Retained, ServerInv, Absent, Snapshot, Status
    <3>3. CASE k \in created
      BY <2>1, <3>2, <3>3 DEF ConvergeInv, GoneInv, Gone, Shows, Active
    <3>4. CASE k \notin created
      BY <2>1, <3>2, <3>4 DEF OrderInv, TrayInv, Shows, Active, Absent
    <3> QED
      BY <3>3, <3>4
  <2>2. CASE d # c
    BY <1>1, <1>3, <1>4, <2>2 DEF ConvergeInv, ShowsInv
  <2> QED
    BY <2>1, <2>2
<1> QED
  BY <1>8, <1>9, <1>10, <1>11 DEF ConvergeInv

\* A broken connection is none that is caught up.
LEMMA ConvergeDrops ==
    ASSUME TypeOK, ConvergeInv, NEW c \in Client, Drop(c)
    PROVE  ConvergeInv'
<1>1. /\ UNCHANGED <<jobs, created, old, tray, handled, answering>> /\ open' = open \ {c}
      /\ feeds' = [feeds EXCEPT ![c] = <<>>]
  BY DEF Drop, Unsubscribe, registry, store
<1>2. feeds'[c] = <<>> /\ \A d \in Client \ {c} : feeds'[d] = feeds[d]
  BY <1>1 DEF TypeOK
<1>3. \A d \in Client \ {c} : \A k : About(d, k)' = About(d, k) /\ \A i : LastOf(d, k, i)' = LastOf(d, k, i)
  BY <1>2 DEF About, Ev, LastOf
<1>4. \A k : About(c, k)' = {}
  BY <1>2 DEF About, Ev
<1>5. \A k : View(k)' = View(k) /\ Gone(k)' = Gone(k) /\ \A d : Shows(d, k)' = Shows(d, k)
  BY <1>1 DEF View, Gone, Shows, Handled
<1>6. open' \subseteq Client \ {c} /\ open' \subseteq open
  BY <1>1 DEF TypeOK
<1>7. AtInv' /\ GoneInv'
  BY <1>1, <1>3, <1>4, <1>5 DEF ConvergeInv, AtInv, GoneInv
<1>8. LastInv' /\ ShowsInv'
  BY <1>1, <1>2, <1>3, <1>5, <1>6 DEF ConvergeInv, LastInv, ShowsInv
<1> QED
  BY <1>7, <1>8 DEF ConvergeInv

\* A late answer shows a job that is still queued, or nothing new.
LEMMA ConvergeShows ==
    ASSUME TypeOK, ServerInv, OrderInv, ConvergeInv, NEW c \in Client, NEW j \in Job,
           Answered(c, j) \/ Dismiss(c, j)
    PROVE  ConvergeInv'
<1>1. /\ UNCHANGED <<jobs, created, old, handled, open, feeds>>
      /\ \A d \in Client : answering'[d] \subseteq answering[d]
      /\ \A d \in Client, k \in Job : d # c \/ k # j => tray'[d][k] = tray[d][k]
  <2>1. UNCHANGED <<jobs, created, old, handled, open, feeds>>
    BY DEF Answered, Dismiss, registry
  <2>2. \A d \in Client : answering'[d] \subseteq answering[d]
    <3>1. answering' = [answering EXCEPT ![c] = @ \ {j}] \/ answering' = answering
      BY DEF Answered, Dismiss
    <3> QED
      BY <3>1 DEF TypeOK
  <2>3. \/ tray' = [tray EXCEPT ![c][j] = [status |-> "queued", at |-> 1]] \/ tray' = [tray EXCEPT ![c][j] = Absent]
        \/ tray' = tray
    BY DEF Answered, Dismiss
  <2>4. \A d \in Client, k \in Job : d # c \/ k # j => tray'[d][k] = tray[d][k]
    BY <2>3 DEF TypeOK
  <2> QED
    BY <2>1, <2>2, <2>4
<1>2. /\ \A d : Ev(d)' = Ev(d) /\ Handled(d)' = Handled(d)
      /\ \A k : View(k)' = View(k) /\ Gone(k)' = Gone(k)
  BY <1>1 DEF Ev, Handled, View, Gone
<1>3. \A d, k : About(d, k)' = About(d, k) /\ \A i : LastOf(d, k, i)' = LastOf(d, k, i)
  BY <1>1, <1>2 DEF About, LastOf
<1>4. Gone(j) => tray'[c][j].status \notin Active
  <2>1. ASSUME Gone(j) PROVE j \notin answering[c]
    BY <2>1 DEF ConvergeInv, GoneInv
  <2>2. Dismiss(c, j) => tray'[c][j] = Absent
    BY DEF Dismiss, TypeOK
  <2> QED
    BY <2>1, <2>2 DEF Answered, Absent, Active
<1>5. ASSUME Shows(c, j) PROVE Shows(c, j)'
  <2>1. CASE Dismiss(c, j)
    <3>1. tray'[c][j] = Absent /\ tray[c][j].status \notin Active
      BY <2>1 DEF Dismiss, TypeOK, Active, Terminal
    <3> QED
      BY <1>1, <1>2, <1>5, <3>1 DEF Shows, Absent, Active
  <2>2. CASE Answered(c, j)
    <3> DEFINE answer == [type |-> "job", job |-> j, status |-> "queued", at |-> 1]
    <3>1. tray[c][j] \in Snapshot /\ jobs[j] \in Snapshot
      BY DEF TypeOK
    <3>2. tray'[c][j] = IF Stale(c, answer) THEN tray[c][j] ELSE [status |-> "queued", at |-> 1]
      BY <2>2 DEF Answered, TypeOK
    <3>3. CASE tray[c][j].status \in Active /\ tray[c][j] = jobs[j] /\ ~Stale(c, answer)
      <4>1. ~(1 < jobs[j].at) /\ jobs[j].at >= 1 /\ jobs[j].at \in Nat
        BY <3>1, <3>3 DEF Stale, ServerInv, Active, Snapshot
      <4>2. jobs[j].at = 1 /\ jobs[j].status = "queued"
        BY <4>1 DEF ConvergeInv, AtInv
      <4>3. tray'[c][j] = jobs[j]
        BY <3>1, <3>2, <3>3, <4>2 DEF Snapshot
      <4> QED
        BY <1>1, <4>2, <4>3 DEF Shows, Active
    <3>4. CASE tray[c][j].status \in Active /\ tray[c][j] = jobs[j] /\ Stale(c, answer)
      BY <1>1, <3>2, <3>4 DEF Shows
    <3>5. CASE tray[c][j].status \notin Active /\ jobs[j].status \notin Active /\ (j \in answering[c] => j \in Handled(c))
      <4>1. j \in Handled(c)
        BY <2>2, <3>5 DEF Answered
      <4>2. Stale(c, answer)
        BY <4>1 DEF Stale
      <4> QED
        BY <1>1, <1>2, <3>2, <3>5, <4>1, <4>2 DEF Shows
    <3> QED
      BY <1>5, <3>3, <3>4, <3>5 DEF Shows
  <2> QED
    BY <2>1, <2>2
<1>6. AtInv' /\ LastInv'
  BY <1>1, <1>2, <1>3 DEF ConvergeInv, AtInv, LastInv
<1>7. GoneInv'
  <2> SUFFICES ASSUME NEW k \in Job, Gone(k), NEW d \in Client
               PROVE  /\ tray'[d][k].status \notin Active /\ k \notin answering'[d]
                      /\ \A e \in About(d, k) : e.status \in Terminal
    BY <1>2, <1>3 DEF GoneInv
  <2>1. /\ tray[d][k].status \notin Active /\ k \notin answering[d]
        /\ \A e \in About(d, k) : e.status \in Terminal
    BY DEF ConvergeInv, GoneInv
  <2> QED
    BY <1>1, <1>4, <2>1
<1>8. ShowsInv'
  <2> SUFFICES ASSUME NEW d \in open, NEW k \in Job, About(d, k) = {} PROVE Shows(d, k)'
    BY <1>1, <1>3 DEF ShowsInv
  <2>1. Shows(d, k) /\ d \in Client
    BY DEF ConvergeInv, ShowsInv, TypeOK
  <2>2. CASE d = c /\ k = j
    BY <1>5, <2>1, <2>2
  <2>3. CASE d # c \/ k # j
    BY <1>1, <1>2, <2>1, <2>3 DEF Shows
  <2> QED
    BY <2>2, <2>3
<1> QED
  BY <1>6, <1>7, <1>8 DEF ConvergeInv

\* Every step keeps it where no queue is full and a tab remembers enough.
LEMMA ConvergeKept ==
    /\ TypeOK /\ TypeOK' /\ ServerInv /\ OrderInv /\ Remembers /\ OnceInv /\ NoResurrection /\ ConvergeInv
    /\ Roomy' /\ [Next]_vars
    => ConvergeInv'
<1> SUFFICES ASSUME TypeOK, TypeOK', ServerInv, OrderInv, Remembers, OnceInv, NoResurrection, ConvergeInv,
                    Roomy', [Next]_vars
             PROVE  ConvergeInv'
  OBVIOUS
<1>1. ASSUME NEW j \in Job, NEW c, Request(c, j) PROVE ConvergeInv'
  <2>1. /\ Moves(j, "queued", old) /\ created' = created \cup {j} /\ j \notin created
        /\ Broadcast(View(j)', NoClient) /\ UNCHANGED <<tray, handled, open>>
        /\ \A d \in Client : answering'[d] \subseteq answering[d] \cup {j}
    BY <1>1, JobMoves
  <2>2. "queued" \in Active \cup Terminal /\ old \in SUBSET old /\ old' = old \ old
    BY <1>1 DEF Request, Submit, Active
  <2>3. j \notin old
    BY <2>1 DEF ServerInv, Absent, Terminal
  <2> QED
    BY <2>1, <2>2, <2>3, ConvergeMoves
<1>2. ASSUME NEW j \in Job, Works(j) \/ Settles(j) PROVE ConvergeInv'
  <2>1. CASE (Start(j) \/ Report(j)) /\ UNCHANGED tabs
    <3>1. /\ Moves(j, "running", {}) /\ created' = created \cup {j} /\ jobs[j].status \in Active
          /\ Broadcast(View(j)', NoClient) /\ UNCHANGED <<tray, handled, open, answering>>
      BY <2>1, JobMoves
    <3>2. "running" \in Active \cup Terminal /\ {} \in SUBSET old /\ old' = old \ {}
      BY <2>1 DEF Start, Report, Active
    <3>3. j \notin old /\ \A d \in Client : answering'[d] \subseteq answering[d] \cup {j}
      BY <3>1 DEF ServerInv, Active, Terminal
    <3> QED
      BY <3>1, <3>2, <3>3, ConvergeMoves
  <2>2. CASE Settles(j)
    <3>1. PICK outcome \in Terminal :
             /\ Moves(j, outcome, old) /\ created' = created \cup {j} /\ jobs[j].status \in Active
             /\ Broadcast(View(j)', NoClient) /\ UNCHANGED <<tray, handled, open, answering>>
      BY <2>2, JobMoves
    <3>2. outcome \in Active \cup Terminal /\ old \in SUBSET old /\ old' = old \ old
      BY <2>2 DEF Settles, Finish, CancelWaiting, Settle
    <3>3. j \notin old /\ \A d \in Client : answering'[d] \subseteq answering[d] \cup {j}
      BY <3>1 DEF ServerInv, Active, Terminal
    <3> QED
      BY <3>1, <3>2, <3>3, ConvergeMoves
  <2>3. CASE Cancel(j) /\ UNCHANGED tabs
    BY <2>3, ConvergeFrame DEF Cancel, tabs
  <2> QED
    BY <1>2, <2>1, <2>2, <2>3 DEF Works
<1>3. ASSUME NEW c \in Client, Replied(c) \/ \E j \in Job : GiveUp(c, j) PROVE ConvergeInv'
  BY <1>3, ConvergeFrame DEF Replied, GiveUp, registry
<1>4. CASE UNCHANGED vars
  BY <1>4, ConvergeFrame DEF vars, registry, tabs
<1>5. CASE Next
  BY <1>1, <1>2, <1>3, <1>5, ConvergeForgets, ConvergeChanges, ConvergeConnects, ConvergeDrops,
     ConvergeShows, ConvergeReceived DEF Next
<1> QED
  BY <1>4, <1>5

\* Where no subscription overflows and a tab remembers enough, a tab that has handled all
\* its feed brought shows every job that is queued or running as the server has it, and
\* shows none as such that is not (subscribe, upsert).
THEOREM TabsConverge == ASSUME Remembers PROVE Spec /\ []Roomy => []Converged
<1> DEFINE Inv == TypeOK /\ ServerInv /\ OrderInv /\ OnceInv /\ NoResurrection /\ ConvergeInv
<1>1. Init => Inv
  BY TypeInit, RegistryInit, OrderInit, OnceInit, ConvergeInit
<1>2. Inv /\ Roomy' /\ [Next]_vars => Inv'
  BY TypeKept, RegistryKept, OrderKept, OnceKept, ConvergeKept
<1>3. Inv => Converged
  <2> SUFFICES ASSUME Inv, NEW c \in Client, CaughtUp(c), NEW j \in Job
               PROVE  \/ tray[c][j].status \in Active /\ tray[c][j] = jobs[j]
                      \/ tray[c][j].status \notin Active /\ jobs[j].status \notin Active
    BY DEF Converged
  <2>1. About(c, j) = {} /\ c \in open
    BY DEF CaughtUp, About, Ev
  <2> QED
    BY <2>1 DEF ConvergeInv, ShowsInv, Shows
<1> QED
  BY <1>1, <1>2, <1>3, PTL DEF Spec
=============================================================================
