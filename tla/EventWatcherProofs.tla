-------------------------- MODULE EventWatcherProofs --------------------------
(***************************************************************************)
(* Theorems of EventWatcher for every set of events and every value of its  *)
(* limits: what an overflowing queue keeps, that a stopped watcher          *)
(* dispatches nothing, and that dispatches keep their distance.             *)
(***************************************************************************)
EXTENDS EventWatcher, SequenceTheorems, FiniteSetTheorems, WellFoundedInduction, TLAPS

USE WatcherAssumption

\* What travels from the stream to the tasks.
Traffic ==
  /\ posted \in Seq(EventKeys) /\ tasks \in Seq(EventKeys)
  /\ queue \in Seq(EventKeys) /\ Len(queue) <= QueueMax
  /\ recent \in Seq(EventKeys) /\ Len(recent) <= QueueMax

\* start_watcher returns when its dispatch loop has ended.
LoopEnded == main \in {"stopped", "left"} => poll = "exited"

\* The queue is a suffix of what was put into it, position by position.
IsSuffix(q, s) == /\ Len(q) <= Len(s)
                  /\ \A i \in 1..Len(q) : q[i] = s[Len(s) - Len(q) + i]

WInv == Traffic /\ LoopEnded /\ IsSuffix(queue, recent)

-----------------------------------------------------------------------------
(* Suffixes *)

LEMMA LastOfType ==
  ASSUME NEW S, NEW s \in Seq(S), NEW n \in Nat
  PROVE  /\ LastOf(s, n) \in Seq(S)
         /\ Len(LastOf(s, n)) = IF Len(s) > n THEN n ELSE Len(s)
         /\ \A i \in 1..Len(LastOf(s, n)) :
              LastOf(s, n)[i] = s[Len(s) - Len(LastOf(s, n)) + i]
<1>1. Len(s) \in Nat
  BY LenProperties
<1>2. CASE Len(s) > n
  <2>1. LastOf(s, n) = SubSeq(s, Len(s) - n + 1, Len(s))
    BY <1>2 DEF LastOf
  <2>2. /\ Len(s) - n + 1 \in 1..(Len(s) + 1) /\ Len(s) \in 0..Len(s)
        /\ Len(s) - (Len(s) - n + 1) + 1 = n
    BY <1>1, <1>2
  <2>3. Len(LastOf(s, n)) = n /\ LastOf(s, n) \in Seq(S)
    BY <1>1, <1>2, <2>1, <2>2, SubSeqProperties
  <2>4. \A i \in 1..n : LastOf(s, n)[i] = s[Len(s) - n + i]
    <3>1. SubSeq(s, Len(s) - n + 1, Len(s))
          = [i \in 1..n |-> s[i + (Len(s) - n + 1) - 1]]
      BY <2>2
    <3>2. \A i \in 1..n : i + (Len(s) - n + 1) - 1 = Len(s) - n + i
      BY <1>1
    <3> QED BY <2>1, <3>1, <3>2
  <2> QED BY <1>2, <2>3, <2>4
<1>3. CASE ~(Len(s) > n)
  <2>1. LastOf(s, n) = s
    BY <1>3 DEF LastOf
  <2>2. \A i \in 1..Len(s) : Len(s) - Len(s) + i = i
    BY <1>1
  <2> QED BY <1>3, <2>1, <2>2
<1> QED BY <1>2, <1>3

LEMMA LastOfBound ==
  ASSUME NEW S, NEW s \in Seq(S)
  PROVE  LastOf(s, QueueMax) \in Seq(S) /\ Len(LastOf(s, QueueMax)) <= QueueMax
<1>1. QueueMax \in Nat /\ Len(s) \in Nat
  BY LenProperties
<1>2. /\ LastOf(s, QueueMax) \in Seq(S)
      /\ Len(LastOf(s, QueueMax)) = IF Len(s) > QueueMax THEN QueueMax ELSE Len(s)
  BY <1>1, LastOfType
<1> QED BY <1>1, <1>2

\* QueueIsNewest says that the queue is a suffix.
LEMMA SuffixIsNewest ==
  ASSUME Traffic PROVE IsSuffix(queue, recent) => QueueIsNewest
<1> SUFFICES ASSUME IsSuffix(queue, recent) PROVE queue = LastOf(recent, Len(queue))
  BY DEF QueueIsNewest
<1> DEFINE last == LastOf(recent, Len(queue))
<1>1. Len(queue) \in Nat /\ Len(recent) \in Nat /\ queue \in Seq(EventKeys)
  BY LenProperties DEF Traffic
<1>2. last \in Seq(EventKeys) /\ Len(last) = Len(queue)
      /\ \A i \in 1..Len(last) : last[i] = recent[Len(recent) - Len(last) + i]
  BY <1>1, LastOfType DEF Traffic, IsSuffix
<1>3. \A i \in 1..Len(queue) : last[i] = queue[i]
  BY <1>2 DEF IsSuffix
<1> HIDE DEF last
<1>4. queue = last
  BY <1>1, <1>2, <1>3, SeqEqual
<1> QED BY <1>4 DEF last

\* The oldest of the queue may go.
LEMMA TailIsSuffix ==
  ASSUME NEW q \in Seq(EventKeys), NEW s \in Seq(EventKeys), q # <<>>, IsSuffix(q, s)
  PROVE  IsSuffix(Tail(q), s)
<1>1. /\ Len(q) \in Nat \ {0} /\ Len(s) \in Nat /\ Len(Tail(q)) = Len(q) - 1
      /\ \A i \in 1..Len(Tail(q)) : Tail(q)[i] = q[i + 1]
  BY HeadTailProperties, LenProperties, EmptySeq
<1>2. \A i \in 1..Len(Tail(q)) : i + 1 \in 1..Len(q)
      /\ Len(s) - Len(q) + (i + 1) = Len(s) - Len(Tail(q)) + i
  BY <1>1
<1> QED BY <1>1, <1>2 DEF IsSuffix

\* The same event put at the end of both, and both cut to the same limit.
LEMMA LastOfIsSuffix ==
  ASSUME NEW q \in Seq(EventKeys), NEW s \in Seq(EventKeys), IsSuffix(q, s),
         NEW k \in EventKeys, NEW n \in Nat
  PROVE  IsSuffix(LastOf(Append(q, k), n), LastOf(Append(s, k), n))
<1> DEFINE a == Append(q, k)
           b == Append(s, k)
           la == LastOf(a, n)
           lb == LastOf(b, n)
<1>1. /\ Len(q) \in Nat /\ Len(s) \in Nat /\ Len(q) <= Len(s)
      /\ a \in Seq(EventKeys) /\ b \in Seq(EventKeys)
      /\ Len(a) = Len(q) + 1 /\ Len(b) = Len(s) + 1
  BY AppendProperties, LenProperties DEF IsSuffix
<1>2. \A i \in 1..Len(a) : a[i] = b[Len(b) - Len(a) + i]
  <2> SUFFICES ASSUME NEW i \in 1..Len(a) PROVE a[i] = b[Len(b) - Len(a) + i]
    OBVIOUS
  <2>1. CASE i = Len(q) + 1
    <3>1. a[i] = k /\ b[Len(s) + 1] = k /\ Len(b) - Len(a) + i = Len(s) + 1
      BY <1>1, <2>1, AppendProperties
    <3> QED BY <3>1
  <2>2. CASE i \in 1..Len(q)
    <3>1. Len(b) - Len(a) + i = Len(s) - Len(q) + i /\ Len(s) - Len(q) + i \in 1..Len(s)
      BY <1>1, <2>2
    <3>2. a[i] = q[i] /\ b[Len(s) - Len(q) + i] = s[Len(s) - Len(q) + i]
      BY <2>2, <3>1, AppendProperties
    <3> QED BY <2>2, <3>1, <3>2 DEF IsSuffix
  <2> QED BY <1>1, <2>1, <2>2
<1> HIDE DEF a, b
<1>3. /\ Len(la) = IF Len(a) > n THEN n ELSE Len(a)
      /\ \A i \in 1..Len(la) : la[i] = a[Len(a) - Len(la) + i]
  BY <1>1, LastOfType
<1>4. /\ Len(lb) = IF Len(b) > n THEN n ELSE Len(b)
      /\ \A i \in 1..Len(lb) : lb[i] = b[Len(b) - Len(lb) + i]
  BY <1>1, LastOfType
<1> HIDE DEF la, lb
<1>5. Len(la) \in Nat /\ Len(lb) \in Nat /\ Len(la) <= Len(lb)
      /\ Len(la) <= Len(a) /\ Len(lb) <= Len(b)
  BY <1>1, <1>3, <1>4
<1>6. ASSUME NEW i \in 1..Len(la) PROVE la[i] = lb[Len(lb) - Len(la) + i]
  <2>1. Len(a) - Len(la) + i \in 1..Len(a) /\ Len(lb) - Len(la) + i \in 1..Len(lb)
    BY <1>1, <1>5
  <2>2. la[i] = b[Len(b) - Len(a) + (Len(a) - Len(la) + i)]
    BY <1>2, <1>3, <2>1
  <2>3. lb[Len(lb) - Len(la) + i] = b[Len(b) - Len(lb) + (Len(lb) - Len(la) + i)]
    BY <1>4, <2>1
  <2>4. Len(b) - Len(a) + (Len(a) - Len(la) + i) = Len(b) - Len(lb) + (Len(lb) - Len(la) + i)
    BY <1>1, <1>5
  <2> QED BY <2>2, <2>3, <2>4
<1>7. IsSuffix(la, lb)
  BY <1>5, <1>6 DEF IsSuffix
<1> QED BY <1>7 DEF la, lb, a, b

-----------------------------------------------------------------------------
(* The invariant *)

LEMMA InitWatcher == Init => WInv
<1> SUFFICES ASSUME Init PROVE WInv
  OBVIOUS
<1>1. posted = <<>> /\ queue = <<>> /\ recent = <<>> /\ tasks = <<>> /\ main = "serving"
  BY DEF Init
<1>2. <<>> \in Seq(EventKeys) /\ Len(<<>>) = 0
  BY EmptySeq
<1> QED BY <1>1, <1>2 DEF WInv, Traffic, LoopEnded, IsSuffix

\* Every verdict of the dispatch loop takes the oldest event off the queue.
LEMMA JudgeTakes ==
  ASSUME Judge
  PROVE  /\ Take
         /\ tasks' = tasks \/ tasks' = Append(tasks, Head(queue))
BY DEF Judge, Suppress, RefuseRate, Dispatch

LEMMA NextWatcher == ASSUME WInv, [Next]_vars PROVE WInv'
<1> USE DEF WInv
<1>1. ASSUME Connect \/ ExitThread \/ EndStream \/ BreakStream \/ Reconnect PROVE WInv'
  <2>1. UNCHANGED <<posted, queue, recent, tasks, main, poll>>
    BY <1>1 DEF Connect, ExitThread, EndStream, BreakStream, Reconnect, loopside
  <2> QED BY <2>1 DEF Traffic, LoopEnded, IsSuffix
<1>2. ASSUME NEW e \in RawEvents, Receive(e) PROVE WInv'
  <2>1. UNCHANGED <<queue, recent, tasks, main, poll>>
    BY <1>2 DEF Receive, loopside
  <2>2. posted' \in Seq(EventKeys)
    <3>1. CASE Accepted(e)
      <4>1. KeyOf(e) \in EventKeys /\ posted' = Append(posted, KeyOf(e))
        BY <1>2, <3>1 DEF Receive, EventKeys
      <4> QED BY <4>1, AppendProperties DEF Traffic
    <3>2. CASE ~Accepted(e)
      BY <1>2, <3>2 DEF Receive, Traffic
    <3> QED BY <3>1, <3>2
  <2> QED BY <2>1, <2>2 DEF Traffic, LoopEnded, IsSuffix
<1>3. ASSUME Enqueue PROVE WInv'
  <2>1. /\ posted # <<>> /\ posted' = Tail(posted) /\ UNCHANGED <<tasks, main, poll>>
        /\ queue' = LastOf(Append(queue, Head(posted)), QueueMax)
        /\ recent' = LastOf(Append(recent, Head(posted)), QueueMax)
    BY <1>3 DEF Enqueue
  <2>2. posted' \in Seq(EventKeys) /\ Head(posted) \in EventKeys
    BY <2>1, HeadTailProperties DEF Traffic
  <2>3. /\ Append(queue, Head(posted)) \in Seq(EventKeys)
        /\ Append(recent, Head(posted)) \in Seq(EventKeys)
    BY <2>2, AppendProperties DEF Traffic
  <2>4. queue' \in Seq(EventKeys) /\ Len(queue') <= QueueMax
    BY <2>1, <2>3, LastOfBound
  <2>5. recent' \in Seq(EventKeys) /\ Len(recent') <= QueueMax
    BY <2>1, <2>3, LastOfBound
  <2>6. IsSuffix(queue', recent')
    BY <2>1, <2>2, LastOfIsSuffix DEF Traffic
  <2> QED BY <2>1, <2>2, <2>4, <2>5, <2>6 DEF Traffic, LoopEnded, IsSuffix
<1>4. ASSUME Judge PROVE WInv'
  <2>1. /\ poll = "getting" /\ queue # <<>> /\ queue' = Tail(queue)
        /\ UNCHANGED <<posted, main, recent>>
        /\ tasks' = tasks \/ tasks' = Append(tasks, Head(queue))
    BY <1>4, JudgeTakes DEF Take
  <2>2. Head(queue) \in EventKeys /\ queue' \in Seq(EventKeys) /\ Len(queue') = Len(queue) - 1
    BY <2>1, HeadTailProperties DEF Traffic
  <2>3. tasks' \in Seq(EventKeys)
    <3>1. Append(tasks, Head(queue)) \in Seq(EventKeys)
      BY <2>2, AppendProperties DEF Traffic
    <3> QED BY <2>1, <3>1 DEF Traffic
  <2>4. IsSuffix(queue', recent')
    BY <2>1, TailIsSuffix DEF Traffic
  <2>5. Len(queue') <= QueueMax
    BY <2>2, LenProperties DEF Traffic
  <2>6. main \notin {"stopped", "left"}
    BY <2>1 DEF LoopEnded
  <2> QED BY <2>1, <2>2, <2>3, <2>4, <2>5, <2>6 DEF Traffic, LoopEnded, IsSuffix
<1>5. ASSUME PollEnds \/ Tick \/ Signal \/ Halt \/ Join PROVE WInv'
  <2>1. UNCHANGED <<posted, queue, recent, tasks>>
    BY <1>5 DEF PollEnds, Tick, Signal, Halt, Join
  <2>2. LoopEnded'
    BY <1>5 DEF PollEnds, Tick, Signal, Halt, Join, LoopEnded
  <2> QED BY <2>1, <2>2 DEF Traffic, IsSuffix
<1>6. ASSUME NEW s \in Slots, Admit(s) \/ Finish(s) PROVE WInv'
  <2>1. /\ UNCHANGED <<posted, queue, recent, main, poll>>
        /\ tasks' = tasks \/ (tasks # <<>> /\ tasks' = Tail(tasks))
    BY <1>6 DEF Admit, Finish
  <2>2. tasks' \in Seq(EventKeys)
    BY <2>1, HeadTailProperties DEF Traffic
  <2> QED BY <2>1, <2>2 DEF Traffic, LoopEnded, IsSuffix
<1>7. ASSUME Leave PROVE WInv'
  <2>1. /\ posted' = <<>> /\ queue' = <<>> /\ recent' = <<>> /\ tasks' = <<>>
        /\ main = "stopped" /\ poll' = poll
    BY <1>7 DEF Leave
  <2>2. <<>> \in Seq(EventKeys) /\ Len(<<>>) = 0
    BY EmptySeq
  <2> QED BY <2>1, <2>2 DEF Traffic, LoopEnded, IsSuffix
<1>8. CASE UNCHANGED vars
  BY <1>8 DEF vars, Traffic, LoopEnded, IsSuffix
<1> QED BY <1>1, <1>2, <1>3, <1>4, <1>5, <1>6, <1>7, <1>8 DEF Next

LEMMA WatcherInvariant == Spec => []WInv
<1> QED BY InitWatcher, NextWatcher, PTL DEF Spec

-----------------------------------------------------------------------------
(* Theorems *)

\* However bursts and dispatches interleave, the queue holds the newest of the
\* events put into it: an overflow costs the oldest (_enqueue_or_drop).
THEOREM QueueKeepsNewest == Spec => []QueueIsNewest
<1>1. WInv => QueueIsNewest
  BY SuffixIsNewest DEF WInv
<1> QED BY <1>1, WatcherInvariant, PTL

\* A watcher that has returned starts no further analysis, whatever its thread
\* still posts (start_watcher).
THEOREM StoppedDispatchesNothing == Spec => NothingAfterStop
<1>1. WInv /\ [Next]_vars =>
        [(main \in {"stopped", "left"}) => Len(tasks') <= Len(tasks)]_vars
  <2> SUFFICES ASSUME WInv, Next, main \in {"stopped", "left"}
               PROVE  Len(tasks') <= Len(tasks)
    BY DEF vars
  <2>1. poll = "exited" /\ tasks \in Seq(EventKeys) /\ Len(tasks) \in Nat
    BY LenProperties DEF WInv, LoopEnded, Traffic
  <2>2. CASE UNCHANGED tasks
    BY <2>1, <2>2
  <2>3. ~Judge
    BY <2>1, JudgeTakes DEF Take
  <2>4. ASSUME NEW s \in Slots, Admit(s) PROVE Len(tasks') <= Len(tasks)
    <3>1. tasks # <<>> /\ tasks' = Tail(tasks)
      BY <2>4 DEF Admit
    <3>2. Len(tasks') = Len(tasks) - 1
      BY <2>1, <3>1, HeadTailProperties
    <3> QED BY <2>1, <3>2
  <2>5. CASE Leave
    BY <2>1, <2>5, EmptySeq DEF Leave
  <2> QED BY <2>2, <2>3, <2>4, <2>5
          DEF Next, Connect, ExitThread, EndStream, BreakStream, Reconnect, Receive,
              loopside, Enqueue, PollEnds, Finish, Tick, Signal, Halt, Join
<1> QED BY <1>1, WatcherInvariant, PTL DEF Spec, NothingAfterStop

-----------------------------------------------------------------------------
(* Popping old entries off the front *)

\* A set of positions has a first one.
LEMMA HasFirst ==
  ASSUME NEW n \in Nat, NEW T \in SUBSET (1..n), T # {}
  PROVE  \E x \in T : \A y \in T : x <= y
<1> DEFINE Upto(i) == T \cap (1..i)
           P == {Upto(i) : i \in T}
<1>1. IsFiniteSet(T)
  <2>1. 1 \in Int /\ n \in Int
    OBVIOUS
  <2>2. IsFiniteSet(1..n)
    BY <2>1, FS_Interval
  <2> QED BY <2>2, FS_Subset
<1>2. P \subseteq FiniteSubsetsOf(T) /\ P # {}
  <2>1. \A i \in T : Upto(i) \in SUBSET T /\ IsFiniteSet(Upto(i))
    BY <1>1, FS_Subset
  <2> HIDE DEF Upto
  <2>2. \A i \in T : Upto(i) \in FiniteSubsetsOf(T)
    BY <2>1 DEF FiniteSubsetsOf
  <2> QED BY <2>2
<1>3. PICK M \in P : \A N \in P : ~(<<N, M>> \in StrictSubsetOrdering(T))
  <2> HIDE DEF P
  <2> QED BY <1>2, FS_StrictSubsetOrderingWellFounded, WFMin
<1>4. PICK i \in T : M = Upto(i)
  BY <1>3
<1>5. \A j \in T : i <= j
  <2>1. SUFFICES ASSUME NEW j \in T, j < i PROVE FALSE
    OBVIOUS
  <2>2. Upto(j) \subseteq Upto(i) /\ Upto(j) # Upto(i)
    BY <2>1
  <2>3. <<Upto(j), Upto(i)>> \in StrictSubsetOrdering(T)
    BY <2>2 DEF StrictSubsetOrdering
  <2> QED BY <1>3, <1>4, <2>3
<1> QED BY <1>5

LEMMA PoppedType ==
  ASSUME NEW ages \in Seq(Nat), NEW limit \in Nat
  PROVE  /\ Popped(ages, limit) \in 0..Len(ages)
         /\ \A i \in 1..Popped(ages, limit) : ages[i] > limit
         /\ Popped(ages, limit) < Len(ages) => ages[Popped(ages, limit) + 1] <= limit
<1> DEFINE kept == {i \in 1..Len(ages) : ages[i] <= limit}
           Good(n) == /\ \A i \in 1..n : ages[i] > limit
                      /\ n < Len(ages) => ages[n + 1] <= limit
<1>1. Len(ages) \in Nat /\ \A i \in 1..Len(ages) : ages[i] \in Nat
  BY LenProperties
<1>2. \E n \in 0..Len(ages) : Good(n)
  <2>1. CASE kept = {}
    <3>1. Good(Len(ages))
      BY <1>1, <2>1
    <3> QED BY <1>1, <3>1
  <2>2. CASE kept # {}
    <3>1. PICK x \in kept : \A y \in kept : x <= y
      <4>1. kept \in SUBSET (1..Len(ages))
        OBVIOUS
      <4> HIDE DEF kept
      <4> QED BY <1>1, <2>2, <4>1, HasFirst
    <3>2. x - 1 \in 0..Len(ages) /\ (x - 1) + 1 = x
      BY <1>1
    <3>3. \A i \in 1..(x - 1) : ages[i] > limit
      BY <1>1, <3>1
    <3> QED BY <3>2, <3>3
  <2> QED BY <2>1, <2>2
<1> QED BY <1>2 DEF Popped

LEMMA RestProperties ==
  ASSUME NEW S, NEW s \in Seq(S), NEW n \in 0..Len(s)
  PROVE  /\ SubSeq(s, n + 1, Len(s)) \in Seq(S)
         /\ Len(SubSeq(s, n + 1, Len(s))) = Len(s) - n
         /\ \A i \in 1..(Len(s) - n) : SubSeq(s, n + 1, Len(s))[i] = s[i + n]
<1> DEFINE t == SubSeq(s, n + 1, Len(s))
<1>1. Len(s) \in Nat /\ n \in Int /\ n + 1 \in Int /\ Len(s) \in Int
  BY LenProperties
<1>2. \A i \in (n + 1)..Len(s) : s[i] \in S
  BY <1>1, ElementOfSeq
<1>3. /\ t \in Seq(S) /\ Len(t) = IF n + 1 <= Len(s) THEN Len(s) - (n + 1) + 1 ELSE 0
      /\ \A i \in 1..(Len(s) - (n + 1) + 1) : t[i] = s[(n + 1) + i - 1]
  BY <1>1, <1>2, SubSeqProperties
<1> HIDE DEF t
<1>4. Len(s) - (n + 1) + 1 = Len(s) - n /\ \A i \in 1..(Len(s) - n) : (n + 1) + i - 1 = i + n
  BY <1>1
<1>5. Len(t) = Len(s) - n /\ \A i \in 1..(Len(s) - n) : t[i] = s[i + n]
  BY <1>1, <1>3, <1>4
<1> QED BY <1>3, <1>5 DEF t

\* A window that is popped keeps what is not too old, in its place from the end.
LEMMA FreshKeeps ==
  ASSUME NEW w \in Seq(0..(Window + 1))
  PROVE  /\ Fresh(w) \in Seq(0..(Window + 1)) /\ Len(Fresh(w)) <= Len(w)
         /\ \A d \in 0..(Len(w) - 1) : w[Len(w) - d] <= Window =>
              /\ d < Len(Fresh(w))
              /\ Fresh(w)[Len(Fresh(w)) - d] = w[Len(w) - d]
<1> DEFINE n == Popped(w, Window)
<1>1. Len(w) \in Nat /\ w \in Seq(Nat) /\ Window \in Nat
  BY SeqMonotonic, LenProperties
<1>2. n \in 0..Len(w) /\ \A i \in 1..n : w[i] > Window
  BY <1>1, PoppedType
<1> HIDE DEF n
<1>3. /\ Fresh(w) \in Seq(0..(Window + 1)) /\ Len(Fresh(w)) = Len(w) - n
      /\ \A i \in 1..(Len(w) - n) : Fresh(w)[i] = w[i + n]
  BY <1>2, RestProperties DEF Fresh, n
<1>4. ASSUME NEW d \in 0..(Len(w) - 1), w[Len(w) - d] <= Window
      PROVE  d < Len(w) - n /\ Fresh(w)[Len(w) - n - d] = w[Len(w) - d]
  <2>1. Len(w) - d \in 1..Len(w) /\ w[Len(w) - d] \in Nat
    <3>1. Len(w) - d \in 1..Len(w)
      BY <1>1
    <3> QED BY <1>1, <3>1, ElementOfSeq
  <2>2. ~(Len(w) - d <= n)
    BY <1>1, <1>2, <1>4, <2>1
  <2>3. Len(w) - n - d \in 1..(Len(w) - n) /\ (Len(w) - n - d) + n = Len(w) - d
    BY <1>1, <1>2, <2>2
  <2>4. Fresh(w)[Len(w) - n - d] = w[(Len(w) - n - d) + n]
    BY <1>3, <2>3
  <2>5. d < Len(w) - n
    BY <1>1, <1>2, <2>2
  <2> QED BY <2>3, <2>4, <2>5
<1> QED BY <1>1, <1>2, <1>3, <1>4

-----------------------------------------------------------------------------
(* Types *)

Logged == [key : EventKeys, age : 0..Memory]

LEMMA MemoryType == Memory \in Nat /\ Window <= Memory /\ Cooldown <= Memory
BY DEF Memory

LEMMA SeqOf ==
  ASSUME NEW S, NEW T, NEW s \in Seq(S), \A i \in 1..Len(s) : s[i] \in T
  PROVE  s \in Seq(T)
<1>1. Len(s) \in Nat /\ 1 \in Int /\ Len(s) \in Int
  BY LenProperties
<1>2. SubSeq(s, 1, Len(s)) \in Seq(T)
  BY <1>1, SubSeqProperties
<1> QED BY <1>2, SubSeqFull

\* What a tick leaves of the log: all but the n oldest entries, each one older.
LEMMA TickLog ==
  ASSUME log \in Seq(Logged), Tick
  PROVE  \E n \in 0..Len(log) :
           /\ Len(log') = Len(log) - n /\ log' \in Seq([key : EventKeys, age : Nat])
           /\ \A i \in 1..(Len(log) - n) : /\ log'[i].key = log[i + n].key
                                         /\ log'[i].age = log[i + n].age + 1
           /\ n < Len(log) => log[n + 1].age + 1 <= Memory
<1> DEFINE aged == Aged(log)
           ages == Ages(aged)
           n == Popped(ages, Memory)
           S == [key : EventKeys, age : Nat]
<1>1. Len(log) \in Nat /\ DOMAIN log = 1..Len(log) /\ \A i \in 1..Len(log) : log[i] \in Logged
  BY LenProperties, ElementOfSeq
<1>2. \A i \in 1..Len(log) : log[i].key \in EventKeys /\ log[i].age \in Nat
  BY <1>1, MemoryType DEF Logged
<1>3. aged = [i \in 1..Len(log) |-> [log[i] EXCEPT !.age = @ + 1]]
  BY <1>1 DEF Aged
<1>4. \A i \in 1..Len(log) : /\ aged[i] \in S /\ aged[i].key = log[i].key
                            /\ aged[i].age = log[i].age + 1
  BY <1>1, <1>2, <1>3 DEF Logged
<1> HIDE DEF aged
<1>5. aged \in Seq(S) /\ Len(aged) = Len(log) /\ DOMAIN aged = 1..Len(log)
  <2> HIDE DEF S
  <2>1. aged \in [1..Len(log) -> S]
    BY <1>3, <1>4
  <2>2. aged \in Seq(S)
    BY <1>1, <2>1
  <2> QED BY <1>1, <2>1, <2>2
<1>6. ages = [i \in 1..Len(log) |-> aged[i].age]
  BY <1>5 DEF Ages
<1>7. ages \in Seq(Nat) /\ Len(ages) = Len(log)
  <2>1. \A i \in 1..Len(log) : aged[i].age \in Nat
    BY <1>2, <1>4
  <2> QED BY <1>1, <1>6, <2>1
<1>8. n \in 0..Len(log) /\ (n < Len(log) => ages[n + 1] <= Memory)
  BY <1>7, MemoryType, PoppedType
<1> HIDE DEF n
<1>9. log' = SubSeq(aged, n + 1, Len(aged))
  BY <1>5 DEF Tick, n, ages, aged
<1>10. /\ log' \in Seq(S) /\ Len(log') = Len(log) - n
       /\ \A i \in 1..(Len(log) - n) : log'[i] = aged[i + n]
  <2> HIDE DEF S
  <2>1. n \in 0..Len(aged)
    BY <1>5, <1>8
  <2>2. /\ SubSeq(aged, n + 1, Len(aged)) \in Seq(S)
        /\ Len(SubSeq(aged, n + 1, Len(aged))) = Len(aged) - n
        /\ \A i \in 1..(Len(aged) - n) : SubSeq(aged, n + 1, Len(aged))[i] = aged[i + n]
    BY <1>5, <2>1, RestProperties
  <2> QED BY <1>5, <1>9, <2>2, Zenon
<1>11. \A i \in 1..(Len(log) - n) : i + n \in 1..Len(log)
  BY <1>1, <1>8
<1>12. n < Len(log) => log[n + 1].age + 1 <= Memory
  <2> SUFFICES ASSUME n < Len(log) PROVE log[n + 1].age + 1 <= Memory
    OBVIOUS
  <2>1. n + 1 \in 1..Len(log)
    BY <1>1, <1>8
  <2> QED BY <1>4, <1>6, <1>8, <2>1
<1>13. \A i \in 1..(Len(log) - n) : /\ log'[i].key = log[i + n].key
                                    /\ log'[i].age = log[i + n].age + 1
  BY <1>4, <1>10, <1>11
<1> QED BY <1>8, <1>10, <1>12, <1>13

LEMMA InitTyped == Init => TypeOK
<1> SUFFICES ASSUME Init PROVE TypeOK
  OBVIOUS
<1>1. \A S : <<>> \in Seq(S) /\ Len(<<>>) = 0
  BY EmptySeq
<1>2. /\ posted = <<>> /\ queue = <<>> /\ recent = <<>> /\ tasks = <<>> /\ window = <<>> /\ log = <<>>
      /\ cooling = [k \in EventKeys |-> 0] /\ running = [t \in Slots |-> Idle]
      /\ stop = FALSE /\ halt = FALSE
      /\ thread \in {"connecting", "exited"} /\ poll = "getting" /\ main = "serving"
  BY DEF Init
<1>3. cooling \in [EventKeys -> 0..Cooldown] /\ running \in [Slots -> EventKeys \cup {Idle}]
  BY <1>2
<1>4. 0 <= MaxPosted /\ 0 <= QueueMax /\ 0 <= MaxTasks /\ 0 <= RateLimit
  OBVIOUS
<1>5. /\ posted \in Seq(EventKeys) /\ queue \in Seq(EventKeys) /\ recent \in Seq(EventKeys)
      /\ tasks \in Seq(EventKeys) /\ window \in Seq(0..(Window + 1))
      /\ log \in Seq([key : EventKeys, age : 0..Memory])
  BY <1>1, <1>2, Zenon
<1>6. /\ Len(posted) <= MaxPosted /\ Len(queue) <= QueueMax /\ Len(recent) <= QueueMax
      /\ Len(tasks) <= MaxTasks /\ Len(window) <= RateLimit
  BY <1>1, <1>2, <1>4, Zenon
<1> QED BY <1>2, <1>3, <1>5, <1>6 DEF TypeOK

\* The traffic, typed as before but with its bounds.
Carried == /\ posted \in Seq(EventKeys) /\ Len(posted) <= MaxPosted
           /\ queue \in Seq(EventKeys) /\ Len(queue) <= QueueMax
           /\ recent \in Seq(EventKeys) /\ Len(recent) <= QueueMax
           /\ tasks \in Seq(EventKeys) /\ Len(tasks) <= MaxTasks

LEMMA NextCarried == ASSUME TypeOK, [Next]_vars PROVE Carried'
<1>1. Carried
  BY DEF TypeOK, Carried
<1>2. ASSUME UNCHANGED <<posted, queue, recent, tasks>> PROVE Carried'
  BY <1>1, <1>2 DEF Carried
<1>3. ASSUME NEW e \in RawEvents, Receive(e) PROVE Carried'
  <2>1. CASE Accepted(e)
    <3>1. /\ posted' = Append(posted, KeyOf(e)) /\ Len(posted) < MaxPosted
          /\ UNCHANGED <<queue, recent, tasks>> /\ KeyOf(e) \in EventKeys
      BY <1>3, <2>1 DEF Receive, loopside, EventKeys
    <3>2. posted' \in Seq(EventKeys) /\ Len(posted') = Len(posted) + 1 /\ Len(posted) \in Nat
      BY <1>1, <3>1, AppendProperties, LenProperties DEF Carried
    <3> QED BY <1>1, <3>1, <3>2 DEF Carried
  <2>2. CASE ~Accepted(e)
    BY <1>2, <1>3, <2>2 DEF Receive, loopside
  <2> QED BY <2>1, <2>2
<1>4. ASSUME Enqueue PROVE Carried'
  <2>1. /\ posted # <<>> /\ posted' = Tail(posted) /\ UNCHANGED tasks
        /\ queue' = LastOf(Append(queue, Head(posted)), QueueMax)
        /\ recent' = LastOf(Append(recent, Head(posted)), QueueMax)
    BY <1>4 DEF Enqueue
  <2>2. posted' \in Seq(EventKeys) /\ Head(posted) \in EventKeys /\ Len(posted') <= MaxPosted
    BY <1>1, <2>1, HeadTailProperties, LenProperties DEF Carried
  <2>3. /\ Append(queue, Head(posted)) \in Seq(EventKeys)
        /\ Append(recent, Head(posted)) \in Seq(EventKeys)
    BY <1>1, <2>2, AppendProperties DEF Carried
  <2>4. queue' \in Seq(EventKeys) /\ Len(queue') <= QueueMax
    BY <2>1, <2>3, LastOfBound
  <2>5. recent' \in Seq(EventKeys) /\ Len(recent') <= QueueMax
    BY <2>1, <2>3, LastOfBound
  <2> QED BY <1>1, <2>1, <2>2, <2>4, <2>5 DEF Carried
<1>5. ASSUME Judge PROVE Carried'
  <2>1. /\ queue # <<>> /\ queue' = Tail(queue) /\ UNCHANGED <<posted, recent>>
        /\ \/ tasks' = tasks
           \/ tasks' = Append(tasks, Head(queue)) /\ Len(tasks) < MaxTasks
    BY <1>5 DEF Judge, Suppress, RefuseRate, Dispatch, Take
  <2>2. Head(queue) \in EventKeys /\ queue' \in Seq(EventKeys) /\ Len(queue') <= QueueMax
    BY <1>1, <2>1, HeadTailProperties, LenProperties DEF Carried
  <2>3. /\ Append(tasks, Head(queue)) \in Seq(EventKeys) /\ Len(tasks) \in Nat
        /\ Len(Append(tasks, Head(queue))) = Len(tasks) + 1
    BY <1>1, <2>2, AppendProperties, LenProperties DEF Carried
  <2>4. tasks' \in Seq(EventKeys) /\ Len(tasks') <= MaxTasks
    <3>1. CASE tasks' = tasks
      BY <1>1, <3>1 DEF Carried
    <3>2. CASE tasks' = Append(tasks, Head(queue)) /\ Len(tasks) < MaxTasks
      <4>1. Len(tasks) + 1 <= MaxTasks
        BY <2>3, <3>2
      <4> QED BY <2>3, <3>2, <4>1, Zenon
    <3> QED BY <2>1, <3>1, <3>2
  <2> QED BY <1>1, <2>1, <2>2, <2>4 DEF Carried
<1>6. ASSUME NEW s \in Slots, Admit(s) PROVE Carried'
  <2>1. tasks # <<>> /\ tasks' = Tail(tasks) /\ UNCHANGED <<posted, queue, recent>>
    BY <1>6 DEF Admit
  <2>2. tasks' \in Seq(EventKeys) /\ Len(tasks') <= MaxTasks
    BY <1>1, <2>1, HeadTailProperties, LenProperties DEF Carried
  <2> QED BY <1>1, <2>1, <2>2 DEF Carried
<1>7. ASSUME Leave PROVE Carried'
  <2>1. posted' = <<>> /\ queue' = <<>> /\ recent' = <<>> /\ tasks' = <<>>
    BY <1>7 DEF Leave
  <2>2. <<>> \in Seq(EventKeys) /\ Len(<<>>) = 0
    BY EmptySeq
  <2> QED BY <2>1, <2>2 DEF Carried
<1> QED BY <1>2, <1>3, <1>4, <1>5, <1>6, <1>7
        DEF Next, Connect, ExitThread, EndStream, BreakStream, Reconnect, loopside,
            PollEnds, Finish, Tick, Signal, Halt, Join, vars

\* What the pace of dispatches is kept with.
Timed == /\ cooling \in [EventKeys -> 0..Cooldown]
         /\ window \in Seq(0..(Window + 1)) /\ Len(window) <= RateLimit
         /\ log \in Seq(Logged)

\* Only verdicts and the clock touch it.
LEMMA PaceAside ==
  ASSUME [Next]_vars
  PROVE  Judge \/ Tick \/ UNCHANGED <<cooling, window, log>>
BY DEF Next, Connect, ExitThread, Receive, EndStream, BreakStream, Reconnect, loopside,
       Enqueue, PollEnds, Admit, Finish, Signal, Halt, Join, Leave, vars

LEMMA JudgeTimed == ASSUME TypeOK, Judge PROVE Timed'
<1>1. Timed /\ queue \in Seq(EventKeys) /\ queue # <<>>
  BY DEF TypeOK, Timed, Logged, Judge, Suppress, RefuseRate, Dispatch, Take
<1>2. Head(queue) \in EventKeys
  BY <1>1, HeadTailProperties
<1>3. Fresh(window) \in Seq(0..(Window + 1)) /\ Len(Fresh(window)) <= Len(window)
      /\ Len(window) \in Nat /\ Len(Fresh(window)) \in Nat
  <2>1. Fresh(window) \in Seq(0..(Window + 1)) /\ Len(Fresh(window)) <= Len(window)
    BY <1>1, FreshKeeps DEF Timed
  <2> QED BY <1>1, <2>1, LenProperties DEF Timed
<1>4. CASE Suppress
  BY <1>1, <1>4 DEF Suppress, Timed
<1>5. CASE RefuseRate
  <2>1. window' = Fresh(window) /\ UNCHANGED <<cooling, log>>
    BY <1>5 DEF RefuseRate
  <2>2. Len(window') <= RateLimit
    BY <1>1, <1>3, <2>1 DEF Timed
  <2> QED BY <1>1, <1>3, <2>1, <2>2 DEF Timed
<1>6. CASE Dispatch
  <2> DEFINE d == [key |-> Head(queue), age |-> 0]
  <2>1. /\ cooling' = [cooling EXCEPT ![Head(queue)] = Cooldown]
        /\ window' = Append(Fresh(window), 0) /\ Len(Fresh(window)) < RateLimit
        /\ log' = Append(log, d)
    BY <1>6 DEF Dispatch
  <2>2. d \in Logged
    BY <1>2, MemoryType DEF Logged
  <2> HIDE DEF d
  <2>3. log' \in Seq(Logged)
    BY <1>1, <2>1, <2>2, AppendProperties DEF Timed
  <2>4. 0 \in 0..(Window + 1)
    OBVIOUS
  <2>5. Append(Fresh(window), 0) \in Seq(0..(Window + 1))
        /\ Len(Append(Fresh(window), 0)) = Len(Fresh(window)) + 1
    BY <1>3, <2>4, AppendProperties
  <2>6. Len(Fresh(window)) + 1 <= RateLimit
    BY <1>3, <2>1
  <2>7. cooling' \in [EventKeys -> 0..Cooldown]
    BY <1>1, <2>1 DEF Timed
  <2> QED BY <2>1, <2>3, <2>5, <2>6, <2>7 DEF Timed
<1> QED BY <1>4, <1>5, <1>6 DEF Judge

LEMMA LogEntries ==
  ASSUME Timed
  PROVE  /\ Len(log) \in Nat /\ DOMAIN log = 1..Len(log)
         /\ \A i \in 1..Len(log) : log[i].key \in EventKeys /\ log[i].age \in 0..Memory
         /\ \A k \in EventKeys : cooling[k] \in 0..Cooldown
<1>1. \A i \in 1..Len(log) : log[i] \in Logged
  BY ElementOfSeq DEF Timed
<1> QED BY <1>1, LenProperties DEF Timed, Logged

LEMMA OlderFirst ==
  ASSUME Timed, Cooled, NEW i \in 1..Len(log), NEW j \in 1..Len(log), i <= j
  PROVE  log[i].age >= log[j].age
<1>1. log[i].age \in Nat /\ log[j].age \in Nat /\ DOMAIN log = 1..Len(log)
  BY LogEntries, MemoryType
<1>2. CASE i = j
  BY <1>1, <1>2
<1>3. CASE i < j
  BY <1>1, <1>3 DEF Cooled
<1> QED BY <1>2, <1>3

LEMMA TickTimed == ASSUME TypeOK, Cooled, Tick PROVE Timed'
<1>1. Timed /\ Len(window) \in Nat /\ DOMAIN window = 1..Len(window)
  BY LenProperties DEF TypeOK, Timed, Logged
<1>2. cooling' \in [EventKeys -> 0..Cooldown]
  BY <1>1 DEF Tick, Timed
<1>3. window' \in Seq(0..(Window + 1)) /\ Len(window') = Len(window)
  <2>1. window' = [i \in 1..Len(window) |-> Older(window[i], Window + 1)]
    BY <1>1 DEF Tick
  <2>2. \A i \in 1..Len(window) : Older(window[i], Window + 1) \in 0..(Window + 1)
    BY <1>1, ElementOfSeq DEF Timed, Older
  <2>3. window' \in [1..Len(window) -> 0..(Window + 1)]
    BY <2>1, <2>2
  <2>4. window' \in Seq(0..(Window + 1))
    BY <1>1, <2>3
  <2> QED BY <1>1, <2>3, <2>4, LenProperties
<1>4. log' \in Seq(Logged)
  <2>1. PICK n \in 0..Len(log) :
          /\ Len(log') = Len(log) - n /\ log' \in Seq([key : EventKeys, age : Nat])
          /\ \A i \in 1..(Len(log) - n) : /\ log'[i].key = log[i + n].key
                                        /\ log'[i].age = log[i + n].age + 1
          /\ n < Len(log) => log[n + 1].age + 1 <= Memory
    BY <1>1, TickLog DEF Timed
  <2>2. Len(log) \in Nat /\ DOMAIN log = 1..Len(log)
    BY <1>1, LenProperties DEF Timed
  <2>3. ASSUME NEW i \in 1..Len(log') PROVE log'[i] \in Logged
    <3>1. log'[i] \in [key : EventKeys, age : Nat]
      BY <2>1, ElementOfSeq
    <3>2. i + n \in 1..Len(log) /\ n + 1 \in 1..Len(log) /\ n < Len(log)
      BY <2>1, <2>2
    <3>3. log[i + n] \in Logged /\ log[n + 1] \in Logged
      BY <1>1, <3>2, ElementOfSeq DEF Timed
    <3>4. log[i + n].age \in Nat /\ log[n + 1].age \in Nat
      BY <3>3, MemoryType DEF Logged
    <3>5. log[n + 1].age >= log[i + n].age
      <4>1. n + 1 <= i + n
        BY <2>2, <3>2
      <4> QED BY <1>1, <3>2, <4>1, OlderFirst
    <3>6. log'[i].age <= Memory
      <4>1. i \in 1..(Len(log) - n)
        BY <2>1
      <4>2. log'[i].age = log[i + n].age + 1
        BY <2>1, <4>1
      <4>3. log[n + 1].age + 1 <= Memory
        BY <2>1, <3>2
      <4>4. \A x, y \in Nat : y >= x /\ y + 1 <= Memory => x + 1 <= Memory
        BY MemoryType
      <4> QED BY <3>4, <3>5, <4>2, <4>3, <4>4
    <3> QED BY <3>1, <3>6, MemoryType DEF Logged
  <2> QED BY <2>1, <2>3, SeqOf
<1> QED BY <1>1, <1>2, <1>3, <1>4 DEF Timed

LEMMA NextTyped == ASSUME TypeOK, Cooled, [Next]_vars PROVE TypeOK'
<1>1. Carried'
  BY NextCarried
<1>2. Timed'
  <2>1. CASE UNCHANGED <<cooling, window, log>>
    BY <2>1 DEF TypeOK, Timed, Logged
  <2> QED BY <2>1, PaceAside, JudgeTimed, TickTimed
<1>3. /\ thread' \in {"connecting", "streaming", "waiting", "exited"}
      /\ poll' \in {"getting", "exited"} /\ main' \in {"serving", "joining", "stopped", "left"}
      /\ stop' \in BOOLEAN /\ halt' \in BOOLEAN
  BY DEF TypeOK, Next, Connect, ExitThread, EndStream, BreakStream, Reconnect, Receive,
         loopside, Enqueue, Judge, Suppress, RefuseRate, Dispatch, Take, NextPoll, PollEnds,
         Admit, Finish, Tick, Signal, Halt, Join, Leave, vars
<1>4. running' \in [Slots -> EventKeys \cup {Idle}]
  <2>1. ASSUME NEW s \in Slots, Admit(s) PROVE running' \in [Slots -> EventKeys \cup {Idle}]
    <3>1. Head(tasks) \in EventKeys
      BY <2>1, HeadTailProperties DEF Admit, TypeOK
    <3> QED BY <2>1, <3>1 DEF Admit, TypeOK
  <2>2. ASSUME NEW s \in Slots, Finish(s) PROVE running' \in [Slots -> EventKeys \cup {Idle}]
    BY <2>2 DEF Finish, TypeOK
  <2>3. CASE Leave
    BY <2>3 DEF Leave
  <2> QED BY <2>1, <2>2, <2>3
          DEF TypeOK, Next, Connect, ExitThread, EndStream, BreakStream, Reconnect, Receive,
              loopside, Enqueue, Judge, Suppress, RefuseRate, Dispatch, Take, PollEnds,
              Tick, Signal, Halt, Join, vars
<1> QED BY <1>1, <1>2, <1>3, <1>4 DEF Carried, Timed, Logged, TypeOK

-----------------------------------------------------------------------------
(* Pace *)

\* A refusal only pops what is too old.
LEMMA RefusePaced == ASSUME TypeOK, Paced, RefuseRate PROVE Paced'
<1>1. Timed /\ window' = Fresh(window) /\ UNCHANGED <<cooling, log>>
  BY DEF TypeOK, Timed, Logged, RefuseRate
<1>2. Len(log) \in Nat /\ Len(window) \in Nat /\ DOMAIN log = 1..Len(log)
  BY <1>1, LogEntries, LenProperties DEF Timed
<1>3. ASSUME NEW i \in 1..Len(log), log[i].age <= Window
      PROVE  /\ Len(log) - i < Len(window')
             /\ window'[Len(window') - (Len(log) - i)] = log[i].age
  <2>1. /\ Len(log) - i < Len(window)
        /\ window[Len(window) - (Len(log) - i)] = log[i].age
    BY <1>2, <1>3 DEF Paced, Remembered
  <2>2. Len(log) - i \in 0..(Len(window) - 1)
    BY <1>2, <2>1
  <2> QED BY <1>1, <1>3, <2>1, <2>2, FreshKeeps DEF Timed
<1>4. Remembered'
  BY <1>1, <1>2, <1>3 DEF Remembered
<1>5. Spaced' /\ Cooled'
  BY <1>1 DEF Paced, Spaced, Cooled
<1> QED BY <1>4, <1>5 DEF Paced

\* A dispatch finds its key cooled down, and the dispatch RateLimit places back out
\* of the window.
LEMMA DispatchPaced == ASSUME TypeOK, Paced, Dispatch PROVE Paced'
<1> DEFINE k == Head(queue)
           n == Len(log)
           fresh == Fresh(window)
<1>1. Timed /\ queue \in Seq(EventKeys) /\ queue # <<>>
  BY DEF TypeOK, Timed, Logged, Dispatch, Take
<1>2. k \in EventKeys
  BY <1>1, HeadTailProperties
<1>3. /\ n \in Nat /\ DOMAIN log = 1..n
      /\ \A i \in 1..n : log[i].key \in EventKeys /\ log[i].age \in Nat
      /\ \A q \in EventKeys : cooling[q] \in Nat
  BY <1>1, LogEntries, MemoryType
<1>4. /\ cooling[k] = 0 /\ cooling' = [cooling EXCEPT ![k] = Cooldown]
      /\ window' = Append(fresh, 0) /\ Len(fresh) < RateLimit
      /\ log' = Append(log, [key |-> k, age |-> 0])
  BY DEF Dispatch
<1> HIDE DEF k
<1>5. /\ Len(log') = n + 1 /\ DOMAIN log' = 1..(n + 1)
      /\ \A i \in 1..n : log'[i] = log[i]
      /\ log'[n + 1] = [key |-> k, age |-> 0]
  <2> DEFINE d == [key |-> k, age |-> 0]
  <2>1. d \in Logged
    BY <1>2, MemoryType DEF Logged
  <2> HIDE DEF d
  <2>2. log \in Seq(Logged) /\ log' = Append(log, d)
    BY <1>1, <1>4 DEF Timed, d
  <2>3. /\ Len(log') = n + 1 /\ DOMAIN log' = 1..(n + 1)
        /\ \A i \in 1..n : log'[i] = log[i]
        /\ log'[n + 1] = d
    BY <2>1, <2>2
  <2> QED BY <2>3 DEF d
<1>6. log'[n + 1].key = k /\ log'[n + 1].age = 0
  BY <1>5
<1>7. /\ Len(window) \in Nat /\ Len(fresh) \in Nat
      /\ \A d \in 0..(Len(window) - 1) : window[Len(window) - d] <= Window =>
           d < Len(fresh) /\ fresh[Len(fresh) - d] = window[Len(window) - d]
      /\ Len(window') = Len(fresh) + 1 /\ window'[Len(fresh) + 1] = 0
      /\ \A i \in 1..Len(fresh) : window'[i] = fresh[i]
  <2>1. fresh \in Seq(0..(Window + 1)) /\ Len(window) \in Nat
    BY <1>1, FreshKeeps, LenProperties DEF Timed
  <2>2. 0 \in 0..(Window + 1)
    OBVIOUS
  <2>3. \A d \in 0..(Len(window) - 1) : window[Len(window) - d] <= Window =>
           d < Len(fresh) /\ fresh[Len(fresh) - d] = window[Len(window) - d]
    BY <1>1, FreshKeeps DEF Timed
  <2> HIDE DEF fresh
  <2> QED BY <1>4, <2>1, <2>2, <2>3, AppendProperties, LenProperties
<1> HIDE DEF fresh
<1>8. ASSUME NEW i \in 1..n, log[i].age <= Window
      PROVE  n - i < Len(fresh) /\ fresh[Len(fresh) - (n - i)] = log[i].age
  <2>1. n - i < Len(window) /\ window[Len(window) - (n - i)] = log[i].age
    BY <1>3, <1>8 DEF Paced, Remembered
  <2>2. n - i \in 0..(Len(window) - 1)
    BY <1>3, <1>7, <2>1
  <2> QED BY <1>7, <1>8, <2>1, <2>2
<1> HIDE DEF n
<1>9. Remembered'
  <2> SUFFICES ASSUME NEW i \in 1..(n + 1), log'[i].age <= Window
               PROVE  /\ (n + 1) - i < Len(window')
                      /\ window'[Len(window') - ((n + 1) - i)] = log'[i].age
    BY <1>5 DEF Remembered
  <2>1. CASE i = n + 1
    <3>1. (n + 1) - i = 0 /\ Len(window') - ((n + 1) - i) = Len(fresh) + 1
      BY <1>3, <1>7, <2>1
    <3> QED BY <1>6, <1>7, <2>1, <3>1
  <2>2. CASE i \in 1..n
    <3>1. n - i < Len(fresh) /\ fresh[Len(fresh) - (n - i)] = log[i].age
      BY <1>5, <1>8, <2>2
    <3>2. /\ Len(fresh) - (n - i) \in 1..Len(fresh)
          /\ Len(window') - ((n + 1) - i) = Len(fresh) - (n - i)
          /\ (n + 1) - i < Len(window')
      BY <1>3, <1>7, <2>2, <3>1
    <3> QED BY <1>5, <1>7, <2>2, <3>1, <3>2
  <2> QED BY <1>3, <2>1, <2>2
<1>10. Spaced'
  <2> SUFFICES ASSUME NEW i \in 1..(n + 1), i > RateLimit
               PROVE  log'[i - RateLimit].age - log'[i].age > Window
    BY <1>5 DEF Spaced
  <2>1. CASE i \in 1..n
    <3>1. i - RateLimit \in 1..n
      BY <1>3, <2>1
    <3> QED BY <1>3, <1>5, <2>1, <3>1 DEF Paced, Spaced
  <2>2. CASE i = n + 1
    <3>1. RateLimit > 0 /\ i - RateLimit \in 1..n
      BY <1>3, <1>4, <1>7, <2>2
    <3>2. ~(log[i - RateLimit].age <= Window)
      <4>1. ASSUME log[i - RateLimit].age <= Window PROVE FALSE
        <5>1. n - (i - RateLimit) < Len(fresh)
          BY <1>8, <3>1, <4>1
        <5> QED BY <1>3, <1>4, <1>7, <2>2, <5>1
      <4> QED BY <4>1
    <3> QED BY <1>3, <1>5, <1>6, <2>2, <3>1, <3>2
  <2> QED BY <1>3, <2>1, <2>2
<1>11. \A i \in 1..n : /\ log[i].age + cooling[log[i].key] >= Cooldown
                       /\ log[i].key = k => log[i].age >= Cooldown
  <2>1. \A i \in 1..n : log[i].age + cooling[log[i].key] >= Cooldown
    BY <1>3 DEF Paced, Cooled
  <2>2. ASSUME NEW i \in 1..n, log[i].key = k PROVE log[i].age >= Cooldown
    <3>1. log[i].age + cooling[k] >= Cooldown
      BY <2>1, <2>2
    <3>2. log[i].age \in Nat /\ cooling[k] = 0
      BY <1>3, <1>4
    <3> QED BY <3>1, <3>2
  <2> QED BY <2>1, <2>2
<1>12. Cooled'
  <2>1. ASSUME NEW i \in 1..(n + 1), NEW j \in 1..(n + 1), i < j
        PROVE  /\ log'[i].age >= log'[j].age
               /\ log'[i].key = log'[j].key => log'[i].age - log'[j].age >= Cooldown
    <3>1. i \in 1..n
      BY <1>3, <2>1
    <3>2. CASE j \in 1..n
      BY <1>3, <1>5, <2>1, <3>1, <3>2 DEF Paced, Cooled
    <3>3. CASE j = n + 1
      BY <1>3, <1>5, <1>6, <1>11, <3>1, <3>3
    <3> QED BY <1>3, <3>2, <3>3
  <2>2. ASSUME NEW i \in 1..(n + 1)
        PROVE  log'[i].age + cooling'[log'[i].key] >= Cooldown
    <3>1. CASE i = n + 1
      <4>1. cooling'[k] = Cooldown
        BY <1>1, <1>2, <1>4 DEF Timed
      <4> QED BY <1>6, <3>1, <4>1
    <3>2. CASE i \in 1..n
      <4>1. cooling'[log[i].key] = cooling[log[i].key] \/ cooling'[log[i].key] = Cooldown
        BY <1>1, <1>3, <1>4, <3>2 DEF Timed
      <4> QED BY <1>3, <1>5, <1>11, <3>2, <4>1
    <3> QED BY <1>3, <3>1, <3>2
  <2> QED BY <1>5, <2>1, <2>2 DEF Cooled
<1> QED BY <1>9, <1>10, <1>12 DEF Paced

\* The clock makes every entry older by one, the log's and the window's alike.
LEMMA TickPaced == ASSUME TypeOK, Paced, Tick PROVE Paced'
<1> DEFINE m == Len(log)
           w == Len(window)
<1>1. /\ Timed /\ m \in Nat /\ w \in Nat /\ DOMAIN log = 1..m /\ DOMAIN window = 1..w
      /\ \A i \in 1..m : log[i].key \in EventKeys /\ log[i].age \in Nat
      /\ \A k \in EventKeys : cooling[k] \in Nat
  <2>1. Timed
    BY DEF TypeOK, Timed, Logged
  <2> QED BY <2>1, LogEntries, MemoryType, LenProperties DEF Timed
<1>2. PICK n \in 0..m :
        /\ Len(log') = m - n /\ log' \in Seq([key : EventKeys, age : Nat])
        /\ \A i \in 1..(m - n) : /\ log'[i].key = log[i + n].key
                                  /\ log'[i].age = log[i + n].age + 1
  BY <1>1, TickLog DEF Timed
<1>3. DOMAIN log' = 1..(m - n) /\ m - n \in Nat
  BY <1>1, <1>2, LenProperties
<1>4. /\ Len(window') = w
      /\ \A i \in 1..w : window[i] <= Window => window'[i] = window[i] + 1
  <2>1. window' = [i \in 1..w |-> Older(window[i], Window + 1)]
    BY <1>1 DEF Tick
  <2>2. Len(window') = w
    BY <1>1, <2>1
  <2>3. ASSUME NEW i \in 1..w, window[i] <= Window PROVE window'[i] = window[i] + 1
    <3>1. window[i] \in Nat
      BY <1>1, ElementOfSeq DEF Timed
    <3> QED BY <2>1, <2>3, <3>1 DEF Older
  <2> QED BY <2>2, <2>3
<1>5. \A i \in 1..(m - n) : i + n \in 1..m /\ (m - n) - i = m - (i + n)
  BY <1>1, <1>2
<1> HIDE DEF m, w
<1>6. Remembered'
  <2> SUFFICES ASSUME NEW i \in 1..(m - n), log'[i].age <= Window
               PROVE  /\ (m - n) - i < w
                      /\ window'[w - ((m - n) - i)] = log'[i].age
    BY <1>2, <1>3, <1>4 DEF Remembered
  <2>1. i + n \in 1..m /\ (m - n) - i = m - (i + n) /\ log[i + n].age \in Nat
    BY <1>1, <1>5
  <2>2. log'[i].age = log[i + n].age + 1 /\ log[i + n].age <= Window
    BY <1>2, <2>1
  <2>3. /\ m - (i + n) < w
        /\ window[w - (m - (i + n))] = log[i + n].age
    BY <1>1, <2>1, <2>2 DEF Paced, Remembered, m, w
  <2>4. w - (m - (i + n)) \in 1..w
    BY <1>1, <2>1, <2>3
  <2> QED BY <1>4, <2>1, <2>2, <2>3, <2>4
<1>7. Spaced'
  <2> SUFFICES ASSUME NEW i \in 1..(m - n), i > RateLimit
               PROVE  log'[i - RateLimit].age - log'[i].age > Window
    BY <1>3 DEF Spaced
  <2>1. /\ i - RateLimit \in 1..(m - n) /\ (i - RateLimit) + n = (i + n) - RateLimit
        /\ i + n > RateLimit
    BY <1>1, <1>2, <1>3
  <2>2. i + n \in 1..m /\ (i + n) - RateLimit \in 1..m
    BY <1>5, <2>1
  <2>3. log[(i + n) - RateLimit].age - log[i + n].age > Window
    BY <1>1, <2>1, <2>2 DEF Paced, Spaced
  <2>4. /\ log'[i - RateLimit].age = log[(i + n) - RateLimit].age + 1
        /\ log'[i].age = log[i + n].age + 1
    BY <1>2, <2>1
  <2> QED BY <1>1, <2>2, <2>3, <2>4
<1>8. Cooled'
  <2>1. ASSUME NEW i \in 1..(m - n), NEW j \in 1..(m - n), i < j
        PROVE  /\ log'[i].age >= log'[j].age
               /\ log'[i].key = log'[j].key => log'[i].age - log'[j].age >= Cooldown
    <3>1. i + n \in 1..m /\ j + n \in 1..m /\ i + n < j + n
      BY <1>1, <1>2, <1>5, <2>1
    <3>2. /\ log[i + n].age >= log[j + n].age
          /\ log[i + n].key = log[j + n].key => log[i + n].age - log[j + n].age >= Cooldown
      BY <1>1, <3>1 DEF Paced, Cooled
    <3>3. /\ log'[i].key = log[i + n].key /\ log'[i].age = log[i + n].age + 1
          /\ log'[j].key = log[j + n].key /\ log'[j].age = log[j + n].age + 1
      BY <1>2
    <3>4. log[i + n].age \in Nat /\ log[j + n].age \in Nat
      BY <1>1, <3>1
    <3> DEFINE a == log[i + n].age
               b == log[j + n].age
    <3>5. a + 1 >= b + 1 /\ (a + 1) - (b + 1) = a - b
      <4> HIDE DEF a, b
      <4>1. a \in Nat /\ b \in Nat /\ a >= b
        BY <3>2, <3>4 DEF a, b
      <4> QED BY <4>1
    <3> QED BY <3>2, <3>3, <3>5
  <2>2. ASSUME NEW i \in 1..(m - n)
        PROVE  log'[i].age + cooling'[log'[i].key] >= Cooldown
    <3>1. i + n \in 1..m
      BY <1>5
    <3> DEFINE k == log[i + n].key
               a == log[i + n].age
    <3>2. k \in EventKeys /\ a \in Nat /\ cooling[k] \in Nat /\ a + cooling[k] >= Cooldown
      BY <1>1, <3>1 DEF Paced, Cooled
    <3>3. log'[i].key = k /\ log'[i].age = a + 1
      BY <1>2
    <3> HIDE DEF k, a
    <3>4. cooling'[k] = IF cooling[k] > 0 THEN cooling[k] - 1 ELSE 0
      BY <3>2 DEF Tick
    <3> QED BY <3>2, <3>3, <3>4
  <2> QED BY <1>3, <2>1, <2>2 DEF Cooled
<1> QED BY <1>6, <1>7, <1>8 DEF Paced

LEMMA InitPaced == Init => Paced
<1> SUFFICES ASSUME Init PROVE Paced
  OBVIOUS
<1>1. log = <<>> /\ DOMAIN log = {}
  BY DEF Init
<1> QED BY <1>1 DEF Paced, Remembered, Spaced, Cooled

LEMMA NextPaced == ASSUME TypeOK, Paced, [Next]_vars PROVE Paced'
<1>1. CASE UNCHANGED <<cooling, window, log>>
  BY <1>1 DEF Paced, Remembered, Spaced, Cooled
<1>2. CASE Suppress
  BY <1>1, <1>2 DEF Suppress
<1> QED BY <1>1, <1>2, PaceAside, RefusePaced, DispatchPaced, TickPaced DEF Judge

\* Entries of one window lie within RateLimit places of the first of them.
LEMMA PacedMeans == ASSUME TypeOK, Paced PROVE PacedDispatch
<1> DEFINE m == Len(log)
<1>1. /\ Timed /\ m \in Nat /\ DOMAIN log = 1..m /\ RateLimit \in Nat /\ Window \in Nat
      /\ \A i \in 1..m : log[i].age \in Nat
  <2>1. Timed
    BY DEF TypeOK, Timed, Logged
  <2> QED BY <2>1, LogEntries, MemoryType
<1>2. ASSUME NEW a \in 0..Memory
      PROVE  Cardinality({i \in DOMAIN log : log[i].age \in a..(a + Window)}) <= RateLimit
  <2> DEFINE S == {i \in DOMAIN log : log[i].age \in a..(a + Window)}
  <2>1. CASE S = {}
    <3>1. Cardinality({}) = 0 /\ 0 <= RateLimit
      BY <1>1, FS_EmptySet
    <3> QED BY <2>1, <3>1, Zenon
  <2>2. CASE S # {}
    <3>1. S \in SUBSET (1..m) /\ S \subseteq Nat /\ a \in Nat
      BY <1>1, MemoryType
    <3>2. PICK f \in S : \A i \in S : f <= i
      <4> HIDE DEF S, m
      <4> QED BY <1>1, <2>2, <3>1, HasFirst
    <3>3. f \in 1..m /\ log[f].age <= a + Window /\ f \in Nat
      BY <1>1, <3>1, <3>2
    <3>4. ASSUME NEW i \in S PROVE i \in f..(f + RateLimit - 1)
      <4>1. i \in 1..m /\ log[i].age >= a /\ f <= i
        BY <1>1, <3>1, <3>2
      <4>2. ASSUME i > f + RateLimit - 1 PROVE FALSE
        <5>1. i > RateLimit /\ i - RateLimit \in 1..m /\ f <= i - RateLimit
          BY <1>1, <3>3, <4>1, <4>2
        <5>2. log[i - RateLimit].age - log[i].age > Window
          BY <1>1, <4>1, <5>1 DEF Paced, Spaced
        <5>3. log[f].age >= log[i - RateLimit].age
          BY <1>1, <3>3, <5>1, OlderFirst DEF Paced
        <5> QED BY <1>1, <3>1, <3>3, <4>1, <5>1, <5>2, <5>3
      <4> QED BY <1>1, <3>3, <4>1, <4>2
    <3>5. f + RateLimit - 1 \in Int /\ f \in Int
      BY <1>1, <3>3
    <3>6. IsFiniteSet(f..(f + RateLimit - 1)) /\ Cardinality(f..(f + RateLimit - 1)) <= RateLimit
      <4> DEFINE last == f + RateLimit - 1
      <4>1. last \in Int /\ (f > last => 0 <= RateLimit) /\ (~(f > last) => last - f + 1 <= RateLimit)
        BY <1>1, <3>3
      <4> HIDE DEF last
      <4>2. /\ IsFiniteSet(f..last)
            /\ Cardinality(f..last) = IF f > last THEN 0 ELSE last - f + 1
        BY <3>5, <4>1, FS_Interval
      <4>3. IsFiniteSet(f..last) /\ Cardinality(f..last) <= RateLimit
        BY <4>1, <4>2
      <4> QED BY <4>3 DEF last
    <3> HIDE DEF S
    <3>7. S \subseteq f..(f + RateLimit - 1)
      BY <3>4
    <3>8. IsFiniteSet(S) /\ Cardinality(S) <= Cardinality(f..(f + RateLimit - 1))
      BY <3>6, <3>7, FS_Subset
    <3>9. Cardinality(S) \in Nat /\ Cardinality(f..(f + RateLimit - 1)) \in Nat
      BY <3>6, <3>8, FS_CardinalityType
    <3>10. Cardinality(S) <= RateLimit
      BY <1>1, <3>6, <3>8, <3>9
    <3> QED BY <3>10 DEF S
  <2> QED BY <2>1, <2>2
<1> QED BY <1>2 DEF Paced, Cooled, PacedDispatch

LEMMA PaceHolds == Spec => [](TypeOK /\ Paced)
<1>1. Init => TypeOK /\ Paced
  BY InitTyped, InitPaced
<1>2. TypeOK /\ Paced /\ [Next]_vars => (TypeOK /\ Paced)'
  BY NextTyped, NextPaced DEF Paced
<1> QED BY <1>1, <1>2, PTL DEF Spec

\* The state of the watcher stays in range: no queue, window or cooldown outgrows
\* its limit, and the log holds no dispatch older than it remembers.
THEOREM TypeCorrect == Spec => []TypeOK
BY PaceHolds, PTL

\* However events burst and repeat, no interval of the window's length sees more
\* than RateLimit dispatches, and two of one key are a cooldown apart
\* (_in_cooldown, _rate_limit_exceeded, _record_dispatch).
THEOREM DispatchIsPaced == Spec => []PacedDispatch
<1>1. TypeOK /\ Paced => PacedDispatch
  BY PacedMeans
<1> QED BY <1>1, PaceHolds, PTL
=============================================================================
