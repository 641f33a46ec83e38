---------------------------- MODULE EventWatcher ----------------------------
(***************************************************************************)
(* The trigger of analyses by Kubernetes events                             *)
(* (watchers/k8s_event_watcher.py): a thread reads a watch stream and posts *)
(* what it accepts to the event loop; there a bounded queue feeds a         *)
(* dispatcher that suppresses repetitions and bursts and starts a task per  *)
(* remaining event; a semaphore admits the tasks to run_analysis. A stop    *)
(* signal ends the thread and the dispatcher, but no task.                  *)
(*                                                                          *)
(* Names of Kubernetes objects are sequences of the parts between their     *)
(* dashes. Time is relative: cooldowns count down and entries of the       *)
(* window count up by one with Tick. The length of a reconnection back-off  *)
(* is left out: it ends at any time. So is the heartbeat, which only logs.  *)
(***************************************************************************)
EXTENDS Naturals, Sequences, FiniteSets

CONSTANTS
  RawEvents,     \* what the API server may deliver, once or repeatedly
  Critical,      \* CRITICAL_REASONS
  Warning,       \* WARNING_REASONS
  Cooldown,      \* COOLDOWN_SECONDS
  QueueMax,      \* QUEUE_MAXSIZE
  MaxConcurrent,
  RateLimit,     \* RATE_LIMIT_PER_MIN
  Window,        \* the minute it is about
  MaxPosted,     \* bound: callbacks posted to the loop and not run yet
  MaxTasks       \* bound: tasks that wait for the semaphore

ASSUME WatcherAssumption ==
  /\ \A e \in RawEvents : e.object.name \in Seq(STRING)
  /\ Cooldown \in Nat \ {0} /\ Window \in Nat \ {0}
  /\ QueueMax \in Nat \ {0} /\ MaxConcurrent \in Nat \ {0}
  /\ RateLimit \in Nat /\ MaxPosted \in Nat \ {0} /\ MaxTasks \in Nat \ {0}

-----------------------------------------------------------------------------
(* What an event means *)

\* The name without its last n parts, if that leaves one.
Strip(name, n) == IF Len(name) > n THEN SubSeq(name, 1, Len(name) - n) ELSE name

\* resolve_service: the registry is asked, but its answer changes nothing.
NoService == <<>>
ServiceOf(object) ==
  CASE object.kind = "Pod" -> Strip(object.name, 2)
    [] object.kind = "ReplicaSet" -> Strip(object.name, 1)
    [] object.kind \in {"Deployment", "StatefulSet", "DaemonSet"} -> object.name
    [] OTHER -> NoService

\* classify_event: the reason decides, never the type of the event.
Accepted(e) == /\ e.reason \in Critical \cup Warning
               /\ ServiceOf(e.object) # NoService
KeyOf(e) == [service |-> ServiceOf(e.object), reason |-> e.reason]
EventKeys == {KeyOf(e) : e \in {r \in RawEvents : Accepted(r)}}

-----------------------------------------------------------------------------
VARIABLES
  thread,   \* the watch loop: connecting, streaming, waiting or exited
  posted,   \* callbacks _enqueue_or_drop on their way to the event loop
  queue,    \* the asyncio queue
  poll,     \* the dispatch loop: getting or exited
  cooling,  \* what is left of the cooldown of each (service, reason)
  window,   \* ages of the dispatches in rate_window, oldest first
  tasks,    \* tasks that wait for the semaphore, in the order they ask
  running,  \* the analysis each permit of the semaphore is held by
  stop,     \* stop_event
  halt,     \* threading_stop
  main,     \* start_watcher: serving, joining, stopped; or left, with the process
  recent,   \* the last QueueMax events put into the queue (history)
  log       \* dispatches of the last Cooldown: key and age (history)

\* The permits of the semaphore, each with the analysis it admitted.
Slots == 1..MaxConcurrent
Idle == [service |-> NoService, reason |-> ""]

vars == <<thread, posted, queue, poll, cooling, window, tasks, running,
          stop, halt, main, recent, log>>

\* Without the client library or a cluster the thread ends at once.
Init ==
  /\ thread \in {"connecting", "exited"} /\ poll = "getting" /\ main = "serving"
  /\ posted = <<>> /\ queue = <<>> /\ tasks = <<>>
  /\ cooling = [k \in EventKeys |-> 0] /\ window = <<>>
  /\ running = [s \in Slots |-> Idle]
  /\ stop = FALSE /\ halt = FALSE
  /\ recent = <<>> /\ log = <<>>

-----------------------------------------------------------------------------
(* The watch thread *)

loopside == <<queue, poll, cooling, window, tasks, running, stop, halt, main, recent, log>>

\* Mutant of Connect: the loop does not look at threading_stop.
ConnectAlways == /\ thread = "connecting"
                 /\ thread' \in {"streaming", "waiting"}
                 /\ UNCHANGED <<posted, loopside>>

\* The head of the while loop; stream_factory may fail.
Connect == /\ thread = "connecting" /\ ~halt
           /\ thread' \in {"streaming", "waiting"}
           /\ UNCHANGED <<posted, loopside>>

ExitThread == /\ thread = "connecting" /\ halt
              /\ thread' = "exited"
              /\ UNCHANGED <<posted, loopside>>

\* The stream delivers an event; a stop seen now ends the loop before it. The
\* callback is posted even for a queue nobody reads any more.
Receive(e) ==
  /\ thread = "streaming" /\ ~halt
  /\ \/ Accepted(e) /\ Len(posted) < MaxPosted /\ posted' = Append(posted, KeyOf(e))
     \/ ~Accepted(e) /\ UNCHANGED posted
  /\ UNCHANGED <<thread, loopside>>

\* The server ends the stream, or an event comes after the stop.
EndStream == /\ thread = "streaming"
             /\ thread' = "connecting"
             /\ UNCHANGED <<posted, loopside>>

\* The stream breaks: a pause, cut short by the stop.
BreakStream == /\ thread = "streaming"
               /\ thread' = "waiting"
               /\ UNCHANGED <<posted, loopside>>

Reconnect == /\ thread = "waiting"
             /\ thread' = "connecting"
             /\ UNCHANGED <<posted, loopside>>

-----------------------------------------------------------------------------
(* The event loop *)

\* Keep at most the last n entries.
LastOf(s, n) == IF Len(s) > n THEN SubSeq(s, Len(s) - n + 1, Len(s)) ELSE s

\* Mutant of Enqueue: the queue has no limit.
EnqueueUnbounded ==
  /\ posted # <<>>
  /\ posted' = Tail(posted)
  /\ queue' = Append(queue, Head(posted))
  /\ recent' = LastOf(Append(recent, Head(posted)), QueueMax)
  /\ UNCHANGED <<thread, poll, cooling, window, tasks, running, stop, halt, main, log>>

\* Mutant of Enqueue: a full queue refuses the new event.
EnqueueDropsNewest ==
  /\ posted # <<>>
  /\ posted' = Tail(posted)
  /\ queue' = IF Len(queue) < QueueMax THEN Append(queue, Head(posted)) ELSE queue
  /\ recent' = LastOf(Append(recent, Head(posted)), QueueMax)
  /\ UNCHANGED <<thread, poll, cooling, window, tasks, running, stop, halt, main, log>>

\* _enqueue_or_drop: a full queue gives up its oldest event.
Enqueue ==
  /\ posted # <<>>
  /\ posted' = Tail(posted)
  /\ queue' = LastOf(Append(queue, Head(posted)), QueueMax)
  /\ recent' = LastOf(Append(recent, Head(posted)), QueueMax)
  /\ UNCHANGED <<thread, poll, cooling, window, tasks, running, stop, halt, main, log>>

\* How many entries to pop off the front until the first that is not too old.
Popped(ages, limit) ==
  CHOOSE n \in 0..Len(ages) : /\ \A i \in 1..n : ages[i] > limit
                              /\ n < Len(ages) => ages[n + 1] <= limit

\* _rate_limit_exceeded first pops what is older than the window.
Fresh(w) == SubSeq(w, Popped(w, Window) + 1, Len(w))

\* The dispatch loop looks at stop_event between events only.
NextPoll == poll' = IF stop THEN "exited" ELSE "getting"

\* The dispatch loop takes the oldest event off the queue.
Take == /\ poll = "getting" /\ queue # <<>>
        /\ queue' = Tail(queue)
        /\ NextPoll
        /\ UNCHANGED <<thread, posted, running, stop, halt, main, recent>>

Suppress == /\ Take
            /\ cooling[Head(queue)] > 0
            /\ UNCHANGED <<cooling, window, tasks, log>>

RefuseRate == /\ Take
              /\ cooling[Head(queue)] = 0
              /\ window' = Fresh(window)
              /\ Len(window') >= RateLimit
              /\ UNCHANGED <<cooling, tasks, log>>

\* Mutant of Dispatch: only the rate limit records the dispatch.
DispatchUncooled ==
  /\ Take
  /\ cooling[Head(queue)] = 0
  /\ Len(Fresh(window)) < RateLimit
  /\ Len(tasks) < MaxTasks
  /\ window' = Append(Fresh(window), 0)
  /\ tasks' = Append(tasks, Head(queue))
  /\ log' = Append(log, [key |-> Head(queue), age |-> 0])
  /\ UNCHANGED cooling

\* Both gates passed: the dispatch is recorded before the analysis begins.
Dispatch ==
  /\ Take
  /\ cooling[Head(queue)] = 0
  /\ Len(Fresh(window)) < RateLimit
  /\ Len(tasks) < MaxTasks
  /\ cooling' = [cooling EXCEPT ![Head(queue)] = Cooldown]
  /\ window' = Append(Fresh(window), 0)
  /\ tasks' = Append(tasks, Head(queue))
  /\ log' = Append(log, [key |-> Head(queue), age |-> 0])

\* No event within the poll interval: the loop looks at stop_event.
PollEnds == /\ poll = "getting" /\ stop
            /\ poll' = "exited"
            /\ UNCHANGED <<thread, posted, queue, cooling, window, tasks, running,
                           stop, halt, main, recent, log>>

\* _handle_with_semaphore: tasks are admitted in the order they asked.
Admit(s) == /\ tasks # <<>>
            /\ running[s] = Idle /\ \A t \in 1..(s - 1) : running[t] # Idle
            /\ running' = [running EXCEPT ![s] = Head(tasks)]
            /\ tasks' = Tail(tasks)
            /\ UNCHANGED <<thread, posted, queue, poll, cooling, window,
                           stop, halt, main, recent, log>>

\* run_analysis returns, or fails, which is only logged.
Finish(s) == /\ running[s] # Idle
             /\ running' = [running EXCEPT ![s] = Idle]
             /\ UNCHANGED <<thread, posted, queue, poll, cooling, window, tasks,
                            stop, halt, main, recent, log>>

-----------------------------------------------------------------------------
(* Clock *)

Older(n, most) == IF n < most THEN n + 1 ELSE n
Memory == IF Cooldown > Window THEN Cooldown ELSE Window
Aged(l) == [i \in DOMAIN l |-> [l[i] EXCEPT !.age = @ + 1]]
Ages(l) == [i \in DOMAIN l |-> l[i].age]

Tick ==
  /\ cooling' = [k \in EventKeys |-> IF cooling[k] > 0 THEN cooling[k] - 1 ELSE 0]
  /\ window' = [i \in DOMAIN window |-> Older(window[i], Window + 1)]
  /\ log' = SubSeq(Aged(log), Popped(Ages(Aged(log)), Memory) + 1, Len(log))
  /\ UNCHANGED <<thread, posted, queue, poll, tasks, running, stop, halt, main,
                 recent>>

-----------------------------------------------------------------------------
(* Shutdown *)

\* The lifespan sets stop_event.
Signal == /\ ~stop
          /\ stop' = TRUE
          /\ UNCHANGED <<thread, posted, queue, poll, cooling, window, tasks, running,
                         halt, main, recent, log>>

\* _bridge_stop and start_watcher wake up.
Halt == /\ stop /\ main = "serving"
        /\ halt' = TRUE /\ main' = "joining"
        /\ UNCHANGED <<thread, posted, queue, poll, cooling, window, tasks, running,
                       stop, recent, log>>

\* Mutant of Join: the dispatch loop is left to find the stop itself.
JoinLeavesLoop == /\ main = "joining"
                  /\ main' = "stopped"
                  /\ UNCHANGED <<thread, posted, queue, poll, cooling, window, tasks,
                                 running, stop, halt, recent, log>>

\* Mutant of Join: the tasks that wait are cancelled with the loops.
JoinDropsTasks == /\ main = "joining"
                  /\ main' = "stopped" /\ poll' = "exited" /\ tasks' = <<>>
                  /\ UNCHANGED <<thread, posted, queue, cooling, window, running,
                                 stop, halt, recent, log>>

\* The thread has ended, or five seconds have: the loop tasks are cancelled.
Join == /\ main = "joining"
        /\ main' = "stopped" /\ poll' = "exited"
        /\ UNCHANGED <<thread, posted, queue, cooling, window, tasks, running,
                       stop, halt, recent, log>>

\* The lifespan ends and with it the loop: what was queued or waiting is lost,
\* what runs is cancelled.
Leave == /\ main = "stopped"
         /\ main' = "left"
         /\ posted' = <<>> /\ queue' = <<>> /\ recent' = <<>> /\ tasks' = <<>>
         /\ running' = [s \in Slots |-> Idle]
         /\ UNCHANGED <<thread, poll, cooling, window, stop, halt, log>>

-----------------------------------------------------------------------------
Judge == Suppress \/ RefuseRate \/ Dispatch

Next == \/ Connect \/ ExitThread \/ EndStream \/ BreakStream \/ Reconnect
        \/ \E e \in RawEvents : Receive(e)
        \/ Enqueue \/ Judge \/ PollEnds
        \/ \E s \in Slots : Admit(s) \/ Finish(s)
        \/ Tick
        \/ Signal \/ Halt \/ Join \/ Leave

Spec == Init /\ [][Next]_vars

\* The server and the request timeout end every stream; back-offs end; the
\* event loop runs what is ready. An analysis has no time limit and owes nothing.
FairSpec ==
  /\ Spec
  /\ WF_vars(Connect \/ ExitThread) /\ WF_vars(EndStream \/ BreakStream)
  /\ WF_vars(Reconnect)
  /\ WF_vars(Enqueue) /\ WF_vars(Judge) /\ WF_vars(PollEnds)
  /\ \A s \in Slots : WF_vars(Admit(s))
  /\ WF_vars(Halt) /\ WF_vars(Join)

-----------------------------------------------------------------------------
TypeOK ==
  /\ thread \in {"connecting", "streaming", "waiting", "exited"}
  /\ poll \in {"getting", "exited"} /\ main \in {"serving", "joining", "stopped", "left"}
  /\ posted \in Seq(EventKeys) /\ Len(posted) <= MaxPosted
  /\ queue \in Seq(EventKeys) /\ Len(queue) <= QueueMax
  /\ recent \in Seq(EventKeys) /\ Len(recent) <= QueueMax
  /\ tasks \in Seq(EventKeys) /\ Len(tasks) <= MaxTasks
  /\ cooling \in [EventKeys -> 0..Cooldown]
  /\ window \in Seq(0..(Window + 1)) /\ Len(window) <= RateLimit
  /\ running \in [Slots -> EventKeys \cup {Idle}]
  /\ stop \in BOOLEAN /\ halt \in BOOLEAN
  /\ log \in Seq([key : EventKeys, age : 0..Memory])

\* The queue loses only its oldest: whatever bursts and dispatches do, it holds
\* the newest of the events put into it ("drops oldest events on overflow").
QueueIsNewest == queue = LastOf(recent, Len(queue))

\* "Global sliding-window rate limit on top of the per-(service, reason)
\* cooldown": no interval of the window's length sees more than RateLimit
\* dispatches, and no two of one key are closer than the cooldown.
PacedDispatch ==
  /\ \A i, j \in DOMAIN log :
       i < j /\ log[i].key = log[j].key => log[i].age - log[j].age >= Cooldown
  /\ \A a \in 0..Memory :
       Cardinality({i \in DOMAIN log : log[i].age \in a..(a + Window)}) <= RateLimit

\* Why: the window remembers every dispatch of the last minute in its place, so
\* a dispatch is RateLimit places from one that is out of the window; and what is
\* left of a cooldown covers what is missing of the distance.
Remembered ==
  \A i \in DOMAIN log : log[i].age <= Window =>
    /\ Len(log) - i < Len(window)
    /\ window[Len(window) - (Len(log) - i)] = log[i].age
Spaced ==
  \A i \in DOMAIN log : i > RateLimit => log[i - RateLimit].age - log[i].age > Window
Cooled ==
  /\ \A i, j \in DOMAIN log : i < j => log[i].age >= log[j].age
  /\ \A i \in DOMAIN log : log[i].age + cooling[log[i].key] >= Cooldown
  /\ \A i, j \in DOMAIN log :
       i < j /\ log[i].key = log[j].key => log[i].age - log[j].age >= Cooldown
Paced == Remembered /\ Spaced /\ Cooled

\* Once start_watcher has returned no further analysis is dispatched, though
\* the watch thread may outlive the five seconds it was given.
NothingAfterStop == [][(main \in {"stopped", "left"}) => Len(tasks') <= Len(tasks)]_vars

\* One analysis that hangs starves nobody: every event dispatched gets its turn, however
\* many wait, unless the process leaves or the analyses that hold the permits all hang
\* (the semaphore of _handle_with_semaphore; nothing limits run_analysis in time).
Waits(k) == \E i \in DOMAIN tasks : tasks[i] = k
AllHang == [](\A s \in Slots : running[s] # Idle)
AnalysesStart ==
  \A k \in EventKeys :
    Waits(k) ~> main = "left" \/ (\E s \in Slots : running[s] = k) \/ AllHang

\* A stop ends the watcher, its dispatch loop and in the end its thread.
StopCompletes == stop ~> [](main \in {"stopped", "left"} /\ poll = "exited" /\ thread = "exited")

\* "Leases guarantee at-most-one in-flight analysis per service" (README).
OneAnalysisPerService ==
  \A s, t \in Slots :
    s # t /\ running[s] # Idle => running[s].service # running[t].service
=============================================================================
