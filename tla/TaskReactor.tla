---------------------------- MODULE TaskReactor ----------------------------
(***************************************************************************)
(* The task reactor, src/src/reactor.cpp, with the Dispatcher (tasks.cpp)  *)
(* and the Scheduler (scheduler.cpp) that are thin layers over it.         *)
(*                                                                         *)
(* Any thread sends tasks, schedules timers and cancels them; one reactor  *)
(* thread runs cycles: it takes the inboxes over under the mutex, moves    *)
(* the due timers to the batch, runs the batch in the order of (fireAt,    *)
(* sequence) up to a limit, puts the rest back into the inbox and sleeps   *)
(* on a condition variable.                                                *)
(*                                                                         *)
(* A thread stamps a task (clock and sequence number) before it takes the  *)
(* mutex, so stamping and pushing are separate steps.  One action of the   *)
(* reactor thread is one function of a cycle or one task of the batch.  A  *)
(* task is its stamp; what it does is not modelled, except the shutdown.   *)
(***************************************************************************)
EXTENDS Naturals, Sequences, FiniteSets

CONSTANTS
    Producer,         \* the threads that send, schedule and cancel
    MaxInbox,         \* maxInboxSize, at least 1 (configmanager.cpp:789)
    MaxTasksPerCycle, \* maxTasksPerCycle, 0 for no limit
    MaxSequence,      \* bound: tasks stamped in a behaviour
    Horizon           \* bound: the last instant of the clock

Time == 0 .. Horizon
DistantFuture == Horizon + 1
Task == [fireAt : Time, deadline : Nat, expiration : Nat, identifier : Nat,
         sequence : Nat, producer : Producer]
Timer == {t \in Task : t.identifier # 0}

ASSUME ReactorAssumption ==
    /\ MaxInbox \in Nat \ {0}
    /\ {MaxTasksPerCycle, MaxSequence, Horizon} \subseteq Nat

VARIABLES
    now,               \* the steady clock
    threadState,       \* state of the reactor
    state,             \* state of the Dispatcher and of the Scheduler
    nextSequence,
    nextIdentifier,
    stamped,           \* tasks stamped and not yet pushed, one per thread
    sendInbox,
    scheduleInbox,
    cancelInbox,
    taskHeap,
    activeIdentifiers,
    cancelled,
    pc,                \* where the reactor thread is in runLoop
    readyTasks,        \* the batch of the cycle
    tasksExecuted,     \* tasks of the batch that have run
    ran,               \* history: sequence numbers of the tasks that ran
    revoked            \* history: cancels accepted while their task was waiting

producerVars == <<nextSequence, nextIdentifier, stamped>>
timerVars    == <<taskHeap, activeIdentifiers, cancelled>>
batchVars    == <<readyTasks, tasksExecuted>>
historyVars  == <<ran, revoked>>
inboxVars    == <<sendInbox, scheduleInbox, cancelInbox>>
stateVars    == <<threadState, state>>
vars == <<now, pc, stateVars, producerVars, inboxVars, timerVars, batchVars, historyVars>>

Places == {"loop", "drainInbox", "drainReady", "execute", "after", "wait",
           "blocking", "asleep", "stopped"}
States == {"RUNNING", "CLOSING", "TERMINATED"}

TypeOK ==
    /\ now \in Time
    /\ threadState \in States /\ state \in States
    /\ nextSequence \in Nat /\ nextIdentifier \in Nat
    /\ stamped \in SUBSET Task
    /\ sendInbox \in SUBSET Task
    /\ scheduleInbox \in SUBSET Timer
    /\ cancelInbox \in Seq(1 .. nextIdentifier)
    /\ taskHeap \in SUBSET Timer
    /\ activeIdentifiers \in SUBSET Nat
    /\ cancelled \in SUBSET Nat
    /\ pc \in Places
    /\ readyTasks \in SUBSET Task
    /\ tasksExecuted \in Nat
    /\ ran \in SUBSET Nat /\ revoked \in SUBSET Nat

\* Dispatcher::start and Scheduler::start, then runLoop.
Init ==
    /\ now = 0
    /\ threadState = "RUNNING" /\ state = "RUNNING"
    /\ nextSequence = 0 /\ nextIdentifier = 0
    /\ stamped = {}
    /\ sendInbox = {} /\ scheduleInbox = {} /\ cancelInbox = <<>>
    /\ taskHeap = {} /\ activeIdentifiers = {} /\ cancelled = {}
    /\ pc = "loop"
    /\ readyTasks = {} /\ tasksExecuted = 0
    /\ ran = {} /\ revoked = {}

Identifiers(tasks) == {t.identifier : t \in tasks}
SequenceNumbers(tasks) == {t.sequence : t \in tasks}

\* The order in which a batch runs: std::sort and taskComesAfter.
SlipNewestFirst(t, u) == t.sequence > u.sequence
Precedes(t, u) ==
    \/ t.fireAt < u.fireAt
    \/ t.fireAt = u.fireAt /\ t.sequence < u.sequence

HasExpired(t, at) == t.deadline # DistantFuture /\ t.deadline <= at
TaskExpired(t, at) == t.expiration # DistantFuture /\ t.expiration < at

-----------------------------------------------------------------------------
(***************************************************************************)
(* send and schedule, first half: the states are tested and the task is    *)
(* stamped.  A send has identifier 0.  The sequence number is taken even   *)
(* if the push then fails.                                                 *)
(***************************************************************************)
Stamp(p, fireAt, deadline, expiration, identifier) ==
    /\ \A t \in stamped : t.producer # p
    /\ threadState = "RUNNING"
    /\ nextSequence < MaxSequence
    /\ nextSequence' = nextSequence + 1
    /\ stamped' = stamped \cup
           {[fireAt |-> fireAt, deadline |-> deadline, expiration |-> expiration,
             identifier |-> identifier, sequence |-> nextSequence, producer |-> p]}
    /\ UNCHANGED <<now, pc, stateVars, inboxVars, timerVars, batchVars, historyVars>>

\* Dispatcher::addTask, with or without an expiration.
AddTask(p, expiration) ==
    /\ state = "RUNNING"
    /\ Stamp(p, now, DistantFuture, expiration, 0)
    /\ UNCHANGED nextIdentifier

\* TaskReactor::send with an expiration time.
TimedSend(p, deadline) ==
    /\ Stamp(p, now, deadline, DistantFuture, 0)
    /\ UNCHANGED nextIdentifier

\* Scheduler::addEvent.  Identifiers wrap after 2^32 events, past any delay.
AddEvent(p, fireAt) ==
    /\ state = "RUNNING"
    /\ nextIdentifier' = nextIdentifier + 1
    /\ Stamp(p, fireAt, DistantFuture, DistantFuture, nextIdentifier + 1)

\* The mutex is free unless the reactor thread is about to block with it.
MutexFree == pc # "blocking"

\* A waiting reactor thread is woken by notify_one and notify_all.
Notified == IF pc = "asleep" THEN "wait" ELSE pc

(***************************************************************************)
(* send and schedule, second half: the task enters its inbox, or is        *)
(* dropped when the inbox is full.                                         *)
(***************************************************************************)
Push(t) ==
    /\ MutexFree
    /\ stamped' = stamped \ {t}
    /\ \/ /\ t.identifier = 0 /\ Cardinality(sendInbox) < MaxInbox
          /\ sendInbox' = sendInbox \cup {t}
          /\ pc' = Notified
          /\ UNCHANGED scheduleInbox
       \/ /\ t.identifier # 0 /\ Cardinality(scheduleInbox) < MaxInbox
          /\ scheduleInbox' = scheduleInbox \cup {t}
          /\ pc' = Notified
          /\ UNCHANGED sendInbox
       \/ /\ Cardinality(IF t.identifier = 0 THEN sendInbox ELSE scheduleInbox) >= MaxInbox
          /\ UNCHANGED <<sendInbox, scheduleInbox, pc>>
    /\ UNCHANGED <<now, stateVars, nextSequence, nextIdentifier, cancelInbox, timerVars,
                   batchVars, historyVars>>

(***************************************************************************)
(* cancel (Scheduler::stopEvent) of an event whose identifier schedule has *)
(* returned.  When the inbox is full the cancel is dropped.                *)
(***************************************************************************)
Waits(identifier) == identifier \in Identifiers(scheduleInbox \cup taskHeap)

Cancel(identifier) ==
    /\ threadState = "RUNNING" /\ MutexFree
    /\ identifier \notin Identifiers(stamped)
    /\ Len(cancelInbox) < MaxInbox
    /\ cancelInbox' = Append(cancelInbox, identifier)
    /\ pc' = Notified
    /\ revoked' = IF Waits(identifier) /\ pc # "drainReady"
                  THEN revoked \cup {identifier} ELSE revoked
    /\ UNCHANGED <<now, stateVars, producerVars, sendInbox, scheduleInbox, timerVars, batchVars, ran>>

-----------------------------------------------------------------------------
(***************************************************************************)
(* The reactor thread.                                                     *)
(***************************************************************************)
LoopTest ==
    /\ pc = "loop"
    /\ pc' = IF threadState = "RUNNING" THEN "drainInbox" ELSE "stopped"
    /\ UNCHANGED <<now, stateVars, producerVars, inboxVars, timerVars, batchVars, historyVars>>

\* New timers are entered before the cancellations are looked up among them.
SlipCancelsFirst(timers) == cancelled \cup
    {cancelInbox[i] : i \in {j \in 1 .. Len(cancelInbox) : cancelInbox[j] \in activeIdentifiers}}
CancelledAfter(timers) == cancelled \cup
    {cancelInbox[i] : i \in {j \in 1 .. Len(cancelInbox) : cancelInbox[j] \in timers}}

DrainInbox ==
    LET timers == activeIdentifiers \cup Identifiers(scheduleInbox)
    IN  /\ pc = "drainInbox"
        /\ sendInbox' = {} /\ scheduleInbox' = {} /\ cancelInbox' = <<>>
        /\ taskHeap' = taskHeap \cup scheduleInbox
        /\ activeIdentifiers' = timers
        /\ cancelled' = CancelledAfter(timers)
        /\ readyTasks' = {t \in sendInbox : ~HasExpired(t, now)}
        /\ pc' = "drainReady"
        /\ UNCHANGED <<now, stateVars, producerVars, tasksExecuted, historyVars>>

Due(at) == {t \in taskHeap : t.fireAt <= at}

SlipKeepsDue(due) == taskHeap
HeapWithout(due) == taskHeap \ due

NotCancelled(due) == {t \in due : t.identifier \notin cancelled}

DrainReadyTasks ==
    LET due == Due(now)
    IN  /\ pc = "drainReady"
        /\ taskHeap' = HeapWithout(due)
        /\ activeIdentifiers' = activeIdentifiers \ Identifiers(due)
        /\ cancelled' = cancelled \ Identifiers(due)
        /\ readyTasks' = readyTasks \cup {t \in NotCancelled(due) : ~HasExpired(t, now)}
        /\ pc' = "execute"
        /\ UNCHANGED <<now, stateVars, producerVars, inboxVars, tasksExecuted, historyVars>>

IsFirst(t) == \A u \in readyTasks \ {t} : Precedes(t, u)

LimitReached == MaxTasksPerCycle > 0 /\ tasksExecuted >= MaxTasksPerCycle

(***************************************************************************)
(* One iteration of executeReadyTasks.  The task goes to                   *)
(* Dispatcher::executeTask, which ignores it when the server is closing or *)
(* the task has expired, unless it was sent with an expiration time to the *)
(* reactor itself; an exception it throws is caught.                       *)
(***************************************************************************)
Runs(t) ==
    \/ t.deadline # DistantFuture
    \/ state = "RUNNING" /\ ~TaskExpired(t, now)

ExecuteTask(t) ==
    /\ pc = "execute" /\ ~LimitReached /\ IsFirst(t)
    /\ readyTasks' = readyTasks \ {t}
    /\ tasksExecuted' = tasksExecuted + 1
    /\ ran' = IF Runs(t) THEN ran \cup {t.sequence} ELSE ran
    /\ UNCHANGED <<now, pc, stateVars, producerVars, inboxVars, timerVars, revoked>>

\* The task that shuts the server down: Game::setGameState stops Scheduler
\* and Dispatcher, Game::shutdown then terminates them and the reactor.
ExecuteShutdown(t) ==
    /\ pc = "execute" /\ ~LimitReached /\ IsFirst(t)
    /\ state = "RUNNING" /\ Runs(t)
    /\ readyTasks' = readyTasks \ {t}
    /\ tasksExecuted' = tasksExecuted + 1
    /\ ran' = ran \cup {t.sequence}
    /\ state' = "TERMINATED" /\ threadState' = "TERMINATED"
    /\ UNCHANGED <<now, pc, producerVars, inboxVars, timerVars, revoked>>

\* The batch is done, the limit is reached or the time budget is spent (which
\* is tested after a task): what is left goes back, however full the inbox is.
SlipDropsRest == sendInbox
Deferred == sendInbox \cup readyTasks

SlipDefersToTimers ==
    /\ pc = "execute"
    /\ readyTasks = {} \/ tasksExecuted > 0
    /\ scheduleInbox' = scheduleInbox \cup readyTasks
    /\ readyTasks' = {} /\ tasksExecuted' = 0
    /\ pc' = "after"
    /\ UNCHANGED <<now, stateVars, producerVars, sendInbox, cancelInbox, timerVars, historyVars>>
EndCycle ==
    /\ pc = "execute"
    /\ readyTasks = {} \/ tasksExecuted > 0
    /\ sendInbox' = Deferred
    /\ readyTasks' = {} /\ tasksExecuted' = 0
    /\ pc' = "after"
    /\ UNCHANGED <<now, stateVars, producerVars, scheduleInbox, cancelInbox, timerVars, historyVars>>

AfterCycle ==
    /\ pc = "after"
    /\ pc' = IF threadState = "RUNNING" THEN "wait" ELSE "stopped"
    /\ UNCHANGED <<now, stateVars, producerVars, inboxVars, timerVars, batchVars, historyVars>>

(***************************************************************************)
(* waitForWork: the predicate is evaluated with the mutex held, which is   *)
(* released as the thread blocks; it wakes when notified, at the first     *)
(* timer or for no reason, and evaluates the predicate again.              *)
(***************************************************************************)
SlipOnlySends == threadState # "RUNNING" \/ sendInbox # {}
WakePredicate ==
    threadState # "RUNNING" \/ sendInbox # {} \/ scheduleInbox # {} \/ cancelInbox # <<>>

TestWork ==
    /\ pc = "wait"
    /\ pc' = IF WakePredicate THEN "loop" ELSE "blocking"
    /\ UNCHANGED <<now, stateVars, producerVars, inboxVars, timerVars, batchVars, historyVars>>

Block ==
    /\ pc = "blocking"
    /\ pc' = "asleep"
    /\ UNCHANGED <<now, stateVars, producerVars, inboxVars, timerVars, batchVars, historyVars>>

TimerWakes ==
    /\ pc = "asleep" /\ Due(now) # {}
    /\ pc' = "loop"
    /\ UNCHANGED <<now, stateVars, producerVars, inboxVars, timerVars, batchVars, historyVars>>

\* Once the first timer is due, whatever ends the wait counts as the timeout.
SpuriousWakeup ==
    /\ pc = "asleep" /\ Due(now) = {}
    /\ pc' = "wait"
    /\ UNCHANGED <<now, stateVars, producerVars, inboxVars, timerVars, batchVars, historyVars>>

\* TaskReactor::shutdown called by another thread, as the unit and the stress
\* tests do: the state is stored and the condition variable notified without
\* the mutex.
Shutdown ==
    /\ threadState = "RUNNING"
    /\ threadState' = "TERMINATED"
    /\ pc' = Notified
    /\ UNCHANGED <<now, state, producerVars, inboxVars, timerVars, batchVars, historyVars>>

Tick ==
    /\ now < Horizon
    /\ now' = now + 1
    /\ UNCHANGED <<pc, stateVars, producerVars, inboxVars, timerVars, batchVars, historyVars>>

-----------------------------------------------------------------------------
Reactor ==
    \/ LoopTest \/ DrainInbox \/ DrainReadyTasks
    \/ \E t \in readyTasks : ExecuteTask(t)
    \/ EndCycle \/ AfterCycle \/ TestWork \/ Block \/ TimerWakes

Next ==
    \/ \E p \in Producer, e \in now .. DistantFuture : AddTask(p, e)
    \/ \E p \in Producer, d \in now .. Horizon : TimedSend(p, d)
    \/ \E p \in Producer, at \in now .. Horizon : AddEvent(p, at)
    \/ \E t \in stamped : Push(t)
    \/ \E i \in 1 .. nextIdentifier : Cancel(i)
    \/ Reactor
    \/ \E t \in readyTasks : ExecuteShutdown(t)
    \/ SpuriousWakeup
    \/ Shutdown
    \/ Tick

Spec == Init /\ [][Next]_vars

(***************************************************************************)
(* The reactor thread and the threads that send keep running and time      *)
(* passes.  What is sent, cancelled or shut down is the environment's      *)
(* choice, and no wakeup without a reason is relied upon.                  *)
(***************************************************************************)
Fairness ==
    /\ WF_vars(Reactor)
    /\ \A p \in Producer : SF_vars(\E t \in stamped : t.producer = p /\ Push(t))
    /\ WF_vars(Tick)

FairSpec == Spec /\ Fairness

-----------------------------------------------------------------------------
(***************************************************************************)
(* Properties.                                                             *)
(***************************************************************************)
Waiting == sendInbox \cup scheduleInbox \cup taskHeap
Present == Waiting \cup readyTasks \cup stamped

\* A task is in one place at a time and leaves it for good when it runs: moves
\* from inbox to heap to batch and back to the inbox after a full cycle neither
\* copy it nor bring it back.
RunsAtMostOnce ==
    /\ \A t, u \in Present : t.sequence = u.sequence => t = u
    /\ stamped \cap (Waiting \cup readyTasks) = {}
    /\ sendInbox \cap (scheduleInbox \cup taskHeap \cup readyTasks) = {}
    /\ scheduleInbox \cap (taskHeap \cup readyTasks) = {}
    /\ taskHeap \cap readyTasks = {}
    /\ ran \cap SequenceNumbers(Present) = {}

\* activeIdentifiers names exactly the timers in the heap and cancelled only
\* such timers: a cancel that comes too late leaves nothing behind, so the sets
\* do not grow and no later timer is hit by an old cancel.
IdentifiersExact ==
    /\ activeIdentifiers = Identifiers(taskHeap)
    /\ cancelled \subseteq activeIdentifiers

\* A cancel accepted while its timer waits, in the inbox or in the heap, takes
\* effect, except in the window between the two drains of a cycle.
CancelTakesEffect ==
    \A t \in readyTasks \cup sendInbox : t.identifier \notin revoked

\* Both together: a cancel does what it is for, to its own timer, and leaves
\* nothing behind.
CancelsExact == IdentifiersExact /\ CancelTakesEffect

\* A task runs only after every task that the same thread sent before it to be
\* run no later: none of them is still waiting, in whatever inbox or heap and
\* however often it was deferred.
NoOvertaking ==
    [][\A s \in ran' \ ran : \A t \in readyTasks : t.sequence = s =>
          \A u \in Waiting \cup readyTasks :
              u.producer = t.producer => ~(u.sequence < s /\ u.fireAt <= t.fireAt)]_vars

\* An accepted task is never lost while the server runs: it leaves the reactor
\* by running, by being cancelled or by expiring.
NoSilentDrop ==
    [][\A t \in Waiting \cup readyTasks :
          \/ t \in Waiting' \cup readyTasks'
          \/ t.sequence \in ran'
          \/ t.identifier \in cancelled
          \/ HasExpired(t, now) \/ TaskExpired(t, now)
          \/ state # "RUNNING"]_vars

\* Every accepted task leaves the reactor (by the previous property: it runs,
\* unless cancelled or expired) or the reactor stops; in particular the reactor
\* thread never sleeps through a task, whatever the limit per cycle.
EveryTaskServed ==
    \A s \in 0 .. MaxSequence - 1 :
        (s \in SequenceNumbers(Waiting \cup readyTasks))
            ~> (s \notin SequenceNumbers(Waiting \cup readyTasks) \/ threadState # "RUNNING")
=============================================================================
