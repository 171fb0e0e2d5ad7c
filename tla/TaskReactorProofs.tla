------------------------- MODULE TaskReactorProofs -------------------------
(***************************************************************************)
(* Proofs about TaskReactor, for any number of threads and tasks, any      *)
(* inbox size, limit per cycle and clock.                                  *)
(*                                                                         *)
(* The invariant has four parts.  Numbers: stamps are unique and below the *)
(* counters.  Places: a task is in one place, and the identifier sets      *)
(* agree with the heap.  Order: what one thread stamped earlier is drained *)
(* no later.  Cancels: an accepted cancel is in the inbox or in cancelled  *)
(* until its timer is popped.                                              *)
(***************************************************************************)
EXTENDS TaskReactor, TLAPS

Numbers ==
    /\ \A t \in Present : t.sequence < nextSequence /\ t.identifier <= nextIdentifier
    /\ \A s \in ran : s < nextSequence
    /\ \A i \in revoked : i # 0 /\ i <= nextIdentifier
    /\ \A t, u \in Present : t.identifier # 0 /\ t.identifier = u.identifier => t = u

Order ==
    /\ \A t, u \in stamped : t.producer = u.producer => t = u
    /\ \A t \in Waiting \cup readyTasks, u \in stamped :
          t.producer = u.producer => t.sequence < u.sequence
    /\ pc \in {"drainReady", "execute"} =>
          \A t \in taskHeap \cup readyTasks, u \in sendInbox \cup scheduleInbox :
              t.producer = u.producer => t.sequence < u.sequence
    /\ pc \notin {"drainReady", "execute"} => readyTasks = {}
    /\ pc = "execute" => \A t \in readyTasks, u \in taskHeap : t.fireAt < u.fireAt
    /\ \A t \in sendInbox \cup readyTasks : t.fireAt <= now
    /\ \A t \in stamped : t.identifier = 0 => t.fireAt <= now

Requested(i) == \E j \in 1 .. Len(cancelInbox) : cancelInbox[j] = i

Cancels ==
    /\ CancelTakesEffect
    /\ \A t \in scheduleInbox \cup taskHeap :
          t.identifier \in revoked =>
              /\ t.identifier \in cancelled \/ Requested(t.identifier)
              /\ pc = "drainReady" => t.identifier \in cancelled
    /\ \A t \in stamped : t.identifier \notin revoked

IInv == TypeOK /\ Numbers /\ RunsAtMostOnce /\ IdentifiersExact /\ Order /\ Cancels

-----------------------------------------------------------------------------
(***************************************************************************)
(* The steps that move no task: the reactor thread's control, the clock    *)
(* and the shutdown of another thread.                                     *)
(***************************************************************************)
Control ==
    \/ LoopTest \/ AfterCycle \/ TestWork \/ Block \/ TimerWakes
    \/ SpuriousWakeup \/ Shutdown \/ Tick

\* A control step leaves tasks, timers and histories alone, never enters a
\* cycle in the middle and never leaves one, and time does not run back.
LEMMA ControlFrame ==
    ASSUME TypeOK, Control
    PROVE  /\ UNCHANGED <<producerVars, inboxVars, timerVars, batchVars, historyVars>>
           /\ pc' \in Places /\ threadState' \in States /\ UNCHANGED state
           /\ now' \in Time /\ now <= now'
           /\ pc' \in {"drainReady", "execute"} => pc' = pc
           /\ pc \in {"drainReady", "execute"} => pc' = pc
  BY ReactorAssumption DEF Control, LoopTest, AfterCycle, TestWork, Block, TimerWakes,
     SpuriousWakeup, Shutdown, Tick, TypeOK, Places, States, Time, stateVars, Notified

\* Next, with the stamps in one disjunct and the control steps in another.
LEMMA NextCases ==
    ASSUME Next
    PROVE  \/ \E p \in Producer, e \in now .. DistantFuture : AddTask(p, e)
           \/ \E p \in Producer, d \in now .. Horizon : TimedSend(p, d)
           \/ \E p \in Producer, at \in now .. Horizon : AddEvent(p, at)
           \/ \E t \in stamped : Push(t)
           \/ \E i \in 1 .. nextIdentifier : Cancel(i)
           \/ DrainInbox
           \/ DrainReadyTasks
           \/ \E t \in readyTasks : ExecuteTask(t) \/ ExecuteShutdown(t)
           \/ EndCycle
           \/ Control
  BY DEF Next, Reactor, Control

\* The three ways to stamp a task, as one: what is new is the task t.
Stamped(t) ==
    /\ t \in Task
    /\ t.sequence = nextSequence
    /\ \A u \in stamped : u.producer # t.producer
    /\ t.identifier = 0 => t.fireAt <= now
    /\ t.identifier \in {0, nextIdentifier + 1}
    /\ stamped' = stamped \cup {t}
    /\ nextSequence' = nextSequence + 1
    /\ nextIdentifier' \in {nextIdentifier, nextIdentifier + 1}
    /\ t.identifier # 0 => nextIdentifier' = nextIdentifier + 1
    /\ UNCHANGED <<now, pc, stateVars, inboxVars, timerVars, batchVars, historyVars>>

\* Each of addTask, the timed send and addEvent stamps a well-formed task.
LEMMA StampCases ==
    ASSUME TypeOK,
           \/ \E p \in Producer, e \in now .. DistantFuture : AddTask(p, e)
           \/ \E p \in Producer, d \in now .. Horizon : TimedSend(p, d)
           \/ \E p \in Producer, at \in now .. Horizon : AddEvent(p, at)
    PROVE  \E t : Stamped(t)
<1>1. /\ now \in Nat /\ now <= Horizon /\ Horizon \in Nat
      /\ nextSequence \in Nat /\ nextIdentifier \in Nat
  BY ReactorAssumption DEF TypeOK, Time
<1>2. ASSUME NEW p \in Producer, NEW e \in now .. DistantFuture, AddTask(p, e)
      PROVE  \E t : Stamped(t)
  <2> DEFINE t == [fireAt |-> now, deadline |-> DistantFuture, expiration |-> e,
                   identifier |-> 0, sequence |-> nextSequence, producer |-> p]
  <2>1. t \in Task
    BY <1>1, <1>2 DEF Task, Time, DistantFuture
  <2> QED BY <1>1, <1>2, <2>1 DEF AddTask, Stamp, Stamped
<1>3. ASSUME NEW p \in Producer, NEW d \in now .. Horizon, TimedSend(p, d)
      PROVE  \E t : Stamped(t)
  <2> DEFINE t == [fireAt |-> now, deadline |-> d, expiration |-> DistantFuture,
                   identifier |-> 0, sequence |-> nextSequence, producer |-> p]
  <2>1. t \in Task
    BY <1>1, <1>3 DEF Task, Time, DistantFuture
  <2> QED BY <1>1, <1>3, <2>1 DEF TimedSend, Stamp, Stamped
<1>4. ASSUME NEW p \in Producer, NEW at \in now .. Horizon, AddEvent(p, at)
      PROVE  \E t : Stamped(t)
  <2> DEFINE t == [fireAt |-> at, deadline |-> DistantFuture, expiration |-> DistantFuture,
                   identifier |-> nextIdentifier + 1, sequence |-> nextSequence, producer |-> p]
  <2>1. t \in Task
    BY <1>1, <1>4 DEF Task, Time, DistantFuture
  <2> QED BY <1>1, <1>4, <2>1 DEF AddEvent, Stamp, Stamped
<1> QED BY <1>2, <1>3, <1>4

-----------------------------------------------------------------------------
\* Every step keeps the types; a deferred timer may enter the send inbox, a
\* send never enters the heap.
LEMMA NextTypes ==
    ASSUME TypeOK, [Next]_vars
    PROVE  TypeOK'
<1>1. CASE \E t : Stamped(t)
  <2>1. PICK t : Stamped(t) BY <1>1
  <2> QED
    BY <2>1 DEF Stamped, TypeOK, stateVars, inboxVars, timerVars, batchVars, historyVars
<1>2. ASSUME NEW t \in stamped, Push(t)
      PROVE  TypeOK'
  BY <1>2 DEF Push, TypeOK, Timer, Notified, Places, stateVars, timerVars, batchVars, historyVars
<1>3. ASSUME NEW i \in 1 .. nextIdentifier, Cancel(i)
      PROVE  TypeOK'
  BY <1>3 DEF Cancel, TypeOK, Notified, Places, stateVars, producerVars, timerVars, batchVars
<1>4. CASE DrainInbox
  <2>1. \A j \in 1 .. Len(cancelInbox) : cancelInbox[j] \in Nat
    BY DEF TypeOK
  <2>2. /\ Identifiers(scheduleInbox) \subseteq Nat
        /\ \A timers : CancelledAfter(timers) \subseteq Nat
    BY <2>1 DEF TypeOK, Identifiers, Timer, Task, CancelledAfter
  <2>3. /\ cancelled' \in SUBSET Nat /\ activeIdentifiers' \in SUBSET Nat
        /\ readyTasks' \in SUBSET Task /\ taskHeap' \in SUBSET Timer
        /\ sendInbox' = {} /\ scheduleInbox' = {} /\ cancelInbox' = <<>>
        /\ pc' = "drainReady"
        /\ UNCHANGED <<now, stateVars, producerVars, tasksExecuted, historyVars>>
    BY <1>4, <2>2 DEF DrainInbox, TypeOK
  <2>4. cancelInbox' \in Seq(1 .. nextIdentifier')
    BY <2>3
  <2> QED
    BY <2>3, <2>4 DEF TypeOK, Places, stateVars, producerVars, historyVars
<1>5. CASE DrainReadyTasks
  BY <1>5 DEF DrainReadyTasks, HeapWithout, NotCancelled, Due, TypeOK, Timer, Places, stateVars,
     producerVars, inboxVars, historyVars
<1>6. ASSUME NEW t \in readyTasks, ExecuteTask(t) \/ ExecuteShutdown(t)
      PROVE  TypeOK'
  <2>1. t.sequence \in Nat
    BY DEF TypeOK, Task
  <2>2. /\ readyTasks' = readyTasks \ {t} /\ tasksExecuted' = tasksExecuted + 1
        /\ ran' \subseteq ran \cup {t.sequence}
        /\ threadState' \in {threadState, "TERMINATED"} /\ state' \in {state, "TERMINATED"}
        /\ UNCHANGED <<now, pc, producerVars, inboxVars, timerVars, revoked>>
    BY <1>6 DEF ExecuteTask, ExecuteShutdown, stateVars
  <2>3. ran' \in SUBSET Nat
    BY <2>1, <2>2 DEF TypeOK
  <2>4. threadState' \in States /\ state' \in States
    BY <2>2 DEF TypeOK, States
  <2>5. readyTasks' \in SUBSET Task /\ tasksExecuted' \in Nat
    BY <2>2 DEF TypeOK
  <2> QED
    BY <2>2, <2>3, <2>4, <2>5 DEF TypeOK, producerVars, inboxVars, timerVars
<1>7. CASE EndCycle
  BY <1>7 DEF EndCycle, Deferred, TypeOK, Places, stateVars, producerVars, timerVars, historyVars
<1>8. CASE Control
  BY <1>8, ControlFrame DEF TypeOK, producerVars, inboxVars, timerVars, batchVars, historyVars
<1>9. CASE UNCHANGED vars
  BY <1>9 DEF vars, TypeOK, stateVars, producerVars, inboxVars, timerVars, batchVars, historyVars
<1> QED BY <1>1, <1>2, <1>3, <1>4, <1>5, <1>6, <1>7, <1>8, <1>9, NextCases, StampCases

\* The server starts with empty inboxes.
LEMMA InitInv == Init => IInv
<1> SUFFICES ASSUME Init PROVE IInv OBVIOUS
<1>1. TypeOK
  BY ReactorAssumption DEF Init, TypeOK, Time, States, Places
<1>2. Present = {} /\ Waiting = {}
  BY DEF Init, Present, Waiting
<1> QED
  BY <1>1, <1>2 DEF Init, IInv, Numbers, RunsAtMostOnce, IdentifiersExact, Order, Cancels,
     CancelTakesEffect, SequenceNumbers, Identifiers

-----------------------------------------------------------------------------
\* Sequence numbers and identifiers come from counters, so no step makes two
\* tasks alike.
LEMMA NextNumbers ==
    ASSUME TypeOK, Numbers, [Next]_vars
    PROVE  Numbers'
<1>1. CASE \E t : Stamped(t)
  <2>1. PICK t : Stamped(t) BY <1>1
  <2>2. Present' = Present \cup {t}
    BY <2>1 DEF Stamped, Present, Waiting, inboxVars, timerVars, batchVars
  <2>3. /\ nextSequence \in Nat /\ nextIdentifier \in Nat
        /\ \A u \in Present : u \in Task
        /\ ran \subseteq Nat /\ revoked \subseteq Nat
    BY DEF TypeOK, Present, Waiting, Timer
  <2>4. /\ \A u \in Present : u.sequence \in Nat /\ u.identifier \in Nat
        /\ t.identifier \in Nat /\ t.sequence \in Nat
    BY <2>1, <2>3 DEF Task, Stamped
  <2>5. \A u \in Present : u.identifier # nextIdentifier + 1
    BY <2>3, <2>4 DEF Numbers
  <2> QED
    BY <2>1, <2>2, <2>3, <2>4, <2>5 DEF Stamped, Numbers, historyVars
<1>2. CASE Present' \subseteq Present /\ ran' = ran /\ revoked' = revoked
           /\ UNCHANGED <<nextSequence, nextIdentifier>>
  BY <1>2 DEF Numbers
<1>3. ASSUME NEW t \in stamped, Push(t)
      PROVE  Numbers'
  <2>1. Present' \subseteq Present
    BY <1>3 DEF Push, Present, Waiting, timerVars, batchVars
  <2> QED BY <1>2, <1>3, <2>1 DEF Push, historyVars
<1>4. ASSUME NEW i \in 1 .. nextIdentifier, Cancel(i)
      PROVE  Numbers'
  <2>1. Present' = Present /\ UNCHANGED <<ran, nextSequence, nextIdentifier>>
    BY <1>4 DEF Cancel, Present, Waiting, producerVars, timerVars, batchVars
  <2>2. revoked' \subseteq revoked \cup {i} /\ i # 0 /\ i <= nextIdentifier
    BY <1>4 DEF Cancel, TypeOK
  <2> QED BY <2>1, <2>2 DEF Numbers
<1>5. CASE DrainInbox
  <2>1. Present' \subseteq Present
    BY <1>5 DEF DrainInbox, Present, Waiting, producerVars
  <2> QED BY <1>2, <1>5, <2>1 DEF DrainInbox, producerVars, historyVars
<1>6. CASE DrainReadyTasks
  <2>1. Present' \subseteq Present
    BY <1>6 DEF DrainReadyTasks, HeapWithout, NotCancelled, Due, Present, Waiting, producerVars, inboxVars
  <2> QED BY <1>2, <1>6, <2>1 DEF DrainReadyTasks, producerVars, historyVars
<1>7. ASSUME NEW t \in readyTasks, ExecuteTask(t) \/ ExecuteShutdown(t)
      PROVE  Numbers'
  <2>1. Present' \subseteq Present /\ t \in Present
    BY <1>7 DEF ExecuteTask, ExecuteShutdown, Present, Waiting, producerVars, inboxVars, timerVars
  <2>2. /\ UNCHANGED <<nextSequence, nextIdentifier, revoked>>
        /\ ran' \subseteq ran \cup {t.sequence}
    BY <1>7 DEF ExecuteTask, ExecuteShutdown, producerVars
  <2> QED BY <2>1, <2>2 DEF Numbers
<1>8. CASE EndCycle
  <2>1. Present' \subseteq Present
    BY <1>8 DEF EndCycle, Deferred, Present, Waiting, producerVars, timerVars
  <2> QED BY <1>2, <1>8, <2>1 DEF EndCycle, producerVars, historyVars
<1>9. CASE Control \/ UNCHANGED vars
  BY <1>2, <1>9, ControlFrame DEF vars, Present, Waiting, producerVars, inboxVars, timerVars, batchVars, historyVars
<1> QED BY <1>1, <1>3, <1>4, <1>5, <1>6, <1>7, <1>8, <1>9, NextCases, StampCases

\* A task has one place, and none once it has run: by uniqueness of the stamps
\* each step moves tasks without copying them.
LEMMA NextPlaces ==
    ASSUME TypeOK, Numbers, RunsAtMostOnce, [Next]_vars
    PROVE  RunsAtMostOnce'
<1>1. CASE \E t : Stamped(t)
  <2>1. PICK t : Stamped(t) BY <1>1
  <2>2. Present' = Present \cup {t} /\ Waiting' = Waiting
    BY <2>1 DEF Stamped, Present, Waiting, inboxVars, timerVars, batchVars
  <2>3. /\ nextSequence \in Nat /\ ran \subseteq Nat
        /\ \A u \in Present : u.sequence \in Nat /\ u.sequence # t.sequence
        /\ t.sequence \notin ran
    <3>1. \A u \in Present : u \in Task
      BY DEF TypeOK, Present, Waiting, Timer
    <3> QED BY <2>1, <3>1 DEF TypeOK, Numbers, Stamped, Task
  <2>4. t \notin Present
    BY <2>3
  <2> QED
    BY <2>1, <2>2, <2>3, <2>4 DEF Stamped, RunsAtMostOnce, Present, Waiting, SequenceNumbers,
       inboxVars, timerVars, batchVars, historyVars
<1>2. ASSUME NEW t \in stamped, Push(t)
      PROVE  RunsAtMostOnce'
  BY <1>2 DEF Push, RunsAtMostOnce, Present, Waiting, SequenceNumbers, timerVars, batchVars, historyVars
<1>3. ASSUME NEW i \in 1 .. nextIdentifier, Cancel(i)
      PROVE  RunsAtMostOnce'
  BY <1>3 DEF Cancel, RunsAtMostOnce, Present, Waiting, SequenceNumbers, producerVars, timerVars, batchVars
<1>4. CASE DrainInbox
  BY <1>4 DEF DrainInbox, RunsAtMostOnce, Present, Waiting, SequenceNumbers, producerVars, historyVars
<1>5. CASE DrainReadyTasks
  BY <1>5 DEF DrainReadyTasks, HeapWithout, NotCancelled, Due, RunsAtMostOnce, Present, Waiting,
     SequenceNumbers, producerVars, inboxVars, historyVars
<1>6. ASSUME NEW t \in readyTasks, ExecuteTask(t) \/ ExecuteShutdown(t)
      PROVE  RunsAtMostOnce'
  <2>1. /\ readyTasks' = readyTasks \ {t}
        /\ ran' \subseteq ran \cup {t.sequence}
        /\ UNCHANGED <<producerVars, inboxVars, timerVars>>
    BY <1>6 DEF ExecuteTask, ExecuteShutdown
  <2>2. Present' = Present \ {t} /\ t \in Present
    BY <2>1 DEF RunsAtMostOnce, Present, Waiting, producerVars, inboxVars, timerVars
  <2>3. \A u \in Present' : u.sequence \notin ran'
    BY <2>1, <2>2 DEF RunsAtMostOnce, SequenceNumbers
  <2> QED
    BY <2>1, <2>2, <2>3 DEF RunsAtMostOnce, Waiting, SequenceNumbers, producerVars, inboxVars, timerVars
<1>7. CASE EndCycle
  BY <1>7 DEF EndCycle, Deferred, RunsAtMostOnce, Present, Waiting, SequenceNumbers, producerVars,
     timerVars, historyVars
<1>8. CASE Control \/ UNCHANGED vars
  BY <1>8, ControlFrame DEF vars, RunsAtMostOnce, Present, Waiting, SequenceNumbers, producerVars,
     inboxVars, timerVars, batchVars, historyVars
<1> QED BY <1>1, <1>2, <1>3, <1>4, <1>5, <1>6, <1>7, <1>8, NextCases, StampCases

\* The identifier sets follow the heap: only the two drains touch them.
LEMMA NextIdentifiers ==
    ASSUME TypeOK, Numbers, RunsAtMostOnce, IdentifiersExact, [Next]_vars
    PROVE  IdentifiersExact'
<1>1. CASE UNCHANGED timerVars
  BY <1>1 DEF IdentifiersExact, Identifiers, timerVars
<1>2. CASE DrainInbox
  BY <1>2 DEF DrainInbox, CancelledAfter, IdentifiersExact, Identifiers
<1>3. CASE DrainReadyTasks
  <2>1. \A t, u \in taskHeap : t.identifier = u.identifier => t = u
    BY DEF TypeOK, Timer, Numbers, Present, Waiting
  <2>2. Identifiers(taskHeap \ Due(now)) = Identifiers(taskHeap) \ Identifiers(Due(now))
    BY <2>1 DEF Identifiers, Due
  <2> QED
    BY <1>3, <2>2 DEF DrainReadyTasks, HeapWithout, IdentifiersExact, Identifiers
<1>4. ASSUME ~DrainInbox, ~DrainReadyTasks
      PROVE  UNCHANGED timerVars
  <2>1. (\E t : Stamped(t)) => UNCHANGED timerVars
    BY DEF Stamped
  <2>2. Control \/ UNCHANGED vars => UNCHANGED timerVars
    BY ControlFrame DEF vars
  <2>3. \A t \in stamped : Push(t) => UNCHANGED timerVars
    BY DEF Push
  <2>4. \A i \in 1 .. nextIdentifier : Cancel(i) => UNCHANGED timerVars
    BY DEF Cancel
  <2>5. \A t \in readyTasks : ExecuteTask(t) \/ ExecuteShutdown(t) => UNCHANGED timerVars
    BY DEF ExecuteTask, ExecuteShutdown
  <2>6. EndCycle => UNCHANGED timerVars
    BY DEF EndCycle
  <2> QED BY <1>4, <2>1, <2>2, <2>3, <2>4, <2>5, <2>6, NextCases, StampCases
<1> QED BY <1>1, <1>2, <1>3, <1>4

-----------------------------------------------------------------------------
\* What a thread stamped earlier is drained no later: the stamp is newer than
\* all the thread has in the reactor, a drain empties both inboxes at once, and
\* the batch holds what is due, the heap what is not.
LEMMA NextOrder ==
    ASSUME TypeOK, Numbers, Order, [Next]_vars
    PROVE  Order'
<1> DEFINE Tasks == Waiting \cup readyTasks \cup stamped
<1>1. /\ \A t \in Tasks : t.sequence \in Nat /\ t.fireAt \in Nat /\ t.sequence < nextSequence
      /\ nextSequence \in Nat /\ now \in Nat
  <2>1. \A t \in Tasks : t \in Task
    BY DEF TypeOK, Waiting, Timer
  <2> QED
    BY <2>1, ReactorAssumption DEF Task, Time, TypeOK, Numbers, Present
<1>2. CASE \E t : Stamped(t)
  <2>1. PICK t : Stamped(t) BY <1>2
  <2>2. \A u \in Tasks : u.sequence < t.sequence
    BY <1>1, <2>1 DEF Stamped
  <2> QED
    BY <2>1, <2>2 DEF Stamped, Order, Waiting, inboxVars, timerVars, batchVars
<1>3. ASSUME NEW t \in stamped, Push(t)
      PROVE  Order'
  <2>1. /\ stamped' = stamped \ {t}
        /\ sendInbox' \cup scheduleInbox' \subseteq sendInbox \cup scheduleInbox \cup {t}
        /\ \A u \in sendInbox' : u \in sendInbox \/ (u = t /\ t.identifier = 0)
        /\ UNCHANGED <<now, taskHeap, readyTasks>>
        /\ pc' = pc \/ (pc' = "wait" /\ pc = "asleep")
    BY <1>3 DEF Push, Notified, timerVars, batchVars
  <2>2. \A u \in stamped' : u.producer # t.producer
    BY <2>1 DEF Order
  <2> QED
    BY <2>1, <2>2 DEF Order, Waiting
<1>4. ASSUME NEW i \in 1 .. nextIdentifier, Cancel(i)
      PROVE  Order'
  BY <1>4 DEF Cancel, Notified, Order, Waiting, producerVars, timerVars, batchVars
<1>5. CASE DrainInbox
  BY <1>5 DEF DrainInbox, Order, Waiting, producerVars
<1>6. CASE DrainReadyTasks
  <2>1. /\ readyTasks' \subseteq readyTasks \cup Due(now)
        /\ taskHeap' = taskHeap \ Due(now)
        /\ pc = "drainReady" /\ pc' = "execute"
        /\ UNCHANGED <<now, sendInbox, scheduleInbox, stamped>>
    BY <1>6 DEF DrainReadyTasks, HeapWithout, NotCancelled, producerVars, inboxVars
  <2>2. /\ \A t \in readyTasks' : t.fireAt <= now
        /\ \A u \in taskHeap' : now < u.fireAt
    BY <1>1, <2>1 DEF Order, Due, Waiting
  <2>3. \A t \in readyTasks', u \in taskHeap' : t.fireAt < u.fireAt
    <3> SUFFICES ASSUME NEW t \in readyTasks', NEW u \in taskHeap'
                 PROVE  t.fireAt < u.fireAt
      OBVIOUS
    <3>1. t \in Tasks /\ u \in Tasks
      BY <2>1 DEF Due, Waiting
    <3> QED BY <1>1, <2>2, <3>1
  <2>4. /\ taskHeap' \cup readyTasks' \subseteq taskHeap \cup readyTasks
        /\ Waiting' \cup readyTasks' \subseteq Waiting \cup readyTasks
    BY <2>1 DEF Due, Waiting
  <2> HIDE DEF Tasks
  <2> QED
    BY <2>1, <2>2, <2>3, <2>4 DEF Order
<1>7. ASSUME NEW t \in readyTasks, ExecuteTask(t) \/ ExecuteShutdown(t)
      PROVE  Order'
  BY <1>7 DEF ExecuteTask, ExecuteShutdown, Order, Waiting, producerVars, inboxVars, timerVars
<1>8. CASE EndCycle
  BY <1>8 DEF EndCycle, Deferred, Order, Waiting, producerVars, timerVars
<1>9. CASE Control
  <2>1. /\ UNCHANGED <<stamped, sendInbox, scheduleInbox, taskHeap, readyTasks>>
        /\ now <= now' /\ now' \in Nat
        /\ pc' \in {"drainReady", "execute"} => pc' = pc
        /\ pc \in {"drainReady", "execute"} => pc' = pc
    BY <1>9, ControlFrame, ReactorAssumption DEF producerVars, inboxVars, timerVars, batchVars, Time
  <2>2. /\ \A t \in sendInbox \cup readyTasks : t.fireAt <= now'
        /\ \A t \in stamped : t.identifier = 0 => t.fireAt <= now'
    BY <1>1, <2>1 DEF Order, Waiting
  <2> HIDE DEF Tasks
  <2> QED
    BY <2>1, <2>2 DEF Order, Waiting
<1>10. CASE UNCHANGED vars
  BY <1>10 DEF vars, Order, Waiting, producerVars, inboxVars, timerVars, batchVars
<1> QED BY <1>2, <1>3, <1>4, <1>5, <1>6, <1>7, <1>8, <1>9, <1>10, NextCases, StampCases

\* An accepted cancel stays with its timer: in the inbox until the next drain
\* looks it up, then in cancelled until the timer is popped and discarded.
LEMMA NextCancels ==
    ASSUME TypeOK, Numbers, RunsAtMostOnce, IdentifiersExact, Order, Cancels, [Next]_vars
    PROVE  Cancels'
<1>1. CASE \E t : Stamped(t)
  <2>1. PICK t : Stamped(t) BY <1>1
  <2>2. t.identifier \notin revoked
    BY <2>1 DEF Stamped, Numbers, TypeOK
  <2> QED
    BY <2>1, <2>2 DEF Stamped, Cancels, CancelTakesEffect, Requested, inboxVars, timerVars,
       batchVars, historyVars
<1>2. ASSUME NEW t \in stamped, Push(t)
      PROVE  Cancels'
  BY <1>2 DEF Push, Notified, Cancels, CancelTakesEffect, Requested, timerVars, batchVars, historyVars
<1>3. ASSUME NEW i \in 1 .. nextIdentifier, Cancel(i)
      PROVE  Cancels'
  <2>1. /\ cancelInbox' = Append(cancelInbox, i)
        /\ pc' = pc \/ (pc' = "wait" /\ pc = "asleep")
        /\ revoked' = revoked \/ (revoked' = revoked \cup {i} /\ Waits(i) /\ pc # "drainReady")
        /\ i \notin Identifiers(stamped)
        /\ UNCHANGED <<stamped, sendInbox, scheduleInbox, taskHeap, cancelled, readyTasks>>
    BY <1>3 DEF Cancel, Notified, producerVars, timerVars, batchVars
  <2>2. Requested(i)' /\ \A k : Requested(k) => Requested(k)'
    BY <2>1 DEF TypeOK, Requested
  <2>3. Waits(i) => \A t \in readyTasks \cup sendInbox : t.identifier # i
    BY DEF Waits, Identifiers, Numbers, Present, Waiting, RunsAtMostOnce, TypeOK, Timer
  <2> QED
    BY <2>1, <2>2, <2>3 DEF Cancels, CancelTakesEffect, Identifiers
<1>4. CASE DrainInbox
  <2>1. /\ readyTasks' \subseteq sendInbox /\ sendInbox' = {} /\ scheduleInbox' = {}
        /\ taskHeap' = taskHeap \cup scheduleInbox
        /\ cancelled \subseteq cancelled'
        /\ \A t \in taskHeap' : Requested(t.identifier) => t.identifier \in cancelled'
        /\ UNCHANGED <<stamped, revoked>>
    BY <1>4 DEF DrainInbox, CancelledAfter, IdentifiersExact, Identifiers, Requested, producerVars, historyVars
  <2> QED
    BY <2>1 DEF Cancels, CancelTakesEffect
<1>5. CASE DrainReadyTasks
  <2>1. /\ readyTasks' \subseteq readyTasks \cup {t \in Due(now) : t.identifier \notin cancelled}
        /\ taskHeap' = taskHeap \ Due(now)
        /\ cancelled' = cancelled \ Identifiers(Due(now))
        /\ pc = "drainReady" /\ pc' = "execute"
        /\ UNCHANGED <<stamped, sendInbox, scheduleInbox, cancelInbox, revoked>>
    BY <1>5 DEF DrainReadyTasks, HeapWithout, NotCancelled, producerVars, inboxVars, historyVars
  <2>2. \A t \in scheduleInbox \cup taskHeap' :
            t.identifier \in cancelled => t.identifier \in cancelled'
    <3>1. \A t \in scheduleInbox \cup taskHeap', u \in Due(now) : t.identifier # u.identifier
      BY <2>1 DEF Due, Numbers, Present, Waiting, RunsAtMostOnce, TypeOK, Timer
    <3> QED BY <2>1, <3>1 DEF Identifiers
  <2>3. \A t \in Due(now) : t \in taskHeap
    BY DEF Due
  <2> QED
    BY <2>1, <2>2, <2>3 DEF Cancels, CancelTakesEffect, Requested
<1>6. ASSUME NEW t \in readyTasks, ExecuteTask(t) \/ ExecuteShutdown(t)
      PROVE  Cancels'
  BY <1>6 DEF ExecuteTask, ExecuteShutdown, Cancels, CancelTakesEffect, Requested, producerVars,
     inboxVars, timerVars
<1>7. CASE EndCycle
  BY <1>7 DEF EndCycle, Deferred, Cancels, CancelTakesEffect, Requested, producerVars, timerVars, historyVars
<1>8. CASE Control \/ UNCHANGED vars
  <2>1. /\ UNCHANGED <<stamped, sendInbox, scheduleInbox, cancelInbox, taskHeap, cancelled, readyTasks, revoked>>
        /\ pc' = "drainReady" => pc = "drainReady"
    BY <1>8, ControlFrame DEF vars, producerVars, inboxVars, timerVars, batchVars, historyVars
  <2> QED
    BY <2>1 DEF Cancels, CancelTakesEffect, Requested
<1> QED BY <1>1, <1>2, <1>3, <1>4, <1>5, <1>6, <1>7, <1>8, NextCases, StampCases

-----------------------------------------------------------------------------
\* The inductive invariant of the reactor, for every number of threads, tasks
\* and instants: stamps unique, places exclusive, order kept, cancels kept.
THEOREM Invariance == Spec => []IInv
<1>1. Init => IInv
  BY InitInv
<1>2. IInv /\ [Next]_vars => IInv'
  BY NextTypes, NextNumbers, NextPlaces, NextIdentifiers, NextOrder, NextCancels DEF IInv
<1> QED BY <1>1, <1>2, PTL DEF Spec

\* Types: the heap and the schedule inbox only ever hold timers.
THEOREM TypeCorrect == Spec => []TypeOK
<1>1. IInv => TypeOK
  BY DEF IInv
<1> QED BY <1>1, Invariance, PTL

\* No task is copied or run twice by drains, deferrals and pushes.
THEOREM AtMostOnce == Spec => []RunsAtMostOnce
<1>1. IInv => RunsAtMostOnce
  BY DEF IInv
<1> QED BY <1>1, Invariance, PTL

\* The identifier sets agree with the heap, so a late cancel leaves no trace.
THEOREM NoStaleIdentifiers == Spec => []IdentifiersExact
<1>1. IInv => IdentifiersExact
  BY DEF IInv
<1> QED BY <1>1, Invariance, PTL

\* A cancel accepted while its timer waits keeps the timer from the batch.
THEOREM CancelEffective == Spec => []CancelTakesEffect
<1>1. IInv => CancelTakesEffect
  BY DEF IInv, Cancels
<1> QED BY <1>1, Invariance, PTL

\* Cancels take effect, on their own timer only, and leave nothing behind.
THEOREM CancelsCorrect == Spec => []CancelsExact
BY NoStaleIdentifiers, CancelEffective, PTL DEF CancelsExact

\* Program order: a task runs after all that its thread sent before it to be
\* run no later, for any limit per cycle and any interleaving of threads.
THEOREM ProgramOrder == Spec => NoOvertaking
<1> DEFINE Ordered(s, t) ==
        \A u \in Waiting \cup readyTasks :
            u.producer = t.producer => ~(u.sequence < s /\ u.fireAt <= t.fireAt)
           A == \A s \in ran' \ ran : \A t \in readyTasks : t.sequence = s => Ordered(s, t)
<1>1. ASSUME IInv, [Next]_vars
      PROVE  [A]_vars
  <2>1. ASSUME NEW t \in readyTasks, ExecuteTask(t) \/ ExecuteShutdown(t)
        PROVE  A
    <3>1. /\ pc = "execute" /\ IsFirst(t)
          /\ ran' \ ran \subseteq {t.sequence}
      BY <2>1 DEF ExecuteTask, ExecuteShutdown
    <3>2. \A v \in readyTasks : v.sequence = t.sequence => v = t
      BY <1>1 DEF IInv, RunsAtMostOnce, Present
    <3>3. ASSUME NEW u \in Waiting \cup readyTasks, u.producer = t.producer
          PROVE  ~(u.sequence < t.sequence /\ u.fireAt <= t.fireAt)
      <4>1. /\ u.sequence \in Nat /\ u.fireAt \in Nat
            /\ t.sequence \in Nat /\ t.fireAt \in Nat
        <5>1. u \in Task /\ t \in Task
          BY <1>1 DEF IInv, TypeOK, Timer, Waiting
        <5> QED BY <5>1, ReactorAssumption DEF Task, Time
      <4>2. CASE u \in sendInbox \cup scheduleInbox
        BY <1>1, <3>1, <3>3, <4>1, <4>2 DEF IInv, Order
      <4>3. CASE u \in taskHeap
        BY <1>1, <3>1, <4>1, <4>3 DEF IInv, Order
      <4>4. CASE u \in readyTasks
        BY <3>1, <4>1, <4>4 DEF IsFirst, Precedes
      <4> QED BY <4>2, <4>3, <4>4 DEF Waiting
    <3> QED BY <3>1, <3>2, <3>3
  <2>2. ASSUME ran' = ran PROVE A
    BY <2>2
  <2>3. \A t : Stamped(t) => ran' = ran
    BY DEF Stamped, historyVars
  <2>4. \A t \in stamped : Push(t) => ran' = ran
    BY DEF Push, historyVars
  <2>5. \A i \in 1 .. nextIdentifier : Cancel(i) => ran' = ran
    BY DEF Cancel
  <2>6. DrainInbox \/ DrainReadyTasks \/ EndCycle => ran' = ran
    BY DEF DrainInbox, DrainReadyTasks, EndCycle, historyVars
  <2>7. Control \/ UNCHANGED vars => ran' = ran
    BY <1>1, ControlFrame DEF IInv, vars, historyVars
  <2>8. TypeOK
    BY <1>1 DEF IInv
  <2> HIDE DEF A
  <2> QED BY <1>1, <2>1, <2>2, <2>3, <2>4, <2>5, <2>6, <2>7, <2>8, NextCases, StampCases
<1> QED BY <1>1, Invariance, PTL DEF Spec, NoOvertaking

\* An accepted task leaves the reactor by running, by a cancel or by expiring,
\* unless the server has stopped: no drain or deferral loses one.
THEOREM NothingLost == Spec => NoSilentDrop
<1> DEFINE A ==
        \A t \in Waiting \cup readyTasks :
           \/ t \in Waiting' \cup readyTasks'
           \/ t.sequence \in ran'
           \/ t.identifier \in cancelled
           \/ HasExpired(t, now) \/ TaskExpired(t, now)
           \/ state # "RUNNING"
<1>1. ASSUME IInv, [Next]_vars
      PROVE  [A]_vars
  <2>1. CASE \E t : Stamped(t)
    BY <2>1 DEF Stamped, Waiting, inboxVars, timerVars, batchVars
  <2>2. ASSUME NEW t \in stamped, Push(t)
        PROVE  A
    BY <2>2 DEF Push, Waiting, timerVars, batchVars
  <2>3. ASSUME NEW i \in 1 .. nextIdentifier, Cancel(i)
        PROVE  A
    BY <2>3 DEF Cancel, Waiting, timerVars, batchVars
  <2>4. CASE DrainInbox
    <3>1. readyTasks = {}
      BY <1>1, <2>4 DEF IInv, Order, DrainInbox
    <3>2. \A t \in sendInbox : HasExpired(t, now) \/ t \in readyTasks'
      BY <2>4 DEF DrainInbox
    <3> QED BY <2>4, <3>1, <3>2 DEF DrainInbox, Waiting
  <2>5. CASE DrainReadyTasks
    BY <2>5 DEF DrainReadyTasks, HeapWithout, NotCancelled, Due, Waiting, inboxVars
  <2>6. ASSUME NEW t \in readyTasks, ExecuteTask(t) \/ ExecuteShutdown(t)
        PROVE  A
    <3>1. t.sequence \in ran' \/ TaskExpired(t, now) \/ state # "RUNNING"
      BY <2>6 DEF ExecuteTask, ExecuteShutdown, Runs
    <3> QED BY <2>6, <3>1 DEF ExecuteTask, ExecuteShutdown, Waiting, inboxVars, timerVars
  <2>7. CASE EndCycle
    BY <2>7 DEF EndCycle, Deferred, Waiting, timerVars
  <2>8. CASE Control \/ UNCHANGED vars
    BY <1>1, <2>8, ControlFrame DEF IInv, vars, Waiting, inboxVars, timerVars, batchVars
  <2>9. TypeOK
    BY <1>1 DEF IInv
  <2> HIDE DEF A
  <2> QED BY <1>1, <2>1, <2>2, <2>3, <2>4, <2>5, <2>6, <2>7, <2>8, <2>9, NextCases, StampCases
<1> QED BY <1>1, Invariance, PTL DEF Spec, NoSilentDrop
=============================================================================
