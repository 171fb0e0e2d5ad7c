------------------------------- MODULE Workers -------------------------------
(***************************************************************************)
(* The threads that work for the dispatcher: the pool of thread_pool.cpp   *)
(* and the database thread of databasetasks.cpp, with the shutdown of both *)
(* in the order of Game::setGameState, Game::shutdown and otserv.cpp.      *)
(*                                                                         *)
(* Main is the dispatcher thread, which is the thread that leaves runLoop  *)
(* and stops everything.  Net threads only add queries (ban.cpp).  One     *)
(* action is one section under a mutex; a thread that has left it may      *)
(* still owe a notification, which is an action of its own.  A thread on a *)
(* condition variable may wake up for no reason.  The dispatcher's inbox   *)
(* (module TaskReactor) is a queue here.                                   *)
(***************************************************************************)
EXTENDS Naturals, Sequences, FiniteSets

CONSTANTS
    Worker,  \* threads of the pool
    Job,     \* pool tasks, each sent at most once
    Query,   \* database tasks, each added at most once
    Net,     \* the network threads
    Main

ASSUME ThreadAssumption ==
    /\ Main \notin Net /\ Job \cap Query = {} /\ Worker # {}
    /\ {"test", "asleep", "gone"} \cap (Job \cup Query) = {}

VARIABLES
    taskQueue,   \* ThreadPool::taskQueue
    stopped,     \* ThreadPool::stopped
    worker,      \* each worker: testing the condition, asleep, gone or a job
    tasks,       \* DatabaseTasks::tasks
    threadState, \* of DatabaseTasks
    thread,      \* the database thread, as worker
    activeTasks,
    owes,        \* the notification each poster still has to send
    main,        \* where the dispatcher thread is
    after,       \* where it goes on when flush returns
    dispatcher,  \* Dispatcher::state is RUNNING
    inbox,       \* callbacks posted to the dispatcher
    closed,      \* Database::shutdown has run
    accepted,    \* history: queries in the order of addTask
    executed,    \* history: queries in the order of execution
    called,      \* history: queries whose callback has run
    sent,        \* history: jobs detach_task accepted
    ran,         \* history: jobs in the order they ended
    owed         \* history: the queries that flush was called for

poolVars == <<taskQueue, stopped, worker, sent, ran>>
dbVars   == <<tasks, threadState, thread, activeTasks, accepted, executed>>
callVars == <<dispatcher, inbox, called>>
mainVars == <<main, after, owed, closed>>
vars == <<poolVars, dbVars, owes, callVars, mainVars>>

Poster == Net \cup {Main}
Elements(s) == {s[n] : n \in DOMAIN s}

MainSteps == {"run", "flush", "flushAsleep", "stop", "terminate", "notifyDb", "leave",
              "poolStop", "notifyPool", "poolJoin", "dbJoin", "close", "end"}

TypeOK ==
    /\ taskQueue \in Seq(Job) /\ stopped \in BOOLEAN
    /\ worker \in [Worker -> {"test", "asleep", "gone"} \cup Job]
    /\ tasks \in Seq(Query)
    /\ threadState \in {"running", "closing", "terminated"}
    /\ thread \in {"test", "asleep", "gone"} \cup Query
    /\ activeTasks \in {0, 1}
    /\ owes \in [Poster -> {"nothing", "pool", "db"}]
    /\ main \in MainSteps /\ after \in {"run", "stop", "leave"}
    /\ dispatcher \in BOOLEAN /\ closed \in BOOLEAN
    /\ inbox \in Seq(Query) /\ called \in Seq(Query)
    /\ accepted \in Seq(Query) /\ executed \in Seq(Query)
    /\ sent \subseteq Job /\ ran \in Seq(Job)
    /\ owed \subseteq Query

Init ==
    /\ taskQueue = <<>> /\ stopped = FALSE
    /\ worker = [w \in Worker |-> "test"]
    /\ tasks = <<>> /\ threadState = "running" /\ thread = "test" /\ activeTasks = 0
    /\ owes = [p \in Poster |-> "nothing"]
    /\ main = "run" /\ after = "run"
    /\ dispatcher = TRUE /\ closed = FALSE
    /\ inbox = <<>> /\ called = <<>>
    /\ accepted = <<>> /\ executed = <<>>
    /\ sent = {} /\ ran = <<>> /\ owed = {}

-----------------------------------------------------------------------------
\* A condition variable over one or more threads.
Sleepers == {w \in Worker : worker[w] = "asleep"}

\* A poster that owes a notification does nothing else.
Free(p) == owes[p] = "nothing" /\ (p = Main => main = "run")

(***************************************************************************)
(* ThreadPool::detach_task                                                 *)
(***************************************************************************)
DetachTask(j) ==
    /\ Free(Main) /\ j \notin sent
    /\ ~stopped
    /\ taskQueue' = Append(taskQueue, j)
    /\ sent' = sent \cup {j}
    /\ owes' = [owes EXCEPT ![Main] = "pool"]
    /\ UNCHANGED <<stopped, worker, ran, dbVars, callVars, mainVars>>

\* condition.notify_one
NotifyWorker ==
    /\ owes[Main] = "pool"
    /\ owes' = [owes EXCEPT ![Main] = "nothing"]
    /\ IF Sleepers = {} THEN UNCHANGED worker
       ELSE \E w \in Sleepers : worker' = [worker EXCEPT ![w] = "test"]
    /\ UNCHANGED <<taskQueue, stopped, sent, ran, dbVars, callVars, mainVars>>

(***************************************************************************)
(* ThreadPool::workerMain: the wait and what follows it under the lock, a  *)
(* wake up without a notification, and the end of a task.                  *)
(***************************************************************************)
WorkerTests(w) ==
    /\ worker[w] = "test"
    /\ \/ /\ taskQueue # <<>>
          /\ worker' = [worker EXCEPT ![w] = Head(taskQueue)]
          /\ taskQueue' = Tail(taskQueue)
       \/ /\ taskQueue = <<>>
          /\ worker' = [worker EXCEPT ![w] = IF stopped THEN "gone" ELSE "asleep"]
          /\ UNCHANGED taskQueue
    /\ UNCHANGED <<stopped, sent, ran, dbVars, owes, callVars, mainVars>>

WorkerWakes(w) ==
    /\ worker[w] = "asleep"
    /\ worker' = [worker EXCEPT ![w] = "test"]
    /\ UNCHANGED <<taskQueue, stopped, sent, ran, dbVars, owes, callVars, mainVars>>

WorkerRuns(w) ==
    /\ worker[w] \in Job
    /\ ran' = Append(ran, worker[w])
    /\ worker' = [worker EXCEPT ![w] = "test"]
    /\ UNCHANGED <<taskQueue, stopped, sent, dbVars, owes, callVars, mainVars>>

-----------------------------------------------------------------------------
(***************************************************************************)
(* DatabaseTasks::addTask: the signal is sent only when the queue was      *)
(* empty; a query that comes when the thread is closing is dropped.        *)
(***************************************************************************)
Signals == tasks = <<>>

AddTask(p, q) ==
    /\ Free(p) /\ q \notin Elements(accepted)
    /\ threadState = "running"
    /\ tasks' = Append(tasks, q)
    /\ accepted' = Append(accepted, q)
    /\ owes' = [owes EXCEPT ![p] = IF Signals THEN "db" ELSE "nothing"]
    /\ UNCHANGED <<poolVars, threadState, thread, activeTasks, executed, callVars, mainVars>>

NotifyThread(p) ==
    /\ owes[p] = "db"
    /\ owes' = [owes EXCEPT ![p] = "nothing"]
    /\ thread' = IF thread = "asleep" THEN "test" ELSE thread
    /\ UNCHANGED <<poolVars, tasks, threadState, activeTasks, accepted, executed, callVars, mainVars>>

(***************************************************************************)
(* DatabaseTasks::threadMain                                               *)
(***************************************************************************)
\* taskDoneSignal.notify_all: flush tests its condition again.
WakeFlush == main' = IF main = "flushAsleep" THEN "flush" ELSE main

\* slip: the thread ends as soon as it is asked to
SlipThreadTests ==
    /\ thread = "test"
    /\ \/ /\ tasks # <<>> /\ threadState = "running"
          /\ thread' = Head(tasks)
          /\ tasks' = Tail(tasks)
          /\ activeTasks' = activeTasks + 1
       \/ /\ tasks = <<>> \/ threadState # "running"
          /\ thread' = IF threadState = "running" THEN "asleep" ELSE "gone"
          /\ UNCHANGED <<tasks, activeTasks>>
    /\ UNCHANGED <<poolVars, threadState, accepted, executed, owes, callVars, mainVars>>

ThreadTests ==
    /\ thread = "test"
    /\ \/ /\ tasks # <<>>
          /\ thread' = Head(tasks)
          /\ tasks' = Tail(tasks)
          /\ activeTasks' = activeTasks + 1
          /\ UNCHANGED main
       \/ /\ tasks = <<>> /\ threadState # "terminated"
          /\ thread' = "asleep"
          /\ UNCHANGED <<tasks, activeTasks, main>>
       \/ /\ tasks = <<>> /\ threadState = "terminated"
          /\ thread' = "gone"
          /\ WakeFlush
          /\ UNCHANGED <<tasks, activeTasks>>
    /\ UNCHANGED <<poolVars, threadState, accepted, executed, owes, callVars, after, owed, closed>>

ThreadWakes ==
    /\ thread = "asleep"
    /\ thread' = "test"
    /\ UNCHANGED <<poolVars, tasks, threadState, activeTasks, accepted, executed, owes, callVars, mainVars>>

\* runTask: the query, then its callback is posted if the dispatcher runs.
Posted(q) == IF dispatcher THEN Append(inbox, q) ELSE inbox

ThreadRuns ==
    /\ thread \in Query
    /\ executed' = Append(executed, thread)
    /\ inbox' = Posted(thread)
    /\ thread' = "test"
    /\ activeTasks' = activeTasks - 1
    /\ IF tasks = <<>> THEN WakeFlush ELSE UNCHANGED main
    /\ UNCHANGED <<poolVars, tasks, threadState, accepted, owes, dispatcher, called,
                   after, owed, closed>>

-----------------------------------------------------------------------------
(***************************************************************************)
(* The dispatcher thread.                                                  *)
(***************************************************************************)
\* Dispatcher::executeTask of a query's callback
Callback ==
    /\ Free(Main) /\ inbox # <<>> /\ dispatcher
    /\ called' = Append(called, Head(inbox))
    /\ inbox' = Tail(inbox)
    /\ UNCHANGED <<poolVars, dbVars, owes, dispatcher, mainVars>>

\* saveGameState, on its own or as the first step of GAME_STATE_SHUTDOWN
CallFlush(next) ==
    /\ Free(Main)
    /\ main' = "flush" /\ after' = next
    /\ owed' = Elements(accepted)
    /\ UNCHANGED <<poolVars, dbVars, owes, callVars, closed>>

\* DatabaseTasks::flush
\* slip: a query that is being executed is not waited for
SlipFlushed == tasks = <<>>
Flushed == tasks = <<>> /\ activeTasks = 0

FlushTests ==
    /\ main = "flush"
    /\ main' = IF Flushed THEN after ELSE "flushAsleep"
    /\ UNCHANGED <<poolVars, dbVars, owes, callVars, after, owed, closed>>

FlushWakes ==
    /\ main = "flushAsleep"
    /\ main' = "flush"
    /\ UNCHANGED <<poolVars, dbVars, owes, callVars, after, owed, closed>>

\* g_databaseTasks.stop, g_dispatcher.stop
Stop ==
    /\ main = "stop"
    /\ threadState' = "closing"
    /\ dispatcher' = FALSE
    /\ main' = "terminate"
    /\ UNCHANGED <<poolVars, tasks, thread, activeTasks, accepted, executed, owes, inbox, called,
                   after, owed, closed>>

\* DatabaseTasks::shutdown: the state, the signal, then flush.
Terminate ==
    /\ main = "terminate"
    /\ threadState' = "terminated"
    /\ main' = "notifyDb"
    /\ UNCHANGED <<poolVars, tasks, thread, activeTasks, accepted, executed, owes, callVars,
                   after, owed, closed>>

NotifyTerminated ==
    /\ main = "notifyDb"
    /\ thread' = IF thread = "asleep" THEN "test" ELSE thread
    /\ main' = "flush" /\ after' = "leave"
    /\ owed' = Elements(accepted)
    /\ UNCHANGED <<poolVars, tasks, threadState, activeTasks, accepted, executed, owes, callVars, closed>>

\* runLoop returns; serviceThread.join waits for the network threads.
Leave ==
    /\ main = "leave"
    /\ \A p \in Net : owes[p] = "nothing"
    /\ main' = "poolStop"
    /\ UNCHANGED <<poolVars, dbVars, owes, callVars, after, owed, closed>>

\* ThreadPool::shutdown: the flag, the signal, then a join of every worker.
PoolStop ==
    /\ main = "poolStop"
    /\ stopped' = TRUE
    /\ main' = "notifyPool"
    /\ UNCHANGED <<taskQueue, worker, sent, ran, dbVars, owes, callVars, after, owed, closed>>

\* slip: notify_one
SlipNotifyStopped ==
    /\ main = "notifyPool"
    /\ IF Sleepers = {} THEN UNCHANGED worker
       ELSE \E w \in Sleepers : worker' = [worker EXCEPT ![w] = "test"]
    /\ main' = "poolJoin"
    /\ UNCHANGED <<taskQueue, stopped, sent, ran, dbVars, owes, callVars, after, owed, closed>>

NotifyStopped ==
    /\ main = "notifyPool"
    /\ worker' = [w \in Worker |-> IF worker[w] = "asleep" THEN "test" ELSE worker[w]]
    /\ main' = "poolJoin"
    /\ UNCHANGED <<taskQueue, stopped, sent, ran, dbVars, owes, callVars, after, owed, closed>>

\* slip: the workers are not joined
SlipPoolJoin ==
    /\ main = "poolJoin"
    /\ main' = "dbJoin"
    /\ UNCHANGED <<poolVars, dbVars, owes, callVars, after, owed, closed>>

PoolJoin ==
    /\ main = "poolJoin"
    /\ \A w \in Worker : worker[w] = "gone"
    /\ main' = "dbJoin"
    /\ UNCHANGED <<poolVars, dbVars, owes, callVars, after, owed, closed>>

\* g_databaseTasks.join
DbJoin ==
    /\ main = "dbJoin"
    /\ thread = "gone"
    /\ main' = "close"
    /\ UNCHANGED <<poolVars, dbVars, owes, callVars, after, owed, closed>>

\* Database::shutdown
CloseDatabase ==
    /\ main = "close"
    /\ closed' = TRUE
    /\ main' = "end"
    /\ UNCHANGED <<poolVars, dbVars, owes, callVars, after, owed>>

Ended == main = "end" /\ UNCHANGED vars

Shutdown ==
    Stop \/ Terminate \/ NotifyTerminated \/ Leave \/ PoolStop \/ NotifyStopped
         \/ PoolJoin \/ DbJoin \/ CloseDatabase

Next ==
    \/ \E j \in Job : DetachTask(j)
    \/ \E p \in Poster, q \in Query : AddTask(p, q)
    \/ NotifyWorker \/ \E p \in Poster : NotifyThread(p)
    \/ \E w \in Worker : WorkerTests(w) \/ WorkerWakes(w) \/ WorkerRuns(w)
    \/ ThreadTests \/ ThreadWakes \/ ThreadRuns
    \/ Callback \/ (\E next \in {"run", "stop"} : CallFlush(next))
    \/ FlushTests \/ FlushWakes
    \/ Shutdown \/ Ended

(***************************************************************************)
(* Every thread that can go on does, a query or a job ends (MySQL has a    *)
(* time limit), and nobody counts on a spurious wake up.  What the         *)
(* dispatcher decides to do next is up to the players.                     *)
(***************************************************************************)
Fairness ==
    /\ \A w \in Worker : WF_vars(WorkerTests(w)) /\ WF_vars(WorkerRuns(w))
    /\ WF_vars(ThreadTests) /\ WF_vars(ThreadRuns)
    /\ WF_vars(NotifyWorker) /\ \A p \in Poster : WF_vars(NotifyThread(p))
    /\ WF_vars(FlushTests) /\ WF_vars(Shutdown)

Spec == Init /\ [][Next]_vars /\ Fairness

-----------------------------------------------------------------------------
(***************************************************************************)
(* The connection is closed only when nothing can use it any more: every   *)
(* accepted query and job is done and every thread is gone ("Shutdown      *)
(* ThreadPool before the database connection goes away", otserv.cpp).      *)
(***************************************************************************)
ClosedLast ==
    closed =>
        /\ Elements(ran) = sent /\ Len(ran) = Cardinality(sent)
        /\ executed = accepted
        /\ thread = "gone" /\ \A w \in Worker : worker[w] = "gone"

(***************************************************************************)
(* The state of the threads at every step up to the closed connection.     *)
(***************************************************************************)
ShutdownSafe == TypeOK /\ ClosedLast

(***************************************************************************)
(* When flush returns, every query that was accepted before the call has   *)
(* been executed: saveGameState takes the return for that.                 *)
(***************************************************************************)
FlushIsBarrier ==
    [][main = "flush" /\ main' = after => owed \subseteq Elements(executed)]_vars

(***************************************************************************)
(* The database thread implements the first-in-first-out service, its      *)
(* liveness included: every accepted query is executed, also when the      *)
(* server is told to stop right after addTask.                             *)
(***************************************************************************)
Waiting == (IF thread \in Query THEN <<thread>> ELSE <<>>) \o tasks

Fifo == INSTANCE FifoService WITH
            Request <- Query,
            waiting <- Waiting,
            done    <- executed

ImplementsFifo == Fifo!FifoSpec

(***************************************************************************)
(* Every job that detach_task queued runs, at the latest when the pool is  *)
(* shut down: stop drains the queue before the threads are joined.         *)
(***************************************************************************)
JobsRun == \A j \in Job : j \in sent ~> j \in Elements(ran)

(***************************************************************************)
(* A shutdown that was started ends with the database closed: no join and  *)
(* no flush waits for a thread that itself waits.                          *)
(***************************************************************************)
ShutdownEnds == main = "stop" ~> closed

(***************************************************************************)
(* Both together: stop drains and ends; nothing that was accepted is left  *)
(* behind and nobody is left waiting.                                      *)
(***************************************************************************)
WorkDone == JobsRun /\ ShutdownEnds
=============================================================================
