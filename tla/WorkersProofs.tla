--------------------------- MODULE WorkersProofs ---------------------------
(***************************************************************************)
(* Proofs about Workers, for any threads, jobs and queries.                *)
(*                                                                         *)
(* The invariant has three parts.  Jobs: a job that detach_task accepted   *)
(* is in the queue, at one worker, or has run, and only one of these.      *)
(* Queries: what was executed, the query under way and the queue are, one  *)
(* after the other, what was accepted.  Stages: how far the shutdown is    *)
(* tells which threads can still be there.                                 *)
(***************************************************************************)
EXTENDS Workers, SequenceTheorems, FiniteSetTheorems, TLAPS

Jobs ==
    /\ IsInjective(taskQueue) /\ IsInjective(ran)
    /\ \A j \in Job : j \in sent <=>
          \/ j \in Elements(taskQueue) \/ j \in Elements(ran)
          \/ \E w \in Worker : worker[w] = j
    /\ \A v, w \in Worker : worker[v] \in Job /\ worker[v] = worker[w] => v = w
    /\ Elements(taskQueue) \cap Elements(ran) = {}
    /\ \A w \in Worker : worker[w] \notin Elements(taskQueue) \cup Elements(ran)

Queries ==
    /\ accepted = executed \o Waiting
    /\ activeTasks = IF thread \in Query THEN 1 ELSE 0
    /\ owed \subseteq Elements(accepted)

Stages ==
    /\ thread = "gone" => tasks = <<>> /\ threadState = "terminated"
    /\ threadState = "terminated" =>
          \/ main \in {"notifyDb", "leave", "poolStop", "notifyPool", "poolJoin",
                       "dbJoin", "close", "end"}
          \/ main \in {"flush", "flushAsleep"} /\ after = "leave"
    /\ stopped => main \in {"notifyPool", "poolJoin", "dbJoin", "close", "end"}
    /\ \A w \in Worker : worker[w] = "gone" => stopped /\ taskQueue = <<>>
    /\ main \in {"dbJoin", "close", "end"} => \A w \in Worker : worker[w] = "gone"
    /\ main \in {"close", "end"} => thread = "gone"
    /\ closed => main = "end"

IInv == TypeOK /\ Jobs /\ Queries /\ Stages

-----------------------------------------------------------------------------
(***************************************************************************)
(* Sequences as queues.                                                    *)
(***************************************************************************)
\* Appending adds one element and keeps a queue without repetitions so.
LEMMA AppendElements ==
    ASSUME NEW S, NEW s \in Seq(S), NEW e \in S
    PROVE  /\ Append(s, e) \in Seq(S)
           /\ Elements(Append(s, e)) = Elements(s) \cup {e}
           /\ IsInjective(s) /\ e \notin Elements(s) => IsInjective(Append(s, e))
  <1>1. /\ Append(s, e) \in Seq(S) /\ DOMAIN s = 1 .. Len(s) /\ Len(s) \in Nat
        /\ DOMAIN Append(s, e) = 1 .. Len(s) + 1
        /\ \A i \in 1 .. Len(s) : Append(s, e)[i] = s[i]
        /\ Append(s, e)[Len(s) + 1] = e
    BY AppendProperties, LenProperties
  <1>2. Elements(Append(s, e)) = Elements(s) \cup {e}
    <2>1. ASSUME NEW x \in Elements(Append(s, e))
          PROVE  x \in Elements(s) \cup {e}
      BY <1>1 DEF Elements
    <2>2. ASSUME NEW x \in Elements(s)
          PROVE  x \in Elements(Append(s, e))
      <3>1. PICK n \in 1 .. Len(s) : x = s[n]
        BY <1>1 DEF Elements
      <3>2. n \in 1 .. Len(s) + 1 /\ Append(s, e)[n] = x
        BY <1>1, <3>1
      <3>3. QED BY <1>1, <3>2 DEF Elements
    <2>3. e \in Elements(Append(s, e))
      <3>1. Len(s) + 1 \in 1 .. Len(s) + 1
        BY <1>1
      <3>2. QED BY <1>1, <3>1 DEF Elements
    <2>4. QED BY <2>1, <2>2, <2>3
  <1>3. ASSUME IsInjective(s), e \notin Elements(s)
        PROVE  IsInjective(Append(s, e))
    <2>1. \A i \in 1 .. Len(s) : s[i] # e
      BY <1>1, <1>3 DEF Elements
    <2>2. QED BY <1>1, <1>3, <2>1 DEF IsInjective
  <1>4. QED BY <1>1, <1>2, <1>3

\* The head leaves, and is not met again when nothing is repeated.
LEMMA HeadElements ==
    ASSUME NEW S, NEW s \in Seq(S), s # <<>>
    PROVE  /\ Head(s) \in S /\ Tail(s) \in Seq(S)
           /\ Elements(s) = Elements(Tail(s)) \cup {Head(s)}
           /\ IsInjective(s) => IsInjective(Tail(s)) /\ Head(s) \notin Elements(Tail(s))
  <1>1. /\ Head(s) \in S /\ Tail(s) \in Seq(S)
        /\ DOMAIN s = 1 .. Len(s) /\ Len(s) \in Nat \ {0} /\ Head(s) = s[1]
        /\ DOMAIN Tail(s) = 1 .. Len(s) - 1
        /\ \A i \in 1 .. Len(s) - 1 : Tail(s)[i] = s[i + 1]
    BY HeadTailProperties, LenProperties, EmptySeq
  <1>2. Elements(s) = Elements(Tail(s)) \cup {Head(s)}
    <2>1. ASSUME NEW x \in Elements(s)
          PROVE  x \in Elements(Tail(s)) \cup {Head(s)}
      <3>1. PICK n \in 1 .. Len(s) : x = s[n]
        BY <1>1 DEF Elements
      <3>2. CASE n # 1
        <4>1. n - 1 \in 1 .. Len(s) - 1 /\ Tail(s)[n - 1] = x
          BY <1>1, <3>1, <3>2
        <4>2. QED BY <1>1, <4>1 DEF Elements
      <3>3. QED BY <1>1, <3>1, <3>2
    <2>2. ASSUME NEW x \in Elements(Tail(s))
          PROVE  x \in Elements(s)
      <3>1. PICK n \in 1 .. Len(s) - 1 : x = Tail(s)[n]
        BY <1>1 DEF Elements
      <3>2. n + 1 \in 1 .. Len(s) /\ s[n + 1] = x
        BY <1>1, <3>1
      <3>3. QED BY <1>1, <3>2 DEF Elements
    <2>3. Head(s) \in Elements(s)
      BY <1>1, 1 \in 1 .. Len(s) DEF Elements
    <2>4. QED BY <2>1, <2>2, <2>3
  <1>3. ASSUME IsInjective(s)
        PROVE  IsInjective(Tail(s)) /\ Head(s) \notin Elements(Tail(s))
    <2>1. IsInjective(Tail(s))
      BY <1>1, <1>3 DEF IsInjective
    <2>2. ASSUME Head(s) \in Elements(Tail(s))
          PROVE  FALSE
      <3>1. PICK n \in 1 .. Len(s) - 1 : s[1] = Tail(s)[n]
        BY <1>1, <2>2 DEF Elements
      <3>2. n + 1 \in 1 .. Len(s) /\ 1 \in 1 .. Len(s) /\ s[n + 1] = s[1] /\ n + 1 # 1
        BY <1>1, <3>1
      <3>3. QED BY <1>1, <1>3, <3>2 DEF IsInjective
    <2>3. QED BY <2>1, <2>2
  <1>4. QED BY <1>1, <1>2, <1>3

\* A sequence without repetitions is as long as it has elements.
LEMMA InjectiveLength ==
    ASSUME NEW S, NEW s \in Seq(S), IsInjective(s)
    PROVE  Len(s) = Cardinality(Elements(s))
  <1>1. DOMAIN s = 1 .. Len(s) /\ Len(s) \in Nat /\ s \in [1 .. Len(s) -> S]
    BY LenProperties
  <1>2. s \in Surjection(1 .. Len(s), Elements(s))
    BY <1>1 DEF Surjection, Elements
  <1>3. s \in Injection(1 .. Len(s), Elements(s))
    BY <1>1, <1>2 DEF Injection, Surjection, IsInjective
  <1>4. IsFiniteSet(1 .. Len(s)) /\ Cardinality(1 .. Len(s)) = Len(s)
    BY <1>1, FS_Interval
  <1>5. QED BY <1>2, <1>3, <1>4, FS_Surjection

-----------------------------------------------------------------------------
(***************************************************************************)
(* Types.                                                                  *)
(***************************************************************************)
\* Next, one disjunct per action.
LEMMA NextCases ==
    ASSUME Next
    PROVE  \/ \E j \in Job : DetachTask(j)
           \/ \E p \in Poster, q \in Query : AddTask(p, q)
           \/ NotifyWorker
           \/ \E p \in Poster : NotifyThread(p)
           \/ \E w \in Worker : WorkerTests(w)
           \/ \E w \in Worker : WorkerWakes(w)
           \/ \E w \in Worker : WorkerRuns(w)
           \/ ThreadTests \/ ThreadWakes \/ ThreadRuns
           \/ Callback
           \/ \E next \in {"run", "stop"} : CallFlush(next)
           \/ FlushTests \/ FlushWakes
           \/ Stop \/ Terminate \/ NotifyTerminated \/ Leave \/ PoolStop \/ NotifyStopped
           \/ PoolJoin \/ DbJoin \/ CloseDatabase \/ Ended
  BY DEF Next, Shutdown

\* What a step of the dispatcher thread alone, without the pool's or the
\* database thread's queue, may change.
MainStep ==
    \/ FlushTests \/ FlushWakes \/ Stop \/ Terminate \/ NotifyTerminated \/ Leave
    \/ PoolStop \/ NotifyStopped \/ PoolJoin \/ DbJoin \/ CloseDatabase \/ Ended
    \/ \E next \in {"run", "stop"} : CallFlush(next)

LEMMA ElementsOf ==
    ASSUME NEW S, NEW s \in Seq(S)
    PROVE  Elements(s) \subseteq S
  BY LenProperties, ElementOfSeq DEF Elements

LEMMA TypeInit == Init => TypeOK
  <1>1. \A S : <<>> \in Seq(S)
    BY EmptySeq
  <1>2. QED BY <1>1 DEF Init, TypeOK, MainSteps

\* The count of running queries needs that the database thread has one at most.
LEMMA TypeStep == TypeOK /\ Queries /\ [Next]_vars => TypeOK'
  <1> SUFFICES ASSUME TypeOK, Queries, [Next]_vars PROVE TypeOK'
    OBVIOUS
  <1> USE DEF TypeOK, MainSteps, poolVars, dbVars, callVars, mainVars
  <1>1. ASSUME NEW j \in Job, DetachTask(j) PROVE TypeOK'
    BY <1>1, AppendElements DEF DetachTask, Poster
  <1>2. ASSUME NEW p \in Poster, NEW q \in Query, AddTask(p, q) PROVE TypeOK'
    BY <1>2, AppendElements DEF AddTask
  <1>3. CASE NotifyWorker
    BY <1>3 DEF NotifyWorker, Sleepers, Poster
  <1>4. ASSUME NEW p \in Poster, NotifyThread(p) PROVE TypeOK'
    BY <1>4 DEF NotifyThread
  <1>5. ASSUME NEW w \in Worker, WorkerTests(w) PROVE TypeOK'
    <2>1. taskQueue # <<>> => Head(taskQueue) \in Job /\ Tail(taskQueue) \in Seq(Job)
      BY HeadElements
    <2>2. CASE taskQueue = <<>>
      BY <1>5, <2>2 DEF WorkerTests
    <2>3. CASE taskQueue # <<>>
      <3>1. worker' \in [Worker -> {"test", "asleep", "gone"} \cup Job]
        BY <1>5, <2>1, <2>3 DEF WorkerTests
      <3>2. taskQueue' \in Seq(Job)
        BY <1>5, <2>1, <2>3 DEF WorkerTests
      <3>3. QED BY <1>5, <3>1, <3>2 DEF WorkerTests
    <2>4. QED BY <2>2, <2>3
  <1>6. ASSUME NEW w \in Worker, WorkerWakes(w) PROVE TypeOK'
    BY <1>6 DEF WorkerWakes
  <1>7. ASSUME NEW w \in Worker, WorkerRuns(w) PROVE TypeOK'
    BY <1>7, AppendElements DEF WorkerRuns
  <1>8. CASE ThreadTests
    <2>1. tasks # <<>> => Head(tasks) \in Query /\ Tail(tasks) \in Seq(Query)
      BY HeadElements
    <2>2. thread \notin Query /\ activeTasks = 0
      BY <1>8, ThreadAssumption DEF ThreadTests, Queries
    <2>3. CASE tasks = <<>>
      BY <1>8, <2>2, <2>3 DEF ThreadTests, WakeFlush
    <2>4. CASE tasks # <<>>
      <3>1. /\ thread' = Head(tasks) /\ tasks' = Tail(tasks)
            /\ activeTasks' = activeTasks + 1 /\ UNCHANGED main
        BY <1>8, <2>4 DEF ThreadTests
      <3>2. thread' \in Query /\ tasks' \in Seq(Query)
        BY <2>1, <2>4, <3>1
      <3>3. activeTasks' = 1
        BY <2>2, <3>1
      <3>4. QED BY <1>8, <3>1, <3>2, <3>3 DEF ThreadTests
    <2>5. QED BY <2>3, <2>4
  <1>9. CASE ThreadWakes
    BY <1>9 DEF ThreadWakes
  <1>10. CASE ThreadRuns
    <2>1. thread \in Query /\ activeTasks = 1
      BY <1>10 DEF ThreadRuns, Queries
    <2>2. Append(executed, thread) \in Seq(Query) /\ Append(inbox, thread) \in Seq(Query)
      BY <2>1, AppendElements
    <2>3. QED BY <1>10, <2>1, <2>2 DEF ThreadRuns, Posted, WakeFlush
  <1>11. CASE Callback
    <2>1. Head(inbox) \in Query /\ Tail(inbox) \in Seq(Query)
      BY <1>11, HeadElements DEF Callback
    <2>2. Append(called, Head(inbox)) \in Seq(Query)
      BY <2>1, AppendElements
    <2>3. QED BY <1>11, <2>1, <2>2 DEF Callback
  <1>12. CASE MainStep
    <2>1. Elements(accepted) \subseteq Query
      BY ElementsOf
    <2>2. ASSUME NEW next \in {"run", "stop"}, CallFlush(next) PROVE TypeOK'
      BY <2>1, <2>2 DEF CallFlush
    <2>3. CASE FlushTests \/ FlushWakes \/ Stop \/ Terminate
      BY <2>3 DEF FlushTests, FlushWakes, Stop, Terminate
    <2>4. CASE NotifyTerminated
      BY <2>1, <2>4 DEF NotifyTerminated
    <2>5. CASE Leave \/ PoolStop \/ NotifyStopped
      BY <2>5 DEF Leave, PoolStop, NotifyStopped
    <2>6. CASE PoolJoin \/ DbJoin \/ CloseDatabase \/ Ended
      BY <2>6 DEF PoolJoin, DbJoin, CloseDatabase, Ended, vars
    <2>7. QED BY <1>12, <2>2, <2>3, <2>4, <2>5, <2>6 DEF MainStep
  <1>13. CASE UNCHANGED vars
    BY <1>13 DEF vars
  <1>14. QED
    BY <1>1, <1>2, <1>3, <1>4, <1>5, <1>6, <1>7, <1>8, <1>9, <1>10, <1>11, <1>12, <1>13,
       NextCases DEF MainStep

-----------------------------------------------------------------------------
(***************************************************************************)
(* Jobs of the pool.                                                       *)
(***************************************************************************)
LEMMA JobsInit == Init => Jobs
  <1>1. Elements(<<>>) = {} /\ IsInjective(<<>>)
    BY DEF Elements, IsInjective
  <1>2. QED BY <1>1, ThreadAssumption DEF Init, Jobs

\* A step that leaves queue, histories and every job at its worker.
LEMMA JobsFrame ==
    ASSUME TypeOK, Jobs, taskQueue' = taskQueue, sent' = sent, ran' = ran,
           \A w \in Worker : worker'[w] = worker[w] \/ (worker'[w] \notin Job /\ worker[w] \notin Job)
    PROVE  Jobs'
  <1>1. \A w \in Worker, j \in Job : worker'[w] = j <=> worker[w] = j
    OBVIOUS
  <1>2. Elements(taskQueue) \subseteq Job /\ Elements(ran) \subseteq Job
    BY ElementsOf DEF TypeOK
  <1>3. QED BY <1>1, <1>2 DEF Jobs, Elements

LEMMA JobsStep == TypeOK /\ Jobs /\ [Next]_vars => Jobs'
  <1> SUFFICES ASSUME TypeOK, Jobs, [Next]_vars PROVE Jobs'
    OBVIOUS
  <1> USE DEF poolVars
  <1>0. Elements(taskQueue) \subseteq Job /\ Elements(ran) \subseteq Job
    BY ElementsOf DEF TypeOK
  <1>1. ASSUME NEW j \in Job, DetachTask(j) PROVE Jobs'
    <2>1. /\ taskQueue' = Append(taskQueue, j) /\ sent' = sent \cup {j} /\ j \notin sent
          /\ UNCHANGED <<worker, ran>>
      BY <1>1 DEF DetachTask
    <2>2. j \notin Elements(taskQueue) /\ j \notin Elements(ran) /\ \A w \in Worker : worker[w] # j
      BY <2>1 DEF Jobs
    <2>3. Elements(taskQueue') = Elements(taskQueue) \cup {j} /\ IsInjective(taskQueue')
      BY <2>1, <2>2, AppendElements DEF TypeOK, Jobs
    <2>4. QED BY <1>0, <2>1, <2>2, <2>3 DEF Jobs
  <1>2. ASSUME NEW w \in Worker, WorkerTests(w) PROVE Jobs'
    <2>1. CASE taskQueue = <<>>
      <3>1. /\ taskQueue' = taskQueue /\ sent' = sent /\ ran' = ran
            /\ worker[w] = "test" /\ worker'[w] \in {"gone", "asleep"}
            /\ \A v \in Worker \ {w} : worker'[v] = worker[v]
        BY <1>2, <2>1 DEF WorkerTests, TypeOK
      <3>2. worker'[w] \notin Job /\ worker[w] \notin Job
        BY <3>1, ThreadAssumption
      <3>3. QED BY <3>1, <3>2, JobsFrame
    <2>2. CASE taskQueue # <<>>
      <3>1. /\ worker' = [worker EXCEPT ![w] = Head(taskQueue)] /\ worker[w] = "test"
            /\ taskQueue' = Tail(taskQueue) /\ UNCHANGED <<sent, ran>>
        BY <1>2, <2>2 DEF WorkerTests
      <3>2. PICK h : h = Head(taskQueue)
        OBVIOUS
      <3>3. /\ h \in Job /\ Elements(taskQueue) = Elements(taskQueue') \cup {h}
            /\ IsInjective(taskQueue') /\ h \notin Elements(taskQueue')
        BY <2>2, <3>1, <3>2, HeadElements DEF TypeOK, Jobs
      <3>4. worker'[w] = h /\ \A v \in Worker \ {w} : worker'[v] = worker[v]
        BY <3>1, <3>2 DEF TypeOK
      <3>5. h \notin Elements(ran) /\ (\A v \in Worker : worker[v] # h) /\ worker[w] \notin Job
        BY <3>1, <3>3, ThreadAssumption DEF Jobs
      <3>6. \A j \in Job : j \in sent' <=>
                \/ j \in Elements(taskQueue') \/ j \in Elements(ran')
                \/ \E v \in Worker : worker'[v] = j
        BY <3>1, <3>3, <3>4, <3>5 DEF Jobs
      <3>7. \A u, v \in Worker : worker'[u] \in Job /\ worker'[u] = worker'[v] => u = v
        BY <3>4, <3>5 DEF Jobs
      <3>8. QED BY <3>1, <3>3, <3>4, <3>5, <3>6, <3>7 DEF Jobs
    <2>3. QED BY <2>1, <2>2
  <1>3. ASSUME NEW w \in Worker, WorkerRuns(w) PROVE Jobs'
    <2>1. PICK j \in Job : j = worker[w]
      BY <1>3 DEF WorkerRuns
    <2>2. /\ ran' = Append(ran, j) /\ worker' = [worker EXCEPT ![w] = "test"]
          /\ UNCHANGED <<taskQueue, sent>>
      BY <1>3, <2>1 DEF WorkerRuns
    <2>3. j \notin Elements(ran) /\ j \notin Elements(taskQueue) /\ "test" \notin Job
      BY <2>1, ThreadAssumption DEF Jobs
    <2>4. Elements(ran') = Elements(ran) \cup {j} /\ IsInjective(ran')
      BY <2>2, <2>3, AppendElements DEF TypeOK, Jobs
    <2>5. worker'[w] = "test" /\ \A v \in Worker \ {w} : worker'[v] = worker[v] /\ worker[v] # j
      BY <2>1, <2>2 DEF TypeOK, Jobs
    <2>6. \A k \in Job : k \in sent' <=>
              \/ k \in Elements(taskQueue') \/ k \in Elements(ran')
              \/ \E v \in Worker : worker'[v] = k
      BY <2>1, <2>2, <2>3, <2>4, <2>5 DEF Jobs
    <2>7. QED BY <1>0, <2>1, <2>2, <2>3, <2>4, <2>5, <2>6 DEF Jobs
  <1>4. CASE NotifyWorker \/ NotifyStopped \/ \E w \in Worker : WorkerWakes(w)
    <2>1. taskQueue' = taskQueue /\ sent' = sent /\ ran' = ran
      BY <1>4 DEF NotifyWorker, NotifyStopped, WorkerWakes
    <2>2. \A w \in Worker : \/ worker'[w] = worker[w]
                            \/ worker'[w] = "test" /\ worker[w] = "asleep"
      BY <1>4 DEF NotifyWorker, NotifyStopped, WorkerWakes, Sleepers, TypeOK
    <2>3. "test" \notin Job /\ "asleep" \notin Job
      BY ThreadAssumption
    <2>4. \A w \in Worker : worker'[w] = worker[w] \/ (worker'[w] \notin Job /\ worker[w] \notin Job)
      BY <2>2, <2>3
    <2>5. QED BY <2>1, <2>4, JobsFrame
  <1>5. ASSUME UNCHANGED <<taskQueue, sent, ran, worker>> PROVE Jobs'
    BY <1>5 DEF Jobs
  <1>6. QED
    <2>1. CASE \E p \in Poster, q \in Query : AddTask(p, q)
      BY <2>1, <1>5 DEF AddTask
    <2>2. CASE (\E p \in Poster : NotifyThread(p)) \/ ThreadTests \/ ThreadWakes \/ ThreadRuns
      BY <2>2, <1>5 DEF NotifyThread, ThreadTests, ThreadWakes, ThreadRuns
    <2>3. CASE Callback \/ \E next \in {"run", "stop"} : CallFlush(next)
      BY <2>3, <1>5 DEF Callback, CallFlush
    <2>4. CASE FlushTests \/ FlushWakes \/ Stop \/ Terminate \/ NotifyTerminated \/ Leave
      BY <2>4, <1>5 DEF FlushTests, FlushWakes, Stop, Terminate, NotifyTerminated, Leave
    <2>5. CASE PoolStop \/ PoolJoin \/ DbJoin \/ CloseDatabase
      BY <2>5, <1>5 DEF PoolStop, PoolJoin, DbJoin, CloseDatabase
    <2>6. CASE Ended \/ UNCHANGED vars
      BY <2>6, <1>5 DEF Ended, vars
    <2>7. QED BY <1>1, <1>2, <1>3, <1>4, <2>1, <2>2, <2>3, <2>4, <2>5, <2>6, NextCases

-----------------------------------------------------------------------------
(***************************************************************************)
(* Queries of the database thread.                                         *)
(***************************************************************************)
LEMMA QueriesInit == Init => Queries
  <1> SUFFICES ASSUME Init PROVE Queries
    OBVIOUS
  <1>1. thread \notin Query /\ tasks = <<>> /\ executed = <<>> /\ accepted = <<>>
        /\ activeTasks = 0 /\ owed = {}
    BY ThreadAssumption DEF Init
  <1>2. <<>> \o (<<>> \o <<>>) = <<>>
    OBVIOUS
  <1>3. QED BY <1>1, <1>2 DEF Queries, Waiting

\* The thread's query and the queue are a sequence of queries.
LEMMA WaitingType == TypeOK => Waiting \in Seq(Query)
  <1> SUFFICES ASSUME TypeOK PROVE Waiting \in Seq(Query)
    OBVIOUS
  <1>1. tasks \in Seq(Query) /\ <<>> \in Seq(Query)
    BY EmptySeq DEF TypeOK
  <1>2. CASE thread \in Query
    <2>1. <<thread>> \in Seq(Query)
      BY <1>2
    <2>2. QED BY <1>1, <1>2, <2>1, ConcatProperties DEF Waiting
  <1>3. CASE thread \notin Query
    BY <1>1, <1>3, ConcatProperties DEF Waiting
  <1>4. QED BY <1>2, <1>3

\* addTask: the query is the last that waits.
LEMMA WaitingAppends ==
    ASSUME NEW q \in Query, TypeOK, thread' = thread, tasks' = Append(tasks, q)
    PROVE  Waiting' = Append(Waiting, q)
  <1>1. tasks \in Seq(Query) /\ <<>> \in Seq(Query) /\ <<q>> \in Seq(Query)
    BY EmptySeq DEF TypeOK
  <1>2. Append(tasks, q) = tasks \o <<q>>
    BY <1>1, AppendIsConcat
  <1>3. ASSUME NEW s \in Seq(Query)
        PROVE  s \o Append(tasks, q) = Append(s \o tasks, q)
    <2>1. s \o (tasks \o <<q>>) = (s \o tasks) \o <<q>>
      BY <1>1, ConcatAssociative
    <2>2. s \o tasks \in Seq(Query)
      BY <1>1, ConcatProperties
    <2>3. (s \o tasks) \o <<q>> = Append(s \o tasks, q)
      BY <2>2, AppendIsConcat
    <2>4. QED BY <1>2, <2>1, <2>3
  <1>4. CASE thread \in Query
    <2>1. <<thread>> \in Seq(Query)
      BY <1>4
    <2>2. QED BY <1>3, <1>4, <2>1 DEF Waiting
  <1>5. CASE thread \notin Query
    BY <1>1, <1>3, <1>5 DEF Waiting
  <1>6. QED BY <1>4, <1>5

\* threadMain takes the head of the queue: the order of what waits stays.
LEMMA WaitingTakes ==
    ASSUME TypeOK, thread \notin Query, tasks # <<>>, thread' = Head(tasks), tasks' = Tail(tasks)
    PROVE  Waiting' = Waiting
  <1>1. tasks \in Seq(Query) /\ Head(tasks) \in Query /\ Tail(tasks) \in Seq(Query)
    BY HeadElements DEF TypeOK
  <1>2. <<Head(tasks)>> \o Tail(tasks) = tasks
    BY <1>1
  <1>3. <<>> \o tasks = tasks
    BY <1>1
  <1>4. QED BY <1>1, <1>2, <1>3 DEF Waiting

\* runTask ends: the first that waits goes.
LEMMA WaitingExecutes ==
    ASSUME TypeOK, thread \in Query, thread' \notin Query, tasks' = tasks
    PROVE  /\ Waiting # <<>> /\ Head(Waiting) = thread /\ Tail(Waiting) = Waiting'
           /\ Waiting' = tasks
  <1>1. tasks \in Seq(Query) /\ <<thread>> \in Seq(Query)
    BY DEF TypeOK
  <1>2. Waiting = <<thread>> \o tasks
    BY DEF Waiting
  <1>3. Waiting' = tasks
    <2>1. <<>> \o tasks = tasks
      BY <1>1
    <2>2. QED BY <2>1 DEF Waiting
  <1>4. /\ <<thread>> \o tasks # <<>> /\ Head(<<thread>> \o tasks) = thread
        /\ Tail(<<thread>> \o tasks) = tasks
    BY <1>1
  <1>5. QED BY <1>2, <1>3, <1>4

\* Steps that leave the queue of the database alone, and perhaps wake its thread.
LEMMA QueriesFrame ==
    ASSUME TypeOK, Queries, accepted' = accepted, executed' = executed, tasks' = tasks,
           activeTasks' = activeTasks,
           thread' = thread \/ (thread \notin Query /\ thread' \notin Query),
           owed' = owed \/ owed' = Elements(accepted)
    PROVE  Queries'
  <1>1. Waiting' = Waiting
    BY DEF Waiting
  <1>2. (thread' \in Query) = (thread \in Query)
    OBVIOUS
  <1>3. activeTasks' = IF thread' \in Query THEN 1 ELSE 0
    BY <1>2 DEF Queries
  <1>4. owed' \subseteq Elements(accepted')
    BY DEF Queries
  <1>5. QED BY <1>1, <1>3, <1>4 DEF Queries

LEMMA QueriesStep == TypeOK /\ Queries /\ [Next]_vars => Queries'
  <1> SUFFICES ASSUME TypeOK, Queries, [Next]_vars PROVE Queries'
    OBVIOUS
  <1> USE DEF dbVars, mainVars
  <1>0. "test" \notin Query /\ "asleep" \notin Query /\ "gone" \notin Query
    BY ThreadAssumption
  <1>1. ASSUME NEW p \in Poster, NEW q \in Query, AddTask(p, q) PROVE Queries'
    <2>1. /\ tasks' = Append(tasks, q) /\ accepted' = Append(accepted, q)
          /\ UNCHANGED <<thread, activeTasks, executed, owed>>
      BY <1>1 DEF AddTask
    <2>2. Waiting' = Append(Waiting, q)
      BY <2>1, WaitingAppends
    <2>3. Waiting \in Seq(Query) /\ executed \in Seq(Query) /\ <<q>> \in Seq(Query)
      BY WaitingType DEF TypeOK
    <2>4. executed \o Waiting \in Seq(Query)
      BY <2>3, ConcatProperties
    <2>5. Append(executed \o Waiting, q) = executed \o Append(Waiting, q)
      <3>1. Append(executed \o Waiting, q) = (executed \o Waiting) \o <<q>>
        BY <2>4, AppendIsConcat
      <3>2. Append(Waiting, q) = Waiting \o <<q>>
        BY <2>3, AppendIsConcat
      <3>3. (executed \o Waiting) \o <<q>> = executed \o (Waiting \o <<q>>)
        BY <2>3, ConcatAssociative
      <3>4. QED BY <3>1, <3>2, <3>3
    <2>6. accepted' = executed' \o Waiting'
      BY <2>1, <2>2, <2>5 DEF Queries
    <2>7. Elements(accepted) \subseteq Elements(accepted')
      BY <2>1, AppendElements DEF TypeOK
    <2>8. QED BY <2>1, <2>6, <2>7 DEF Queries
  <1>2. CASE ThreadTests
    <2>1. UNCHANGED <<accepted, executed, owed>> /\ thread \notin Query
      BY <1>2, <1>0 DEF ThreadTests
    <2>2. CASE tasks = <<>>
      <3>1. tasks' = tasks /\ activeTasks' = activeTasks /\ thread' \in {"asleep", "gone"}
        BY <1>2, <2>2 DEF ThreadTests
      <3>2. QED BY <1>0, <2>1, <3>1, QueriesFrame
    <2>3. CASE tasks # <<>>
      <3>1. thread' = Head(tasks) /\ tasks' = Tail(tasks) /\ activeTasks' = activeTasks + 1
        BY <1>2, <2>3 DEF ThreadTests
      <3>2. Waiting' = Waiting
        BY <2>1, <2>3, <3>1, WaitingTakes
      <3>3. Head(tasks) \in Query
        BY <2>3, HeadElements DEF TypeOK
      <3>4. activeTasks' = 1 /\ thread' \in Query
        BY <2>1, <3>1, <3>3 DEF Queries
      <3>5. QED BY <2>1, <3>2, <3>4 DEF Queries
    <2>4. QED BY <2>2, <2>3
  <1>3. CASE ThreadRuns
    <2>1. /\ thread \in Query /\ thread' = "test" /\ executed' = Append(executed, thread)
          /\ UNCHANGED <<tasks, accepted, owed>> /\ activeTasks' = activeTasks - 1
      BY <1>3 DEF ThreadRuns
    <2>2. activeTasks' = 0 /\ thread' \notin Query
      BY <1>0, <2>1 DEF Queries
    <2>3. Waiting' = tasks
      BY <2>1, <2>2, WaitingExecutes
    <2>4. executed \in Seq(Query) /\ tasks \in Seq(Query) /\ <<thread>> \in Seq(Query)
      BY <2>1 DEF TypeOK
    <2>5. Append(executed, thread) \o tasks = executed \o (<<thread>> \o tasks)
      <3>1. Append(executed, thread) = executed \o <<thread>>
        BY <2>1, <2>4, AppendIsConcat
      <3>2. (executed \o <<thread>>) \o tasks = executed \o (<<thread>> \o tasks)
        BY <2>4, ConcatAssociative
      <3>3. QED BY <3>1, <3>2
    <2>6. Waiting = <<thread>> \o tasks
      BY <2>1 DEF Waiting
    <2>7. accepted' = executed' \o Waiting'
      BY <2>1, <2>3, <2>5, <2>6 DEF Queries
    <2>8. QED BY <2>1, <2>2, <2>7 DEF Queries
  <1>4. ASSUME UNCHANGED <<accepted, executed, tasks, activeTasks>>,
               thread' = thread \/ (thread = "asleep" /\ thread' = "test"),
               owed' = owed \/ owed' = Elements(accepted)
        PROVE  Queries'
    BY <1>0, <1>4, QueriesFrame
  <1>5. QED
    <2>1. CASE (\E j \in Job : DetachTask(j)) \/ NotifyWorker \/ \E p \in Poster : NotifyThread(p)
      BY <2>1, <1>4 DEF DetachTask, NotifyWorker, NotifyThread
    <2>2. CASE \E w \in Worker : WorkerTests(w) \/ WorkerWakes(w) \/ WorkerRuns(w)
      BY <2>2, <1>4 DEF WorkerTests, WorkerWakes, WorkerRuns
    <2>3. CASE ThreadWakes \/ Callback \/ \E next \in {"run", "stop"} : CallFlush(next)
      BY <2>3, <1>4 DEF ThreadWakes, Callback, CallFlush
    <2>4. CASE FlushTests \/ FlushWakes \/ Stop \/ Terminate \/ NotifyTerminated \/ Leave
      BY <2>4, <1>4 DEF FlushTests, FlushWakes, Stop, Terminate, NotifyTerminated, Leave
    <2>5. CASE PoolStop \/ NotifyStopped \/ PoolJoin \/ DbJoin \/ CloseDatabase
      BY <2>5, <1>4 DEF PoolStop, NotifyStopped, PoolJoin, DbJoin, CloseDatabase
    <2>6. CASE Ended \/ UNCHANGED vars
      BY <2>6, <1>4 DEF Ended, vars
    <2>7. QED BY <1>1, <1>2, <1>3, <2>1, <2>2, <2>3, <2>4, <2>5, <2>6, NextCases

-----------------------------------------------------------------------------
(***************************************************************************)
(* The stages of the shutdown.                                             *)
(***************************************************************************)
LEMMA StagesInit == Init => Stages
  BY DEF Init, Stages

LEMMA StagesStep == TypeOK /\ Stages /\ [Next]_vars => Stages'
  <1> SUFFICES ASSUME TypeOK, Stages, [Next]_vars PROVE Stages'
    OBVIOUS
  <1> USE DEF poolVars, dbVars, mainVars, callVars
  <1>0. /\ \A q \in Query : q \notin {"test", "asleep", "gone"}
        /\ \A j \in Job : j \notin {"test", "asleep", "gone"}
    BY ThreadAssumption
  <1>1. ASSUME NEW j \in Job, DetachTask(j) PROVE Stages'
    BY <1>1 DEF DetachTask, Stages, Free
  <1>2. ASSUME NEW p \in Poster, NEW q \in Query, AddTask(p, q) PROVE Stages'
    BY <1>2 DEF AddTask, Stages
  <1>3. CASE NotifyWorker
    BY <1>3 DEF NotifyWorker, Sleepers, Stages, TypeOK
  <1>4. ASSUME NEW p \in Poster, NotifyThread(p) PROVE Stages'
    BY <1>4 DEF NotifyThread, Stages
  <1>5. ASSUME NEW w \in Worker, WorkerTests(w) PROVE Stages'
    <2>1. CASE taskQueue = <<>>
      BY <1>5, <2>1 DEF WorkerTests, Stages, TypeOK
    <2>2. CASE taskQueue # <<>>
      <3>1. PICK h : h = Head(taskQueue)
        OBVIOUS
      <3>2. h # "gone"
        BY <1>0, <2>2, <3>1, HeadElements DEF TypeOK
      <3>3. \A v \in Worker : worker[v] # "gone"
        BY <2>2 DEF Stages
      <3>4. worker' = [worker EXCEPT ![w] = h] /\ UNCHANGED <<stopped, dbVars, mainVars>>
        BY <1>5, <2>2, <3>1 DEF WorkerTests
      <3>5. \A v \in Worker : worker'[v] # "gone"
        BY <3>2, <3>3, <3>4 DEF TypeOK
      <3>6. QED BY <1>5, <3>3, <3>4, <3>5 DEF Stages
    <2>3. QED BY <2>1, <2>2
  <1>6. ASSUME NEW w \in Worker, WorkerWakes(w) \/ WorkerRuns(w) PROVE Stages'
    <2>1. worker[w] # "gone"
      BY <1>0, <1>6 DEF WorkerWakes, WorkerRuns
    <2>2. /\ worker' = [worker EXCEPT ![w] = "test"]
          /\ UNCHANGED <<taskQueue, stopped, dbVars, mainVars>>
      BY <1>6 DEF WorkerWakes, WorkerRuns
    <2>3. QED BY <2>1, <2>2 DEF Stages, TypeOK
  <1>7. CASE ThreadTests
    <2>1. CASE tasks = <<>>
      BY <1>7, <2>1 DEF ThreadTests, WakeFlush, Stages, TypeOK, MainSteps
    <2>2. CASE tasks # <<>>
      <3>1. thread' = Head(tasks) /\ Head(tasks) \in Query /\ UNCHANGED main
        BY <1>7, <2>2, HeadElements DEF ThreadTests, TypeOK
      <3>2. thread' # "gone" /\ thread = "test"
        BY <1>0, <1>7, <3>1 DEF ThreadTests
      <3>3. UNCHANGED <<poolVars, threadState, after, closed>>
        BY <1>7 DEF ThreadTests
      <3>4. QED BY <3>1, <3>2, <3>3 DEF Stages
    <2>3. QED BY <2>1, <2>2
  <1>8. CASE ThreadWakes
    BY <1>8 DEF ThreadWakes, Stages
  <1>9. CASE ThreadRuns
    BY <1>0, <1>9 DEF ThreadRuns, WakeFlush, Stages
  <1>10. CASE Callback
    BY <1>10 DEF Callback, Stages
  <1>11. CASE \E next \in {"run", "stop"} : CallFlush(next)
    BY <1>11 DEF CallFlush, Free, Stages
  <1>12. CASE FlushTests \/ FlushWakes
    BY <1>12 DEF FlushTests, FlushWakes, Stages, TypeOK
  <1>13. CASE Stop \/ Terminate
    BY <1>13 DEF Stop, Terminate, Stages
  <1>14. CASE NotifyTerminated \/ Leave \/ PoolStop
    BY <1>14 DEF NotifyTerminated, Leave, PoolStop, Stages
  <1>15. CASE NotifyStopped
    BY <1>15 DEF NotifyStopped, Stages, TypeOK
  <1>16. CASE PoolJoin \/ DbJoin \/ CloseDatabase
    BY <1>16 DEF PoolJoin, DbJoin, CloseDatabase, Stages
  <1>17. CASE Ended \/ UNCHANGED vars
    BY <1>17 DEF Ended, vars, Stages
  <1>18. QED
    BY <1>1, <1>2, <1>3, <1>4, <1>5, <1>6, <1>7, <1>8, <1>9, <1>10, <1>11, <1>12, <1>13,
       <1>14, <1>15, <1>16, <1>17, NextCases

-----------------------------------------------------------------------------
(***************************************************************************)
(* The invariant holds in every state of the pool, the database thread and *)
(* the shutdown of both.                                                   *)
(***************************************************************************)
THEOREM Invariance == Spec => []IInv
  <1>1. Init => IInv
    BY TypeInit, JobsInit, QueriesInit, StagesInit DEF IInv
  <1>2. IInv /\ [Next]_vars => IInv'
    BY TypeStep, JobsStep, QueriesStep, StagesStep DEF IInv
  <1>3. QED BY <1>1, <1>2, PTL DEF Spec

(***************************************************************************)
(* Database::shutdown runs last: when the connection is closed, every job  *)
(* detach_task accepted has run, once, every query addTask accepted has    *)
(* been executed, once and in order, and no thread is left to use the      *)
(* connection.                                                             *)
(***************************************************************************)
THEOREM ShutdownIsSafe == Spec => []ShutdownSafe
  <1>1. IInv => ShutdownSafe
    <2> SUFFICES ASSUME IInv, closed PROVE ClosedLast
      BY DEF IInv, ShutdownSafe, ClosedLast
    <2> USE DEF IInv
    <2>1. thread = "gone" /\ tasks = <<>> /\ \A w \in Worker : worker[w] = "gone"
      BY DEF Stages
    <2>2. taskQueue = <<>>
      BY <2>1, ThreadAssumption DEF Stages
    <2>3. Elements(ran) = sent
      <3>1. Elements(taskQueue) = {} /\ Elements(ran) \subseteq Job
        BY <2>2, ElementsOf DEF TypeOK, Elements
      <3>2. \A j \in Job : \A w \in Worker : worker[w] # j
        BY <2>1, ThreadAssumption
      <3>3. \A j \in Job : j \in sent <=> j \in Elements(ran)
        BY <3>1, <3>2 DEF Jobs
      <3>4. sent \subseteq Job
        BY DEF TypeOK
      <3>5. QED BY <3>1, <3>3, <3>4
    <2>4. Len(ran) = Cardinality(sent)
      BY <2>3, InjectiveLength DEF Jobs, TypeOK
    <2>5. executed = accepted
      <3>1. Waiting = <<>>
        <4>1. thread \notin Query
          BY <2>1, ThreadAssumption
        <4>2. <<>> \o <<>> = <<>>
          OBVIOUS
        <4>3. QED BY <2>1, <4>1, <4>2 DEF Waiting
      <3>2. executed \o <<>> = executed
        BY ConcatEmptySeq DEF TypeOK
      <3>3. QED BY <3>1, <3>2 DEF Queries
    <2>6. QED BY <2>1, <2>3, <2>4, <2>5 DEF ClosedLast
  <1>2. QED BY Invariance, <1>1, PTL

(***************************************************************************)
(* DatabaseTasks::flush is a barrier: it returns only when every query     *)
(* that had been accepted before the call has been executed, however the   *)
(* network threads add queries meanwhile.                                  *)
(***************************************************************************)
THEOREM FlushBarrier == Spec => FlushIsBarrier
  <1>1. ASSUME IInv, Next, main = "flush", main' = after
        PROVE  owed \subseteq Elements(executed)
    <2> USE DEF IInv
    <2>1. main' # main
      BY <1>1 DEF TypeOK
    <2>2. FlushTests
      <3>1. ~ \E j \in Job : DetachTask(j)
        BY <2>1 DEF DetachTask, mainVars
      <3>2. ~ \E p \in Poster, q \in Query : AddTask(p, q)
        BY <2>1 DEF AddTask, mainVars
      <3>3. ~ NotifyWorker /\ ~ \E p \in Poster : NotifyThread(p)
        BY <2>1 DEF NotifyWorker, NotifyThread, mainVars
      <3>4. ~ \E w \in Worker : WorkerTests(w) \/ WorkerWakes(w) \/ WorkerRuns(w)
        BY <2>1 DEF WorkerTests, WorkerWakes, WorkerRuns, mainVars
      <3>5. ~ ThreadTests /\ ~ ThreadWakes /\ ~ ThreadRuns
        BY <1>1, <2>1 DEF ThreadTests, ThreadWakes, ThreadRuns, WakeFlush, mainVars
      <3>6. ~ Callback /\ ~ \E next \in {"run", "stop"} : CallFlush(next)
        BY <1>1, <2>1 DEF Callback, CallFlush, Free, mainVars
      <3>7. ~ FlushWakes /\ ~ Stop /\ ~ Terminate /\ ~ NotifyTerminated /\ ~ Leave
        BY <1>1 DEF FlushWakes, Stop, Terminate, NotifyTerminated, Leave
      <3>8. ~ PoolStop /\ ~ NotifyStopped /\ ~ PoolJoin /\ ~ DbJoin /\ ~ CloseDatabase /\ ~ Ended
        BY <1>1 DEF PoolStop, NotifyStopped, PoolJoin, DbJoin, CloseDatabase, Ended
      <3>9. QED BY <1>1, <3>1, <3>2, <3>3, <3>4, <3>5, <3>6, <3>7, <3>8, NextCases
    <2>3. Flushed
      BY <1>1, <2>2 DEF FlushTests, TypeOK
    <2>4. tasks = <<>> /\ thread \notin Query
      BY <1>1, <2>3 DEF Flushed, Queries
    <2>5. Waiting = <<>>
      <3>1. <<>> \o <<>> = <<>>
        OBVIOUS
      <3>2. QED BY <2>4, <3>1 DEF Waiting
    <2>6. executed \o <<>> = executed
      BY <1>1, ConcatEmptySeq DEF TypeOK
    <2>7. QED BY <1>1, <2>5, <2>6 DEF Queries
  <1>2. IInv /\ [Next]_vars =>
            [main = "flush" /\ main' = after => owed \subseteq Elements(executed)]_vars
    BY <1>1
  <1>3. QED BY Invariance, <1>2, PTL DEF Spec, FlushIsBarrier

(***************************************************************************)
(* The database thread with its queue, its signals and its stop implements *)
(* the first-in-first-out service, step by step: what is accepted waits at *)
(* the end, and what is executed is the first that waits.                  *)
(***************************************************************************)
THEOREM FifoRefinement == Spec => Fifo!FifoSafe
  <1>1. Init => Fifo!FifoInit
    <2> SUFFICES ASSUME Init PROVE Fifo!FifoInit
      OBVIOUS
    <2>1. thread \notin Query /\ tasks = <<>> /\ executed = <<>>
      BY ThreadAssumption DEF Init
    <2>2. <<>> \o <<>> = <<>>
      OBVIOUS
    <2>3. QED BY <2>1, <2>2 DEF Fifo!FifoInit, Waiting
  <1>2. IInv /\ [Next]_vars => [Fifo!FifoNext]_<<Waiting, executed>>
    <2> SUFFICES ASSUME IInv, [Next]_vars PROVE [Fifo!FifoNext]_<<Waiting, executed>>
      OBVIOUS
    <2> USE DEF IInv, dbVars
    <2>0. "test" \notin Query /\ "asleep" \notin Query /\ "gone" \notin Query
      BY ThreadAssumption
    <2>1. ASSUME NEW p \in Poster, NEW q \in Query, AddTask(p, q) PROVE Fifo!Accept(q)
      BY <2>1, WaitingAppends DEF AddTask, Fifo!Accept
    <2>2. CASE ThreadRuns
      <3>1. /\ thread \in Query /\ thread' = "test" /\ tasks' = tasks
            /\ executed' = Append(executed, thread)
        BY <2>2 DEF ThreadRuns
      <3>2. Waiting # <<>> /\ Head(Waiting) = thread /\ Tail(Waiting) = Waiting'
        BY <2>0, <3>1, WaitingExecutes
      <3>3. QED BY <3>1, <3>2 DEF Fifo!FifoNext, Fifo!Execute
    <2>3. ASSUME UNCHANGED <<tasks, executed>>,
                 thread' = thread \/ (thread \notin Query /\ thread' \notin Query)
          PROVE  UNCHANGED <<Waiting, executed>>
      BY <2>3 DEF Waiting
    <2>4. CASE ThreadTests
      <3>1. thread \notin Query /\ executed' = executed
        BY <2>0, <2>4 DEF ThreadTests
      <3>2. CASE tasks = <<>>
        <4>1. tasks' = tasks /\ thread' \in {"asleep", "gone"}
          BY <2>4, <3>2 DEF ThreadTests
        <4>2. QED BY <2>0, <2>3, <3>1, <4>1
      <3>3. CASE tasks # <<>>
        <4>1. thread' = Head(tasks) /\ tasks' = Tail(tasks)
          BY <2>4, <3>3 DEF ThreadTests
        <4>2. QED BY <3>1, <3>3, <4>1, WaitingTakes
      <3>4. QED BY <3>2, <3>3
    <2>5. CASE (\E j \in Job : DetachTask(j)) \/ NotifyWorker \/ \E p \in Poster : NotifyThread(p)
      BY <2>0, <2>5, <2>3 DEF DetachTask, NotifyWorker, NotifyThread
    <2>6. CASE \E w \in Worker : WorkerTests(w) \/ WorkerWakes(w) \/ WorkerRuns(w)
      BY <2>6, <2>3 DEF WorkerTests, WorkerWakes, WorkerRuns
    <2>7. CASE ThreadWakes \/ Callback \/ \E next \in {"run", "stop"} : CallFlush(next)
      BY <2>0, <2>7, <2>3 DEF ThreadWakes, Callback, CallFlush
    <2>8. CASE FlushTests \/ FlushWakes \/ Stop \/ Terminate \/ NotifyTerminated \/ Leave
      BY <2>0, <2>8, <2>3 DEF FlushTests, FlushWakes, Stop, Terminate, NotifyTerminated, Leave
    <2>9. CASE PoolStop \/ NotifyStopped \/ PoolJoin \/ DbJoin \/ CloseDatabase
      BY <2>9, <2>3 DEF PoolStop, NotifyStopped, PoolJoin, DbJoin, CloseDatabase
    <2>10. CASE Ended \/ UNCHANGED vars
      BY <2>10, <2>3 DEF Ended, vars
    <2>11. QED
      BY <2>1, <2>2, <2>4, <2>5, <2>6, <2>7, <2>8, <2>9, <2>10, NextCases DEF Fifo!FifoNext
  <1>3. QED BY Invariance, <1>1, <1>2, PTL DEF Spec, Fifo!FifoSafe
=============================================================================
