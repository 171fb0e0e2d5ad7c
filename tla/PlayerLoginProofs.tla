------------------------- MODULE PlayerLoginProofs -------------------------
(***************************************************************************)
(* Proofs about SaveManager, for any players, changes and callers, and     *)
(* about PlayerLogin, for any connections and accounts as well.  A step of *)
(* PlayerLogin is a step of SaveManager, or places a player, or saves one  *)
(* that is offline; so the chains behave in it as proved in the first      *)
(* part, and the rest is about who waits and who decided.                  *)
(***************************************************************************)
EXTENDS PlayerLogin, FiniteSetTheorems, TLAPS

-----------------------------------------------------------------------------
(***************************************************************************)
(* Type correctness.                                                       *)
(***************************************************************************)

\* The callbacks of a chain go to callers that registered with it.
LEMMA InvokeTypes ==
    ASSUME TypeOK, NEW g \in Guid, NEW ok \in BOOLEAN, InvokeCallbacks(g, ok)
    PROVE  flushChainCallbacks' \in [Guid -> SUBSET Waiter] /\ callbackTasks' \in SUBSET Callback
<1>1. flushChainCallbacks' \in [Guid -> SUBSET Waiter]
  <2>1. {} \in SUBSET Waiter
    OBVIOUS
  <2>2. QED BY <2>1 DEF InvokeCallbacks, TypeOK
<1>2. ASSUME NEW w \in flushChainCallbacks[g]
      PROVE  [guid |-> g, waiter |-> w, ok |-> ok] \in Callback
  <2>1. w \in Waiter
    BY DEF TypeOK
  <2>2. QED BY <2>1 DEF Callback
<1>3. QED BY <1>1, <1>2 DEF InvokeCallbacks, TypeOK

\* A flush given to dispatchPlayerFlush leaves the chain state well typed.
LEMMA DispatchTypes ==
    ASSUME TypeOK, NEW g \in Guid, NEW flush \in Flush, NEW n \in Nat, NEW s \in BOOLEAN,
           DispatchPlayerFlush(g, flush, n, s)
    PROVE  /\ wal' \in [Guid -> {None} \cup Contents]
           /\ captured' \in [Guid -> Contents]
           /\ flushInFlight' \in SUBSET Guid
           /\ pendingFlushes' \in [Guid -> {None} \cup Flush]
           /\ pool' \in SUBSET Job
           /\ flushChainCallbacks' \in [Guid -> SUBSET Waiter]
           /\ callbackTasks' \in SUBSET Callback
           /\ saving' \in BOOLEAN
           /\ pendingSaveFlushes' \in Nat
<1>1. flush.save \in Contents /\ flush.tracked \in BOOLEAN
  BY DEF Flush
<1>2. pendingFlushes' \in [Guid -> {None} \cup Flush]
  BY DEF DispatchPlayerFlush, TypeOK
<1>3. CASE WriteWal(g, flush.save) /\ StartFlush(g, flush, n, s)
  BY <1>1, <1>2, <1>3 DEF WriteWal, StartFlush, TypeOK, Job, Contents
<1>4. CASE WalWriteFails /\ AbortChain(g, flush, n, s)
  <2>1. CompleteTracked(n, flush.tracked) \in Nat /\ SavingAfter(s, n, flush.tracked) \in BOOLEAN
    BY DEF CompleteTracked, SavingAfter
  <2>2. flushChainCallbacks' \in [Guid -> SUBSET Waiter] /\ callbackTasks' \in SUBSET Callback
    BY <1>4, InvokeTypes DEF AbortChain
  <2>3. QED BY <1>2, <1>4, <2>1, <2>2 DEF WalWriteFails, AbortChain, TypeOK
<1>5. QED BY <1>3, <1>4 DEF DispatchPlayerFlush

\* So does a snapshot queued behind an outstanding flush.
LEMMA EnqueueTypes ==
    ASSUME TypeOK, NEW g \in Guid, NEW save \in Contents, NEW track \in BOOLEAN,
           EnqueueBehind(g, save, track)
    PROVE  /\ wal' \in [Guid -> {None} \cup Contents]
           /\ captured' \in [Guid -> Contents]
           /\ flushInFlight' \in SUBSET Guid
           /\ pendingFlushes' \in [Guid -> {None} \cup Flush]
           /\ pool' \in SUBSET Job
           /\ flushChainCallbacks' \in [Guid -> SUBSET Waiter]
           /\ callbackTasks' \in SUBSET Callback
           /\ saving' \in BOOLEAN
           /\ pendingSaveFlushes' \in Nat
<1>1. StaysTracked(g, track) \in BOOLEAN
  BY DEF StaysTracked, QueuedTracked, Queued, TypeOK, Flush
<1>2. [save |-> save, tracked |-> StaysTracked(g, track)] \in Flush
  BY <1>1 DEF Flush
<1>3. pendingFlushes' \in [Guid -> {None} \cup Flush]
  BY <1>2 DEF EnqueueBehind, TypeOK
<1>4. wal' \in [Guid -> {None} \cup Contents] /\ captured' \in [Guid -> Contents]
  BY DEF EnqueueBehind, WriteWal, WalWriteFails, TypeOK, Contents
<1>5. QED BY <1>3, <1>4 DEF EnqueueBehind, TypeOK, BeginTracked

\* schedulePlayerFlush is one or the other.
LEMMA ScheduleTypes ==
    ASSUME TypeOK, NEW g \in Guid, NEW save \in Contents, NEW track \in BOOLEAN,
           SchedulePlayerFlush(g, save, track),
           status = "up", UNCHANGED <<live, status, toRecover, failedRecoveryGuids>>,
           saveAllLeft' \in {None} \cup SUBSET Guid
    PROVE  TypeOK'
<1>1. CASE g \in flushInFlight
  BY <1>1, EnqueueTypes DEF SchedulePlayerFlush, TypeOK
<1>2. CASE g \notin flushInFlight
  <2>1. [save |-> save, tracked |-> track] \in Flush
    BY DEF Flush
  <2>2. BeginTracked(pendingSaveFlushes, track) \in Nat /\ saving \in BOOLEAN
    BY DEF TypeOK, BeginTracked
  <2>3. DispatchPlayerFlush(g, [save |-> save, tracked |-> track],
                            BeginTracked(pendingSaveFlushes, track), saving)
    BY <1>2 DEF SchedulePlayerFlush
  <2>4. QED BY <2>1, <2>2, <2>3, DispatchTypes DEF SchedulePlayerFlush, TypeOK
<1>3. QED BY <1>1, <1>2

\* Every step keeps the types: the snapshots, jobs, tasks and the counter of
\* saveAll stay what the declarations of save_manager.h say.
LEMMA NextTypes == TypeOK /\ [Next]_vars => TypeOK'
<1> SUFFICES ASSUME TypeOK, [Next]_vars PROVE TypeOK'
  OBVIOUS
<1> USE DEF chainVars, drainVars, trackVars, bootVars
<1>1. ASSUME NEW g \in Guid, NEW c \in Change, Play(g, c) PROVE TypeOK'
  BY <1>1 DEF Play, TypeOK, Contents
<1>2. ASSUME NEW g \in Guid, SavePlayer(g) PROVE TypeOK'
  <2>1. live[g] \in Contents BY DEF TypeOK
  <2>2. QED BY <1>2, <2>1, ScheduleTypes DEF SavePlayer, DispatcherIdle, TypeOK
<1>3. ASSUME NEW g \in Guid, SavePlayerNow(g) PROVE TypeOK'
  <2>1. live[g] \in Contents BY DEF TypeOK
  <2>2. CASE g \in flushInFlight
    BY <1>3, <2>1, <2>2, EnqueueTypes DEF SavePlayerNow, DispatcherIdle, SavePlayerSync, TypeOK
  <2>3. CASE g \notin flushInFlight
    BY <1>3, <2>1, <2>3 DEF SavePlayerNow, DispatcherIdle, SavePlayerSync, FlushHere, TypeOK, Contents
  <2>4. QED BY <2>2, <2>3
<1>4. ASSUME NEW players \in SUBSET Guid, SaveAllBegin(players) PROVE TypeOK'
  BY <1>4 DEF SaveAllBegin, TypeOK
<1>5. ASSUME NEW g \in Guid, SaveAllPlayer(g) PROVE TypeOK'
  <2>1. live[g] \in Contents /\ saveAllLeft' \in {None} \cup SUBSET Guid
    BY <1>5 DEF TypeOK, SaveAllPlayer
  <2>2. CASE SchedulePlayerFlush(g, live[g], TRUE)
    BY <1>5, <2>1, <2>2, ScheduleTypes DEF SaveAllPlayer
  <2>3. CASE UNCHANGED <<db, wal, captured, chainVars, drainVars, saving, pendingSaveFlushes>>
    BY <1>5, <2>1, <2>3 DEF SaveAllPlayer, TypeOK
  <2>4. QED BY <1>5, <2>2, <2>3 DEF SaveAllPlayer
<1>6. CASE SaveAllMap
  BY <1>6 DEF SaveAllMap, SavingAfterMap, SavingAfter, CompleteTracked, BeginTracked, TypeOK
<1>7. ASSUME NEW c \in completions, OnPlayerFlushed(c) PROVE TypeOK'
  <2> DEFINE n == CompleteTracked(pendingSaveFlushes, c.tracked)
             s == SavingAfter(saving, pendingSaveFlushes, c.tracked)
  <2>1. c.guid \in Guid /\ c.success \in BOOLEAN
    BY DEF TypeOK, Completion
  <2>2. n \in Nat /\ s \in BOOLEAN
    BY DEF TypeOK, CompleteTracked, SavingAfter
  <2>3. CASE Queued(c.guid)
    <3>1. pendingFlushes[c.guid] \in Flush
      BY <2>1, <2>3 DEF Queued, TypeOK
    <3>2. DispatchPlayerFlush(c.guid, pendingFlushes[c.guid], n, s)
      BY <1>7, <2>3 DEF OnPlayerFlushed
    <3>3. QED BY <1>7, <2>1, <2>2, <3>1, <3>2, DispatchTypes
          DEF OnPlayerFlushed, DispatcherIdle, TypeOK
  <2>4. CASE ~Queued(c.guid)
    <3>1. EndChain(c, n, s)
      BY <1>7, <2>4 DEF OnPlayerFlushed
    <3> HIDE DEF n, s
    <3>2. flushChainCallbacks' \in [Guid -> SUBSET Waiter] /\ callbackTasks' \in SUBSET Callback
      BY <2>1, <3>1, InvokeTypes DEF EndChain
    <3>3. wal' \in [Guid -> {None} \cup Contents]
      BY <2>1, <3>1 DEF EndChain, SettleWal, TypeOK
    <3>4. QED BY <1>7, <2>2, <3>1, <3>2, <3>3 DEF OnPlayerFlushed, DispatcherIdle, EndChain, TypeOK
  <2>5. QED BY <2>3, <2>4
<1>8. ASSUME NEW r \in drainTasks, DrainTask(r) PROVE TypeOK'
  <2>1. r.guid \in Guid /\ r.waiter \in Waiter
    BY DEF TypeOK, Request
  <2>2. [guid |-> r.guid, waiter |-> r.waiter, ok |-> TRUE] \in Callback
    BY <2>1 DEF Callback
  <2>3. CASE ChainUnfinished(r.guid)
    <3>1. flushChainCallbacks' \in [Guid -> SUBSET Waiter]
      BY <1>8, <2>1, <2>3 DEF DrainTask, TypeOK
    <3>2. QED BY <1>8, <2>3, <3>1 DEF DrainTask, TypeOK
  <2>4. CASE ~ChainUnfinished(r.guid)
    BY <1>8, <2>2, <2>4 DEF DrainTask, TypeOK
  <2>5. QED BY <2>3, <2>4
<1>9. ASSUME NEW t \in callbackTasks, RunCallback(t) PROVE TypeOK'
  BY <1>9 DEF RunCallback, TypeOK
<1>10. ASSUME NEW j \in pool, FlushPlayerSave(j) PROVE TypeOK'
  <2>1. j.guid \in Guid /\ j.save \in Contents /\ j.tracked \in BOOLEAN
    BY DEF TypeOK, Job
  <2>2. QED BY <1>10, <2>1 DEF FlushPlayerSave, TypeOK, Completion
<1>11. ASSUME NEW g \in Guid, NEW w \in Waiter, DrainPlayerFlushAsync(g, w) PROVE TypeOK'
  BY <1>11 DEF DrainPlayerFlushAsync, TypeOK, Request
<1>12. CASE Restart
  BY <1>12 DEF Restart, TypeOK, Contents
<1>13. ASSUME NEW g \in Guid, RecoverGuid(g) PROVE TypeOK'
  <2>1. CASE RecoverNothing(g)
    BY <1>13, <2>1 DEF RecoverGuid, RecoverNothing, TypeOK
  <2>2. CASE RecoverStatementFails(g)
    BY <1>13, <2>2 DEF RecoverGuid, RecoverStatementFails, TypeOK
  <2>3. CASE RecoverCommits(g)
    <3>1. wal[g] \in Contents
      BY <1>13 DEF RecoverGuid, TypeOK
    <3>2. db' \in [Guid -> Contents] /\ wal' \in [Guid -> {None} \cup Contents]
      BY <2>3, <3>1 DEF RecoverCommits, TypeOK
    <3>3. toRecover' \in SUBSET {h \in Guid : wal'[h] # None}
      BY <1>13, <2>3 DEF RecoverGuid, RecoverCommits, TypeOK
    <3>4. QED BY <1>13, <2>3, <3>2, <3>3 DEF RecoverGuid, RecoverCommits, TypeOK
  <2>4. QED BY <1>13, <2>1, <2>2, <2>3 DEF RecoverGuid
<1>14. CASE RecoveryDone
  BY <1>14 DEF RecoveryDone, TypeOK
<1>15. CASE UNCHANGED vars
  BY <1>15 DEF vars, TypeOK
<1>16. QED
  BY <1>1, <1>2, <1>3, <1>4, <1>5, <1>6, <1>7, <1>8, <1>9, <1>10, <1>11, <1>12, <1>13,
     <1>14, <1>15 DEF Next, Dispatch

\* The server starts with well typed, empty state.
LEMMA InitTypes == Init => TypeOK
<1>1. {} \in Contents /\ {} \in SUBSET Waiter
  BY DEF Contents
<1> SUFFICES ASSUME Init PROVE TypeOK
  OBVIOUS
<1>2. live \in [Guid -> Contents] /\ db \in [Guid -> Contents] /\ captured \in [Guid -> Contents]
  BY <1>1 DEF Init
<1>3. wal \in [Guid -> {None} \cup Contents] /\ pendingFlushes \in [Guid -> {None} \cup Flush]
  BY DEF Init
<1>4. flushChainCallbacks \in [Guid -> SUBSET Waiter]
  BY <1>1 DEF Init
<1>5. QED BY <1>2, <1>3, <1>4 DEF Init, TypeOK

\* The coordinator's state keeps its types in every reachable state; during
\* recovery only GUIDs with a WAL entry are left to visit.
THEOREM TypeCorrect == Spec => []TypeOK
BY InitTypes, NextTypes, PTL DEF Spec

-----------------------------------------------------------------------------
(***************************************************************************)
(* The chains: at most one flush per GUID, an exact marker, and nobody     *)
(* waiting behind a finished chain.                                        *)
(***************************************************************************)
ChainInv == OneFlushPerGuid /\ InFlightExact /\ NobodyWaitsForNothing

\* dispatchPlayerFlush keeps the chains sound when the GUID has no other flush
\* outstanding: a new job and a marker, or neither.
LEMMA DispatchChain ==
    ASSUME TypeOK, ChainInv,
           NEW g \in Guid, NEW flush \in Flush, NEW n \in Nat, NEW s \in BOOLEAN,
           DispatchPlayerFlush(g, flush, n, s),
           completions' \subseteq completions,
           \A o \in pool \cup completions' : o.guid # g,
           \A c \in completions : c.guid # g => c \in completions'
    PROVE  ChainInv'
<1> DEFINE job == [guid |-> g, save |-> flush.save, tracked |-> flush.tracked]
<1>1. \A h \in Guid : h # g => ((\E o \in Outstanding' : o.guid = h)
                               <=> (\E o \in Outstanding : o.guid = h))
  <2>1. \/ pool' = pool \cup {job}
        \/ pool' = pool
    BY DEF DispatchPlayerFlush, StartFlush, AbortChain
  <2>2. job.guid = g
    OBVIOUS
  <2> HIDE DEF job
  <2>3. Outstanding' = pool' \cup completions'
    BY DEF Outstanding
  <2>4. ASSUME NEW h \in Guid, h # g, NEW o \in Outstanding', o.guid = h
        PROVE  o \in Outstanding
    BY <2>1, <2>2, <2>3, <2>4 DEF Outstanding
  <2>5. ASSUME NEW h \in Guid, h # g, NEW o \in Outstanding, o.guid = h
        PROVE  o \in Outstanding'
    BY <2>1, <2>3, <2>5 DEF Outstanding
  <2>6. QED BY <2>4, <2>5
<1>2. pendingFlushes'[g] = None /\ \A h \in Guid : h # g => pendingFlushes'[h] = pendingFlushes[h]
  BY DEF DispatchPlayerFlush, TypeOK
<1>3. CASE WriteWal(g, flush.save) /\ StartFlush(g, flush, n, s)
  <2>1. pool' = pool \cup {job} /\ flushInFlight' = flushInFlight \cup {g}
    BY <1>3 DEF StartFlush
  <2>2. job.guid = g
    OBVIOUS
  <2> HIDE DEF job
  <2>3. OneFlushPerGuid'
    BY <2>1, <2>2 DEF ChainInv, OneFlushPerGuid
  <2>4. InFlightExact'
    BY <1>1, <2>1, <2>2 DEF ChainInv, InFlightExact, Outstanding
  <2>5. NobodyWaitsForNothing'
    BY <1>2, <1>3, <2>1 DEF ChainInv, NobodyWaitsForNothing, StartFlush, Queued
  <2>6. QED BY <2>3, <2>4, <2>5 DEF ChainInv
<1>4. CASE WalWriteFails /\ AbortChain(g, flush, n, s)
  <2>1. pool' = pool /\ flushInFlight' = flushInFlight \ {g}
    BY <1>4 DEF AbortChain
  <2>2. OneFlushPerGuid'
    BY <2>1 DEF ChainInv, OneFlushPerGuid
  <2>3. InFlightExact'
    BY <1>1, <2>1 DEF ChainInv, InFlightExact, Outstanding
  <2>4. /\ flushChainCallbacks'[g] = {}
        /\ \A h \in Guid : h # g => flushChainCallbacks'[h] = flushChainCallbacks[h]
    BY <1>4 DEF AbortChain, InvokeCallbacks, TypeOK
  <2>5. NobodyWaitsForNothing'
    BY <1>2, <2>1, <2>4 DEF ChainInv, NobodyWaitsForNothing, Queued
  <2>6. QED BY <2>2, <2>3, <2>5 DEF ChainInv
<1>5. QED BY <1>3, <1>4 DEF DispatchPlayerFlush

\* A snapshot queued behind an outstanding flush changes no chain.
LEMMA EnqueueChain ==
    ASSUME TypeOK, ChainInv, NEW g \in Guid, NEW save, NEW track, g \in flushInFlight,
           EnqueueBehind(g, save, track), completions' = completions
    PROVE  ChainInv'
<1>1. \A h \in Guid : h # g => pendingFlushes'[h] = pendingFlushes[h]
  BY DEF EnqueueBehind, TypeOK
<1>2. QED BY <1>1 DEF ChainInv, OneFlushPerGuid, InFlightExact, NobodyWaitsForNothing,
                      Outstanding, Queued, EnqueueBehind

\* schedulePlayerFlush looks at the marker, so it never starts a second flush.
LEMMA ScheduleChain ==
    ASSUME TypeOK, ChainInv, NEW g \in Guid, NEW save \in Contents, NEW track \in BOOLEAN,
           SchedulePlayerFlush(g, save, track)
    PROVE  ChainInv'
<1>1. CASE g \in flushInFlight
  BY <1>1, EnqueueChain DEF SchedulePlayerFlush
<1>2. CASE g \notin flushInFlight
  <2>1. [save |-> save, tracked |-> track] \in Flush
    BY DEF Flush
  <2>2. BeginTracked(pendingSaveFlushes, track) \in Nat /\ saving \in BOOLEAN
    BY DEF TypeOK, BeginTracked
  <2>3. DispatchPlayerFlush(g, [save |-> save, tracked |-> track],
                            BeginTracked(pendingSaveFlushes, track), saving)
    BY <1>2 DEF SchedulePlayerFlush
  <2>4. completions' = completions /\ \A o \in Outstanding : o.guid # g
    BY <1>2 DEF SchedulePlayerFlush, ChainInv, InFlightExact
  <2>5. QED BY <2>1, <2>2, <2>3, <2>4, DispatchChain DEF Outstanding
<1>3. QED BY <1>1, <1>2

\* No step breaks a chain.
LEMMA NextChain == TypeOK /\ ChainInv /\ [Next]_vars => ChainInv'
<1> SUFFICES ASSUME TypeOK, ChainInv, [Next]_vars PROVE ChainInv'
  OBVIOUS
<1> USE DEF chainVars, drainVars, trackVars, bootVars
<1>1. ASSUME UNCHANGED <<chainVars, flushChainCallbacks>> PROVE ChainInv'
  BY <1>1 DEF ChainInv, OneFlushPerGuid, InFlightExact, NobodyWaitsForNothing, Outstanding, Queued
<1>2. ASSUME NEW g \in Guid, NEW c \in Change, Play(g, c) PROVE ChainInv'
  BY <1>1, <1>2 DEF Play
<1>3. ASSUME NEW g \in Guid, SavePlayer(g) PROVE ChainInv'
  <2>1. live[g] \in Contents BY DEF TypeOK
  <2>2. QED BY <1>3, <2>1, ScheduleChain DEF SavePlayer
<1>4. ASSUME NEW g \in Guid, SavePlayerNow(g) PROVE ChainInv'
  <2>1. CASE g \in flushInFlight
    BY <1>4, <2>1, EnqueueChain DEF SavePlayerNow, SavePlayerSync
  <2>2. CASE g \notin flushInFlight
    BY <1>1, <1>4, <2>2 DEF SavePlayerNow, SavePlayerSync, FlushHere
  <2>3. QED BY <2>1, <2>2
<1>5. ASSUME NEW players \in SUBSET Guid, SaveAllBegin(players) PROVE ChainInv'
  BY <1>1, <1>5 DEF SaveAllBegin
<1>6. ASSUME NEW g \in Guid, SaveAllPlayer(g) PROVE ChainInv'
  <2>1. live[g] \in Contents BY DEF TypeOK
  <2>2. QED BY <1>1, <1>6, <2>1, ScheduleChain DEF SaveAllPlayer
<1>7. CASE SaveAllMap
  BY <1>1, <1>7 DEF SaveAllMap
<1>8. ASSUME NEW c \in completions, OnPlayerFlushed(c) PROVE ChainInv'
  <2> DEFINE n == CompleteTracked(pendingSaveFlushes, c.tracked)
             s == SavingAfter(saving, pendingSaveFlushes, c.tracked)
  <2>1. c.guid \in Guid /\ n \in Nat /\ s \in BOOLEAN
    BY DEF TypeOK, Completion, CompleteTracked, SavingAfter
  <2>2. completions' = completions \ {c}
    BY <1>8 DEF OnPlayerFlushed
  <2>3. /\ \A o \in pool \cup completions' : o.guid # c.guid
        /\ \A d \in completions : d.guid # c.guid => d \in completions'
    BY <2>2 DEF ChainInv, OneFlushPerGuid
  <2>4. CASE Queued(c.guid)
    <3>1. pendingFlushes[c.guid] \in Flush
      BY <2>1, <2>4 DEF Queued, TypeOK
    <3>2. DispatchPlayerFlush(c.guid, pendingFlushes[c.guid], n, s)
      BY <1>8, <2>4 DEF OnPlayerFlushed
    <3> HIDE DEF n, s
    <3>3. QED BY <2>1, <2>2, <2>3, <3>1, <3>2, DispatchChain
  <2>5. CASE ~Queued(c.guid)
    <3>1. EndChain(c, n, s)
      BY <1>8, <2>5 DEF OnPlayerFlushed
    <3> HIDE DEF n, s
    <3>2. pool' = pool /\ flushInFlight' = flushInFlight \ {c.guid}
          /\ pendingFlushes' = pendingFlushes
      BY <3>1 DEF EndChain
    <3>3. OneFlushPerGuid'
      BY <2>2, <3>2 DEF ChainInv, OneFlushPerGuid
    <3>4. InFlightExact'
      BY <2>2, <2>3, <3>2 DEF ChainInv, InFlightExact, Outstanding
    <3>5. /\ flushChainCallbacks'[c.guid] = {}
          /\ \A h \in Guid : h # c.guid => flushChainCallbacks'[h] = flushChainCallbacks[h]
      BY <2>1, <3>1 DEF EndChain, InvokeCallbacks, TypeOK
    <3>6. NobodyWaitsForNothing'
      BY <2>5, <3>2, <3>5 DEF ChainInv, NobodyWaitsForNothing, Queued
    <3>7. QED BY <3>3, <3>4, <3>6 DEF ChainInv
  <2>6. QED BY <2>4, <2>5
<1>9. ASSUME NEW r \in drainTasks, DrainTask(r) PROVE ChainInv'
  <2>1. CASE ChainUnfinished(r.guid)
    <3>1. r.guid \in flushInFlight
      BY <2>1 DEF ChainUnfinished, ChainInv, NobodyWaitsForNothing, TypeOK, Request
    <3>2. \A h \in Guid : h # r.guid => flushChainCallbacks'[h] = flushChainCallbacks[h]
      BY <1>9, <2>1 DEF DrainTask, TypeOK
    <3>3. UNCHANGED chainVars
      BY <1>9 DEF DrainTask
    <3>4. QED BY <3>1, <3>2, <3>3 DEF ChainInv, OneFlushPerGuid, InFlightExact,
             NobodyWaitsForNothing, Outstanding, Queued
  <2>2. CASE ~ChainUnfinished(r.guid)
    BY <1>1, <1>9, <2>2 DEF DrainTask
  <2>3. QED BY <2>1, <2>2
<1>10. ASSUME NEW t \in callbackTasks, RunCallback(t) PROVE ChainInv'
  BY <1>1, <1>10 DEF RunCallback
<1>11. ASSUME NEW j \in pool, FlushPlayerSave(j) PROVE ChainInv'
  <2>1. PICK ok \in BOOLEAN : completions' = completions \cup
           {[guid |-> j.guid, save |-> j.save, tracked |-> j.tracked, success |-> ok]}
    BY <1>11 DEF FlushPlayerSave
  <2> DEFINE done == [guid |-> j.guid, save |-> j.save, tracked |-> j.tracked, success |-> ok]
  <2>2. done.guid = j.guid /\ completions' = completions \cup {done} /\ pool' = pool \ {j}
    BY <1>11, <2>1 DEF FlushPlayerSave
  <2> HIDE DEF done
  <2>3. OneFlushPerGuid'
    BY <2>2 DEF ChainInv, OneFlushPerGuid
  <2>4. InFlightExact'
    BY <1>11, <2>2 DEF ChainInv, InFlightExact, Outstanding, FlushPlayerSave
  <2>5. NobodyWaitsForNothing'
    BY <1>11 DEF ChainInv, NobodyWaitsForNothing, Queued, FlushPlayerSave
  <2>6. QED BY <2>3, <2>4, <2>5 DEF ChainInv
<1>12. ASSUME NEW g \in Guid, NEW w \in Waiter, DrainPlayerFlushAsync(g, w) PROVE ChainInv'
  BY <1>1, <1>12 DEF DrainPlayerFlushAsync
<1>13. CASE Restart
  BY <1>13 DEF Restart, ChainInv, OneFlushPerGuid, InFlightExact, NobodyWaitsForNothing,
               Outstanding, Queued
<1>14. ASSUME NEW g \in Guid, RecoverGuid(g) PROVE ChainInv'
  BY <1>1, <1>14 DEF RecoverGuid
<1>15. CASE RecoveryDone
  BY <1>1, <1>15 DEF RecoveryDone
<1>16. CASE UNCHANGED vars
  BY <1>1, <1>16 DEF vars
<1>17. QED
  BY <1>2, <1>3, <1>4, <1>5, <1>6, <1>7, <1>8, <1>9, <1>10, <1>11, <1>12, <1>13,
     <1>14, <1>15, <1>16 DEF Next, Dispatch

\* Init has no chain at all.
LEMMA InitChain == Init => ChainInv
BY DEF Init, ChainInv, OneFlushPerGuid, InFlightExact, NobodyWaitsForNothing, Outstanding, Queued

\* Two saves of one GUID are never flushed concurrently.
THEOREM FlushesExclusive == Spec => []OneFlushPerGuid
<1>1. ChainInv => OneFlushPerGuid
  BY DEF ChainInv
<1>2. QED BY <1>1, InitChain, NextChain, TypeCorrect, PTL DEF Spec

\* The marker flushInFlight is exact, also across aborted chains and restarts.
THEOREM MarkerExact == Spec => []InFlightExact
<1>1. ChainInv => InFlightExact
  BY DEF ChainInv
<1>2. QED BY <1>1, InitChain, NextChain, TypeCorrect, PTL DEF Spec

\* Queued saves and waiting logins always have a flush that will serve them.
THEOREM WaitersServed == Spec => []NobodyWaitsForNothing
<1>1. ChainInv => NobodyWaitsForNothing
  BY DEF ChainInv
<1>2. QED BY <1>1, InitChain, NextChain, TypeCorrect, PTL DEF Spec

\* A save chain is one flush at a time, marked exactly, and nobody waits behind
\* a chain that has ended.
THEOREM ChainsExact == Spec => []ChainExact
BY FlushesExclusive, MarkerExact, WaitersServed, PTL DEF ChainExact

-----------------------------------------------------------------------------
(***************************************************************************)
(* Durability: the snapshots of one player are nested, the WAL covers      *)
(* every outstanding flush, and nothing captured is discarded.             *)
(***************************************************************************)
DataInv == WalCoversFlush /\ SnapshotsNested /\ CapturedSurvives

\* A dispatched flush that holds all that was captured keeps the data safe.
LEMMA DispatchData ==
    ASSUME TypeOK, ChainInv, DataInv, status = "up", UNCHANGED <<status, live, db>>,
           NEW g \in Guid, NEW flush \in Flush, NEW n \in Nat, NEW s \in BOOLEAN,
           DispatchPlayerFlush(g, flush, n, s),
           completions' \subseteq completions,
           \A o \in pool \cup completions' : o.guid # g,
           captured[g] \subseteq flush.save,
           flush.save \subseteq live[g],
           db[g] \subseteq flush.save
    PROVE  DataInv'
<1> DEFINE job == [guid |-> g, save |-> flush.save, tracked |-> flush.tracked]
<1>1. \A o \in Outstanding : o.guid \in Guid
  BY DEF TypeOK, Outstanding, Job, Completion
<1>2. pendingFlushes'[g] = None /\ \A h \in Guid : h # g => pendingFlushes'[h] = pendingFlushes[h]
  BY DEF DispatchPlayerFlush, TypeOK
<1>3. CASE WriteWal(g, flush.save) /\ StartFlush(g, flush, n, s)
  <2>1. pool' = pool \cup {job} /\ job.guid = g /\ job.save = flush.save
    BY <1>3 DEF StartFlush
  <2>2. /\ wal'[g] = flush.save /\ \A h \in Guid : h # g => wal'[h] = wal[h]
        /\ captured'[g] = flush.save /\ \A h \in Guid : h # g => captured'[h] = captured[h]
    BY <1>3 DEF WriteWal, TypeOK
  <2>3. flush.save # None
    BY NoneAssumption DEF Flush
  <2> HIDE DEF job
  <2>4. \A o \in Outstanding' : o = job \/ (o \in Outstanding /\ o.guid # g)
    BY <2>1 DEF Outstanding
  <2>5. WalCoversFlush'
    BY <1>1, <2>1, <2>2, <2>3, <2>4 DEF DataInv, WalCoversFlush
  <2>6. CapturedSurvives'
    BY <2>2, <2>3 DEF DataInv, CapturedSurvives, InWal
  <2>7. \A o \in Outstanding' :
          /\ db[o.guid] \subseteq o.save
          /\ o.save \subseteq live[o.guid]
          /\ IF pendingFlushes'[o.guid] # None
             THEN o.save \cup captured'[o.guid] \subseteq pendingFlushes'[o.guid].save
             ELSE captured'[o.guid] \subseteq o.save
    BY <1>1, <1>2, <2>1, <2>2, <2>4 DEF DataInv, SnapshotsNested, Queued
  <2>8. SnapshotsNested'
    BY <1>2, <2>2, <2>7 DEF DataInv, SnapshotsNested, Queued
  <2>9. QED BY <2>5, <2>6, <2>8 DEF DataInv
<1>4. CASE WalWriteFails /\ AbortChain(g, flush, n, s)
  <2>1. pool' = pool /\ wal' = wal /\ captured' = captured
    BY <1>4 DEF AbortChain, WalWriteFails
  <2>2. \A o \in Outstanding' : o \in Outstanding /\ o.guid # g
    BY <2>1 DEF Outstanding
  <2>3. WalCoversFlush' /\ CapturedSurvives'
    BY <2>1, <2>2 DEF DataInv, WalCoversFlush, CapturedSurvives, InWal
  <2>4. \A o \in Outstanding' :
          /\ db[o.guid] \subseteq o.save
          /\ o.save \subseteq live[o.guid]
          /\ IF pendingFlushes'[o.guid] # None
             THEN o.save \cup captured'[o.guid] \subseteq pendingFlushes'[o.guid].save
             ELSE captured'[o.guid] \subseteq o.save
    BY <1>1, <1>2, <2>1, <2>2 DEF DataInv, SnapshotsNested, Queued
  <2>5. SnapshotsNested'
    BY <1>2, <2>1, <2>4 DEF DataInv, SnapshotsNested, Queued
  <2>6. QED BY <2>3, <2>5 DEF DataInv
<1>5. QED BY <1>3, <1>4 DEF DispatchPlayerFlush

\* A queued snapshot of the player as it is now keeps the data safe.
LEMMA EnqueueData ==
    ASSUME TypeOK, ChainInv, DataInv, status = "up", UNCHANGED <<status, live, db, completions>>,
           NEW g \in Guid, NEW track \in BOOLEAN, EnqueueBehind(g, live[g], track)
    PROVE  DataInv'
<1>1. \A o \in Outstanding : o.guid \in Guid
  BY DEF TypeOK, Outstanding, Job, Completion
<1>2. Outstanding' = Outstanding
  BY DEF Outstanding, EnqueueBehind
<1>3. /\ pendingFlushes'[g] # None
      /\ pendingFlushes'[g].save = live[g]
      /\ \A h \in Guid : h # g => pendingFlushes'[h] = pendingFlushes[h]
  <2>1. StaysTracked(g, track) \in BOOLEAN /\ live[g] \in Contents
    BY DEF StaysTracked, QueuedTracked, Queued, TypeOK, Flush
  <2>2. [save |-> live[g], tracked |-> StaysTracked(g, track)] \in Flush
    BY <2>1 DEF Flush
  <2>3. pendingFlushes'[g] = [save |-> live[g], tracked |-> StaysTracked(g, track)]
    BY DEF EnqueueBehind, TypeOK
  <2>4. QED BY <2>2, <2>3, NoneAssumption DEF EnqueueBehind, TypeOK
<1>4. /\ \/ wal'[g] = live[g] /\ captured'[g] = live[g]
         \/ wal'[g] = wal[g] /\ captured'[g] = captured[g]
      /\ \A h \in Guid : h # g => wal'[h] = wal[h] /\ captured'[h] = captured[h]
  <2>1. captured[g] \cup live[g] = live[g]
    BY DEF DataInv, SnapshotsNested
  <2>2. QED BY <2>1 DEF EnqueueBehind, WriteWal, WalWriteFails, TypeOK
<1>5. live[g] # None
  BY NoneAssumption DEF TypeOK
<1>6. WalCoversFlush'
  BY <1>1, <1>2, <1>4, <1>5 DEF DataInv, WalCoversFlush, SnapshotsNested
<1>7. CapturedSurvives'
  BY <1>4, <1>5 DEF DataInv, CapturedSurvives, InWal
<1>8. \A h \in Guid : captured'[h] \subseteq live[h]
  BY <1>4 DEF DataInv, SnapshotsNested
<1>9. \A o \in Outstanding' :
        /\ db[o.guid] \subseteq o.save
        /\ o.save \subseteq live[o.guid]
        /\ IF pendingFlushes'[o.guid] # None
           THEN o.save \cup captured'[o.guid] \subseteq pendingFlushes'[o.guid].save
           ELSE captured'[o.guid] \subseteq o.save
  BY <1>1, <1>2, <1>3, <1>4, <1>8 DEF DataInv, SnapshotsNested, Queued
<1>10. SnapshotsNested'
  BY <1>3, <1>8, <1>9 DEF DataInv, SnapshotsNested, Queued
<1>11. QED BY <1>6, <1>7, <1>10 DEF DataInv

\* schedulePlayerFlush of the player as it is now keeps the data safe.
LEMMA ScheduleData ==
    ASSUME TypeOK, ChainInv, DataInv, status = "up", UNCHANGED <<status, live>>,
           NEW g \in Guid, NEW track \in BOOLEAN, SchedulePlayerFlush(g, live[g], track)
    PROVE  DataInv'
<1>1. CASE g \in flushInFlight
  BY <1>1, EnqueueData DEF SchedulePlayerFlush
<1>2. CASE g \notin flushInFlight
  <2> DEFINE flush == [save |-> live[g], tracked |-> track]
  <2>1. flush \in Flush /\ flush.save = live[g]
    BY DEF Flush, TypeOK
  <2>2. BeginTracked(pendingSaveFlushes, track) \in Nat /\ saving \in BOOLEAN
    BY DEF TypeOK, BeginTracked
  <2>3. DispatchPlayerFlush(g, flush, BeginTracked(pendingSaveFlushes, track), saving)
    BY <1>2 DEF SchedulePlayerFlush
  <2> HIDE DEF flush
  <2>4. db' = db /\ completions' = completions /\ \A o \in Outstanding : o.guid # g
    BY <1>2 DEF SchedulePlayerFlush, ChainInv, InFlightExact
  <2>5. captured[g] \subseteq live[g] /\ db[g] \subseteq live[g]
    BY DEF DataInv, SnapshotsNested
  <2>6. QED BY <2>1, <2>2, <2>3, <2>4, <2>5, DispatchData DEF Outstanding
<1>3. QED BY <1>1, <1>2

\* No step breaks the order of the snapshots or discards the only copy.
LEMMA NextData == TypeOK /\ ChainInv /\ DataInv /\ [Next]_vars => DataInv'
<1> SUFFICES ASSUME TypeOK, ChainInv, DataInv, [Next]_vars PROVE DataInv'
  OBVIOUS
<1> USE DEF chainVars, drainVars, trackVars, bootVars
<1>0. \A o \in Outstanding : o.guid \in Guid /\ o.save \in Contents
  BY DEF TypeOK, Outstanding, Job, Completion
<1>1. ASSUME UNCHANGED <<status, live, db, wal, captured, chainVars>> PROVE DataInv'
  BY <1>1 DEF DataInv, WalCoversFlush, SnapshotsNested, CapturedSurvives, InWal, Outstanding, Queued
<1>2. ASSUME NEW g \in Guid, NEW c \in Change, Play(g, c) PROVE DataInv'
  <2>1. \A h \in Guid : live[h] \subseteq live'[h]
    BY <1>2 DEF Play, TypeOK
  <2>2. UNCHANGED <<status, db, wal, captured, chainVars>> /\ status = "up"
    BY <1>2 DEF Play, DispatcherIdle
  <2>3. SnapshotsNested'
    BY <1>0, <2>1, <2>2 DEF DataInv, SnapshotsNested, Outstanding, Queued
  <2>4. QED BY <2>2, <2>3 DEF DataInv, WalCoversFlush, CapturedSurvives, InWal, Outstanding
<1>3. ASSUME NEW g \in Guid, SavePlayer(g) PROVE DataInv'
  BY <1>3, ScheduleData DEF SavePlayer, DispatcherIdle
<1>4. ASSUME NEW g \in Guid, SavePlayerNow(g) PROVE DataInv'
  <2>1. CASE g \in flushInFlight
    BY <1>4, <2>1, EnqueueData DEF SavePlayerNow, SavePlayerSync, DispatcherIdle
  <2>2. CASE g \notin flushInFlight
    <3>1. UNCHANGED <<status, live, wal, chainVars>> /\ status = "up"
      BY <1>4, <2>2 DEF SavePlayerNow, SavePlayerSync, FlushHere, DispatcherIdle
    <3>2. \A o \in Outstanding : o.guid # g
      BY <2>2 DEF ChainInv, InFlightExact
    <3>3. CASE UNCHANGED <<db, captured>>
      BY <1>1, <3>1, <3>3
    <3>4. CASE ~UNCHANGED <<db, captured>>
      <4>1. captured[g] \cup live[g] = live[g]
        BY DEF DataInv, SnapshotsNested
      <4>2. /\ db'[g] = live[g] /\ \A h \in Guid : h # g => db'[h] = db[h]
            /\ captured'[g] = live[g] /\ \A h \in Guid : h # g => captured'[h] = captured[h]
        BY <1>4, <2>2, <3>4, <4>1 DEF SavePlayerNow, SavePlayerSync, FlushHere, TypeOK
      <4>3. SnapshotsNested'
        BY <1>0, <3>1, <3>2, <4>2 DEF DataInv, SnapshotsNested, Outstanding, Queued
      <4>4. WalCoversFlush' /\ CapturedSurvives'
        BY <3>1, <4>2 DEF DataInv, WalCoversFlush, CapturedSurvives, InWal, Outstanding
      <4>5. QED BY <4>3, <4>4 DEF DataInv
    <3>5. QED BY <3>3, <3>4
  <2>3. QED BY <2>1, <2>2
<1>5. ASSUME NEW players \in SUBSET Guid, SaveAllBegin(players) PROVE DataInv'
  BY <1>1, <1>5 DEF SaveAllBegin
<1>6. ASSUME NEW g \in Guid, SaveAllPlayer(g) PROVE DataInv'
  BY <1>1, <1>6, ScheduleData DEF SaveAllPlayer
<1>7. CASE SaveAllMap
  BY <1>1, <1>7 DEF SaveAllMap
<1>8. ASSUME NEW c \in completions, OnPlayerFlushed(c) PROVE DataInv'
  <2> DEFINE n == CompleteTracked(pendingSaveFlushes, c.tracked)
             s == SavingAfter(saving, pendingSaveFlushes, c.tracked)
  <2>1. c.guid \in Guid /\ n \in Nat /\ s \in BOOLEAN /\ c \in Outstanding
    BY DEF TypeOK, Completion, CompleteTracked, SavingAfter, Outstanding
  <2>2. completions' = completions \ {c} /\ UNCHANGED <<status, live, db>> /\ status = "up"
    BY <1>8 DEF OnPlayerFlushed, DispatcherIdle
  <2>3. \A o \in pool \cup completions' : o.guid # c.guid
    BY <2>2 DEF ChainInv, OneFlushPerGuid
  <2>4. CASE Queued(c.guid)
    <3>1. pendingFlushes[c.guid] \in Flush
      BY <2>1, <2>4 DEF Queued, TypeOK
    <3>2. DispatchPlayerFlush(c.guid, pendingFlushes[c.guid], n, s)
      BY <1>8, <2>4 DEF OnPlayerFlushed
    <3>3. /\ captured[c.guid] \subseteq pendingFlushes[c.guid].save
          /\ pendingFlushes[c.guid].save \subseteq live[c.guid]
          /\ db[c.guid] \subseteq pendingFlushes[c.guid].save
      BY <2>1, <2>4 DEF DataInv, SnapshotsNested
    <3> HIDE DEF n, s
    <3>4. QED BY <2>1, <2>2, <2>3, <3>1, <3>2, <3>3, DispatchData
  <2>5. CASE ~Queued(c.guid)
    <3>1. EndChain(c, n, s)
      BY <1>8, <2>5 DEF OnPlayerFlushed
    <3> HIDE DEF n, s
    <3>2. /\ pool' = pool /\ pendingFlushes' = pendingFlushes /\ captured' = captured
          /\ \/ c.success /\ wal' = [wal EXCEPT ![c.guid] = None]
             \/ wal' = wal
      BY <3>1 DEF EndChain, SettleWal
    <3>3. \A o \in Outstanding' : o \in Outstanding /\ o.guid # c.guid
      BY <2>2, <2>3, <3>2 DEF Outstanding
    <3>4. WalCoversFlush'
      BY <1>0, <3>2, <3>3 DEF DataInv, WalCoversFlush, TypeOK
    <3>5. CapturedSurvives'
      <4>1. c.success => captured[c.guid] \subseteq db[c.guid]
        BY <2>1, <2>5 DEF DataInv, SnapshotsNested
      <4>2. QED BY <2>2, <3>2, <4>1 DEF DataInv, CapturedSurvives, InWal, TypeOK
    <3>6. SnapshotsNested'
      BY <2>2, <3>1, <3>2, <3>3 DEF DataInv, SnapshotsNested, Queued, EndChain
    <3>7. QED BY <3>4, <3>5, <3>6 DEF DataInv
  <2>6. QED BY <2>4, <2>5
<1>9. ASSUME NEW r \in drainTasks, DrainTask(r) PROVE DataInv'
  BY <1>1, <1>9 DEF DrainTask
<1>10. ASSUME NEW t \in callbackTasks, RunCallback(t) PROVE DataInv'
  BY <1>1, <1>10 DEF RunCallback
<1>11. ASSUME NEW j \in pool, FlushPlayerSave(j) PROVE DataInv'
  <2>1. PICK ok \in BOOLEAN :
          /\ db' = IF ok THEN [db EXCEPT ![j.guid] = j.save] ELSE db
          /\ completions' = completions \cup
               {[guid |-> j.guid, save |-> j.save, tracked |-> j.tracked, success |-> ok]}
    BY <1>11 DEF FlushPlayerSave
  <2> DEFINE done == [guid |-> j.guid, save |-> j.save, tracked |-> j.tracked, success |-> ok]
  <2>2. /\ done.guid = j.guid /\ done.save = j.save /\ done.success = ok
        /\ completions' = completions \cup {done} /\ pool' = pool \ {j}
    BY <1>11, <2>1 DEF FlushPlayerSave
  <2> HIDE DEF done
  <2>3. j \in Outstanding /\ j.guid \in Guid /\ UNCHANGED <<status, live, wal, captured, pendingFlushes, flushInFlight>>
    BY <1>0, <1>11 DEF FlushPlayerSave, Outstanding
  <2>4. \A o \in Outstanding' : o = done \/ (o \in Outstanding /\ o.guid # j.guid)
    BY <2>2 DEF Outstanding, ChainInv, OneFlushPerGuid
  <2>5. /\ \A h \in Guid : db[h] \subseteq db'[h]
        /\ \A h \in Guid : h # j.guid => db'[h] = db[h]
        /\ db'[j.guid] = IF ok THEN j.save ELSE db[j.guid]
    BY <2>1, <2>3 DEF DataInv, SnapshotsNested, TypeOK
  <2>6. WalCoversFlush'
    BY <2>2, <2>3, <2>4 DEF DataInv, WalCoversFlush
  <2>7. CapturedSurvives'
    BY <2>3, <2>5 DEF DataInv, CapturedSurvives, InWal
  <2>8. \A o \in Outstanding' :
          /\ db'[o.guid] \subseteq o.save
          /\ o.save \subseteq live[o.guid]
          /\ IF Queued(o.guid)
             THEN o.save \cup captured[o.guid] \subseteq pendingFlushes[o.guid].save
             ELSE captured[o.guid] \subseteq o.save
    BY <1>0, <2>2, <2>3, <2>4, <2>5 DEF DataInv, SnapshotsNested
  <2>9. \A c \in completions' : c.success => c.save \subseteq db'[c.guid]
    BY <1>0, <2>2, <2>3, <2>5 DEF DataInv, SnapshotsNested, Outstanding
  <2>10. j.guid \in flushInFlight
    BY <2>3 DEF ChainInv, InFlightExact
  <2>11. status = "up"
    BY <2>3, <2>10 DEF DataInv, SnapshotsNested
  <2>12. \A h \in Guid : db'[h] \subseteq live[h]
    BY <2>3, <2>5, <2>11 DEF DataInv, SnapshotsNested
  <2>13. SnapshotsNested'
    BY <2>3, <2>8, <2>9, <2>11, <2>12 DEF DataInv, SnapshotsNested, Queued
  <2>14. QED BY <2>6, <2>7, <2>13 DEF DataInv
<1>12. ASSUME NEW g \in Guid, NEW w \in Waiter, DrainPlayerFlushAsync(g, w) PROVE DataInv'
  BY <1>1, <1>12 DEF DrainPlayerFlushAsync
<1>13. CASE Restart
  BY <1>13 DEF Restart, DataInv, WalCoversFlush, SnapshotsNested, CapturedSurvives,
               Outstanding, Queued
<1>14. ASSUME NEW g \in Guid, RecoverGuid(g) PROVE DataInv'
  <2>1. status = "recovering" /\ UNCHANGED <<status, live, captured, chainVars>>
    BY <1>14 DEF RecoverGuid
  <2>2. \A h \in Guid : live[h] = {} /\ h \notin flushInFlight
    BY <2>1 DEF DataInv, SnapshotsNested
  <2>3. Outstanding = {}
    BY <1>0, <2>2 DEF ChainInv, InFlightExact
  <2>4. \A h \in Guid : captured[h] = {} /\ ~Queued(h)
    BY <2>2 DEF DataInv, SnapshotsNested, ChainInv, NobodyWaitsForNothing
  <2>5. QED BY <2>1, <2>2, <2>3, <2>4 DEF DataInv, WalCoversFlush, SnapshotsNested,
           CapturedSurvives, Outstanding, Queued
<1>15. CASE RecoveryDone
  <2>1. status = "recovering" /\ live' = db /\ UNCHANGED <<db, wal, captured, chainVars>>
    BY <1>15 DEF RecoveryDone
  <2>2. \A h \in Guid : live[h] = {} /\ h \notin flushInFlight
    BY <2>1 DEF DataInv, SnapshotsNested
  <2>3. Outstanding = {}
    BY <1>0, <2>2 DEF ChainInv, InFlightExact
  <2>4. \A h \in Guid : captured[h] = {} /\ ~Queued(h)
    BY <2>2 DEF DataInv, SnapshotsNested, ChainInv, NobodyWaitsForNothing
  <2>5. QED BY <1>15, <2>1, <2>2, <2>3, <2>4 DEF DataInv, WalCoversFlush, SnapshotsNested,
           CapturedSurvives, Outstanding, Queued, RecoveryDone
<1>16. CASE UNCHANGED vars
  BY <1>1, <1>16 DEF vars
<1>17. QED
  BY <1>2, <1>3, <1>4, <1>5, <1>6, <1>7, <1>8, <1>9, <1>10, <1>11, <1>12, <1>13,
     <1>14, <1>15, <1>16 DEF Next, Dispatch

\* Nothing is captured, outstanding or queued at the start.
LEMMA InitData == Init => DataInv
BY DEF Init, DataInv, WalCoversFlush, SnapshotsNested, CapturedSurvives, InWal, Outstanding, Queued

\* The inductive invariant of the save coordinator.
IInv == TypeOK /\ ChainInv /\ DataInv

\* The three parts hold together in every reachable state.
THEOREM Invariance == Spec => []IInv
<1>1. Init => IInv
  BY InitTypes, InitChain, InitData DEF IInv
<1>2. IInv /\ [Next]_vars => IInv'
  BY NextTypes, NextChain, NextData DEF IInv
<1>3. QED BY <1>1, <1>2, PTL DEF Spec

\* Whatever a pool job writes is in the WAL before and until it is done.
THEOREM WalCovers == Spec => []WalCoversFlush
<1>1. IInv => WalCoversFlush
  BY DEF IInv, DataInv
<1>2. QED BY <1>1, Invariance, PTL

\* Until a restart nothing that reached the WAL or the database is discarded.
THEOREM Kept == Spec => []CapturedSurvives
<1>1. IInv => CapturedSurvives
  BY DEF IInv, DataInv
<1>2. QED BY <1>1, Invariance, PTL

\* Whenever the process dies, what was captured since the last start is in the
\* WAL or in the database.
THEOREM Durability == Spec => []Durable
BY WalCovers, Kept, PTL DEF Durable

\* Database, outstanding flush, queued flush and player are nested snapshots.
THEOREM Nesting == Spec => []SnapshotsNested
<1>1. IInv => SnapshotsNested
  BY DEF IInv, DataInv
<1>2. QED BY <1>1, Invariance, PTL

\* While the server is up no write replaces a player's row by an older state.
THEOREM InOrder == Spec => SavesInOrder
<1>1. IInv /\ [Next]_vars => [status = "up" => \A g \in Guid : db[g] \subseteq db'[g]]_db
  <2> SUFFICES ASSUME IInv, [Next]_vars, status = "up", db' # db
               PROVE  \A g \in Guid : db[g] \subseteq db'[g]
    OBVIOUS
  <2> USE DEF chainVars, drainVars, trackVars, bootVars
  <2>1. ASSUME NEW h \in Guid, SavePlayerNow(h) PROVE \A g \in Guid : db[g] \subseteq db'[g]
    <3>1. db[h] \subseteq live[h]
      BY DEF IInv, DataInv, SnapshotsNested
    <3>2. db' = [db EXCEPT ![h] = live[h]]
      BY <2>1 DEF SavePlayerNow, SavePlayerSync, FlushHere
    <3>3. QED BY <3>1, <3>2 DEF IInv, TypeOK
  <2>2. ASSUME NEW j \in pool, FlushPlayerSave(j) PROVE \A g \in Guid : db[g] \subseteq db'[g]
    <3>1. db[j.guid] \subseteq j.save
      BY DEF IInv, DataInv, SnapshotsNested, Outstanding
    <3>2. db' = [db EXCEPT ![j.guid] = j.save]
      BY <2>2 DEF FlushPlayerSave
    <3>3. QED BY <3>1, <3>2 DEF IInv, TypeOK
  <2>3. \/ \E h \in Guid : SavePlayerNow(h)
        \/ \E j \in pool : FlushPlayerSave(j)
    BY DEF Next, Dispatch, vars, Play, SavePlayer, SaveAllBegin, SaveAllPlayer, SaveAllMap,
       OnPlayerFlushed, DrainTask, RunCallback, DrainPlayerFlushAsync, Restart, RecoverGuid,
       RecoveryDone, SchedulePlayerFlush
  <2>4. QED BY <2>1, <2>2, <2>3
<1>2. QED BY <1>1, Invariance, PTL DEF Spec, SavesInOrder

\* callback(true) means that no save of the GUID is outstanding or queued.
THEOREM Barrier == Spec => DrainIsBarrier
<1> DEFINE Clear(t) == t.ok => t.guid \notin flushInFlight' /\ pendingFlushes'[t.guid] = None
<1>1. IInv /\ [Next]_vars => [\A t \in callbackTasks' \ callbackTasks : Clear(t)]_vars
  <2> SUFFICES ASSUME IInv, [Next]_vars, NEW t \in callbackTasks' \ callbackTasks, t.ok
               PROVE  t.guid \notin flushInFlight' /\ pendingFlushes'[t.guid] = None
    BY DEF vars, drainVars
  <2> USE DEF chainVars, drainVars, trackVars, bootVars
  <2>1. ASSUME NEW g \in Guid, InvokeCallbacks(g, FALSE) PROVE FALSE
    BY <2>1 DEF InvokeCallbacks
  <2>2. ASSUME NEW g \in Guid, NEW save, NEW track, SchedulePlayerFlush(g, save, track) PROVE FALSE
    BY <2>1, <2>2 DEF SchedulePlayerFlush, EnqueueBehind, DispatchPlayerFlush, StartFlush, AbortChain
  <2>3. CASE \E r \in drainTasks : DrainTask(r)
    <3>1. PICK r \in drainTasks : DrainTask(r)
      BY <2>3
    <3>2. ~ChainUnfinished(r.guid) /\ t.guid = r.guid
      BY <3>1 DEF DrainTask
    <3>3. QED BY <3>1, <3>2 DEF ChainUnfinished, Queued, DrainTask
  <2>4. CASE \E c \in completions : OnPlayerFlushed(c)
    <3>1. PICK c \in completions : OnPlayerFlushed(c)
      BY <2>4
    <3>2. c.guid \in Guid
      BY DEF IInv, TypeOK, Completion
    <3>3. ~Queued(c.guid)
      BY <2>1, <3>1, <3>2 DEF OnPlayerFlushed, DispatchPlayerFlush, StartFlush, AbortChain
    <3>4. t.guid = c.guid /\ flushInFlight' = flushInFlight \ {c.guid} /\ pendingFlushes' = pendingFlushes
      BY <3>1, <3>3 DEF OnPlayerFlushed, EndChain, InvokeCallbacks
    <3>5. QED BY <3>3, <3>4 DEF Queued
  <2>5. \/ \E r \in drainTasks : DrainTask(r)
        \/ \E c \in completions : OnPlayerFlushed(c)
    BY <2>2 DEF Next, Dispatch, vars, Play, SavePlayer, SavePlayerNow, SavePlayerSync, FlushHere,
       EnqueueBehind, SaveAllBegin, SaveAllPlayer, SaveAllMap, RunCallback, DrainPlayerFlushAsync,
       FlushPlayerSave, Restart, RecoverGuid, RecoveryDone
  <2>6. QED BY <2>3, <2>4, <2>5
<1>2. QED BY <1>1, Invariance, PTL DEF Spec, DrainIsBarrier

-----------------------------------------------------------------------------
(***************************************************************************)
(* The counter of saveAll.  A step changes what is tracked of one GUID, so *)
(* the two cardinalities change by one at most.                            *)
(***************************************************************************)
One(p) == IF p THEN 1 ELSE 0

\* A set of players counts one more with g than without.
LEMMA CountOne ==
    ASSUME NEW S \in SUBSET Guid, NEW g
    PROVE  /\ Cardinality(S) \in Nat /\ Cardinality(S \ {g}) \in Nat
           /\ Cardinality(S) = Cardinality(S \ {g}) + One(g \in S)
<1>1. IsFiniteSet(S)
  BY GuidAssumption, FS_Subset
<1>2. IsFiniteSet(S \ {g})
  BY <1>1, FS_RemoveElement
<1>3. Cardinality(S) \in Nat /\ Cardinality(S \ {g}) \in Nat
  BY <1>1, <1>2, FS_CardinalityType
<1>4. Cardinality(S \ {g}) = IF g \in S THEN Cardinality(S) - 1 ELSE Cardinality(S)
  BY <1>1, FS_RemoveElement
<1>5. QED BY <1>3, <1>4 DEF One

\* The tracked GUIDs other than g and g itself, counted.
LEMMA CountTracked ==
    ASSUME NEW g \in Guid
    PROVE  /\ Cardinality(TrackedGuids \ {g}) \in Nat /\ Cardinality(TrackedQueue \ {g}) \in Nat
           /\ Cardinality(TrackedGuids) =
                 Cardinality(TrackedGuids \ {g}) + One(g \in TrackedGuids)
           /\ Cardinality(TrackedQueue) =
                 Cardinality(TrackedQueue \ {g}) + One(g \in TrackedQueue)
<1>1. TrackedGuids \in SUBSET Guid /\ TrackedQueue \in SUBSET Guid
  BY DEF TrackedGuids, TrackedQueue
<1>2. QED BY <1>1, CountOne

\* dispatchPlayerFlush called with the counter of all other tracked flushes
\* and this one leaves it exact, whether the flush starts or is given up.
LEMMA DispatchTracked ==
    ASSUME TypeOK, NEW g \in Guid, NEW flush \in Flush, NEW n \in Nat, NEW s \in BOOLEAN,
           DispatchPlayerFlush(g, flush, n, s),
           completions' \subseteq completions,
           \A o \in pool \cup completions' : o.guid # g,
           \A c \in completions : c.guid # g => c \in completions',
           n = Cardinality(TrackedGuids \ {g}) + Cardinality(TrackedQueue \ {g})
               + One(flush.tracked),
           s => saveAllLeft' # None \/ n > 0
    PROVE  TrackedCount'
<1> DEFINE job == [guid |-> g, save |-> flush.save, tracked |-> flush.tracked]
<1>0. job.guid = g /\ job.tracked = flush.tracked /\ flush.tracked \in BOOLEAN
  BY DEF Flush
<1>1. TrackedQueue' = TrackedQueue \ {g}
  BY DEF DispatchPlayerFlush, TrackedQueue, QueuedTracked, Queued, TypeOK
<1>c. /\ Cardinality(TrackedGuids \ {g}) \in Nat /\ Cardinality(TrackedQueue \ {g}) \in Nat
  BY CountTracked
<1>2. CASE WriteWal(g, flush.save) /\ StartFlush(g, flush, n, s)
  <2>1. pool' = pool \cup {job} /\ pendingSaveFlushes' = n /\ saving' = s
    BY <1>2 DEF StartFlush
  <2> HIDE DEF job
  <2>2. TrackedGuids' \ {g} = TrackedGuids \ {g}
    BY <1>0, <2>1 DEF TrackedGuids, Outstanding
  <2>3. g \in TrackedGuids' <=> flush.tracked
    BY <1>0, <2>1 DEF TrackedGuids, Outstanding
  <2>4. TrackedGuids' \in SUBSET Guid
    BY DEF TrackedGuids
  <2>5. Cardinality(TrackedGuids') = Cardinality(TrackedGuids \ {g}) + One(flush.tracked)
    BY <2>2, <2>3, <2>4, CountOne DEF One
  <2>6. QED BY <1>1, <1>c, <2>1, <2>5 DEF TrackedCount, One
<1>3. CASE WalWriteFails /\ AbortChain(g, flush, n, s)
  <2>1. /\ pool' = pool /\ pendingSaveFlushes' = CompleteTracked(n, flush.tracked)
        /\ saving' = SavingAfter(s, n, flush.tracked)
    BY <1>3 DEF AbortChain
  <2>2. TrackedGuids' = TrackedGuids \ {g}
    BY <2>1 DEF TrackedGuids, Outstanding
  <2>3. pendingSaveFlushes' = Cardinality(TrackedGuids') + Cardinality(TrackedQueue')
    BY <1>0, <1>1, <1>c, <2>1, <2>2 DEF CompleteTracked, One
  <2>4. saving' => saveAllLeft' # None \/ pendingSaveFlushes' > 0
    <3>1. saving' => s /\ ~(flush.tracked /\ n <= 1)
      BY <2>1, Zenon DEF SavingAfter
    <3>2. s /\ ~(flush.tracked /\ n <= 1) => saveAllLeft' # None \/ CompleteTracked(n, flush.tracked) > 0
      BY <1>0 DEF CompleteTracked
    <3>3. QED BY <2>1, <3>1, <3>2
  <2>5. QED BY <2>3, <2>4 DEF TrackedCount
<1>4. QED BY <1>2, <1>3 DEF DispatchPlayerFlush

\* A snapshot queued behind an outstanding flush is counted once, however
\* often it is replaced.
LEMMA EnqueueTracked ==
    ASSUME TypeOK, TrackedCount, NEW g \in Guid, NEW save \in Contents, NEW track \in BOOLEAN,
           EnqueueBehind(g, save, track), completions' = completions,
           saving => saveAllLeft' # None \/ pendingSaveFlushes > 0
    PROVE  TrackedCount'
<1>1. TrackedGuids' = TrackedGuids
  BY DEF EnqueueBehind, TrackedGuids, Outstanding
<1>2. TrackedQueue' \ {g} = TrackedQueue \ {g}
  BY DEF EnqueueBehind, TrackedQueue, QueuedTracked, Queued, TypeOK
<1>3. g \in TrackedQueue <=> QueuedTracked(g)
  BY DEF TrackedQueue
<1>4. TrackedQueue' \in SUBSET Guid
  BY DEF TrackedQueue
<1>5. StaysTracked(g, track) \in BOOLEAN
  BY DEF StaysTracked, QueuedTracked, Queued, TypeOK, Flush
<1> DEFINE flush == [save |-> save, tracked |-> StaysTracked(g, track)]
<1>6. pendingFlushes'[g] = flush /\ flush.tracked = StaysTracked(g, track) /\ flush # None
  <2>1. flush \in Flush
    BY <1>5 DEF Flush
  <2>2. flush # None
    BY <2>1, NoneAssumption
  <2>3. QED BY <2>2 DEF EnqueueBehind, TypeOK
<1> HIDE DEF flush
<1>7. g \in TrackedQueue' <=> QueuedTracked(g) \/ track
  BY <1>6 DEF TrackedQueue, QueuedTracked, Queued, StaysTracked
<1>8. /\ Cardinality(TrackedQueue') = Cardinality(TrackedQueue \ {g}) + One(g \in TrackedQueue')
      /\ Cardinality(TrackedQueue) = Cardinality(TrackedQueue \ {g}) + One(g \in TrackedQueue)
      /\ Cardinality(TrackedQueue \ {g}) \in Nat /\ Cardinality(TrackedGuids) \in Nat
  <2>1. TrackedGuids \in SUBSET Guid
    BY DEF TrackedGuids
  <2>2. QED BY <1>2, <1>4, <2>1, CountOne, CountTracked
<1>9. pendingSaveFlushes' = BeginTracked(pendingSaveFlushes, track /\ ~QueuedTracked(g))
      /\ saving' = saving
  BY DEF EnqueueBehind
<1>10. pendingSaveFlushes' = Cardinality(TrackedGuids') + Cardinality(TrackedQueue')
  BY <1>1, <1>3, <1>7, <1>8, <1>9 DEF TrackedCount, BeginTracked, One
<1>11. pendingSaveFlushes \in Nat /\ (saving' => saveAllLeft' # None \/ pendingSaveFlushes' > 0)
  BY <1>9 DEF TypeOK, BeginTracked
<1>12. QED BY <1>10, <1>11 DEF TrackedCount

\* schedulePlayerFlush counts the flush it starts or queues.
LEMMA ScheduleTracked ==
    ASSUME TypeOK, ChainInv, TrackedCount,
           NEW g \in Guid, NEW save \in Contents, NEW track \in BOOLEAN,
           SchedulePlayerFlush(g, save, track),
           saving => saveAllLeft' # None \/ pendingSaveFlushes > 0
    PROVE  TrackedCount'
<1>1. CASE g \in flushInFlight
  BY <1>1, EnqueueTracked DEF SchedulePlayerFlush
<1>2. CASE g \notin flushInFlight
  <2> DEFINE flush == [save |-> save, tracked |-> track]
             n == BeginTracked(pendingSaveFlushes, track)
  <2>1. flush \in Flush /\ flush.tracked = track
    BY DEF Flush
  <2>2. n \in Nat /\ saving \in BOOLEAN
    BY DEF TypeOK, BeginTracked
  <2>3. DispatchPlayerFlush(g, flush, n, saving) /\ completions' = completions
    BY <1>2 DEF SchedulePlayerFlush
  <2>4. \A o \in Outstanding : o.guid # g
    BY <1>2 DEF ChainInv, InFlightExact
  <2>5. g \notin TrackedGuids /\ g \notin TrackedQueue
    BY <1>2, <2>4 DEF TrackedGuids, TrackedQueue, QueuedTracked, ChainInv, NobodyWaitsForNothing
  <2>6. n = Cardinality(TrackedGuids \ {g}) + Cardinality(TrackedQueue \ {g}) + One(flush.tracked)
    BY <2>1, <2>5, CountTracked DEF TrackedCount, BeginTracked, One
  <2>7. saving => saveAllLeft' # None \/ n > 0
    BY DEF BeginTracked, TypeOK
  <2> HIDE DEF flush, n
  <2>8. QED BY <2>1, <2>2, <2>3, <2>4, <2>6, <2>7, DispatchTracked DEF Outstanding
<1>3. QED BY <1>1, <1>2

\* No step loses count.
LEMMA NextTracked == TypeOK /\ ChainInv /\ TrackedCount /\ [Next]_vars => TrackedCount'
<1> SUFFICES ASSUME TypeOK, ChainInv, TrackedCount, [Next]_vars PROVE TrackedCount'
  OBVIOUS
<1> USE DEF chainVars, drainVars, trackVars, bootVars
<1>1. ASSUME UNCHANGED <<chainVars, pendingSaveFlushes>>,
             saving' => saveAllLeft' # None \/ pendingSaveFlushes' > 0
      PROVE  TrackedCount'
  BY <1>1 DEF TrackedCount, TrackedGuids, TrackedQueue, Outstanding, QueuedTracked, Queued
<1>2. ASSUME UNCHANGED <<chainVars, trackVars>> PROVE TrackedCount'
  BY <1>1, <1>2 DEF TrackedCount
<1>3. ASSUME NEW g \in Guid, SavePlayer(g) PROVE TrackedCount'
  <2>1. live[g] \in Contents BY DEF TypeOK
  <2>2. QED BY <1>3, <2>1, ScheduleTracked DEF SavePlayer, TrackedCount
<1>4. ASSUME NEW g \in Guid, SavePlayerNow(g) PROVE TrackedCount'
  <2>1. live[g] \in Contents BY DEF TypeOK
  <2>2. CASE g \in flushInFlight
    BY <1>4, <2>1, <2>2, EnqueueTracked DEF SavePlayerNow, SavePlayerSync, TrackedCount
  <2>3. CASE g \notin flushInFlight
    BY <1>2, <1>4, <2>3 DEF SavePlayerNow, SavePlayerSync, FlushHere
  <2>4. QED BY <2>2, <2>3
<1>5. ASSUME NEW players \in SUBSET Guid, SaveAllBegin(players) PROVE TrackedCount'
  <2>1. players # None
    BY NoneAssumption
  <2>2. QED BY <1>1, <1>5, <2>1 DEF SaveAllBegin
<1>6. ASSUME NEW g \in Guid, SaveAllPlayer(g) PROVE TrackedCount'
  <2>1. live[g] \in Contents BY DEF TypeOK
  <2>2. saveAllLeft' \in SUBSET Guid
    BY <1>6 DEF SaveAllPlayer, TypeOK
  <2>3. saveAllLeft' # None
    BY <2>2, NoneAssumption
  <2>4. QED BY <1>1, <1>6, <2>1, <2>3, ScheduleTracked DEF SaveAllPlayer
<1>7. CASE SaveAllMap
  <2>1. pendingSaveFlushes \in Nat
    BY DEF TypeOK
  <2>2. pendingSaveFlushes' = pendingSaveFlushes
    BY <1>7, <2>1 DEF SaveAllMap, BeginTracked, CompleteTracked
  <2>3. saving' => ~(BeginTracked(pendingSaveFlushes, TRUE) <= 1)
    BY <1>7, Zenon DEF SaveAllMap, SavingAfterMap, SavingAfter
  <2>4. saving' => pendingSaveFlushes' > 0
    BY <2>1, <2>2, <2>3 DEF BeginTracked
  <2>5. QED BY <1>1, <1>7, <2>2, <2>4 DEF SaveAllMap
<1>8. ASSUME NEW c \in completions, OnPlayerFlushed(c) PROVE TrackedCount'
  <2> DEFINE n == CompleteTracked(pendingSaveFlushes, c.tracked)
             s == SavingAfter(saving, pendingSaveFlushes, c.tracked)
  <2>1. c.guid \in Guid /\ c.tracked \in BOOLEAN /\ pendingSaveFlushes \in Nat
    BY DEF TypeOK, Completion
  <2>2. n \in Nat /\ s \in BOOLEAN
    BY <2>1 DEF CompleteTracked, SavingAfter, TypeOK
  <2>3. /\ completions' = completions \ {c}
        /\ \A o \in pool \cup completions' : o.guid # c.guid
        /\ \A d \in completions : d.guid # c.guid => d \in completions'
    BY <1>8 DEF OnPlayerFlushed, ChainInv, OneFlushPerGuid
  <2>4. c.guid \in TrackedGuids <=> c.tracked
    BY <2>1, <2>3 DEF TrackedGuids, Outstanding
  <2>5. n = Cardinality(TrackedGuids \ {c.guid}) + Cardinality(TrackedQueue \ {c.guid})
            + One(c.guid \in TrackedQueue)
    BY <2>1, <2>4, CountTracked DEF TrackedCount, CompleteTracked, One
  <2>6. s => n > 0
    BY <1>8, <2>1 DEF OnPlayerFlushed, DispatcherIdle, TrackedCount, SavingAfter, CompleteTracked
  <2>7. CASE Queued(c.guid)
    <3> DEFINE flush == pendingFlushes[c.guid]
    <3>1. flush \in Flush
      BY <2>1, <2>7 DEF Queued, TypeOK
    <3>2. DispatchPlayerFlush(c.guid, flush, n, s)
      BY <1>8, <2>7 DEF OnPlayerFlushed
    <3>3. c.guid \in TrackedQueue <=> flush.tracked
      BY <2>1, <2>7 DEF TrackedQueue, QueuedTracked
    <3>4. n = Cardinality(TrackedGuids \ {c.guid}) + Cardinality(TrackedQueue \ {c.guid})
              + One(flush.tracked)
      BY <2>5, <3>3 DEF One
    <3> HIDE DEF n, s, flush
    <3>5. QED BY <2>1, <2>2, <2>3, <2>6, <3>1, <3>2, <3>4, DispatchTracked
  <2>8. CASE ~Queued(c.guid)
    <3>1. /\ pool' = pool /\ pendingFlushes' = pendingFlushes
          /\ pendingSaveFlushes' = n /\ saving' = s
      BY <1>8, <2>8 DEF OnPlayerFlushed, EndChain
    <3> HIDE DEF n, s
    <3>2. TrackedGuids' = TrackedGuids \ {c.guid} /\ TrackedQueue' = TrackedQueue
      BY <2>3, <3>1 DEF TrackedGuids, TrackedQueue, Outstanding, QueuedTracked, Queued
    <3>3. Cardinality(TrackedQueue) =
             Cardinality(TrackedQueue \ {c.guid}) + One(c.guid \in TrackedQueue)
          /\ Cardinality(TrackedQueue \ {c.guid}) \in Nat
          /\ Cardinality(TrackedGuids \ {c.guid}) \in Nat
      BY <2>1, CountTracked
    <3>4. c.guid \notin TrackedQueue
      BY <2>8 DEF TrackedQueue, QueuedTracked
    <3>5. QED BY <2>5, <2>6, <3>1, <3>2, <3>3, <3>4 DEF TrackedCount, One
  <2>9. QED BY <2>7, <2>8
<1>9. ASSUME NEW j \in pool, FlushPlayerSave(j) PROVE TrackedCount'
  <2>1. PICK ok \in BOOLEAN : completions' = completions \cup
           {[guid |-> j.guid, save |-> j.save, tracked |-> j.tracked, success |-> ok]}
    BY <1>9 DEF FlushPlayerSave
  <2> DEFINE done == [guid |-> j.guid, save |-> j.save, tracked |-> j.tracked, success |-> ok]
  <2>2. /\ done.guid = j.guid /\ done.tracked = j.tracked
        /\ completions' = completions \cup {done} /\ pool' = pool \ {j}
    BY <1>9, <2>1 DEF FlushPlayerSave
  <2> HIDE DEF done
  <2>3. TrackedGuids' = TrackedGuids
    BY <2>2 DEF TrackedGuids, Outstanding
  <2>4. TrackedQueue' = TrackedQueue /\ UNCHANGED trackVars
    BY <1>9 DEF FlushPlayerSave, TrackedQueue, QueuedTracked, Queued
  <2>5. QED BY <2>3, <2>4 DEF TrackedCount
<1>10. CASE Restart
  <2>1. TrackedGuids' = {} /\ TrackedQueue' = {}
    BY <1>10 DEF Restart, TrackedGuids, TrackedQueue, Outstanding, QueuedTracked, Queued
  <2>2. QED BY <1>10, <2>1, FS_EmptySet DEF Restart, TrackedCount
<1>11. ASSUME \/ \E g \in Guid, c \in Change : Play(g, c)
              \/ \E r \in drainTasks : DrainTask(r)
              \/ \E t \in callbackTasks : RunCallback(t)
              \/ \E g \in Guid, w \in Waiter : DrainPlayerFlushAsync(g, w)
              \/ \E g \in Guid : RecoverGuid(g)
              \/ RecoveryDone \/ UNCHANGED vars
       PROVE  UNCHANGED <<chainVars, trackVars>>
  BY <1>11 DEF Play, DrainTask, RunCallback, DrainPlayerFlushAsync, RecoverGuid, RecoveryDone, vars
<1>12. QED
  BY <1>2, <1>3, <1>4, <1>5, <1>6, <1>7, <1>8, <1>9, <1>10, <1>11 DEF Next, Dispatch

\* The counter of saveAll is exact, so it never underflows and never keeps a
\* finished saveAll open.
THEOREM CountExact == Spec => []TrackedCount
<1>1. Init => TrackedCount
  <2> SUFFICES ASSUME Init PROVE TrackedCount
    OBVIOUS
  <2>1. TrackedGuids = {} /\ TrackedQueue = {}
    BY DEF Init, TrackedGuids, TrackedQueue, Outstanding, QueuedTracked, Queued
  <2>2. QED BY <2>1, FS_EmptySet DEF Init, TrackedCount
<1>2. QED BY <1>1, NextTracked, TypeCorrect, InitChain, NextChain, PTL DEF Spec

-----------------------------------------------------------------------------
(***************************************************************************)
(* Logins over save chains: the parts of the invariant.                    *)
(***************************************************************************)

\* Nothing of g is outstanding or queued.
Calm(g) == g \notin flushInFlight /\ ~Queued(g)

\* A connection waits for the end of a chain in one place at most, during the
\* stage for it, and for the GUID it logs in.
Asked ==
    /\ \A r \in drainTasks \cup callbackTasks :
          stage[r.waiter] = "draining" /\ loginGuid[r.waiter] = r.guid
    /\ \A g \in Guid : \A w \in flushChainCallbacks[g] :
          stage[w] = "draining" /\ loginGuid[w] = g
    /\ \A t, u \in callbackTasks : t.waiter = u.waiter => t = u
    /\ \A r \in drainTasks, t \in callbackTasks : r.waiter # t.waiter
    /\ \A r \in drainTasks \cup callbackTasks : r.waiter \notin flushChainCallbacks[r.guid]

\* What timeout and callback leave behind once one of them has decided.
Decided ==
    \A c \in Waiter :
        /\ stage[c] = "posted" => c \notin timers \cup completed \cup releaseTasks
        /\ c \in timers => stage[c] \in {"armed", "draining"} \/ c \in completed
        /\ c \in releaseTasks => c \in completed /\ ~Loading(c) /\ stage[c] # "posted"
        /\ Loading(c) => c \in completed

\* A reserved player is not in the world; nobody logs in during recovery.
Offline ==
    /\ \A c \in Waiter : Owns(c) => loginGuid[c] \notin online
    /\ saveAllLeft # None => saveAllLeft \subseteq online
    /\ status # "up" => \A c \in Waiter : stage[c] = "idle"

\* The answer of a drain stays true until it is used, and while it is used.
Settled ==
    /\ \A t \in callbackTasks : t.ok /\ t.waiter \notin completed => Calm(t.guid)
    /\ \A c \in Waiter : Loading(c) => Calm(loginGuid[c])

\* What was loaded is what the row holds.
Fresh ==
    \A c \in Waiter :
        stage[c] = "finish" /\ loaded[c] # None /\ c \notin overtaken =>
            loaded[c] = db[loginGuid[c]]

\* The inductive invariant of logins over save chains.
LoginInv ==
    LoginTypeOK /\ ChainInv /\ Asked /\ Decided /\ ReservationExact /\ Offline /\ Settled /\ Fresh

-----------------------------------------------------------------------------
(***************************************************************************)
(* The save coordinator inside PlayerLogin.                                *)
(***************************************************************************)

\* The two steps that SaveManager alone does not have.
Extra ==
    \/ \E c \in Waiter : FinishLogin(c)
    \/ \E g \in Guid, o \in OfflineChange : OfflineSave(g, o)

\* Players in the world, connections and restarts use SaveManager as its
\* specification says.
LEMMA StepsOfSaveManager ==
    ASSUME LoginTypeOK, [LoginNext]_allVars, ~Extra
    PROVE  [Next]_vars
<1>1. CASE SaveStep
  <2>1. online \subseteq Guid BY DEF LoginTypeOK
  <2>2. QED BY <1>1, <2>1 DEF SaveStep, Next, Dispatch
<1>2. ASSUME NEW c \in Waiter, RequestDrain(c) PROVE Next
  <2>1. loginGuid[c] \in Guid
    BY <1>2 DEF RequestDrain, LoginTypeOK
  <2>2. QED BY <1>2, <2>1 DEF RequestDrain, Next
<1>3. ASSUME NEW t \in callbackTasks, DrainCallback(t) PROVE Next
  BY <1>3 DEF DrainCallback, Next, Dispatch
<1>4. ASSUME NEW g \in Guid, Logout(g) PROVE Next
  BY <1>4 DEF Logout, Next, Dispatch
<1>5. ASSUME LoginRestart PROVE Next
  BY <1>5 DEF LoginRestart, Next
<1>6. CASE UNCHANGED saveVars
  BY <1>6 DEF saveVars
<1>7. ASSUME NEW c \in Waiter,
             \/ \E g \in Guid : Login(c, g)
             \/ ArmTimeout(c) \/ LoginTimeout(c) \/ ReleaseAndDisconnect(c) \/ LoadPlayerById(c)
      PROVE  UNCHANGED saveVars
  BY <1>7 DEF Login, ArmTimeout, LoginTimeout, ReleaseAndDisconnect, LoadPlayerById
<1>8. QED BY <1>1, <1>2, <1>3, <1>4, <1>5, <1>6, <1>7 DEF LoginNext, Extra, allVars, saveVars

\* An offline save keeps the types and the chains.
LEMMA OfflineSaveKeeps ==
    ASSUME LoginTypeOK, ChainInv, NEW g \in Guid, NEW o \in OfflineChange, OfflineSave(g, o)
    PROVE  TypeOK' /\ ChainInv'
<1> DEFINE save == db[g] \cup {o}
<1>1. TypeOK /\ save \in Contents
  BY OfflineAssumption DEF LoginTypeOK, TypeOK, Contents
<1> HIDE DEF save
<1>2. /\ SavePlayerSync(g, save) /\ status = "up" /\ UNCHANGED <<live, saveAllLeft, bootVars>>
      /\ completions' = completions /\ drainTasks' = drainTasks
  BY DEF OfflineSave, SavePlayerSync, DispatcherIdle, save
<1> USE DEF bootVars
<1>3. CASE g \in flushInFlight
  <2>1. EnqueueBehind(g, save, FALSE) /\ UNCHANGED db
    BY <1>2, <1>3 DEF SavePlayerSync
  <2>2. ChainInv'
    BY <1>1, <1>2, <1>3, <2>1, EnqueueChain
  <2>3. TypeOK'
    BY <1>1, <1>2, <2>1, EnqueueTypes DEF TypeOK
  <2>4. QED BY <2>2, <2>3
<1>4. CASE g \notin flushInFlight
  <2>1. FlushHere(g, save)
    BY <1>2, <1>4 DEF SavePlayerSync
  <2>2. UNCHANGED <<wal, flushInFlight, pendingFlushes, pool, saving, pendingSaveFlushes,
                    flushChainCallbacks, callbackTasks>>
    BY <2>1 DEF FlushHere
  <2>3. ChainInv'
    BY <1>2, <2>2 DEF ChainInv, OneFlushPerGuid, InFlightExact, NobodyWaitsForNothing,
                      Outstanding, Queued
  <2>4. db' \in [Guid -> Contents] /\ captured' \in [Guid -> Contents]
    BY <1>1, <2>1 DEF FlushHere, TypeOK, Contents
  <2>5. TypeOK'
    BY <1>1, <1>2, <2>2, <2>4 DEF TypeOK
  <2>6. QED BY <2>3, <2>5
<1>5. QED BY <1>3, <1>4

\* So does a player that enters the world.
LEMMA FinishKeeps ==
    ASSUME LoginTypeOK, ChainInv, NEW c \in Waiter, FinishLogin(c)
    PROVE  TypeOK' /\ ChainInv'
<1> USE DEF chainVars, drainVars, trackVars, bootVars
<1>1. loginGuid[c] \in Guid
  BY DEF FinishLogin, LoginTypeOK
<1>2. live' \in [Guid -> Contents]
  BY <1>1 DEF FinishLogin, LoginTypeOK, TypeOK
<1>3. TypeOK'
  BY <1>2 DEF FinishLogin, LoginTypeOK, TypeOK
<1>4. ChainInv'
  BY DEF FinishLogin, ChainInv, OneFlushPerGuid, InFlightExact, NobodyWaitsForNothing,
         Outstanding, Queued
<1>5. QED BY <1>3, <1>4

\* Types and chains of the save coordinator survive every step.
LEMMA NextKeepsSaves ==
    ASSUME LoginTypeOK, ChainInv, [LoginNext]_allVars
    PROVE  TypeOK' /\ ChainInv'
<1>1. CASE Extra
  BY <1>1, OfflineSaveKeeps, FinishKeeps DEF Extra
<1>2. CASE ~Extra
  BY <1>2, StepsOfSaveManager, NextTypes, NextChain DEF LoginTypeOK
<1>3. QED BY <1>1, <1>2

-----------------------------------------------------------------------------
(***************************************************************************)
(* The types of the login variables.                                       *)
(***************************************************************************)
\* LoginTypeOK without the part of SaveManager.
LoginTypes ==
    /\ online \in SUBSET Guid
    /\ pendingLogins \in SUBSET Guid
    /\ loginGuid \in [Waiter -> {None} \cup Guid]
    /\ stage \in [Waiter -> Stages]
    /\ completed \in SUBSET Waiter
    /\ timers \in SUBSET Waiter
    /\ releaseTasks \in SUBSET Waiter
    /\ loaded \in [Waiter -> {None} \cup Contents]
    /\ overtaken \in SUBSET Waiter
    /\ refused \in SUBSET Change
    /\ \A c \in Waiter : stage[c] # "idle" => loginGuid[c] \in Guid

\* A callback belongs to a connection that asked.
LEMMA WaiterTypes ==
    ASSUME TypeOK
    PROVE  /\ \A r \in drainTasks : r \in Request /\ r.guid \in Guid /\ r.waiter \in Waiter
           /\ \A t \in callbackTasks :
                 t \in Callback /\ t.guid \in Guid /\ t.waiter \in Waiter /\ t.ok \in BOOLEAN
BY DEF TypeOK, Request, Callback

\* Every step keeps the types of the login variables.
LEMMA NextLoginTypes ==
    ASSUME LoginTypeOK, Asked, [LoginNext]_allVars
    PROVE  LoginTypes'
<1> USE DEF Stages
<1>0. LoginTypes /\ TypeOK
  BY DEF LoginTypeOK, LoginTypes
<1>1. CASE SaveStep \/ UNCHANGED allVars
  BY <1>0, <1>1 DEF SaveStep, LoginTypes, loginVars, allVars
<1>2. ASSUME NEW c \in Waiter, NEW g \in Guid, Login(c, g) PROVE LoginTypes'
  BY <1>0, <1>2 DEF Login, LoginTypes
<1>3. ASSUME NEW c \in Waiter, ArmTimeout(c) PROVE LoginTypes'
  BY <1>0, <1>3 DEF ArmTimeout, LoginTypes
<1>4. ASSUME NEW c \in Waiter, RequestDrain(c) PROVE LoginTypes'
  BY <1>0, <1>4 DEF RequestDrain, LoginTypes
<1>5. ASSUME NEW c \in Waiter, LoginTimeout(c) PROVE LoginTypes'
  BY <1>0, <1>5 DEF LoginTimeout, LoginTypes
<1>6. ASSUME NEW t \in callbackTasks, DrainCallback(t) PROVE LoginTypes'
  <2>1. t.waiter \in Waiter /\ stage[t.waiter] = "draining"
    BY <1>0, <1>6, WaiterTypes DEF Asked
  <2>2. stage' \in [Waiter -> Stages] /\ \A d \in Waiter : stage'[d] # "idle" => stage[d] # "idle"
    BY <1>0, <1>6, <2>1 DEF DrainCallback, AfterDrain, LoginTypes
  <2>3. QED BY <1>0, <1>6, <2>1, <2>2 DEF DrainCallback, AfterDrain, LoginTypes
<1>7. ASSUME NEW c \in Waiter, ReleaseAndDisconnect(c) PROVE LoginTypes'
  BY <1>0, <1>7 DEF ReleaseAndDisconnect, LoginTypes
<1>8. ASSUME NEW c \in Waiter, LoadPlayerById(c) PROVE LoginTypes'
  <2>1. loginGuid[c] \in Guid /\ db[loginGuid[c]] \in Contents
    BY <1>0, <1>8 DEF LoadPlayerById, LoginTypes, TypeOK
  <2>2. QED BY <1>0, <1>8, <2>1 DEF LoadPlayerById, LoginTypes
<1>9. ASSUME NEW c \in Waiter, FinishLogin(c) PROVE LoginTypes'
  BY <1>0, <1>9 DEF FinishLogin, LoginTypes
<1>10. ASSUME NEW g \in Guid, Logout(g) PROVE LoginTypes'
  BY <1>0, <1>10 DEF Logout, LoginTypes
<1>11. ASSUME NEW g \in Guid, NEW o \in OfflineChange, OfflineSave(g, o) PROVE LoginTypes'
  <2>1. o \in Change
    BY OfflineAssumption
  <2>2. QED BY <1>0, <1>11, <2>1 DEF OfflineSave, LoginTypes
<1>12. ASSUME LoginRestart PROVE LoginTypes'
  BY <1>12 DEF LoginRestart, LoginTypes
<1>13. QED BY <1>1, <1>2, <1>3, <1>4, <1>5, <1>6, <1>7, <1>8, <1>9, <1>10, <1>11, <1>12
           DEF LoginNext

-----------------------------------------------------------------------------
(***************************************************************************)
(* What steps of SaveManager do to connections that wait, and to the       *)
(* chains of players that are not in the world.                            *)
(***************************************************************************)

\* The callers of chain g are answered.
Answers(g, ok) ==
    InvokeCallbacks(g, ok) /\ UNCHANGED drainTasks /\ (ok => Calm(g)')

\* Flushes that are started or queued answer nobody, or all with false.
LEMMA ScheduleAnswers ==
    ASSUME NEW g \in Guid, NEW flush, NEW n, NEW s, UNCHANGED drainTasks,
           \/ DispatchPlayerFlush(g, flush, n, s)
           \/ EnqueueBehind(g, flush, n)
    PROVE  UNCHANGED drainVars \/ Answers(g, FALSE)
BY DEF DispatchPlayerFlush, StartFlush, AbortChain, EnqueueBehind, Answers, drainVars

\* A flush of another player leaves a calm one calm.
LEMMA OthersCalm ==
    ASSUME TypeOK, NEW g \in Guid, NEW h \in Guid, g # h, Calm(g), NEW flush, NEW n, NEW s,
           \/ DispatchPlayerFlush(h, flush, n, s)
           \/ EnqueueBehind(h, flush, n)
    PROVE  Calm(g)'
BY DEF DispatchPlayerFlush, StartFlush, AbortChain, EnqueueBehind, Calm, Queued, TypeOK

\* A step of SaveManager registers one caller, answers one chain, or neither.
LEMMA SaveAnswers ==
    ASSUME LoginTypeOK, SaveStep
    PROVE  \/ UNCHANGED drainVars
           \/ \E r \in drainTasks : DrainTask(r)
           \/ \E g \in Guid, ok \in BOOLEAN : Answers(g, ok)
<1> USE DEF drainVars
<1>0. online \subseteq Guid /\ TypeOK
  BY DEF LoginTypeOK
<1>1. ASSUME NEW g \in Guid, SavePlayer(g) PROVE UNCHANGED drainVars \/ Answers(g, FALSE)
  BY <1>1, ScheduleAnswers DEF SavePlayer, SchedulePlayerFlush
<1>2. ASSUME NEW g \in Guid, SaveAllPlayer(g) PROVE UNCHANGED drainVars \/ Answers(g, FALSE)
  BY <1>2, ScheduleAnswers DEF SaveAllPlayer, SchedulePlayerFlush
<1>3. ASSUME NEW c \in completions, OnPlayerFlushed(c)
      PROVE  UNCHANGED drainVars \/ \E g \in Guid, ok \in BOOLEAN : Answers(g, ok)
  <2>1. c.guid \in Guid /\ c.success \in BOOLEAN
    BY <1>0 DEF TypeOK, Completion
  <2>2. CASE Queued(c.guid)
    BY <1>3, <2>1, <2>2, ScheduleAnswers DEF OnPlayerFlushed
  <2>3. CASE ~Queued(c.guid)
    BY <1>3, <2>1, <2>3 DEF OnPlayerFlushed, EndChain, Answers, Calm, Queued
  <2>4. QED BY <2>2, <2>3
<1>4. ASSUME \/ \E g \in online, c \in Change \ OfflineChange : Play(g, c)
             \/ SaveAllBegin(online) \/ SaveAllMap \/ RecoveryDone
             \/ \E j \in pool : FlushPlayerSave(j)
             \/ \E g \in Guid : RecoverGuid(g)
      PROVE  UNCHANGED drainVars
  BY <1>4 DEF Play, SaveAllBegin, SaveAllMap, RecoveryDone, FlushPlayerSave, RecoverGuid
<1>5. QED BY <1>0, <1>1, <1>2, <1>3, <1>4 DEF SaveStep

\* The chain of a player that is not in the world does not start again.
LEMMA SaveKeepsCalm ==
    ASSUME LoginTypeOK, ChainInv, Offline, SaveStep, NEW g \in Guid, g \notin online, Calm(g)
    PROVE  Calm(g)'
<1> USE DEF chainVars, Calm
<1>0. online \subseteq Guid /\ TypeOK
  BY DEF LoginTypeOK
<1>1. ASSUME NEW h \in online, SavePlayer(h) PROVE Calm(g)'
  BY <1>0, <1>1, OthersCalm DEF SavePlayer, SchedulePlayerFlush
<1>2. ASSUME NEW h \in Guid, SaveAllPlayer(h) PROVE Calm(g)'
  <2>1. h # g
    BY <1>2 DEF SaveAllPlayer, Offline
  <2>2. QED BY <1>0, <1>2, <2>1, OthersCalm DEF SaveAllPlayer, SchedulePlayerFlush, Queued
<1>3. ASSUME NEW c \in completions, OnPlayerFlushed(c) PROVE Calm(g)'
  <2>1. c.guid \in Guid /\ c.guid # g
    BY <1>0 DEF TypeOK, Completion, ChainInv, InFlightExact, Outstanding
  <2>2. CASE Queued(c.guid)
    BY <1>0, <1>3, <2>1, <2>2, OthersCalm DEF OnPlayerFlushed
  <2>3. CASE ~Queued(c.guid)
    BY <1>3, <2>1, <2>3 DEF OnPlayerFlushed, EndChain, Queued
  <2>4. QED BY <2>2, <2>3
<1>4. ASSUME \/ \E h \in online, c \in Change \ OfflineChange : Play(h, c)
             \/ SaveAllBegin(online) \/ SaveAllMap \/ RecoveryDone
             \/ \E j \in pool : FlushPlayerSave(j)
             \/ \E h \in Guid : RecoverGuid(h)
             \/ \E r \in drainTasks : DrainTask(r)
      PROVE  Calm(g)'
  BY <1>4 DEF Play, SaveAllBegin, SaveAllMap, RecoveryDone, FlushPlayerSave, RecoverGuid,
              DrainTask, Queued
<1>5. QED BY <1>0, <1>1, <1>2, <1>3, <1>4 DEF SaveStep

-----------------------------------------------------------------------------
(***************************************************************************)
(* Who waits where.                                                        *)
(***************************************************************************)

\* A connection moves from the drain task to the chain or to its callback, and
\* is never in two of them.
LEMMA NextAsked ==
    ASSUME LoginTypeOK, Asked, [LoginNext]_allVars
    PROVE  Asked'
<1>0. /\ TypeOK /\ stage \in [Waiter -> Stages] /\ loginGuid \in [Waiter -> {None} \cup Guid]
      /\ flushChainCallbacks \in [Guid -> SUBSET Waiter]
  BY DEF LoginTypeOK, TypeOK
<1>w. /\ \A r \in drainTasks : r \in Request /\ r.guid \in Guid /\ r.waiter \in Waiter
      /\ \A t \in callbackTasks :
            t \in Callback /\ t.guid \in Guid /\ t.waiter \in Waiter /\ t.ok \in BOOLEAN
  BY <1>0, WaiterTypes
<1>1. ASSUME UNCHANGED drainVars,
             \A w \in Waiter : stage[w] = "draining" =>
                 stage'[w] = "draining" /\ loginGuid'[w] = loginGuid[w]
      PROVE  Asked'
  BY <1>0, <1>w, <1>1 DEF Asked, drainVars
<1>2. CASE SaveStep
  <2>0. UNCHANGED <<stage, loginGuid>>
    BY <1>2 DEF SaveStep, loginVars
  <2>1. CASE UNCHANGED drainVars
    BY <1>1, <2>0, <2>1
  <2>2. ASSUME NEW r \in drainTasks, DrainTask(r) PROVE Asked'
    <3>0. drainTasks' = drainTasks \ {r} /\ r.guid \in Guid /\ r.waiter \in Waiter
      BY <1>w, <2>2 DEF DrainTask
    <3>1. CASE ChainUnfinished(r.guid)
      <4>0. /\ callbackTasks' = callbackTasks
            /\ flushChainCallbacks' = [flushChainCallbacks EXCEPT ![r.guid] = @ \cup {r.waiter}]
        BY <2>2, <3>1 DEF DrainTask
      <4>1. /\ callbackTasks' = callbackTasks
            /\ \A g \in Guid : \A w : w \in flushChainCallbacks'[g] =>
                  w \in flushChainCallbacks[g] \/ (g = r.guid /\ w = r.waiter)
        BY <1>0, <3>0, <4>0
      <4>2. \A q \in drainTasks : q.waiter = r.waiter => q = r
        BY <1>w DEF Asked, Request
      <4>3. \A q \in drainTasks' \cup callbackTasks : q.waiter # r.waiter /\ q.guid \in Guid
        BY <1>w, <3>0, <4>2 DEF Asked
      <4>4. \A q \in drainTasks' \cup callbackTasks' :
               q.waiter \notin flushChainCallbacks'[q.guid]
        BY <3>0, <4>1, <4>3 DEF Asked
      <4>5. \A g \in Guid : \A w \in flushChainCallbacks'[g] :
               stage'[w] = "draining" /\ loginGuid'[w] = g
        BY <2>0, <3>0, <4>1 DEF Asked
      <4>6. QED BY <2>0, <3>0, <4>1, <4>4, <4>5 DEF Asked
    <3>2. CASE ~ChainUnfinished(r.guid)
      <4> DEFINE t == [guid |-> r.guid, waiter |-> r.waiter, ok |-> TRUE]
      <4>1. /\ callbackTasks' = callbackTasks \cup {t}
            /\ flushChainCallbacks' = flushChainCallbacks
            /\ t.waiter = r.waiter /\ t.guid = r.guid
        BY <2>2, <3>2 DEF DrainTask
      <4>2. \A q \in drainTasks : q.waiter = r.waiter => q = r
        BY <1>w DEF Asked, Request
      <4> HIDE DEF t
      <4>3. QED BY <1>w, <2>0, <3>0, <4>1, <4>2 DEF Asked
    <3>3. QED BY <3>1, <3>2
  <2>3. ASSUME NEW g \in Guid, NEW ok \in BOOLEAN, Answers(g, ok) PROVE Asked'
    <3> DEFINE New == {[guid |-> g, waiter |-> w, ok |-> ok] : w \in flushChainCallbacks[g]}
    <3>1. /\ drainTasks' = drainTasks /\ callbackTasks' = callbackTasks \cup New
          /\ \A h \in Guid : flushChainCallbacks'[h] =
                IF h = g THEN {} ELSE flushChainCallbacks[h]
      BY <1>0, <2>3 DEF Answers, InvokeCallbacks
    <3>2. \A t \in New : t.guid = g /\ t.waiter \in flushChainCallbacks[g]
      OBVIOUS
    <3>3. \A t, u \in New : t.waiter = u.waiter => t = u
      OBVIOUS
    <3> HIDE DEF New
    <3>4. \A t \in New, r \in drainTasks \cup callbackTasks : t.waiter # r.waiter
      BY <3>2 DEF Asked
    <3>5. QED BY <1>0, <1>w, <2>0, <3>1, <3>2, <3>3, <3>4 DEF Asked
  <2>4. QED BY <1>2, <2>1, <2>2, <2>3, SaveAnswers
<1>3. ASSUME NEW c \in Waiter, NEW g \in Guid, Login(c, g) PROVE Asked'
  <2>1. UNCHANGED drainVars /\ stage[c] = "idle"
    BY <1>3 DEF Login, Free, saveVars, vars
  <2>2. QED BY <1>0, <1>1, <1>3, <2>1 DEF Login
<1>4. ASSUME NEW c \in Waiter, ArmTimeout(c) \/ LoadPlayerById(c) \/ FinishLogin(c) PROVE Asked'
  <2>1. UNCHANGED drainVars /\ stage[c] # "draining"
    BY <1>4 DEF ArmTimeout, LoadPlayerById, FinishLogin, saveVars, vars
  <2>2. QED BY <1>0, <1>1, <1>4, <2>1 DEF ArmTimeout, LoadPlayerById, FinishLogin
<1>5. ASSUME NEW c \in Waiter, LoginTimeout(c) \/ ReleaseAndDisconnect(c) PROVE Asked'
  BY <1>1, <1>5 DEF LoginTimeout, ReleaseAndDisconnect, saveVars, vars
<1>6. ASSUME NEW c \in Waiter, RequestDrain(c) PROVE Asked'
  <2> DEFINE r == [guid |-> loginGuid[c], waiter |-> c]
  <2>1. /\ stage[c] = "armed" /\ loginGuid' = loginGuid
        /\ drainTasks' = drainTasks \cup {r} /\ r.guid = loginGuid[c] /\ r.waiter = c
        /\ UNCHANGED <<flushChainCallbacks, callbackTasks>>
    BY <1>6 DEF RequestDrain, DrainPlayerFlushAsync
  <2>2. \A w \in Waiter : stage'[w] = IF w = c THEN "draining" ELSE stage[w]
    BY <1>0, <1>6 DEF RequestDrain
  <2>3. loginGuid[c] \in Guid
    BY <2>1 DEF LoginTypeOK
  <2> HIDE DEF r
  <2>4. QED BY <1>0, <1>w, <2>1, <2>2, <2>3 DEF Asked
<1>7. ASSUME NEW t \in callbackTasks, DrainCallback(t) PROVE Asked'
  <2>1. /\ callbackTasks' = callbackTasks \ {t} /\ loginGuid' = loginGuid
        /\ UNCHANGED <<flushChainCallbacks, drainTasks>>
    BY <1>7 DEF DrainCallback, RunCallback
  <2>2. \A w \in Waiter : w # t.waiter => stage'[w] = stage[w]
    BY <1>0, <1>7 DEF DrainCallback, AfterDrain
  <2>3. \A r \in drainTasks \cup callbackTasks' : r.waiter # t.waiter
    BY <2>1 DEF Asked
  <2>4. \A g \in Guid : t.waiter \notin flushChainCallbacks[g]
    BY DEF Asked
  <2>5. QED BY <1>0, <1>w, <2>1, <2>2, <2>3, <2>4 DEF Asked
<1>8. ASSUME NEW g \in Guid, Logout(g) PROVE Asked'
  BY <1>1, <1>8 DEF Logout, SavePlayerNow, SavePlayerSync, EnqueueBehind, FlushHere, drainVars
<1>9. ASSUME NEW g \in Guid, NEW o \in OfflineChange, OfflineSave(g, o) PROVE Asked'
  BY <1>1, <1>9 DEF OfflineSave, SavePlayerSync, EnqueueBehind, FlushHere, drainVars
<1>10. ASSUME LoginRestart PROVE Asked'
  BY <1>10 DEF LoginRestart, Restart, Asked
<1>11. CASE UNCHANGED allVars
  BY <1>1, <1>11 DEF allVars, saveVars, vars, loginVars
<1>12. QED BY <1>2, <1>3, <1>4, <1>5, <1>6, <1>7, <1>8, <1>9, <1>10, <1>11 DEF LoginNext

-----------------------------------------------------------------------------
(***************************************************************************)
(* Timeout against callback.                                               *)
(***************************************************************************)

\* A connection whose callback comes is in the stage that waits for it.
LEMMA CallbackStage ==
    ASSUME LoginTypeOK, Asked, NEW t \in callbackTasks
    PROVE  t.waiter \in Waiter /\ stage[t.waiter] = "draining" /\ loginGuid[t.waiter] = t.guid
BY WaiterTypes DEF LoginTypeOK, Asked

\* Whichever comes first decides, and what the other does is harmless.
LEMMA NextDecided ==
    ASSUME LoginTypeOK, Asked, Decided, [LoginNext]_allVars
    PROVE  Decided'
<1>0. stage \in [Waiter -> Stages]
  BY DEF LoginTypeOK
<1> USE DEF Loading
<1>1. CASE SaveStep \/ UNCHANGED allVars
  BY <1>1 DEF SaveStep, Decided, loginVars, allVars
<1>2. ASSUME NEW c \in Waiter, NEW g \in Guid, Login(c, g) PROVE Decided'
  BY <1>0, <1>2 DEF Login, Free, Decided
<1>3. ASSUME NEW c \in Waiter, ArmTimeout(c) PROVE Decided'
  BY <1>0, <1>3 DEF ArmTimeout, Decided
<1>4. ASSUME NEW c \in Waiter, RequestDrain(c) PROVE Decided'
  BY <1>0, <1>4 DEF RequestDrain, Decided
<1>5. ASSUME NEW c \in Waiter, LoginTimeout(c) PROVE Decided'
  BY <1>0, <1>5 DEF LoginTimeout, TimeoutWins, Decided
<1>6. ASSUME NEW t \in callbackTasks, DrainCallback(t) PROVE Decided'
  <2>1. t.waiter \in Waiter /\ stage[t.waiter] = "draining"
    BY CallbackStage
  <2>2. \A d \in Waiter : d # t.waiter => stage'[d] = stage[d]
    BY <1>0, <1>6 DEF DrainCallback, AfterDrain
  <2>3. /\ stage'[t.waiter] \in {"load", "idle"}
        /\ stage'[t.waiter] = "load" => t.waiter \notin completed /\ releaseTasks' = releaseTasks
    BY <1>0, <1>6, <2>1 DEF DrainCallback, AfterDrain
  <2>4. /\ completed' = completed \cup {t.waiter}
        /\ timers' \subseteq timers /\ releaseTasks' \subseteq releaseTasks \cup {t.waiter}
    BY <1>6 DEF DrainCallback, AfterDrain
  <2>5. QED BY <2>1, <2>2, <2>3, <2>4 DEF Decided
<1>7. ASSUME NEW c \in Waiter, ReleaseAndDisconnect(c) PROVE Decided'
  BY <1>7 DEF ReleaseAndDisconnect, Decided
<1>8. ASSUME NEW c \in Waiter, LoadPlayerById(c) PROVE Decided'
  BY <1>0, <1>8 DEF LoadPlayerById, Decided
<1>9. ASSUME NEW c \in Waiter, FinishLogin(c) PROVE Decided'
  BY <1>0, <1>9 DEF FinishLogin, Decided
<1>10. ASSUME NEW g \in Guid, Logout(g) PROVE Decided'
  BY <1>10 DEF Logout, Decided
<1>11. ASSUME NEW g \in Guid, NEW o \in OfflineChange, OfflineSave(g, o) PROVE Decided'
  BY <1>11 DEF OfflineSave, Decided
<1>12. ASSUME LoginRestart PROVE Decided'
  BY <1>12 DEF LoginRestart, Decided
<1>13. QED BY <1>1, <1>2, <1>3, <1>4, <1>5, <1>6, <1>7, <1>8, <1>9, <1>10, <1>11, <1>12
           DEF LoginNext

-----------------------------------------------------------------------------
(***************************************************************************)
(* Reservations.                                                           *)
(***************************************************************************)

\* A login takes the reservation, a placement or a release gives it back, a
\* restart forgets all; no other step changes an owner.
LEMMA OwnersStep ==
    ASSUME LoginTypeOK, Asked, Decided, [LoginNext]_allVars
    PROVE  \/ /\ UNCHANGED <<pendingLogins, loginGuid>>
              /\ \A d \in Waiter : Owns(d)' <=> Owns(d)
           \/ \E c \in Waiter, g \in Guid :
                 /\ Login(c, g)
                 /\ \A d \in Waiter : Owns(d)' <=> Owns(d) \/ d = c
           \/ \E c \in Waiter :
                 /\ ReleaseAndDisconnect(c) \/ FinishLogin(c)
                 /\ Owns(c)
                 /\ \A d \in Waiter : Owns(d)' <=> Owns(d) /\ d # c
           \/ LoginRestart
<1>0. stage \in [Waiter -> Stages]
  BY DEF LoginTypeOK
<1> USE DEF Owns, Loading
<1>1. CASE SaveStep \/ UNCHANGED allVars
  BY <1>1 DEF SaveStep, loginVars, allVars
<1>2. ASSUME NEW c \in Waiter, NEW g \in Guid, Login(c, g)
      PROVE  \A d \in Waiter : Owns(d)' <=> Owns(d) \/ d = c
  BY <1>0, <1>2 DEF Login, Free
<1>3. ASSUME NEW c \in Waiter, ArmTimeout(c) \/ RequestDrain(c) \/ LoadPlayerById(c)
      PROVE  UNCHANGED <<pendingLogins, loginGuid>> /\ \A d \in Waiter : Owns(d)' <=> Owns(d)
  BY <1>0, <1>3 DEF ArmTimeout, RequestDrain, LoadPlayerById
<1>4. ASSUME NEW c \in Waiter, LoginTimeout(c)
      PROVE  UNCHANGED <<pendingLogins, loginGuid>> /\ \A d \in Waiter : Owns(d)' <=> Owns(d)
  BY <1>0, <1>4 DEF LoginTimeout, TimeoutWins, Decided
<1>5. ASSUME NEW t \in callbackTasks, DrainCallback(t)
      PROVE  UNCHANGED <<pendingLogins, loginGuid>> /\ \A d \in Waiter : Owns(d)' <=> Owns(d)
  <2>1. t.waiter \in Waiter /\ stage[t.waiter] = "draining"
    BY CallbackStage
  <2>2. \A d \in Waiter : stage'[d] =
           IF d = t.waiter THEN IF t.ok /\ d \notin completed THEN "load" ELSE "idle" ELSE stage[d]
    BY <1>0, <1>5 DEF DrainCallback, AfterDrain
  <2>3. /\ completed' = completed \cup {t.waiter}
        /\ releaseTasks' = IF t.ok \/ t.waiter \in completed
                           THEN releaseTasks ELSE releaseTasks \cup {t.waiter}
        /\ UNCHANGED <<pendingLogins, loginGuid>>
    BY <1>5 DEF DrainCallback, AfterDrain
  <2>4. QED BY <2>1, <2>2, <2>3 DEF Decided
<1>6. ASSUME NEW c \in Waiter, ReleaseAndDisconnect(c)
      PROVE  Owns(c) /\ \A d \in Waiter : Owns(d)' <=> Owns(d) /\ d # c
  BY <1>6 DEF ReleaseAndDisconnect, Decided
<1>7. ASSUME NEW c \in Waiter, FinishLogin(c)
      PROVE  Owns(c) /\ \A d \in Waiter : Owns(d)' <=> Owns(d) /\ d # c
  BY <1>0, <1>7 DEF FinishLogin, Decided
<1>8. ASSUME (\E g \in Guid : Logout(g)) \/ \E g \in Guid, o \in OfflineChange : OfflineSave(g, o)
      PROVE  UNCHANGED <<pendingLogins, loginGuid>> /\ \A d \in Waiter : Owns(d)' <=> Owns(d)
  BY <1>8 DEF Logout, OfflineSave
<1>9. QED BY <1>1, <1>2, <1>3, <1>4, <1>5, <1>6, <1>7, <1>8 DEF LoginNext

\* The reservation of a GUID follows its one owner.
LEMMA NextReservation ==
    ASSUME LoginTypeOK, Asked, Decided, ReservationExact, [LoginNext]_allVars
    PROVE  ReservationExact'
<1>0. loginGuid \in [Waiter -> {None} \cup Guid]
  BY DEF LoginTypeOK
<1>1. CASE UNCHANGED <<pendingLogins, loginGuid>> /\ \A d \in Waiter : Owns(d)' <=> Owns(d)
  BY <1>1 DEF ReservationExact
<1>2. ASSUME NEW c \in Waiter, NEW g \in Guid, Login(c, g),
             \A d \in Waiter : Owns(d)' <=> Owns(d) \/ d = c
      PROVE  ReservationExact'
  <2>1. /\ g \notin pendingLogins /\ pendingLogins' = pendingLogins \cup {g}
        /\ \A d \in Waiter : loginGuid'[d] = IF d = c THEN g ELSE loginGuid[d]
        /\ ~Owns(c)
    BY <1>0, <1>2 DEF Login, Free, Owns
  <2>2. \A d \in Waiter : Owns(d) => loginGuid[d] # g
    BY <2>1 DEF ReservationExact
  <2>3. QED BY <1>2, <2>1, <2>2 DEF ReservationExact
<1>3. ASSUME NEW c \in Waiter, ReleaseAndDisconnect(c) \/ FinishLogin(c), Owns(c),
             \A d \in Waiter : Owns(d)' <=> Owns(d) /\ d # c
      PROVE  ReservationExact'
  <2>1. pendingLogins' = pendingLogins \ {loginGuid[c]} /\ loginGuid' = loginGuid
    BY <1>3 DEF ReleaseAndDisconnect, FinishLogin
  <2>2. QED BY <1>3, <2>1 DEF ReservationExact
<1>4. CASE LoginRestart
  BY <1>4 DEF LoginRestart, ReservationExact, Owns
<1>5. QED BY <1>1, <1>2, <1>3, <1>4, OwnersStep

-----------------------------------------------------------------------------
(***************************************************************************)
(* Players that are being logged in are not in the world.                  *)
(***************************************************************************)

\* Only a placement adds to the world, only a logout or a restart takes from
\* it, and no logout falls into a saveAll.
LEMMA OnlineStep ==
    ASSUME [LoginNext]_allVars
    PROVE  \/ online' = online
           \/ \E c \in Waiter : FinishLogin(c)
           \/ online' \subseteq online /\ saveAllLeft' = None
<1>1. CASE SaveStep \/ UNCHANGED allVars
  BY <1>1 DEF SaveStep, loginVars, allVars
<1>2. ASSUME NEW c \in Waiter,
             \/ \E g \in Guid : Login(c, g)
             \/ ArmTimeout(c) \/ RequestDrain(c) \/ LoginTimeout(c) \/ ReleaseAndDisconnect(c)
             \/ LoadPlayerById(c)
      PROVE  online' = online
  BY <1>2 DEF Login, ArmTimeout, RequestDrain, LoginTimeout, ReleaseAndDisconnect, LoadPlayerById
<1>3. ASSUME NEW t \in callbackTasks, DrainCallback(t) PROVE online' = online
  BY <1>3 DEF DrainCallback
<1>4. ASSUME NEW g \in Guid, Logout(g) PROVE online' \subseteq online /\ saveAllLeft' = None
  BY <1>4 DEF Logout, SavePlayerNow, DispatcherIdle
<1>5. ASSUME NEW g \in Guid, NEW o \in OfflineChange, OfflineSave(g, o) PROVE online' = online
  BY <1>5 DEF OfflineSave
<1>6. ASSUME LoginRestart PROVE online' \subseteq online /\ saveAllLeft' = None
  BY <1>6 DEF LoginRestart, Restart
<1>7. QED BY <1>1, <1>2, <1>3, <1>4, <1>5, <1>6 DEF LoginNext

\* saveAll visits players in the world, whatever happens while it runs.
LEMMA SaveAllStep ==
    ASSUME [LoginNext]_allVars
    PROVE  \/ saveAllLeft' = saveAllLeft
           \/ saveAllLeft' = None
           \/ saveAllLeft' = online
           \/ saveAllLeft # None /\ saveAllLeft' \subseteq saveAllLeft
<1> USE DEF trackVars
<1>1. CASE SaveStep
  <2> USE <1>1 DEF SaveStep
  <2>1. CASE \E g \in online, c \in Change \ OfflineChange : Play(g, c)
    BY <2>1 DEF Play
  <2>2. CASE \E g \in online : SavePlayer(g)
    BY <2>2 DEF SavePlayer
  <2>3. CASE SaveAllBegin(online)
    BY <2>3 DEF SaveAllBegin
  <2>4. CASE \E g \in Guid : SaveAllPlayer(g)
    BY <2>4 DEF SaveAllPlayer
  <2>5. CASE SaveAllMap
    BY <2>5 DEF SaveAllMap
  <2>6. CASE \E j \in pool : FlushPlayerSave(j)
    BY <2>6 DEF FlushPlayerSave
  <2>7. CASE \E c \in completions : OnPlayerFlushed(c)
    BY <2>7 DEF OnPlayerFlushed
  <2>8. CASE \E r \in drainTasks : DrainTask(r)
    BY <2>8 DEF DrainTask
  <2>9. CASE (\E g \in Guid : RecoverGuid(g)) \/ RecoveryDone
    BY <2>9 DEF RecoverGuid, RecoveryDone
  <2>10. QED BY <2>1, <2>2, <2>3, <2>4, <2>5, <2>6, <2>7, <2>8, <2>9
<1>2. ASSUME NEW c \in Waiter,
             \/ \E g \in Guid : Login(c, g)
             \/ ArmTimeout(c) \/ RequestDrain(c) \/ LoginTimeout(c) \/ ReleaseAndDisconnect(c)
             \/ LoadPlayerById(c) \/ FinishLogin(c)
      PROVE  saveAllLeft' = saveAllLeft
  BY <1>2 DEF Login, ArmTimeout, RequestDrain, DrainPlayerFlushAsync, LoginTimeout,
              ReleaseAndDisconnect, LoadPlayerById, FinishLogin, saveVars, vars
<1>3. ASSUME NEW t \in callbackTasks, DrainCallback(t) PROVE saveAllLeft' = saveAllLeft
  BY <1>3 DEF DrainCallback, RunCallback
<1>4. ASSUME NEW g \in Guid, Logout(g) \/ \E o \in OfflineChange : OfflineSave(g, o)
      PROVE  saveAllLeft' = saveAllLeft
  BY <1>4 DEF Logout, SavePlayerNow, OfflineSave
<1>5. ASSUME LoginRestart PROVE saveAllLeft' = None
  BY <1>5 DEF LoginRestart, Restart
<1>6. CASE UNCHANGED allVars
  BY <1>6 DEF allVars, saveVars, vars
<1>7. QED BY <1>1, <1>2, <1>3, <1>4, <1>5, <1>6 DEF LoginNext

\* Nobody logs in while the WAL is replayed.
LEMMA NextRecovering ==
    ASSUME LoginTypeOK, Asked, status # "up" => \A c \in Waiter : stage[c] = "idle",
           [LoginNext]_allVars
    PROVE  (status # "up" => \A c \in Waiter : stage[c] = "idle")'
<1>0. stage \in [Waiter -> Stages]
  BY DEF LoginTypeOK
<1>1. CASE status = "up" /\ status' = "up"
  BY <1>1
<1>2. CASE LoginRestart
  BY <1>2 DEF LoginRestart
<1>3. CASE SaveStep \/ UNCHANGED allVars
  <2>1. stage' = stage /\ (status = "up" => status' = "up")
    BY <1>3 DEF SaveStep, loginVars, allVars, saveVars, vars, bootVars, Play, SavePlayer,
         SaveAllBegin, SaveAllPlayer, SaveAllMap, FlushPlayerSave, OnPlayerFlushed, DrainTask,
         RecoverGuid, RecoveryDone
  <2>2. QED BY <2>1
<1>4. ASSUME NEW c \in Waiter,
             \/ \E g \in Guid : Login(c, g)
             \/ ArmTimeout(c) \/ RequestDrain(c) \/ LoadPlayerById(c) \/ FinishLogin(c)
      PROVE  status = "up" /\ status' = "up"
  BY <1>4 DEF Login, DispatcherIdle, ArmTimeout, RequestDrain, DrainPlayerFlushAsync,
              LoadPlayerById, FinishLogin, saveVars, vars, bootVars
<1>5. ASSUME NEW c \in Waiter, LoginTimeout(c) \/ ReleaseAndDisconnect(c)
      PROVE  status = "up" /\ status' = "up"
  BY <1>5 DEF LoginTimeout, ReleaseAndDisconnect, DispatcherIdle, saveVars, vars, bootVars
<1>6. ASSUME NEW t \in callbackTasks, DrainCallback(t) PROVE status = "up" /\ status' = "up"
  BY <1>6 DEF DrainCallback, RunCallback, DispatcherIdle, bootVars
<1>7. ASSUME NEW g \in Guid, Logout(g) \/ \E o \in OfflineChange : OfflineSave(g, o)
      PROVE  status = "up" /\ status' = "up"
  BY <1>7 DEF Logout, SavePlayerNow, OfflineSave, DispatcherIdle, bootVars
<1>8. QED BY <1>1, <1>2, <1>3, <1>4, <1>5, <1>6, <1>7 DEF LoginNext

\* A reserved player stays out of the world until its login places it.
LEMMA NextOffline ==
    ASSUME LoginTypeOK, Asked, Decided, ReservationExact, Offline, [LoginNext]_allVars
    PROVE  Offline'
<1>0. loginGuid \in [Waiter -> {None} \cup Guid]
  BY DEF LoginTypeOK
<1>1. ASSUME NEW d \in Waiter, Owns(d)' PROVE (loginGuid[d] \notin online)'
  <2>1. CASE UNCHANGED <<pendingLogins, loginGuid>> /\ \A e \in Waiter : Owns(e)' <=> Owns(e)
    <3>1. ASSUME NEW c \in Waiter, FinishLogin(c) PROVE FALSE
      <4>1. Owns(c) /\ ~Owns(c)'
        BY <3>1 DEF FinishLogin, Owns, Decided, Loading, LoginTypeOK
      <4>2. QED BY <2>1, <4>1
    <3>2. QED BY <1>1, <2>1, <3>1, OnlineStep DEF Offline
  <2>2. ASSUME NEW c \in Waiter, NEW g \in Guid, Login(c, g),
               \A e \in Waiter : Owns(e)' <=> Owns(e) \/ e = c
        PROVE  (loginGuid[d] \notin online)'
    BY <1>0, <1>1, <2>2 DEF Login, Offline
  <2>3. ASSUME NEW c \in Waiter, ReleaseAndDisconnect(c) \/ FinishLogin(c), Owns(c),
               \A e \in Waiter : Owns(e)' <=> Owns(e) /\ e # c
        PROVE  (loginGuid[d] \notin online)'
    <3>1. loginGuid' = loginGuid /\ online' \subseteq online \cup {loginGuid[c]}
      BY <2>3 DEF ReleaseAndDisconnect, FinishLogin
    <3>2. Owns(d) /\ loginGuid[d] # loginGuid[c]
      BY <1>1, <2>3 DEF ReservationExact
    <3>3. QED BY <3>1, <3>2 DEF Offline
  <2>4. CASE LoginRestart
    BY <2>4 DEF LoginRestart
  <2>5. QED BY <2>1, <2>2, <2>3, <2>4, OwnersStep
<1>2. (saveAllLeft # None => saveAllLeft \subseteq online)'
  <2>1. ASSUME NEW c \in Waiter, FinishLogin(c) PROVE saveAllLeft' = None
    BY <2>1 DEF FinishLogin, DispatcherIdle, trackVars
  <2>2. QED BY <2>1, OnlineStep, SaveAllStep DEF Offline
<1>3. QED BY <1>1, <1>2, NextRecovering DEF Offline

-----------------------------------------------------------------------------
(***************************************************************************)
(* The answer of a drain stays true until the load is done.                *)
(***************************************************************************)

\* A player out of the world that is calm stays so: an offline save of it is
\* written at once.
LEMMA NextCalm ==
    ASSUME LoginTypeOK, ChainInv, Offline, [LoginNext]_allVars,
           NEW g \in Guid, g \notin online, Calm(g)
    PROVE  Calm(g)'
<1> USE DEF chainVars
<1>0. TypeOK
  BY DEF LoginTypeOK
<1>1. CASE SaveStep
  BY <1>1, SaveKeepsCalm
<1>2. ASSUME NEW h \in Guid, Logout(h) PROVE Calm(g)'
  <2>1. h # g /\ SavePlayerSync(h, live[h])
    BY <1>2 DEF Logout, SavePlayerNow
  <2>2. QED BY <1>0, <2>1, OthersCalm DEF SavePlayerSync, FlushHere, Calm, Queued
<1>3. ASSUME NEW h \in Guid, NEW o \in OfflineChange, OfflineSave(h, o) PROVE Calm(g)'
  <2>1. SavePlayerSync(h, db[h] \cup {o})
    BY <1>3 DEF OfflineSave
  <2>2. CASE h \in flushInFlight
    <3>1. h # g /\ EnqueueBehind(h, db[h] \cup {o}, FALSE)
      BY <2>1, <2>2 DEF SavePlayerSync, Calm
    <3>2. QED BY <1>0, <3>1, OthersCalm
  <2>3. CASE h \notin flushInFlight
    BY <2>1, <2>3 DEF SavePlayerSync, FlushHere, Calm, Queued
  <2>4. QED BY <2>2, <2>3
<1>4. ASSUME LoginRestart PROVE Calm(g)'
  BY <1>4 DEF LoginRestart, Restart, Calm, Queued
<1>5. ASSUME UNCHANGED chainVars PROVE Calm(g)'
  BY <1>5 DEF Calm, Queued
<1>6. ASSUME NEW c \in Waiter,
             \/ \E h \in Guid : Login(c, h)
             \/ ArmTimeout(c) \/ RequestDrain(c) \/ LoginTimeout(c) \/ ReleaseAndDisconnect(c)
             \/ LoadPlayerById(c) \/ FinishLogin(c)
      PROVE  UNCHANGED chainVars
  BY <1>6 DEF Login, ArmTimeout, RequestDrain, DrainPlayerFlushAsync, LoginTimeout,
              ReleaseAndDisconnect, LoadPlayerById, FinishLogin, saveVars, vars
<1>7. ASSUME NEW t \in callbackTasks, DrainCallback(t) PROVE UNCHANGED chainVars
  BY <1>7 DEF DrainCallback, RunCallback
<1>8. CASE UNCHANGED allVars
  BY <1>5, <1>8 DEF allVars, saveVars, vars
<1>9. QED BY <1>1, <1>2, <1>3, <1>4, <1>5, <1>6, <1>7, <1>8 DEF LoginNext

\* A callback answered true and not yet used is for a player that is calm.
LEMMA NextAnswered ==
    ASSUME LoginTypeOK, ChainInv, Asked, Offline, Settled, [LoginNext]_allVars,
           NEW t \in callbackTasks', t.ok, t.waiter \notin completed'
    PROVE  Calm(t.guid)'
<1>0. TypeOK
  BY DEF LoginTypeOK
<1>1. ASSUME t \in callbackTasks, t.waiter \notin completed PROVE Calm(t.guid)'
  <2>1. t.waiter \in Waiter /\ stage[t.waiter] = "draining" /\ loginGuid[t.waiter] = t.guid
    BY <1>1, CallbackStage
  <2>2. t.guid \in Guid /\ t.guid \notin online
    BY <1>0, <1>1, <2>1, WaiterTypes DEF Owns, Offline
  <2>3. QED BY <1>1, <2>2, NextCalm DEF Settled
<1>2. CASE SaveStep
  <2>0. completed' = completed
    BY <1>2 DEF SaveStep, loginVars
  <2>1. CASE UNCHANGED drainVars
    BY <1>1, <2>0, <2>1 DEF drainVars
  <2>2. ASSUME NEW r \in drainTasks, DrainTask(r) PROVE Calm(t.guid)'
    <3>1. CASE t \in callbackTasks
      BY <1>1, <2>0, <3>1
    <3>2. CASE t \notin callbackTasks
      BY <2>2, <3>2 DEF DrainTask, ChainUnfinished, chainVars, Calm, Queued
    <3>3. QED BY <3>1, <3>2
  <2>3. ASSUME NEW g \in Guid, NEW ok \in BOOLEAN, Answers(g, ok) PROVE Calm(t.guid)'
    <3>1. CASE t \in callbackTasks
      BY <1>1, <2>0, <3>1
    <3>2. CASE t \notin callbackTasks
      <4>1. t \in {[guid |-> g, waiter |-> w, ok |-> ok] : w \in flushChainCallbacks[g]}
        BY <2>3, <3>2 DEF Answers, InvokeCallbacks
      <4>2. PICK w \in flushChainCallbacks[g] : t = [guid |-> g, waiter |-> w, ok |-> ok]
        BY <4>1
      <4>3. t.guid = g
        BY <4>2
      <4>4. ok
        BY <4>2, Zenon
      <4>5. QED BY <2>3, <4>3, <4>4 DEF Answers
    <3>3. QED BY <3>1, <3>2
  <2>4. QED BY <1>2, <2>1, <2>2, <2>3, SaveAnswers
<1>3. ASSUME NEW c \in Waiter, NEW g \in Guid, Login(c, g) PROVE Calm(t.guid)'
  <2>1. t \in callbackTasks /\ completed' = completed \ {c} /\ ~Waiting(c)
    BY <1>3 DEF Login, Free, saveVars, vars, drainVars
  <2>2. t.waiter # c
    BY <2>1 DEF Waiting
  <2>3. QED BY <1>1, <2>1, <2>2
<1>4. ASSUME callbackTasks' \subseteq callbackTasks, completed \subseteq completed'
      PROVE  Calm(t.guid)'
  BY <1>1, <1>4
<1>5. ASSUME NEW c \in Waiter,
             \/ ArmTimeout(c) \/ RequestDrain(c) \/ LoginTimeout(c) \/ ReleaseAndDisconnect(c)
             \/ LoadPlayerById(c) \/ FinishLogin(c)
      PROVE  Calm(t.guid)'
  BY <1>4, <1>5 DEF ArmTimeout, RequestDrain, DrainPlayerFlushAsync, LoginTimeout,
              ReleaseAndDisconnect, LoadPlayerById, FinishLogin, saveVars, vars, drainVars
<1>6. ASSUME NEW u \in callbackTasks, DrainCallback(u) PROVE Calm(t.guid)'
  BY <1>4, <1>6 DEF DrainCallback, RunCallback
<1>7. ASSUME NEW g \in Guid, Logout(g) \/ \E o \in OfflineChange : OfflineSave(g, o)
      PROVE  Calm(t.guid)'
  BY <1>4, <1>7 DEF Logout, SavePlayerNow, OfflineSave, SavePlayerSync, EnqueueBehind, FlushHere
<1>8. CASE LoginRestart
  BY <1>8 DEF LoginRestart, Restart
<1>9. CASE UNCHANGED allVars
  BY <1>4, <1>9 DEF allVars, saveVars, vars, drainVars, loginVars
<1>10. QED BY <1>2, <1>3, <1>5, <1>6, <1>7, <1>8, <1>9 DEF LoginNext

\* A login starts to load only when its drain was answered true in time.
LEMMA LoadingStep ==
    ASSUME LoginTypeOK, [LoginNext]_allVars, NEW c \in Waiter, Loading(c)'
    PROVE  /\ loginGuid'[c] = loginGuid[c]
           /\ \/ Loading(c)
              \/ \E t \in callbackTasks :
                    DrainCallback(t) /\ t.waiter = c /\ t.ok /\ c \notin completed
<1>0. stage \in [Waiter -> Stages] /\ loginGuid \in [Waiter -> {None} \cup Guid]
  BY DEF LoginTypeOK
<1> USE DEF Loading
<1>1. CASE SaveStep \/ UNCHANGED allVars
  BY <1>1 DEF SaveStep, loginVars, allVars
<1>2. ASSUME NEW d \in Waiter,
             \/ \E g \in Guid : Login(d, g)
             \/ ArmTimeout(d) \/ RequestDrain(d) \/ LoginTimeout(d) \/ ReleaseAndDisconnect(d)
             \/ LoadPlayerById(d) \/ FinishLogin(d)
      PROVE  loginGuid'[c] = loginGuid[c] /\ Loading(c)
  BY <1>0, <1>2 DEF Login, ArmTimeout, RequestDrain, LoginTimeout, ReleaseAndDisconnect,
                    LoadPlayerById, FinishLogin
<1>3. ASSUME NEW t \in callbackTasks, DrainCallback(t)
      PROVE  /\ loginGuid'[c] = loginGuid[c]
             /\ Loading(c) \/ (t.waiter = c /\ t.ok /\ c \notin completed)
  BY <1>0, <1>3 DEF DrainCallback, AfterDrain
<1>4. ASSUME NEW g \in Guid, Logout(g) \/ \E o \in OfflineChange : OfflineSave(g, o)
      PROVE  loginGuid'[c] = loginGuid[c] /\ Loading(c)
  BY <1>4 DEF Logout, OfflineSave
<1>5. ASSUME LoginRestart PROVE FALSE
  BY <1>5 DEF LoginRestart
<1>6. QED BY <1>1, <1>2, <1>3, <1>4, <1>5 DEF LoginNext

\* The barrier holds from the answer to the end of the load.
LEMMA NextSettled ==
    ASSUME LoginTypeOK, ChainInv, Asked, Offline, Settled, [LoginNext]_allVars
    PROVE  Settled'
<1>1. ASSUME NEW c \in Waiter, Loading(c)' PROVE (Calm(loginGuid[c]))'
  <2>1. loginGuid'[c] = loginGuid[c]
    BY <1>1, LoadingStep
  <2>2. CASE Loading(c)
    <3>1. PICK g \in Guid : g = loginGuid[c] /\ g \notin online /\ Calm(g)
      BY <2>2 DEF Loading, LoginTypeOK, Offline, Owns, Settled
    <3>2. Calm(g)' /\ loginGuid'[c] = g
      BY <2>1, <3>1, NextCalm
    <3>3. QED BY <3>2 DEF Calm, Queued
  <2>3. ASSUME NEW t \in callbackTasks, DrainCallback(t), t.waiter = c, t.ok, c \notin completed
        PROVE  (Calm(loginGuid[c]))'
    <3>1. loginGuid[c] = t.guid /\ Calm(t.guid)
      BY <2>3, CallbackStage DEF Settled
    <3>2. QED BY <2>1, <2>3, <3>1 DEF DrainCallback, RunCallback, chainVars, Calm, Queued
  <2>4. QED BY <1>1, <2>2, <2>3, LoadingStep
<1>2. QED BY <1>1, NextAnswered DEF Settled

-----------------------------------------------------------------------------
(***************************************************************************)
(* What was loaded stays what the row holds.                               *)
(***************************************************************************)

\* While the server is up, the row of a player that is calm and out of the
\* world is written by offline saves only.
LEMMA RowStep ==
    ASSUME LoginTypeOK, ChainInv, status = "up", [LoginNext]_allVars,
           NEW g \in Guid, g \notin online, Calm(g)
    PROVE  db'[g] = db[g] \/ \E o \in OfflineChange : OfflineSave(g, o)
<1>0. TypeOK /\ db \in [Guid -> Contents]
  BY DEF LoginTypeOK, TypeOK
<1>1. CASE SaveStep
  <2>1. ASSUME NEW j \in pool, FlushPlayerSave(j) PROVE db'[g] = db[g]
    <3>1. j.guid # g
      BY DEF Calm, ChainInv, InFlightExact, Outstanding
    <3>2. QED BY <1>0, <2>1, <3>1 DEF FlushPlayerSave
  <2>2. CASE \/ \E h \in online, c \in Change \ OfflineChange : Play(h, c)
             \/ \E h \in online : SavePlayer(h)
             \/ SaveAllBegin(online) \/ SaveAllMap
             \/ \E h \in Guid : SaveAllPlayer(h)
             \/ \E c \in completions : OnPlayerFlushed(c)
             \/ \E r \in drainTasks : DrainTask(r)
    BY <2>2 DEF Play, SavePlayer, SaveAllBegin, SaveAllMap, SaveAllPlayer, SchedulePlayerFlush,
                OnPlayerFlushed, DrainTask
  <2>3. CASE (\E h \in Guid : RecoverGuid(h)) \/ RecoveryDone
    BY <2>3 DEF RecoverGuid, RecoveryDone
  <2>4. QED BY <1>1, <2>1, <2>2, <2>3 DEF SaveStep
<1>2. ASSUME NEW h \in Guid, Logout(h) PROVE db'[g] = db[g]
  BY <1>0, <1>2 DEF Logout, SavePlayerNow, SavePlayerSync, FlushHere
<1>3. ASSUME NEW h \in Guid, h # g, NEW o \in OfflineChange, OfflineSave(h, o)
      PROVE  db'[g] = db[g]
  BY <1>0, <1>3 DEF OfflineSave, SavePlayerSync, FlushHere
<1>4. ASSUME NEW c \in Waiter,
             \/ \E h \in Guid : Login(c, h)
             \/ ArmTimeout(c) \/ RequestDrain(c) \/ LoginTimeout(c) \/ ReleaseAndDisconnect(c)
             \/ LoadPlayerById(c) \/ FinishLogin(c)
      PROVE  db' = db
  BY <1>4 DEF Login, ArmTimeout, RequestDrain, DrainPlayerFlushAsync, LoginTimeout,
              ReleaseAndDisconnect, LoadPlayerById, FinishLogin, saveVars, vars
<1>5. ASSUME NEW t \in callbackTasks, DrainCallback(t) PROVE db' = db
  BY <1>5 DEF DrainCallback, RunCallback
<1>6. ASSUME LoginRestart PROVE db' = db
  BY <1>6 DEF LoginRestart, Restart
<1>7. CASE UNCHANGED allVars
  BY <1>7 DEF allVars, saveVars, vars
<1>8. QED BY <1>1, <1>2, <1>3, <1>4, <1>5, <1>6, <1>7 DEF LoginNext

\* A login has loaded its player in this step, or carries it along.
LEMMA LoadedStep ==
    ASSUME LoginTypeOK, [LoginNext]_allVars, NEW c \in Waiter, stage'[c] = "finish"
    PROVE  \/ LoadPlayerById(c)
           \/ /\ stage[c] = "finish"
              /\ loginGuid'[c] = loginGuid[c] /\ loaded'[c] = loaded[c]
              /\ c \in overtaken => c \in overtaken'
<1>0. /\ stage \in [Waiter -> Stages] /\ loginGuid \in [Waiter -> {None} \cup Guid]
      /\ loaded \in [Waiter -> {None} \cup Contents]
  BY DEF LoginTypeOK
<1> DEFINE Carried == /\ stage[c] = "finish"
                      /\ loginGuid'[c] = loginGuid[c] /\ loaded'[c] = loaded[c]
                      /\ c \in overtaken => c \in overtaken'
<1>1. CASE SaveStep \/ UNCHANGED allVars
  BY <1>1 DEF SaveStep, loginVars, allVars
<1>2. ASSUME NEW d \in Waiter,
             \/ \E g \in Guid : Login(d, g)
             \/ ArmTimeout(d) \/ RequestDrain(d) \/ LoginTimeout(d) \/ ReleaseAndDisconnect(d)
             \/ FinishLogin(d)
      PROVE  Carried
  BY <1>0, <1>2 DEF Login, ArmTimeout, RequestDrain, LoginTimeout, ReleaseAndDisconnect,
                    FinishLogin
<1>3. ASSUME NEW d \in Waiter, LoadPlayerById(d), d # c PROVE Carried
  BY <1>0, <1>3 DEF LoadPlayerById
<1>4. ASSUME NEW t \in callbackTasks, DrainCallback(t) PROVE Carried
  BY <1>0, <1>4 DEF DrainCallback, AfterDrain
<1>5. ASSUME NEW g \in Guid, Logout(g) \/ \E o \in OfflineChange : OfflineSave(g, o) PROVE Carried
  BY <1>5 DEF Logout, OfflineSave
<1>6. ASSUME LoginRestart PROVE FALSE
  BY <1>6 DEF LoginRestart
<1>7. QED BY <1>1, <1>2, <1>3, <1>4, <1>5, <1>6 DEF LoginNext

\* Between load and placement only an offline save makes the player stale.
LEMMA NextFresh ==
    ASSUME LoginTypeOK, ChainInv, Offline, Settled, Fresh, [LoginNext]_allVars
    PROVE  Fresh'
<1> SUFFICES ASSUME NEW c \in Waiter,
                    stage'[c] = "finish", loaded'[c] # None, c \notin overtaken'
             PROVE  loaded'[c] = db'[loginGuid'[c]]
  BY DEF Fresh
<1>1. CASE LoadPlayerById(c)
  <2>1. loaded'[c] \in {None, db[loginGuid[c]]}
    BY <1>1 DEF LoadPlayerById, LoginTypeOK
  <2>2. UNCHANGED <<db, loginGuid>>
    BY <1>1 DEF LoadPlayerById, saveVars, vars
  <2>3. QED BY <2>1, <2>2
<1>2. CASE /\ stage[c] = "finish"
           /\ loginGuid'[c] = loginGuid[c] /\ loaded'[c] = loaded[c]
           /\ c \in overtaken => c \in overtaken'
  <2>1. PICK g \in Guid : g = loginGuid[c] /\ g \notin online /\ Calm(g)
    BY <1>2 DEF LoginTypeOK, Offline, Owns, Settled, Loading
  <2>2. status = "up"
    BY <1>2 DEF Offline
  <2>3. ~\E o \in OfflineChange : OfflineSave(g, o)
    BY <1>2, <2>1 DEF OfflineSave
  <2>4. db'[g] = db[g]
    BY <2>1, <2>2, <2>3, RowStep
  <2>5. QED BY <1>2, <2>1, <2>4 DEF Fresh
<1>3. QED BY <1>1, <1>2, LoadedStep

-----------------------------------------------------------------------------
(***************************************************************************)
(* The theorems.                                                           *)
(***************************************************************************)

\* At startup nobody logs in.
LEMMA LoginInitInv == LoginInit => LoginInv
<1> SUFFICES ASSUME LoginInit PROVE LoginInv
  OBVIOUS
<1>1. TypeOK /\ ChainInv
  BY InitTypes, InitChain DEF LoginInit
<1>2. LoginTypeOK
  BY <1>1 DEF LoginInit, LoginTypeOK, Stages
<1>3. Asked /\ Decided /\ ReservationExact /\ Offline /\ Settled /\ Fresh
  BY DEF LoginInit, Init, Asked, Decided, ReservationExact, Owns, Offline, Settled, Fresh, Loading
<1>4. QED BY <1>1, <1>2, <1>3 DEF LoginInv

\* The parts of the invariant carry each other through every step.
LEMMA LoginNextInv == LoginInv /\ [LoginNext]_allVars => LoginInv'
<1> SUFFICES ASSUME LoginInv, [LoginNext]_allVars PROVE LoginInv'
  OBVIOUS
<1> USE DEF LoginInv
<1>1. LoginTypeOK'
  BY NextKeepsSaves, NextLoginTypes DEF LoginTypes, LoginTypeOK
<1>2. ChainInv'
  BY NextKeepsSaves
<1>3. Asked' /\ Decided' /\ ReservationExact'
  BY NextAsked, NextDecided, NextReservation
<1>4. Offline' /\ Settled' /\ Fresh'
  BY NextOffline, NextSettled, NextFresh
<1>5. QED BY <1>1, <1>2, <1>3, <1>4

\* The inductive invariant of logins over save chains holds in every state.
THEOREM LoginInvariance == LoginSpec => []LoginInv
BY LoginInitInv, LoginNextInv, PTL DEF LoginSpec

\* Every variable of PlayerLogin keeps its type.
THEOREM LoginTypeCorrect == LoginSpec => []LoginTypeOK
<1>1. LoginInv => LoginTypeOK
  BY DEF LoginInv
<1>2. QED BY <1>1, LoginInvariance, PTL

\* A GUID is reserved exactly while one login owns the reservation.
THEOREM ReservationsExact == LoginSpec => []ReservationExact
<1>1. LoginInv => ReservationExact
  BY DEF LoginInv
<1>2. QED BY <1>1, LoginInvariance, PTL

\* At most one copy of a player is in the world or on its way there.
THEOREM NoSecondCopy == LoginSpec => []OneCopy
<1>1. LoginInv => OneCopy
  BY DEF LoginInv, ReservationExact, Offline, OneCopy, Owns, Loading
<1>2. QED BY <1>1, LoginInvariance, PTL

\* While a player is loaded no flush of it is outstanding or queued.
THEOREM LoadsAlone == LoginSpec => []LoadAlone
<1>1. LoginInv => LoadAlone
  BY DEF LoginInv, Settled, LoadAlone, Loading, Calm
<1>2. QED BY <1>1, LoginInvariance, PTL

\* A login is alone with the player it loads.
THEOREM LoadsExclusive == LoginSpec => []LoadExclusive
BY NoSecondCopy, LoadsAlone, PTL DEF LoadExclusive

\* Who enters the world is what the database holds, unless an offline save
\* came between its load and its placement.
THEOREM EntersFresh == LoginSpec => LoginFresh
<1> DEFINE A == \A g \in online' \ online : \A c \in Waiter :
                    stage[c] = "finish" /\ stage'[c] = "idle" /\ loginGuid[c] = g =>
                        live'[g] = db[g] \/ c \in overtaken
<1>1. ASSUME LoginInv, [LoginNext]_allVars PROVE [A]_allVars
  <2> SUFFICES ASSUME NEW g \in online' \ online, NEW c \in Waiter,
                      stage[c] = "finish", stage'[c] = "idle", loginGuid[c] = g,
                      c \notin overtaken
               PROVE  live'[g] = db[g]
    OBVIOUS
  <2>0. stage \in [Waiter -> Stages] /\ g \in Guid /\ live \in [Guid -> Contents]
    BY <1>1 DEF LoginInv, LoginTypeOK, TypeOK
  <2>1. PICK d \in Waiter : FinishLogin(d)
    BY <1>1, OnlineStep
  <2>2. d = c
    BY <2>0, <2>1 DEF FinishLogin
  <2>3. loaded[c] # None /\ live'[g] = loaded[c]
    BY <2>0, <2>1, <2>2 DEF FinishLogin
  <2>4. QED BY <1>1, <2>3 DEF LoginInv, Fresh
<1>2. QED BY <1>1, LoginInvariance, PTL DEF LoginSpec, LoginFresh
=============================================================================
