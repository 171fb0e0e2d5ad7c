---------------------------- MODULE SaveManager ----------------------------
(***************************************************************************)
(* The player save coordinator, src/src/save_manager.cpp.                  *)
(*                                                                         *)
(* The dispatcher thread takes a snapshot of a player, records it in the   *)
(* write-ahead table player_save_async_pending (the WAL) and hands it to   *)
(* the thread pool, which replays it on the database in one transaction    *)
(* and posts the result back to the dispatcher.  Saves of one GUID form a  *)
(* chain: at most one flush is outstanding and the newest later snapshot   *)
(* waits behind it.  After a crash the WAL is replayed at startup.         *)
(*                                                                         *)
(* One action is one dispatcher task, one thread pool job or one iteration *)
(* of a loop the dispatcher runs while the pool works beside it.  The      *)
(* contents of a player are the set of changes applied to it, so that "a   *)
(* save is lost" reads "a change is missing".  SQL failures are choices.   *)
(***************************************************************************)
EXTENDS Naturals, FiniteSets

CONSTANTS
    Guid,    \* player GUIDs
    Change,  \* the changes that play can make to a player
    Waiter,  \* callers of drainPlayerFlushAsync
    None     \* an absent WAL entry, an absent pending flush

Contents == SUBSET Change
Flush    == [save : Contents, tracked : BOOLEAN]

ASSUME NoneAssumption ==
    /\ \A s \in Contents : s # None
    /\ \A f \in Flush : f # None
    /\ \A s \in SUBSET Guid : s # None
ASSUME GuidAssumption == IsFiniteSet(Guid)

VARIABLES
    status,              \* "up", or "recovering" inside recoverPendingFlushes
    toRecover,           \* GUIDs the recovery loop has still to visit
    live,                \* contents of the in-memory player
    db,                  \* contents of the player tables
    wal,                 \* contents of player_save_async_pending
    flushInFlight,       \* GUIDs with an outstanding flush
    pendingFlushes,      \* the flush queued behind the outstanding one
    pool,                \* flush jobs of the thread pool
    completions,         \* onPlayerFlushed tasks posted to the dispatcher
    flushChainCallbacks, \* callers waiting for a chain to end
    drainTasks,          \* drain requests posted to the dispatcher
    callbackTasks,       \* callbacks posted to the dispatcher
    saving,              \* saveAll is under way
    pendingSaveFlushes,  \* the tracked flushes of saveAll, a counter
    saveAllLeft,         \* None, or the players saveAll has still to visit
    failedRecoveryGuids, \* GUIDs whose WAL replay failed
    captured             \* history: changes that reached WAL or DB this boot

chainVars == <<flushInFlight, pendingFlushes, pool, completions>>
drainVars == <<flushChainCallbacks, drainTasks, callbackTasks>>
trackVars == <<saving, pendingSaveFlushes, saveAllLeft>>
bootVars  == <<status, toRecover, failedRecoveryGuids>>
vars == <<live, db, wal, captured, chainVars, drainVars, trackVars, bootVars>>

Job        == [guid : Guid, save : Contents, tracked : BOOLEAN]
Completion == [guid : Guid, save : Contents, tracked : BOOLEAN, success : BOOLEAN]
Request    == [guid : Guid, waiter : Waiter]
Callback   == [guid : Guid, waiter : Waiter, ok : BOOLEAN]

TypeOK ==
    /\ status \in {"up", "recovering"}
    /\ toRecover \in SUBSET {g \in Guid : wal[g] # None}
    /\ status = "up" => toRecover = {}
    /\ live \in [Guid -> Contents]
    /\ db \in [Guid -> Contents]
    /\ wal \in [Guid -> {None} \cup Contents]
    /\ flushInFlight \in SUBSET Guid
    /\ pendingFlushes \in [Guid -> {None} \cup Flush]
    /\ pool \in SUBSET Job
    /\ completions \in SUBSET Completion
    /\ flushChainCallbacks \in [Guid -> SUBSET Waiter]
    /\ drainTasks \in SUBSET Request
    /\ callbackTasks \in SUBSET Callback
    /\ saving \in BOOLEAN
    /\ pendingSaveFlushes \in Nat
    /\ saveAllLeft \in {None} \cup SUBSET Guid
    /\ failedRecoveryGuids \in SUBSET Guid
    /\ captured \in [Guid -> Contents]

(***************************************************************************)
(* Startup with an empty WAL and the players as the database has them.     *)
(***************************************************************************)
Init ==
    /\ status = "up"
    /\ toRecover = {}
    /\ live = [g \in Guid |-> {}]
    /\ db = [g \in Guid |-> {}]
    /\ wal = [g \in Guid |-> None]
    /\ flushInFlight = {}
    /\ pendingFlushes = [g \in Guid |-> None]
    /\ pool = {}
    /\ completions = {}
    /\ flushChainCallbacks = [g \in Guid |-> {}]
    /\ drainTasks = {}
    /\ callbackTasks = {}
    /\ saving = FALSE
    /\ pendingSaveFlushes = 0
    /\ saveAllLeft = None
    /\ failedRecoveryGuids = {}
    /\ captured = [g \in Guid |-> {}]

\* The dispatcher runs one task at a time: it is free for a new one unless
\* it is inside the loop of saveAll.
DispatcherIdle == status = "up" /\ saveAllLeft = None

(***************************************************************************)
(* beginTrackedFlush and completeTrackedFlush.  The counter is a uint32_t  *)
(* that the code guards against going below zero; the flush that takes it  *)
(* to zero ends the saveAll.                                               *)
(***************************************************************************)
BeginTracked(n, track) == IF track THEN n + 1 ELSE n

SlipCompleteUntracked(n, track) == n - 1
CompleteTracked(n, track) == IF track /\ n > 0 THEN n - 1 ELSE n

SavingAfter(s, n, track) == s /\ ~(track /\ n <= 1)

isSaving == saving \/ pendingSaveFlushes # 0

(***************************************************************************)
(* savePendingFlushToDB: one transaction, refused for a GUID whose         *)
(* recovery failed; when it fails the entry stays as it was.               *)
(***************************************************************************)
WriteWal(g, save) ==
    /\ g \notin failedRecoveryGuids
    /\ wal' = [wal EXCEPT ![g] = save]
    /\ captured' = [captured EXCEPT ![g] = @ \cup save]

WalWriteFails == UNCHANGED <<wal, captured>>

(***************************************************************************)
(* Every caller waiting for the chain of g gets a callback task.           *)
(***************************************************************************)
InvokeCallbacks(g, ok) ==
    /\ callbackTasks' = callbackTasks \cup
           {[guid |-> g, waiter |-> w, ok |-> ok] : w \in flushChainCallbacks[g]}
    /\ flushChainCallbacks' = [flushChainCallbacks EXCEPT ![g] = {}]

(***************************************************************************)
(* dispatchPlayerFlush, called with n tracked flushes counted and saving   *)
(* equal to s: the WAL entry first, then the job; if the WAL cannot be     *)
(* written the chain ends here.                                            *)
(***************************************************************************)
StartFlush(g, flush, n, s) ==
    /\ flushInFlight' = flushInFlight \cup {g}
    /\ pool' = pool \cup {[guid |-> g, save |-> flush.save, tracked |-> flush.tracked]}
    /\ pendingSaveFlushes' = n
    /\ saving' = s
    /\ UNCHANGED <<flushChainCallbacks, callbackTasks>>

SlipAbortKeepsMarker(g, flush, n, s) ==
    /\ flushInFlight' = flushInFlight \cup {g}
    /\ InvokeCallbacks(g, FALSE)
    /\ pendingSaveFlushes' = CompleteTracked(n, flush.tracked)
    /\ saving' = SavingAfter(s, n, flush.tracked)
    /\ UNCHANGED pool
SlipAbortKeepsCount(g, flush, n, s) ==
    /\ flushInFlight' = flushInFlight \ {g}
    /\ InvokeCallbacks(g, FALSE)
    /\ pendingSaveFlushes' = n
    /\ saving' = s
    /\ UNCHANGED pool
AbortChain(g, flush, n, s) ==
    /\ flushInFlight' = flushInFlight \ {g}
    /\ InvokeCallbacks(g, FALSE)
    /\ pendingSaveFlushes' = CompleteTracked(n, flush.tracked)
    /\ saving' = SavingAfter(s, n, flush.tracked)
    /\ UNCHANGED pool

DispatchPlayerFlush(g, flush, n, s) ==
    /\ pendingFlushes' = [pendingFlushes EXCEPT ![g] = None]
    /\ \/ WriteWal(g, flush.save) /\ StartFlush(g, flush, n, s)
       \/ WalWriteFails /\ AbortChain(g, flush, n, s)

(***************************************************************************)
(* A snapshot taken while a flush of g is outstanding replaces the one     *)
(* queued behind it; it inherits the queued one's place in saveAll.        *)
(***************************************************************************)
Queued(g) == pendingFlushes[g] # None
QueuedTracked(g) == Queued(g) /\ pendingFlushes[g].tracked

SlipForgetTracked(g, track) == track
StaysTracked(g, track) == QueuedTracked(g) \/ track

EnqueueBehind(g, save, track) ==
    /\ WriteWal(g, save) \/ WalWriteFails
    /\ pendingFlushes' = [pendingFlushes EXCEPT
           ![g] = [save |-> save, tracked |-> StaysTracked(g, track)]]
    /\ pendingSaveFlushes' = BeginTracked(pendingSaveFlushes, track /\ ~QueuedTracked(g))
    /\ UNCHANGED <<flushInFlight, pool, saving, flushChainCallbacks, callbackTasks>>

(***************************************************************************)
(* schedulePlayerFlush of the snapshot save, which buildPlayerSave took    *)
(* (when it takes none, the function returns and nothing happens).         *)
(***************************************************************************)
SchedulePlayerFlush(g, save, track) ==
    /\ IF g \in flushInFlight
       THEN EnqueueBehind(g, save, track)
       ELSE DispatchPlayerFlush(g, [save |-> save, tracked |-> track],
                                BeginTracked(pendingSaveFlushes, track), saving)
    /\ UNCHANGED <<db, completions, drainTasks>>

(***************************************************************************)
(* savePlayerSync of the snapshot save: behind an outstanding flush it is  *)
(* queued, otherwise it is flushed here, in up to three attempts that may  *)
(* all fail.  The WAL is not involved, and the queue behind g is empty     *)
(* when g is not in flight, so nothing is left to start.                   *)
(***************************************************************************)
FlushHere(g, save) ==
    /\ \/ /\ db' = [db EXCEPT ![g] = save]
          /\ captured' = [captured EXCEPT ![g] = @ \cup save]
       \/ UNCHANGED <<db, captured>>
    /\ UNCHANGED <<wal, flushInFlight, pendingFlushes, pool, saving, pendingSaveFlushes,
                   flushChainCallbacks, callbackTasks>>

SlipSyncIgnoresInFlight(g, save) ==
    FlushHere(g, save) /\ UNCHANGED <<completions, drainTasks>>
SavePlayerSync(g, save) ==
    /\ IF g \in flushInFlight
       THEN EnqueueBehind(g, save, FALSE) /\ UNCHANGED db
       ELSE FlushHere(g, save)
    /\ UNCHANGED <<completions, drainTasks>>

-----------------------------------------------------------------------------
(***************************************************************************)
(* Play changes the in-memory player.                                      *)
(***************************************************************************)
Play(g, c) ==
    /\ DispatcherIdle
    /\ live' = [live EXCEPT ![g] = @ \cup {c}]
    /\ UNCHANGED <<db, wal, captured, chainVars, drainVars, trackVars, bootVars>>

SavePlayer(g) ==
    /\ DispatcherIdle
    /\ SchedulePlayerFlush(g, live[g], FALSE)
    /\ UNCHANGED <<live, saveAllLeft, bootVars>>

SavePlayerNow(g) ==
    /\ DispatcherIdle
    /\ SavePlayerSync(g, live[g])
    /\ UNCHANGED <<live, saveAllLeft, bootVars>>

(***************************************************************************)
(* saveAll: refused while a save is under way (a throttled call changes    *)
(* nothing either).  It visits the online players in any order, skips one  *)
(* of which buildPlayerSave gives no snapshot, and then counts one tracked *)
(* flush around the map save.                                              *)
(***************************************************************************)
SaveAllBegin(online) ==
    /\ DispatcherIdle
    /\ ~isSaving
    /\ saving' = TRUE
    /\ saveAllLeft' = online
    /\ UNCHANGED <<live, db, wal, captured, chainVars, drainVars, pendingSaveFlushes, bootVars>>

SaveAllPlayer(g) ==
    /\ status = "up" /\ saveAllLeft # None /\ g \in saveAllLeft
    /\ saveAllLeft' = saveAllLeft \ {g}
    /\ \/ SchedulePlayerFlush(g, live[g], TRUE)
       \/ UNCHANGED <<db, wal, captured, chainVars, drainVars, saving, pendingSaveFlushes>>
    /\ UNCHANGED <<live, bootVars>>

SavingAfterMap(n) == SavingAfter(saving, BeginTracked(n, TRUE), TRUE)

SaveAllMap ==
    /\ saveAllLeft = {}
    /\ saveAllLeft' = None
    /\ saving' = SavingAfterMap(pendingSaveFlushes)
    /\ pendingSaveFlushes' = CompleteTracked(BeginTracked(pendingSaveFlushes, TRUE), TRUE)
    /\ UNCHANGED <<live, db, wal, captured, chainVars, drainVars, bootVars>>

(***************************************************************************)
(* The job of dispatchPlayerFlush: flushPlayerSave replays the snapshot in *)
(* one transaction, then posts onPlayerFlushed.  Jobs run beside the       *)
(* dispatcher.                                                             *)
(***************************************************************************)
FlushPlayerSave(j) ==
    /\ pool' = pool \ {j}
    /\ \E ok \in BOOLEAN :
           /\ db' = IF ok THEN [db EXCEPT ![j.guid] = j.save] ELSE db
           /\ completions' = completions \cup
                  {[guid |-> j.guid, save |-> j.save, tracked |-> j.tracked, success |-> ok]}
    /\ UNCHANGED <<live, wal, captured, flushInFlight, pendingFlushes, drainVars, trackVars, bootVars>>

(***************************************************************************)
(* onPlayerFlushed: a tracked flush is counted down; then the queued flush *)
(* is started, or the chain ends: the WAL entry is deleted after a success *)
(* (the DELETE itself may fail, which is ignored) and kept after a         *)
(* failure, and the waiting callers are told.                              *)
(***************************************************************************)
SlipDropWal(c) == wal' = [wal EXCEPT ![c.guid] = None]
SettleWal(c) ==
    \/ c.success /\ wal' = [wal EXCEPT ![c.guid] = None]
    \/ UNCHANGED wal

EndChain(c, n, s) ==
    /\ flushInFlight' = flushInFlight \ {c.guid}
    /\ SettleWal(c)
    /\ InvokeCallbacks(c.guid, c.success)
    /\ pendingSaveFlushes' = n
    /\ saving' = s
    /\ UNCHANGED <<captured, pendingFlushes, pool>>

OnPlayerFlushed(c) ==
    LET n == CompleteTracked(pendingSaveFlushes, c.tracked)
        s == SavingAfter(saving, pendingSaveFlushes, c.tracked)
    IN  /\ DispatcherIdle
        /\ completions' = completions \ {c}
        /\ IF Queued(c.guid)
           THEN DispatchPlayerFlush(c.guid, pendingFlushes[c.guid], n, s)
           ELSE EndChain(c, n, s)
        /\ UNCHANGED <<live, db, drainTasks, saveAllLeft, bootVars>>

(***************************************************************************)
(* drainPlayerFlushAsync posts a task; the task registers the caller with  *)
(* an unfinished chain or posts callback(true); the callback then runs.    *)
(***************************************************************************)
Waiting(w) ==
    \/ \E r \in drainTasks \cup callbackTasks : r.waiter = w
    \/ \E g \in Guid : w \in flushChainCallbacks[g]

DrainPlayerFlushAsync(g, w) ==
    /\ status = "up" /\ ~Waiting(w)
    /\ drainTasks' = drainTasks \cup {[guid |-> g, waiter |-> w]}
    /\ UNCHANGED <<live, db, wal, captured, chainVars, flushChainCallbacks, callbackTasks,
                   trackVars, bootVars>>

SlipOnlyQueued(g) == Queued(g)
ChainUnfinished(g) == g \in flushInFlight \/ Queued(g)

DrainTask(r) ==
    /\ DispatcherIdle
    /\ drainTasks' = drainTasks \ {r}
    /\ IF ChainUnfinished(r.guid)
       THEN /\ flushChainCallbacks' = [flushChainCallbacks EXCEPT ![r.guid] = @ \cup {r.waiter}]
            /\ UNCHANGED callbackTasks
       ELSE /\ callbackTasks' = callbackTasks \cup
                   {[guid |-> r.guid, waiter |-> r.waiter, ok |-> TRUE]}
            /\ UNCHANGED flushChainCallbacks
    /\ UNCHANGED <<live, db, wal, captured, chainVars, trackVars, bootVars>>

RunCallback(t) ==
    /\ DispatcherIdle
    /\ callbackTasks' = callbackTasks \ {t}
    /\ UNCHANGED <<live, db, wal, captured, chainVars, flushChainCallbacks, drainTasks,
                   trackVars, bootVars>>

(***************************************************************************)
(* The process ends, in a crash or a shutdown that drops what is queued,   *)
(* and starts again: memory is empty and recoverPendingFlushes selects the *)
(* WAL (a failed SELECT looks like an empty table).                        *)
(***************************************************************************)
Restart ==
    /\ status' = "recovering"
    /\ toRecover' \in {{g \in Guid : wal[g] # None}, {}}
    /\ live' = [g \in Guid |-> {}]
    /\ captured' = [g \in Guid |-> {}]
    /\ flushInFlight' = {}
    /\ pendingFlushes' = [g \in Guid |-> None]
    /\ pool' = {}
    /\ completions' = {}
    /\ flushChainCallbacks' = [g \in Guid |-> {}]
    /\ drainTasks' = {}
    /\ callbackTasks' = {}
    /\ saving' = FALSE
    /\ pendingSaveFlushes' = 0
    /\ saveAllLeft' = None
    /\ failedRecoveryGuids' = {}
    /\ UNCHANGED <<db, wal>>

(***************************************************************************)
(* One iteration of the recovery loop.  The transaction does not begin or  *)
(* does not commit: nothing changes; a statement fails: the GUID is marked;*)
(* it commits: the entry is deleted, unless the DELETE fails.              *)
(***************************************************************************)
RecoverNothing(g) == UNCHANGED <<db, wal, failedRecoveryGuids>>

RecoverStatementFails(g) ==
    /\ failedRecoveryGuids' = failedRecoveryGuids \cup {g}
    /\ UNCHANGED <<db, wal>>

RecoverCommits(g) ==
    /\ db' = [db EXCEPT ![g] = wal[g]]
    /\ wal' \in {wal, [wal EXCEPT ![g] = None]}
    /\ UNCHANGED failedRecoveryGuids

RecoverGuid(g) ==
    /\ status = "recovering" /\ g \in toRecover
    /\ toRecover' = toRecover \ {g}
    /\ RecoverNothing(g) \/ RecoverStatementFails(g) \/ RecoverCommits(g)
    /\ UNCHANGED <<status, live, captured, chainVars, drainVars, trackVars>>

\* The players are then loaded from the database as they log in.
RecoveryDone ==
    /\ status = "recovering" /\ toRecover = {}
    /\ status' = "up"
    /\ live' = db
    /\ UNCHANGED <<db, wal, captured, toRecover, failedRecoveryGuids,
                   chainVars, drainVars, trackVars>>

-----------------------------------------------------------------------------
Dispatch ==
    \/ \E g \in Guid, c \in Change : Play(g, c)
    \/ \E g \in Guid : SavePlayer(g)
    \/ \E g \in Guid : SavePlayerNow(g)
    \/ \E online \in SUBSET Guid : SaveAllBegin(online)
    \/ \E g \in Guid : SaveAllPlayer(g)
    \/ SaveAllMap
    \/ \E c \in completions : OnPlayerFlushed(c)
    \/ \E r \in drainTasks : DrainTask(r)
    \/ \E t \in callbackTasks : RunCallback(t)

Next ==
    \/ Dispatch
    \/ \E j \in pool : FlushPlayerSave(j)
    \/ \E g \in Guid, w \in Waiter : DrainPlayerFlushAsync(g, w)
    \/ Restart
    \/ \E g \in Guid : RecoverGuid(g)
    \/ RecoveryDone

Spec == Init /\ [][Next]_vars

-----------------------------------------------------------------------------
(***************************************************************************)
(* Properties.                                                             *)
(***************************************************************************)
Outstanding == pool \cup completions

\* "Two saves for the same GUID are never flushed concurrently": whatever the
\* order of savePlayer, savePlayerSync, saveAll and completions, a GUID has at
\* most one job running or completion unprocessed.
OneFlushPerGuid ==
    /\ \A j, k \in pool : j.guid = k.guid => j = k
    /\ \A c, d \in completions : c.guid = d.guid => c = d
    /\ \A j \in pool, c \in completions : j.guid # c.guid

\* flushInFlight marks exactly the GUIDs with an outstanding flush, also after
\* an aborted chain: a marker left behind would block every later save and
\* login of the player, a missing one would let a second flush start.
InFlightExact ==
    \A g \in Guid : g \in flushInFlight <=> \E o \in Outstanding : o.guid = g

\* A flush or a login only ever waits behind an outstanding flush, whose
\* completion will start it or answer it.
NobodyWaitsForNothing ==
    \A g \in Guid :
        (Queued(g) \/ flushChainCallbacks[g] # {}) => g \in flushInFlight

\* The three together: a save chain is one flush at a time, marked as such, and
\* whoever waits behind it is served by its end.
ChainExact == OneFlushPerGuid /\ InFlightExact /\ NobodyWaitsForNothing

\* The counter of saveAll agrees with the tracked flushes that are outstanding
\* or queued, through replaced snapshots and aborted chains: it never
\* underflows and never keeps saveAll refused with nothing left to do.
TrackedGuids == {g \in Guid : \E o \in Outstanding : o.guid = g /\ o.tracked}
TrackedQueue == {g \in Guid : QueuedTracked(g)}
TrackedCount ==
    /\ pendingSaveFlushes = Cardinality(TrackedGuids) + Cardinality(TrackedQueue)
    /\ saving => saveAllLeft # None \/ pendingSaveFlushes > 0

\* Whatever a pool job is about to write is already in the WAL (or the WAL
\* holds a later snapshot), so a crash at any point of the flush loses nothing.
WalCoversFlush ==
    \A o \in Outstanding : wal[o.guid] # None /\ o.save \subseteq wal[o.guid]

\* Until the next restart, every change that once reached the WAL or the
\* database is still in one of them: a failed flush, an aborted chain or the
\* end of a chain never discards the only copy.
InWal(g) == IF wal[g] = None THEN {} ELSE wal[g]
CapturedSurvives == \A g \in Guid : captured[g] \subseteq db[g] \cup InWal(g)

\* Both together: at every point where the process may die, what was captured
\* since the last start is in the WAL or in the database.
Durable == WalCoversFlush /\ CapturedSurvives

\* The snapshots of one player are nested in the order they were taken: what
\* the database holds, the outstanding flush, the queued one and the player in
\* memory, and the newest of the first three holds all that was captured.
SnapshotsNested ==
    /\ \A g \in Guid : captured[g] \subseteq live[g]
    /\ \A c \in completions : c.success => c.save \subseteq db[c.guid]
    /\ \A o \in Outstanding :
          /\ db[o.guid] \subseteq o.save
          /\ o.save \subseteq live[o.guid]
          /\ IF Queued(o.guid)
             THEN o.save \cup captured[o.guid] \subseteq pendingFlushes[o.guid].save
             ELSE captured[o.guid] \subseteq o.save
    /\ \A g \in Guid : Queued(g) => pendingFlushes[g].save \subseteq live[g]
    /\ IF status = "up" THEN \A g \in Guid : db[g] \subseteq live[g]
                        ELSE \A g \in Guid : live[g] = {} /\ g \notin flushInFlight

\* While the server is up saves reach the database in the order they were
\* taken: no flush replaces a player's row by an older snapshot, although pool
\* jobs and synchronous saves of the dispatcher write it concurrently.
SavesInOrder ==
    [][status = "up" => \A g \in Guid : db[g] \subseteq db'[g]]_db

\* callback(true) is posted only when no save of the GUID is outstanding or
\* queued, so the load that follows it cannot read a half-finished chain.
DrainIsBarrier ==
    [][\A t \in callbackTasks' \ callbackTasks :
          t.ok => t.guid \notin flushInFlight' /\ pendingFlushes'[t.guid] = None]_vars

\* Every saveAll comes to an end (or the process does), even when snapshots
\* are replaced, flushes fail and chains are aborted meanwhile.
SaveAllEnds == isSaving ~> ~isSaving
=============================================================================
