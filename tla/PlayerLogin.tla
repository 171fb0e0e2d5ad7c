---------------------------- MODULE PlayerLogin ----------------------------
(***************************************************************************)
(* The asynchronous login of src/src/protocolgame.cpp composed with the    *)
(* save coordinator: what keeps a player from being loaded while its last  *)
(* save is under way, or twice at once.                                    *)
(*                                                                         *)
(* login() reserves the GUID and sends a job to the thread pool; the job   *)
(* arms a timeout and asks SaveManager to be called when the GUID's chain  *)
(* of flushes has ended; the callback sends a second job that loads the    *)
(* player, and finishLogin() places it.  Timeout and callback race for the *)
(* flag completed.  Players leave with a synchronous save.  Mailboxes,     *)
(* houses and beds load a player that is offline from the database, change *)
(* it and save it at once.                                                 *)
(*                                                                         *)
(* The variables and actions of SaveManager are those of that module; a    *)
(* connection is a Waiter.  A player already in the world, whom login()    *)
(* hands over to the new connection, the Account Manager and ALLOW_CLONES  *)
(* are not part of the model; ONE_PLAYER_ON_ACCOUNT is set.                *)
(***************************************************************************)
EXTENDS SaveManager

CONSTANTS
    OfflineChange,  \* the changes made to players that are offline
    account         \* the account a GUID belongs to

ASSUME OfflineAssumption == OfflineChange \subseteq Change
ASSUME AccountAssumption == DOMAIN account = Guid

VARIABLES
    online,        \* GUIDs placed in the world
    pendingLogins, \* Game::pendingLogins, the reserved GUIDs
    loginGuid,     \* per connection: None, or the GUID it logs in
    stage,         \* per connection: how far its login is
    completed,     \* connections whose flag completed is set
    timers,        \* connections whose timeout event is armed
    releaseTasks,  \* release-and-disconnect tasks posted to the dispatcher
    loaded,        \* per connection: the player it loaded, None if that failed
    overtaken,     \* history: loads that an offline save came after
    refused        \* offline changes whose save failed: the item went back

loginVars == <<online, pendingLogins, loginGuid, stage, completed, timers, releaseTasks,
               loaded, overtaken, refused>>

\* idle; job posted; timeout armed; drain asked for; load job posted; loaded.
Stages == {"idle", "posted", "armed", "draining", "load", "finish"}

LoginTypeOK ==
    /\ TypeOK
    /\ online \in SUBSET Guid
    /\ pendingLogins \in SUBSET Guid
    /\ loginGuid \in [Waiter -> {None} \cup Guid]
    /\ stage \in [Waiter -> Stages]
    /\ completed \in SUBSET Waiter
    /\ timers \in SUBSET Waiter
    /\ releaseTasks \in SUBSET Waiter
    /\ loaded \in [Waiter -> {None} \cup Contents]
    /\ overtaken \in SUBSET Waiter
    /\ refused \in SUBSET Change
    /\ \A c \in Waiter : stage[c] # "idle" => loginGuid[c] \in Guid

LoginInit ==
    /\ Init
    /\ online = {} /\ pendingLogins = {}
    /\ loginGuid = [c \in Waiter |-> None]
    /\ stage = [c \in Waiter |-> "idle"]
    /\ completed = {} /\ timers = {} /\ releaseTasks = {}
    /\ loaded = [c \in Waiter |-> None]
    /\ overtaken = {} /\ refused = {}

saveVars == vars
allVars  == <<saveVars, loginVars>>

-----------------------------------------------------------------------------
\* A connection is used for one login; its place is free for a new connection
\* once no timeout, callback or task of the login is left.
Free(c) == stage[c] = "idle" /\ c \notin timers /\ c \notin releaseTasks /\ ~Waiting(c)

(***************************************************************************)
(* login() of a player that is not in the world: it is refused while a     *)
(* character of its account is there; reserveLogin refuses a GUID that is  *)
(* being logged in; one whose recovery failed is refused too, and          *)
(* released.  Auctions, bans and the waiting list come before and change   *)
(* nothing here.                                                           *)
(***************************************************************************)
Login(c, g) ==
    /\ DispatcherIdle
    /\ Free(c)
    /\ g \notin online /\ \A h \in online : account[h] # account[g]
    /\ g \notin pendingLogins /\ g \notin failedRecoveryGuids
    /\ pendingLogins' = pendingLogins \cup {g}
    /\ loginGuid' = [loginGuid EXCEPT ![c] = g]
    /\ stage' = [stage EXCEPT ![c] = "posted"]
    /\ completed' = completed \ {c}
    /\ overtaken' = overtaken \ {c}
    /\ loaded' = [loaded EXCEPT ![c] = None]
    /\ UNCHANGED <<saveVars, online, timers, releaseTasks, refused>>

\* The first pool job: the timeout event is scheduled (or refused by a full
\* inbox) ...
ArmTimeout(c) ==
    /\ stage[c] = "posted"
    /\ stage' = [stage EXCEPT ![c] = "armed"]
    /\ timers' \in {timers, timers \cup {c}}
    /\ UNCHANGED <<saveVars, online, pendingLogins, loginGuid, completed, releaseTasks, loaded,
                   overtaken, refused>>

\* ... and the end of the GUID's saves is asked for.
RequestDrain(c) ==
    /\ stage[c] = "armed"
    /\ stage' = [stage EXCEPT ![c] = "draining"]
    /\ DrainPlayerFlushAsync(loginGuid[c], c)
    /\ UNCHANGED <<online, pendingLogins, loginGuid, completed, timers, releaseTasks, loaded,
                   overtaken, refused>>

(***************************************************************************)
(* The timeout event: whoever sets completed first decides.                *)
(***************************************************************************)
SlipTimeoutAlways(c) == TRUE
TimeoutWins(c) == c \notin completed

LoginTimeout(c) ==
    /\ DispatcherIdle
    /\ c \in timers
    /\ timers' = timers \ {c}
    /\ completed' = completed \cup {c}
    /\ releaseTasks' = IF TimeoutWins(c) THEN releaseTasks \cup {c} ELSE releaseTasks
    /\ UNCHANGED <<saveVars, online, pendingLogins, loginGuid, stage, loaded, overtaken, refused>>

(***************************************************************************)
(* The callback of drainPlayerFlushAsync.  stopEvent may come too late for *)
(* an event that is already due.                                           *)
(***************************************************************************)
SlipCallbackAlways(c, ok) ==
    /\ stage' = [stage EXCEPT ![c] = IF ok THEN "load" ELSE "idle"]
    /\ releaseTasks' = IF ok THEN releaseTasks ELSE releaseTasks \cup {c}
SlipForgetsRelease(c, ok) ==
    /\ stage' = [stage EXCEPT ![c] = IF ok /\ c \notin completed THEN "load" ELSE "idle"]
    /\ UNCHANGED releaseTasks
AfterDrain(c, ok) ==
    /\ stage' = [stage EXCEPT ![c] = IF ok /\ c \notin completed THEN "load" ELSE "idle"]
    /\ releaseTasks' = IF ok \/ c \in completed THEN releaseTasks ELSE releaseTasks \cup {c}

DrainCallback(t) ==
    /\ RunCallback(t)
    /\ timers' \in {timers, timers \ {t.waiter}}
    /\ AfterDrain(t.waiter, t.ok)
    /\ completed' = completed \cup {t.waiter}
    /\ UNCHANGED <<online, pendingLogins, loginGuid, loaded, overtaken, refused>>

\* The task posted by a timeout or by a callback(false).
ReleaseAndDisconnect(c) ==
    /\ DispatcherIdle
    /\ c \in releaseTasks
    /\ releaseTasks' = releaseTasks \ {c}
    /\ pendingLogins' = pendingLogins \ {loginGuid[c]}
    /\ UNCHANGED <<saveVars, online, loginGuid, stage, completed, timers, loaded, overtaken, refused>>

\* The second pool job: loadPlayerById.
LoadPlayerById(c) ==
    /\ stage[c] = "load"
    /\ stage' = [stage EXCEPT ![c] = "finish"]
    /\ \E data \in {None, db[loginGuid[c]]} : loaded' = [loaded EXCEPT ![c] = data]
    /\ UNCHANGED <<saveVars, online, pendingLogins, loginGuid, completed, timers, releaseTasks,
                   overtaken, refused>>

(***************************************************************************)
(* finishLogin: the GUID is released whether the connection is gone, the   *)
(* player was not loaded, found no place, or enters the world.             *)
(***************************************************************************)
FinishLogin(c) ==
    /\ DispatcherIdle
    /\ stage[c] = "finish"
    /\ stage' = [stage EXCEPT ![c] = "idle"]
    /\ pendingLogins' = pendingLogins \ {loginGuid[c]}
    /\ \/ UNCHANGED <<online, live>>
       \/ /\ loaded[c] # None
          /\ online' = online \cup {loginGuid[c]}
          /\ live' = [live EXCEPT ![loginGuid[c]] = loaded[c]]
    /\ UNCHANGED <<db, wal, captured, chainVars, drainVars, trackVars, bootVars,
                   loginGuid, completed, timers, releaseTasks, loaded, overtaken, refused>>

\* onRemoveCreature: savePlayerSync, whose repetitions end as one call does,
\* then the player is gone, saved or not.
Logout(g) ==
    /\ g \in online
    /\ SavePlayerNow(g)
    /\ online' = online \ {g}
    /\ UNCHANGED <<pendingLogins, loginGuid, stage, completed, timers, releaseTasks, loaded,
                   overtaken, refused>>

(***************************************************************************)
(* A mailbox, a house or a bed changes a player that is not in the world:  *)
(* a temporary player is loaded, changed and saved.  savePlayerSync says   *)
(* true only if it wrote the database itself.                              *)
(***************************************************************************)
OfflineSave(g, o) ==
    /\ DispatcherIdle
    /\ g \notin online /\ o \notin db[g] \cup refused
    /\ SavePlayerSync(g, db[g] \cup {o})
    /\ refused' = IF o \in db'[g] THEN refused ELSE refused \cup {o}
    /\ overtaken' = overtaken \cup {c \in Waiter : stage[c] = "finish" /\ loginGuid[c] = g}
    /\ UNCHANGED <<live, saveAllLeft, bootVars, online, pendingLogins, loginGuid, stage, completed,
                   timers, releaseTasks, loaded>>

\* Logins do not survive a restart of the process.
LoginRestart ==
    /\ Restart
    /\ online' = {} /\ pendingLogins' = {}
    /\ loginGuid' = [c \in Waiter |-> None]
    /\ stage' = [c \in Waiter |-> "idle"]
    /\ completed' = {} /\ timers' = {} /\ releaseTasks' = {}
    /\ loaded' = [c \in Waiter |-> None]
    /\ overtaken' = {} /\ refused' = {}

\* Steps of SaveManager, with players in the world as its callers.
SaveStep ==
    /\ \/ \E g \in online, c \in Change \ OfflineChange : Play(g, c)
       \/ \E g \in online : SavePlayer(g)
       \/ SaveAllBegin(online)
       \/ \E g \in Guid : SaveAllPlayer(g)
       \/ SaveAllMap
       \/ \E j \in pool : FlushPlayerSave(j)
       \/ \E c \in completions : OnPlayerFlushed(c)
       \/ \E r \in drainTasks : DrainTask(r)
       \/ \E g \in Guid : RecoverGuid(g)
       \/ RecoveryDone
    /\ UNCHANGED loginVars

-----------------------------------------------------------------------------
LoginNext ==
    \/ SaveStep
    \/ \E c \in Waiter, g \in Guid : Login(c, g)
    \/ \E c \in Waiter : ArmTimeout(c)
    \/ \E c \in Waiter : RequestDrain(c)
    \/ \E c \in Waiter : LoginTimeout(c)
    \/ \E t \in callbackTasks : DrainCallback(t)
    \/ \E c \in Waiter : ReleaseAndDisconnect(c)
    \/ \E c \in Waiter : LoadPlayerById(c)
    \/ \E c \in Waiter : FinishLogin(c)
    \/ \E g \in Guid : Logout(g)
    \/ \E g \in Guid, o \in OfflineChange : OfflineSave(g, o)
    \/ LoginRestart

LoginSpec == LoginInit /\ [][LoginNext]_allVars

(***************************************************************************)
(* The threads keep running: pool jobs are taken, and every dispatcher     *)
(* task posted is executed although others may be executed before it.      *)
(* Play, the calls that save, logins and restarts are the environment's    *)
(* choice.                                                                 *)
(***************************************************************************)
LoginFairness ==
    /\ WF_allVars((SaveAllMap \/ \E g \in Guid : SaveAllPlayer(g)) /\ UNCHANGED loginVars)
    /\ WF_allVars((RecoveryDone \/ \E g \in Guid : RecoverGuid(g)) /\ UNCHANGED loginVars)
    /\ \A g \in Guid :
          /\ WF_allVars(\E j \in pool : j.guid = g /\ FlushPlayerSave(j) /\ UNCHANGED loginVars)
          /\ SF_allVars(\E k \in completions : k.guid = g /\ OnPlayerFlushed(k) /\ UNCHANGED loginVars)
    /\ \A c \in Waiter :
          /\ WF_allVars(ArmTimeout(c) \/ RequestDrain(c) \/ LoadPlayerById(c))
          /\ SF_allVars(\E r \in drainTasks : r.waiter = c /\ DrainTask(r) /\ UNCHANGED loginVars)
          /\ SF_allVars(\E t \in callbackTasks : t.waiter = c /\ DrainCallback(t))
          /\ SF_allVars(LoginTimeout(c))
          /\ SF_allVars(ReleaseAndDisconnect(c))
          /\ SF_allVars(FinishLogin(c))

FairLoginSpec == LoginSpec /\ LoginFairness

-----------------------------------------------------------------------------
(***************************************************************************)
(* Properties.                                                             *)
(***************************************************************************)

\* The login of c holds its reservation: it has not been decided by a timeout
\* or a callback yet, or it has and the load or the release is still to come.
Owns(c) ==
    \/ stage[c] \in {"posted", "armed", "draining"} /\ c \notin completed
    \/ stage[c] \in {"load", "finish"}
    \/ c \in releaseTasks

\* "Duplicate concurrent logins are rejected", and the reservation is given
\* back once: a GUID is reserved exactly while one login owns it, so a timeout
\* or a late callback never releases the reservation of another login.
ReservationExact ==
    /\ \A g \in Guid :
          g \in pendingLogins <=> \E c \in Waiter : Owns(c) /\ loginGuid[c] = g
    /\ \A c, d \in Waiter :
          Owns(c) /\ Owns(d) /\ loginGuid[c] = loginGuid[d] => c = d

\* At most one copy of a player is in the world or on its way there, whatever
\* the order of timeouts, callbacks and loads of several logins.
Loading(c) == stage[c] \in {"load", "finish"}
OneCopy ==
    /\ \A c \in Waiter : Loading(c) => loginGuid[c] \notin online
    /\ \A c, d \in Waiter :
          Loading(c) /\ Loading(d) /\ loginGuid[c] = loginGuid[d] => c = d

\* While a pool thread loads a player no flush of it is outstanding or queued:
\* the barrier of drainPlayerFlushAsync holds until the load is done.
LoadAlone ==
    \A c \in Waiter :
        stage[c] = "load" => loginGuid[c] \notin flushInFlight /\ ~Queued(loginGuid[c])

\* Both together: whoever loads a player is alone with it, neither another copy
\* of the player nor a flush of its row is about.
LoadExclusive == OneCopy /\ LoadAlone

\* What enters the world is what the database holds at that moment; the only
\* thing that can make it stale is an offline save between load and placement.
LoginFresh ==
    [][\A g \in online' \ online : \A c \in Waiter :
          stage[c] = "finish" /\ stage'[c] = "idle" /\ loginGuid[c] = g =>
              live'[g] = db[g] \/ c \in overtaken]_allVars

\* Every reservation is given back, whatever fails: a player is never locked
\* out by a login that came to nothing.
ReservationReleased ==
    \A g \in Guid : g \in pendingLogins ~> g \notin pendingLogins

\* What docs/database-threaded-login-save.md says (the order of a player's
\* flushes is guarded) and savePlayerSync promises of a save it enqueues (it
\* "will complete via onPlayerFlushed"): the flush queued behind another does
\* not undo what that one saved of the player's own progress.
FlushesInOrder ==
    [][status = "up" => \A g \in Guid : db[g] \ OfflineChange \subseteq db'[g]]_allVars
=============================================================================
