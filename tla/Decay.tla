-------------------------------- MODULE Decay --------------------------------
(***************************************************************************)
(* Decaying items: src/src/decay.cpp, Game::startDecay and stopDecay, and  *)
(* the attributes of an item they live on (src/src/item.cpp).              *)
(*                                                                         *)
(* One scheduler event serves all items.  checkDecay takes the items that  *)
(* are due out of decayMap and decays them one by one; what a decay calls  *)
(* (transformItem and its notifications, Lua) may start, stop, transform   *)
(* or remove any other item, so the batch and the scripts interleave.      *)
(* Times are relative to now: a timestamp is the time left, 0 is due.      *)
(* Items of a batch are taken in any order; events that nobody holds an    *)
(* identifier of are told apart by their time only.                        *)
(***************************************************************************)
EXTENDS Naturals, FiniteSets, FiniteSetsExt

CONSTANTS
    Item,         \* item objects
    Type,         \* item types
    decayTime,    \* ItemType::decayTimeMin, 0 for none
    decayTo,      \* ItemType::decayTo: a type, Vanish (0) or Never (-1)
    stopTime,     \* the types that keep the time left (ItemType::stopTime)
    Vanish, Never,
    None,         \* an attribute or an event that is not there
    MaxDuration,  \* bound: longest time a script sets
    MinInterval   \* MIN_TASK_INTERVAL

ASSUME TypeAssumption ==
    /\ MaxDuration \in Nat /\ MinInterval \in Nat \ {0}
    /\ decayTime \in [Type -> 0 .. MaxDuration]
    /\ decayTo \in [Type -> Type \cup {Vanish, Never}] /\ {Vanish, Never} \cap Type = {}
    /\ stopTime \in SUBSET {t \in Type : decayTime[t] = 0 /\ decayTo[t] = Never}
    /\ Type # {} /\ None \notin Nat \cup {"FALSE", "TRUE", "PENDING", "STOPPING"}

VARIABLES
    item,     \* the attributes of every item
    decayMap, \* Decay::decayMap, as pairs <<timestamp, item>>
    event,    \* time left of the event eventId names, None when it has run
    orphans,  \* times left of the other checkDecay events
    batch,    \* the rest of expiredItems
    checking  \* checkDecay is running

vars == <<item, decayMap, event, orphans, batch, checking>>

Times == 0 .. Max({MaxDuration, MinInterval})
Pairs == Times \X Item
States == {None, "FALSE", "TRUE", "PENDING", "STOPPING"}   \* ITEM_ATTRIBUTE_DECAYSTATE

Fresh(t) == [type |-> t, in |-> TRUE, state |-> None,
             duration |-> IF decayTime[t] = 0 THEN None ELSE decayTime[t], timestamp |-> None]

\* an object that is gone, whatever it was
Released == [Fresh(CHOOSE t \in Type : TRUE) EXCEPT !.in = FALSE]

TypeOK ==
    /\ item \in [Item -> [type : Type, in : BOOLEAN, state : States,
                          duration : Times \cup {None}, timestamp : Times \cup {None}]]
    /\ decayMap \subseteq Pairs
    /\ event \in Times \cup {None} /\ orphans \subseteq Times
    /\ batch \subseteq Item /\ checking \in BOOLEAN
    /\ batch # {} => checking

Init ==
    /\ item = [i \in Item |-> Released]
    /\ decayMap = {} /\ event = None /\ orphans = {}
    /\ batch = {} /\ checking = FALSE

-----------------------------------------------------------------------------
(***************************************************************************)
(* What one call does to the world w: the items, decayMap and the events.  *)
(* late: a stopEvent comes when the event is on its way already.           *)
(***************************************************************************)
world == [item |-> item, map |-> decayMap, event |-> event, orphans |-> orphans]

Become(w) == item' = w.item /\ decayMap' = w.map /\ event' = w.event /\ orphans' = w.orphans

CanDecay(x) == x.in /\ decayTo[x.type] # Never /\ decayTime[x.type] > 0

\* Item::getDuration
GetDuration(x) ==
    LET attr(v) == IF v = None THEN 0 ELSE v
    IN  IF x.state \in {"TRUE", "STOPPING"} THEN attr(x.timestamp) ELSE attr(x.duration)

First(map) == Min({p[1] : p \in map})

\* clampSchedulerDuration
\* slip: the least interval is added
SlipClamp(d) == MinInterval + d

Clamp(d) == Max({MinInterval, d})

\* Scheduler::stopEvent(eventId)
StopEvent(w, late) ==
    [w EXCEPT !.event = None,
              !.orphans = IF late /\ w.event = 0 THEN @ \cup {0} ELSE @]

\* eventId = addEvent(...): an event that has not been stopped runs on its own.
AddEvent(w, delay) ==
    [w EXCEPT !.event = delay,
              !.orphans = IF w.event = None THEN @ ELSE @ \cup {w.event}]

\* Decay::stopDecay, for the timestamp of the item
\* slip: the time left is not kept
SlipDecayStop(w, i) ==
    IF <<w.item[i].timestamp, i>> \notin w.map THEN w
    ELSE [w EXCEPT !.map = @ \ {<<w.item[i].timestamp, i>>}, !.item[i].state = None]

DecayStop(w, i) ==
    LET x == w.item[i]
    IN  IF <<x.timestamp, i>> \notin w.map THEN w
        ELSE [w EXCEPT !.map = @ \ {<<x.timestamp, i>>},
                       !.item[i] = [x EXCEPT !.state = None,
                            !.duration = IF x.duration = None THEN None ELSE GetDuration(x)]]

Unqueued(w, i) == IF w.item[i].timestamp = None THEN w ELSE DecayStop(w, i)

\* slip: only an empty map needs an event
SlipNeedsReschedule(map, d) == map = {}

NeedsReschedule(map, d) == map = {} \/ d < First(map)

\* Decay::startDecay
DecayStart(w, i, d, late) ==
    LET u == Unqueued(w, i)
        v == IF ~NeedsReschedule(u.map, d) THEN u
             ELSE AddEvent(IF u.map = {} THEN u ELSE StopEvent(u, late), Clamp(d))
    IN  [v EXCEPT !.map = @ \cup {<<d, i>>},
                  !.item[i] = [@ EXCEPT !.state = "TRUE", !.timestamp = d]]

\* Game::stopDecay
StopDecay(w, i) ==
    IF w.item[i].state = None THEN w
    ELSE IF w.item[i].timestamp = None THEN [w EXCEPT !.item[i].state = None]
    ELSE [DecayStop(w, i) EXCEPT !.item[i].timestamp = None]

\* Game::startDecay of an item with time left
Begin(w, i, late) ==
    LET x == w.item[i]
    IN  IF x.state = "STOPPING" \/ (~CanDecay(x) /\ x.state = "TRUE") THEN StopDecay(w, i)
        ELSE IF ~CanDecay(x) \/ x.state = "TRUE" THEN w
        ELSE DecayStart(w, i, x.duration, late)

\* Item::setID
SetID(w, i, t) ==
    LET x == w.item[i]
        stopping == decayTime[t] = 0 /\ t \notin stopTime /\ decayTo[t] = Never
        renewed == decayTime[t] > 0 /\ (x.type \notin stopTime \/ x.duration = None)
    IN  [w EXCEPT !.item[i] =
            IF renewed THEN [x EXCEPT !.type = t, !.state = "PENDING", !.duration = decayTime[t]]
            ELSE IF stopping
            THEN [x EXCEPT !.type = t, !.duration = None,
                           !.state = IF x.state = None THEN None ELSE "STOPPING"]
            ELSE [x EXCEPT !.type = t]]

\* internalRemoveItem: stopDecaying and ReleaseItem
Removed(w, i) == [StopDecay(w, i) EXCEPT !.item[i] = Released]

\* Game::internalDecayItem
InternalDecayItem(w, i, late) ==
    LET t == decayTo[w.item[i].type]
    IN  IF t \in Type THEN Begin(SetID(w, i, t), i, late) ELSE Removed(w, i)

\* Game::startDecay
StartDecay(w, i, late) ==
    LET x == w.item[i]
    IN  IF CanDecay(x) /\ x.state \notin {"TRUE", "STOPPING"} /\ x.duration \in {None, 0}
        THEN InternalDecayItem(w, i, late)
        ELSE Begin(w, i, late)

-----------------------------------------------------------------------------
(***************************************************************************)
(* The game and its scripts, between two tasks or called by a decay.       *)
(***************************************************************************)
\* An item of type t comes into the game, and internalAddItem's caller starts it.
Create(i, t, late) ==
    /\ ~item[i].in /\ i \notin batch
    /\ Become(StartDecay([world EXCEPT !.item[i] = Fresh(t)], i, late))
    /\ UNCHANGED <<batch, checking>>

\* Game::transformItem between types that share the object
Transform(i, t, late) ==
    /\ item[i].in /\ item[i].type # t
    /\ Become(StartDecay(SetID(world, i, t), i, late))
    /\ UNCHANGED <<batch, checking>>

Remove(i) ==
    /\ item[i].in
    /\ Become(Removed(world, i))
    /\ UNCHANGED <<batch, checking>>

\* item:setAttribute(ITEM_ATTRIBUTE_DURATION, d)
SetDuration(i, d, late) ==
    /\ item[i].in
    /\ Become(StartDecay([world EXCEPT !.item[i] = [@ EXCEPT !.state = "PENDING", !.duration = d]],
                         i, late))
    /\ UNCHANGED <<batch, checking>>

\* item:setAttribute(ITEM_ATTRIBUTE_DECAYSTATE, ...), startDecaying and stopDecaying
SetDecayState(i, on, late) ==
    /\ item[i].in
    /\ Become(IF on THEN StartDecay(world, i, late) ELSE StopDecay(world, i))
    /\ UNCHANGED <<batch, checking>>

\* item:removeAttribute(ITEM_ATTRIBUTE_DURATION)
RemoveDuration(i) ==
    /\ item[i].in
    /\ Become([StopDecay(world, i) EXCEPT !.item[i].duration = None])
    /\ UNCHANGED <<batch, checking>>

-----------------------------------------------------------------------------
\* An event of the scheduler runs checkDecay.
CheckDecay ==
    /\ ~checking
    /\ \/ event = 0 /\ event' = None /\ UNCHANGED orphans
       \/ 0 \in orphans /\ orphans' = orphans \ {0} /\ UNCHANGED event
    /\ LET due == {p \in decayMap : p[1] = 0}
       IN  decayMap' = decayMap \ due /\ batch' = {p[2] : p \in due}
    /\ checking' = TRUE
    /\ UNCHANGED item

\* processDecayBatch, one item; nothing is left of one that was removed.
ProcessDecayBatch(i, late) ==
    LET x == item[i]
        off == [world EXCEPT !.item[i].state = "FALSE"]
    IN  /\ i \in batch
        /\ batch' = batch \ {i}
        /\ Become(IF ~x.in THEN world ELSE IF CanDecay(x) THEN InternalDecayItem(off, i, late)
                  ELSE [off EXCEPT !.item[i].duration = GetDuration(x)])
        /\ UNCHANGED checking

\* scheduleNextCheck, if anything is left
\* slip: the next event is left to the next startDecay
SlipScheduleNextCheck(w, late) == StopEvent(w, late)

ScheduleNextCheck(w, late) == AddEvent(StopEvent(w, late), Clamp(First(w.map)))

EndCheck(late) ==
    /\ checking /\ batch = {}
    /\ checking' = FALSE
    /\ Become(IF decayMap = {} THEN world ELSE ScheduleNextCheck(world, late))
    /\ UNCHANGED batch

Sooner(t) == IF t \in {None, 0} THEN t ELSE t - 1

Tick ==
    /\ item' = [i \in Item |-> [item[i] EXCEPT !.timestamp = Sooner(@)]]
    /\ decayMap' = {<<Sooner(p[1]), p[2]>> : p \in decayMap}
    /\ event' = Sooner(event) /\ orphans' = {Sooner(t) : t \in orphans}
    /\ UNCHANGED <<batch, checking>>

\* stopEvent can only be late for an event whose time has come.
Late == IF event = 0 THEN BOOLEAN ELSE {FALSE}

Script(i) ==
    \/ \E late \in Late, t \in Type : Create(i, t, late) \/ Transform(i, t, late)
    \/ \E late \in Late, d \in 0 .. MaxDuration : SetDuration(i, d, late)
    \/ \E late \in Late, on \in BOOLEAN : SetDecayState(i, on, late)
    \/ Remove(i) \/ RemoveDuration(i)

Check == CheckDecay \/ \E late \in Late :
    EndCheck(late) \/ \E i \in Item : ProcessDecayBatch(i, late)

Next == Tick \/ Check \/ \E i \in Item : Script(i)

\* The clock runs and the scheduler runs its events.
Spec == Init /\ [][Next]_vars /\ WF_vars(Tick) /\ WF_vars(Check)

-----------------------------------------------------------------------------
(***************************************************************************)
(* What decayMap holds is there once, under its own timestamp and with a   *)
(* state, so that stopDecay finds it; and what counts as decaying is in    *)
(* decayMap, or in the batch while checkDecay runs.  An item that only     *)
(* counts as decaying would last for ever, since startDecay leaves it      *)
(* alone; one with two entries would decay twice.  (An entry can outlive   *)
(* DECAYING_TRUE: when the item becomes one with a duration and nothing to *)
(* decay to, or when its own batch turns it into one that stops time.)     *)
(***************************************************************************)
MapExact ==
    /\ \A p \in decayMap : /\ item[p[2]].state # None /\ item[p[2]].timestamp = p[1]
                           /\ item[p[2]].in
    /\ \A i \in Item : item[i].state = "TRUE" => i \in batch \/ \E p \in decayMap : p[2] = i

(***************************************************************************)
(* The next item never waits without an event that comes in time, whatever *)
(* was started, stopped and taken over by other events before.             *)
(***************************************************************************)
EventInTime ==
    decayMap # {} /\ ~checking =>
        \E t \in orphans \cup ({event} \ {None}) : t <= Clamp(First(decayMap))

(***************************************************************************)
(* Both together: whatever decays is in the map once, and the map has an   *)
(* event.                                                                  *)
(***************************************************************************)
ScheduleExact == MapExact /\ EventInTime

(***************************************************************************)
(* Outside a batch, stopping keeps the time that is left and starting goes *)
(* on from there, also over a type that stops time (an unlit torch): only  *)
(* a script that sets the duration gives an item more, or the end of its   *)
(* time when it decays into something that lasts.                          *)
(***************************************************************************)
SameTime(x, y) ==
    \/ x.type = y.type /\ decayTo[x.type] # x.type
    \/ y.type \in stopTime
    \/ x.type \in stopTime /\ x.duration \notin {None, 0}

NoTimeGained ==
    [][\A i \in Item :
          item[i].in /\ item'[i].in /\ SameTime(item[i], item'[i]) /\ i \notin batch =>
              \/ GetDuration(item'[i]) <= GetDuration(item[i])
              \/ \E d \in 0 .. MaxDuration, late \in Late : SetDuration(i, d, late)]_vars

(***************************************************************************)
(* An item whose time has come is taken up by checkDecay, or is given more *)
(* time.                                                                   *)
(***************************************************************************)
DueIsServed ==
    \A i \in Item : <<0, i>> \in decayMap ~> <<0, i>> \notin decayMap
=============================================================================
