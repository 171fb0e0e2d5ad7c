----------------------------- MODULE DecayProofs -----------------------------
(***************************************************************************)
(* Proofs about Decay, for any items, any item types and any times.        *)
(*                                                                         *)
(* A call of startDecay, stopDecay, setID or internalRemoveItem for item i *)
(* is a function on worlds.  Step(w, r, i, B) says what such a call may do *)
(* with the rest of the world, and that it leaves item i in agreement with *)
(* the map and the map with an event in time; it is transitive, so that a  *)
(* call made of several is a step when its parts are.                      *)
(***************************************************************************)
EXTENDS Decay, WellFoundedInduction, TLAPS

Attributes == [type : Type, in : BOOLEAN, state : States,
               duration : Times \cup {None}, timestamp : Times \cup {None}]

World == [item : [Item -> Attributes], map : SUBSET Pairs,
          event : Times \cup {None}, orphans : SUBSET Times]

\* The map has item i once, under its timestamp, if at all; B is the batch.  An item on
\* its way out of decaying has no duration, one that is gone has no state.
Own(w, i, B) ==
    LET x == w.item[i]
    IN  /\ \A p \in w.map : p[2] = i => p = <<x.timestamp, i>> /\ x.state # None
        /\ x.state = "TRUE" => i \in B \/ <<x.timestamp, i>> \in w.map
        /\ x.state = "STOPPING" => x.duration = None
        /\ x.state # None => x.in

\* item i has the attributes x
Given(w, i, x) == [w EXCEPT !.item[i] = x]

NoEntry(w, i) == \A p \in w.map : p[2] # i

InTime(w) ==
    w.map # {} => \E t \in w.orphans \cup ({w.event} \ {None}) : t <= Clamp(First(w.map))

\* Only item i and its entries differ.
Local(w, r, i) ==
    /\ r \in World
    /\ \A j \in Item \ {i} : r.item[j] = w.item[j]
    /\ \A p \in Pairs : p[2] # i => (p \in r.map <=> p \in w.map)

Step(w, r, i, B) == Local(w, r, i) /\ Own(r, i, B) /\ (InTime(w) => InTime(r))

-----------------------------------------------------------------------------
(***************************************************************************)
(* Times.                                                                  *)
(***************************************************************************)
\* The library's least element of a well-founded order, for numbers.
LEMMA LeastTime ==
    ASSUME NEW S \in SUBSET Nat, S # {}
    PROVE  Min(S) \in S /\ \A y \in S : Min(S) <= y
  <1>1. \E x \in S : \A y \in S : ~ (<<y, x>> \in OpToRel(<, Nat))
    BY NatLessThanWellFounded, WFMin
  <1>2. \E x \in S : \A y \in S : x <= y
    <2>1. PICK x \in S : \A y \in S : ~ (<<y, x>> \in OpToRel(<, Nat))
      BY <1>1
    <2>2. ASSUME NEW y \in S PROVE x <= y
      <3>1. ~ (<<y, x>> \in {ss \in Nat \X Nat : ss[1] < ss[2]})
        BY <2>1, <2>2 DEF OpToRel
      <3>2. QED BY <3>1
    <2>3. QED BY <2>2
  <1>3. QED BY <1>2 DEF Min

LEMMA GreatestOfTwo ==
    ASSUME NEW a \in Nat, NEW b \in Nat
    PROVE  Max({a, b}) = IF a >= b THEN a ELSE b
  <1>1. PICK m : m = IF a >= b THEN a ELSE b
    OBVIOUS
  <1>2. m \in {a, b} /\ \A y \in {a, b} : m >= y
    BY <1>1
  <1>3. Max({a, b}) \in {a, b} /\ \A y \in {a, b} : Max({a, b}) >= y
    BY <1>2 DEF Max
  <1>4. QED BY <1>1, <1>2, <1>3

\* A delay that clampSchedulerDuration returns is a time.
LEMMA ClampTime ==
    /\ Times \subseteq Nat /\ 0 \in Times /\ 0 .. MaxDuration \subseteq Times
    /\ MinInterval \in Times /\ None \notin Times
    /\ \A d \in Times : Clamp(d) \in Times /\ d <= Clamp(d) /\ MinInterval <= Clamp(d)
    /\ \A d \in Times : Clamp(d) = IF MinInterval >= d THEN MinInterval ELSE d
  <1>1. MaxDuration \in Nat /\ MinInterval \in Nat /\ None \notin Nat
    BY TypeAssumption
  <1>2. Max({MaxDuration, MinInterval}) = IF MaxDuration >= MinInterval THEN MaxDuration ELSE MinInterval
    BY <1>1, GreatestOfTwo
  <1>3. PICK m \in Nat : m = Max({MaxDuration, MinInterval})
    BY <1>1, <1>2
  <1>4. MaxDuration <= m /\ MinInterval <= m /\ Times = 0 .. m
    BY <1>1, <1>2, <1>3 DEF Times
  <1>5. \A d \in Times : Clamp(d) = IF MinInterval >= d THEN MinInterval ELSE d
    BY <1>1, <1>4, GreatestOfTwo DEF Clamp
  <1>6. QED BY <1>1, <1>4, <1>5

LEMMA ClampMono ==
    ASSUME NEW f \in Times, NEW g \in Times, f <= g, NEW t \in Nat, t <= Clamp(f)
    PROVE  t <= Clamp(g)
  <1>1. /\ f \in Nat /\ g \in Nat /\ MinInterval \in Nat
        /\ Clamp(f) = IF MinInterval >= f THEN MinInterval ELSE f
        /\ Clamp(g) = IF MinInterval >= g THEN MinInterval ELSE g
    BY ClampTime
  <1>2. QED BY <1>1

\* The first entry of a map that is not empty.
LEMMA FirstOfMap ==
    ASSUME NEW map \in SUBSET Pairs, map # {}
    PROVE  /\ First(map) \in Times
           /\ \E p \in map : First(map) = p[1]
           /\ \A p \in map : First(map) <= p[1]
  <1>1. PICK S : S = {p[1] : p \in map}
    OBVIOUS
  <1>2. S \in SUBSET Times /\ S # {}
    BY <1>1 DEF Pairs
  <1>3. Min(S) \in S /\ \A y \in S : Min(S) <= y
    BY <1>2, ClampTime, LeastTime
  <1>4. First(map) = Min(S)
    BY <1>1 DEF First
  <1>5. QED BY <1>1, <1>2, <1>3, <1>4

-----------------------------------------------------------------------------
(***************************************************************************)
(* Steps of one item.                                                      *)
(***************************************************************************)
\* A smaller map, or the same one with more events, still has one in time.
LEMMA InTimeMono ==
    ASSUME NEW w \in World, NEW r \in World, r.map \subseteq w.map,
           w.event = r.event, w.orphans \subseteq r.orphans, InTime(w)
    PROVE  InTime(r)
  <1>1. SUFFICES ASSUME r.map # {}
                 PROVE  \E t \in r.orphans \cup ({r.event} \ {None}) : t <= Clamp(First(r.map))
    BY DEF InTime
  <1>2. PICK t \in w.orphans \cup ({w.event} \ {None}) : t <= Clamp(First(w.map))
    BY <1>1 DEF InTime
  <1>3. w.map \in SUBSET Pairs /\ r.map \in SUBSET Pairs /\ w.map # {}
    BY <1>1 DEF World
  <1>4. First(w.map) \in Times /\ First(r.map) \in Times /\ First(w.map) <= First(r.map)
    BY <1>1, <1>3, FirstOfMap
  <1>5. t \in Nat
    BY ClampTime DEF World
  <1>6. t <= Clamp(First(r.map))
    BY <1>2, <1>4, <1>5, ClampMono
  <1>7. QED BY <1>2, <1>6

LEMMA StepTransitive ==
    ASSUME NEW w, NEW u, NEW r, NEW i \in Item, NEW B, Local(w, u, i),
           InTime(w) => InTime(u), Step(u, r, i, B)
    PROVE  Step(w, r, i, B)
  BY DEF Step, Local

\* Changing attributes of item i alone.
LEMMA StepAttributes ==
    ASSUME NEW w \in World, NEW i \in Item, NEW x \in Attributes,
           NEW r, r = Given(w, i, x)
    PROVE  /\ Local(w, r, i) /\ r.item[i] = x /\ r.map = w.map
           /\ r.event = w.event /\ r.orphans = w.orphans /\ (InTime(w) => InTime(r))
  <1>1. w.item \in [Item -> Attributes]
    BY DEF World
  <1>2. /\ r.item = [w.item EXCEPT ![i] = x] /\ r.map = w.map /\ r.event = w.event
        /\ r.orphans = w.orphans /\ r \in World
    BY DEF World, Given
  <1>3. r.item[i] = x /\ \A j \in Item \ {i} : r.item[j] = w.item[j]
    BY <1>1, <1>2
  <1>4. InTime(w) => InTime(r)
    BY <1>2 DEF InTime
  <1>5. QED BY <1>2, <1>3, <1>4 DEF Local

LEMMA DurationTime ==
    ASSUME NEW x \in Attributes
    PROVE  GetDuration(x) \in Times
  BY ClampTime DEF GetDuration, Attributes

\* A new item, and what is left of one that is gone.
LEMMA FreshType ==
    ASSUME NEW t \in Type
    PROVE  /\ Fresh(t) \in Attributes /\ Fresh(t).in /\ Fresh(t).state = None
           /\ Fresh(t).type = t
           /\ decayTime[t] # 0 => Fresh(t).duration = decayTime[t]
  <1>1. decayTime[t] \in Times
    BY TypeAssumption, ClampTime
  <1>2. QED BY <1>1 DEF Fresh, Attributes, States

LEMMA ReleasedType ==
    Released \in Attributes /\ ~Released.in /\ Released.state = None
  <1>1. PICK t \in Type : t = CHOOSE u \in Type : TRUE
    BY TypeAssumption
  <1>2. PICK x \in Attributes : x = Fresh(t) /\ x.state = None
    BY FreshType
  <1>3. Released = [x EXCEPT !.in = FALSE]
    BY <1>1, <1>2 DEF Released
  <1>4. QED BY <1>2, <1>3 DEF Attributes

\* Decay::stopDecay leaves no entry; without one it does nothing.
LEMMA DecayStopStep ==
    ASSUME NEW w \in World, NEW i \in Item, NEW B, Own(w, i, B), NEW r, r = DecayStop(w, i)
    PROVE  /\ Local(w, r, i) /\ NoEntry(r, i) /\ (InTime(w) => InTime(r))
           /\ r.event = w.event /\ r.orphans = w.orphans
           /\ r.item[i].in = w.item[i].in /\ r.item[i].type = w.item[i].type
           /\ r.item[i].timestamp = w.item[i].timestamp
           /\ \/ r = w
              \/ /\ r.item[i].state = None
                 /\ r.item[i].duration = IF w.item[i].duration = None THEN None
                                         ELSE GetDuration(w.item[i])
  <1>1. PICK x \in Attributes : x = w.item[i]
    BY DEF World
  <1>2. PICK e : e = <<x.timestamp, i>>
    OBVIOUS
  <1>3. \A p \in w.map : p[2] = i => p = e
    BY <1>1, <1>2 DEF Own
  <1>4. CASE e \notin w.map
    <2>1. r = w
      BY <1>1, <1>2, <1>4 DEF DecayStop
    <2>2. NoEntry(r, i)
      BY <1>3, <1>4, <2>1 DEF NoEntry
    <2>3. QED BY <2>1, <2>2 DEF Local
  <1>5. CASE e \in w.map
    <2>1. PICK d : d = IF x.duration = None THEN None ELSE GetDuration(x)
      OBVIOUS
    <2>2. d \in Times \cup {None}
      BY <2>1, DurationTime
    <2>3. PICK y : y = [x EXCEPT !.state = None, !.duration = d]
      OBVIOUS
    <2>4. /\ y \in Attributes /\ y.state = None /\ y.duration = d /\ y.in = x.in
          /\ y.type = x.type /\ y.timestamp = x.timestamp
      BY <2>2, <2>3 DEF Attributes, States
    <2>5. r = [w EXCEPT !.map = @ \ {e}, !.item[i] = y]
      BY <1>1, <1>2, <1>5, <2>1, <2>3 DEF DecayStop
    <2>6. /\ r.item = [w.item EXCEPT ![i] = y] /\ r.map = w.map \ {e} /\ r.event = w.event
          /\ r.orphans = w.orphans
      BY <2>5 DEF World
    <2>7. r \in World
      <3>1. PICK f : f = [w.item EXCEPT ![i] = y]
        OBVIOUS
      <3>2. PICK M : M = w.map \ {e}
        OBVIOUS
      <3>3. f \in [Item -> Attributes] /\ M \in SUBSET Pairs
        BY <2>4, <3>1, <3>2 DEF World
      <3>4. r = [w EXCEPT !.map = M, !.item = f]
        BY <2>5, <3>1, <3>2 DEF World
      <3>5. QED BY <3>3, <3>4 DEF World
    <2>8. r.item[i] = y /\ \A j \in Item \ {i} : r.item[j] = w.item[j]
      BY <2>6 DEF World
    <2>9. e[2] = i
      BY <1>2
    <2>10. Local(w, r, i)
      BY <2>6, <2>7, <2>8, <2>9 DEF Local
    <2>11. NoEntry(r, i)
      BY <1>3, <2>6 DEF NoEntry
    <2>12. InTime(w) => InTime(r)
      BY <2>6, <2>7, InTimeMono
    <2>13. QED BY <1>1, <2>1, <2>4, <2>6, <2>8, <2>10, <2>11, <2>12
  <1>6. QED BY <1>4, <1>5

\* The item is out of the map, as startDecay does first.
LEMMA UnqueuedStep ==
    ASSUME NEW w \in World, NEW i \in Item, NEW B, Own(w, i, B), NEW u, u = Unqueued(w, i)
    PROVE  /\ Local(w, u, i) /\ NoEntry(u, i) /\ (InTime(w) => InTime(u))
           /\ u.item[i].in = w.item[i].in /\ u.item[i].type = w.item[i].type
           /\ u.item[i] \in Attributes
  <1>1. CASE w.item[i].timestamp = None
    <2>1. u = w
      BY <1>1 DEF Unqueued
    <2>2. ASSUME NEW p \in w.map, p[2] = i PROVE FALSE
      <3>1. p = <<None, i>> /\ p \in Times \X Item
        BY <1>1, <2>2 DEF Own, World, Pairs
      <3>2. QED BY <3>1, ClampTime
    <2>3. Local(w, u, i)
      BY <2>1 DEF Local
    <2>4. QED BY <2>1, <2>2, <2>3 DEF NoEntry, World
  <1>2. CASE w.item[i].timestamp # None
    <2>1. u = DecayStop(w, i)
      BY <1>2 DEF Unqueued
    <2>2. /\ Local(w, u, i) /\ NoEntry(u, i) /\ (InTime(w) => InTime(u))
          /\ u.item[i].in = w.item[i].in /\ u.item[i].type = w.item[i].type
      BY <2>1, DecayStopStep
    <2>3. QED BY <2>2 DEF Local, World
  <1>3. QED BY <1>1, <1>2

\* Stopping and adding events leaves the items and the map alone.
LEMMA AddEventStep ==
    ASSUME NEW w \in World, NEW delay \in Times, NEW late, NEW r,
           r = AddEvent(w, delay) \/ r = AddEvent(StopEvent(w, late), delay)
    PROVE  r \in World /\ r.item = w.item /\ r.map = w.map /\ r.event = delay
  <1>1. ASSUME NEW v \in World PROVE LET q == AddEvent(v, delay)
                 IN q \in World /\ q.item = v.item /\ q.map = v.map /\ q.event = delay
    <2>1. PICK o : o = IF v.event = None THEN v.orphans ELSE v.orphans \cup {v.event}
      OBVIOUS
    <2>2. o \in SUBSET Times
      BY <2>1 DEF World
    <2>3. AddEvent(v, delay) = [v EXCEPT !.event = delay, !.orphans = o]
      BY <2>1 DEF AddEvent, World
    <2>4. QED BY <2>2, <2>3 DEF World
  <1>2. PICK s : s = StopEvent(w, late)
    OBVIOUS
  <1>3. s \in World /\ s.item = w.item /\ s.map = w.map
    <2>1. PICK o : o = IF late /\ w.event = 0 THEN w.orphans \cup {0} ELSE w.orphans
      OBVIOUS
    <2>2. o \in SUBSET Times
      BY <2>1, ClampTime DEF World
    <2>3. s = [w EXCEPT !.event = None, !.orphans = o]
      BY <1>2, <2>1 DEF StopEvent, World
    <2>4. QED BY <2>2, <2>3 DEF World
  <1>4. QED BY <1>1, <1>2, <1>3

\* Decay::startDecay enters the item once and sees to an event in time.
LEMMA DecayStartStep ==
    ASSUME NEW w \in World, NEW i \in Item, NEW B, Own(w, i, B), NEW d \in Times, NEW late,
           w.item[i].in, NEW r, r = DecayStart(w, i, d, late)
    PROVE  /\ Step(w, r, i, B)
           /\ r.item[i].state = "TRUE" /\ r.item[i].timestamp = d /\ r.item[i].in
           /\ r.item[i].type = w.item[i].type
  <1>1. PICK u : u = Unqueued(w, i)
    OBVIOUS
  <1>2. /\ Local(w, u, i) /\ NoEntry(u, i) /\ (InTime(w) => InTime(u))
        /\ u.item[i].in /\ u.item[i].type = w.item[i].type /\ u.item[i] \in Attributes
    BY <1>1, UnqueuedStep
  <1>3. u \in World /\ Clamp(d) \in Times /\ d \in Nat
    BY <1>2, ClampTime DEF Local
  <1>4. PICK v : v = IF ~NeedsReschedule(u.map, d) THEN u
                     ELSE AddEvent(IF u.map = {} THEN u ELSE StopEvent(u, late), Clamp(d))
    OBVIOUS
  <1>5. /\ v \in World /\ v.item = u.item /\ v.map = u.map
        /\ NeedsReschedule(u.map, d) => v.event = Clamp(d)
        /\ ~NeedsReschedule(u.map, d) => v = u
    <2>1. CASE ~NeedsReschedule(u.map, d)
      BY <1>3, <1>4, <2>1
    <2>2. CASE NeedsReschedule(u.map, d)
      <3>1. PICK c \in Times : c = Clamp(d)
        BY <1>3
      <3>2. v = AddEvent(u, c) \/ v = AddEvent(StopEvent(u, late), c)
        BY <1>4, <2>2, <3>1
      <3>3. v \in World /\ v.item = u.item /\ v.map = u.map /\ v.event = c
        BY ONLY <1>3, <3>1, <3>2, AddEventStep
      <3>4. QED BY <2>2, <3>1, <3>3
    <2>3. QED BY <2>1, <2>2
  <1>6. PICK y : y = [u.item[i] EXCEPT !.state = "TRUE", !.timestamp = d]
    OBVIOUS
  <1>7. /\ y \in Attributes /\ y.state = "TRUE" /\ y.timestamp = d /\ y.in
        /\ y.type = w.item[i].type
    BY <1>2, <1>6 DEF Attributes, States
  <1>8. PICK M : M = u.map \cup {<<d, i>>}
    OBVIOUS
  <1>9. r = [v EXCEPT !.map = M, !.item[i] = y]
    BY <1>1, <1>4, <1>5, <1>6, <1>8 DEF DecayStart, World
  <1>10. M \in SUBSET Pairs /\ <<d, i>> \in M
    BY <1>3, <1>8 DEF World, Pairs
  <1>11. PICK f : f = [v.item EXCEPT ![i] = y]
    OBVIOUS
  <1>12. f \in [Item -> Attributes] /\ f[i] = y /\ \A j \in Item \ {i} : f[j] = u.item[j]
    BY <1>5, <1>7, <1>11 DEF World
  <1>13. r = [v EXCEPT !.map = M, !.item = f]
    BY <1>5, <1>9, <1>11 DEF World
  <1>14. r \in World /\ r.item = f /\ r.map = M /\ r.event = v.event /\ r.orphans = v.orphans
    BY <1>5, <1>10, <1>12, <1>13 DEF World
  <1>15. Local(u, r, i)
    <2>1. \A p \in Pairs : p[2] # i => (p \in M <=> p \in u.map)
      BY <1>8
    <2>2. QED BY <1>12, <1>14, <2>1 DEF Local
  <1>16. Own(r, i, B)
    <2>1. \A p \in M : p[2] = i => p = <<d, i>>
      BY <1>2, <1>8 DEF NoEntry
    <2>2. None # "TRUE"
      BY TypeAssumption
    <2>3. QED BY <1>7, <1>10, <1>12, <1>14, <2>1, <2>2 DEF Own
  <1>17. InTime(u) => InTime(r)
    <2>1. /\ First(M) \in Times /\ First(M) <= d /\ \E p \in M : First(M) = p[1]
      BY <1>10, FirstOfMap
    <2>2. CASE NeedsReschedule(u.map, d)
      <3>1. \A p \in M : d <= p[1]
        <4>1. CASE u.map = {}
          BY <1>3, <1>8, <4>1
        <4>2. CASE u.map # {}
          <5>1. u.map \in SUBSET Pairs
            BY <1>3 DEF World
          <5>2. First(u.map) \in Times /\ d < First(u.map) /\ \A p \in u.map : First(u.map) <= p[1]
            BY <2>2, <4>2, <5>1, FirstOfMap DEF NeedsReschedule
          <5>3. \A p \in u.map : p[1] \in Nat
            BY <5>1, ClampTime DEF Pairs
          <5>4. First(u.map) \in Nat
            BY <5>2, ClampTime
          <5>5. \A p \in u.map : d <= p[1]
            BY <1>3, <5>2, <5>3, <5>4
          <5>6. QED BY <1>3, <1>8, <5>5
        <4>3. QED BY <4>1, <4>2
      <3>2. First(M) = d
        <4>1. PICK p \in M : First(M) = p[1]
          BY <2>1
        <4>2. First(M) \in Nat /\ d <= First(M) /\ First(M) <= d
          BY <2>1, <3>1, <4>1, ClampTime
        <4>3. QED BY <1>3, <4>2
      <3>3. r.event \in {r.event} \ {None} /\ r.event <= Clamp(First(M))
        BY <1>3, <1>5, <1>14, <2>2, <3>2, ClampTime
      <3>4. QED BY <1>14, <3>3 DEF InTime
    <2>3. CASE ~NeedsReschedule(u.map, d)
      <3>1. u.map # {} /\ ~(d < First(u.map)) /\ u.map \in SUBSET Pairs
        BY <1>3, <2>3 DEF NeedsReschedule, World
      <3>2. First(u.map) \in Times /\ \A p \in u.map : First(u.map) <= p[1]
        BY <3>1, FirstOfMap
      <3>3. First(u.map) \in Nat /\ First(u.map) <= d
        <4>1. PICK g : g = First(u.map)
          OBVIOUS
        <4>2. g \in Nat /\ ~(d < g)
          BY <3>1, <3>2, <4>1, ClampTime
        <4>3. g <= d
          BY <1>3, <4>2
        <4>4. QED BY <4>1, <4>2, <4>3
      <3>4. \A p \in M : First(u.map) <= p[1]
        BY <1>8, <3>2, <3>3
      <3>5. First(u.map) <= First(M)
        BY <2>1, <3>4
      <3>6. SUFFICES ASSUME InTime(u) PROVE InTime(r)
        OBVIOUS
      <3>7. PICK t \in u.orphans \cup ({u.event} \ {None}) : t <= Clamp(First(u.map))
        BY <3>1, <3>6 DEF InTime
      <3>8. t \in Nat
        BY <1>3, <3>7, ClampTime DEF World
      <3>9. t <= Clamp(First(M))
        BY <2>1, <3>2, <3>5, <3>7, <3>8, ClampMono
      <3>10. t \in r.orphans \cup ({r.event} \ {None})
        BY <1>5, <1>14, <2>3, <3>7
      <3>11. QED BY <1>14, <3>9, <3>10 DEF InTime
    <2>4. QED BY <2>2, <2>3
  <1>18. Step(u, r, i, B)
    BY <1>15, <1>16, <1>17 DEF Step
  <1>19. Step(w, r, i, B)
    BY <1>2, <1>18, StepTransitive
  <1>20. QED BY <1>7, <1>12, <1>14, <1>19

\* The time left, for every decay state.
LEMMA TimeLeft ==
    ASSUME NEW x \in Attributes
    PROVE  /\ x.state \in {"TRUE", "STOPPING"} =>
                  GetDuration(x) = IF x.timestamp = None THEN 0 ELSE x.timestamp
           /\ x.state \notin {"TRUE", "STOPPING"} =>
                  GetDuration(x) = IF x.duration = None THEN 0 ELSE x.duration
           /\ GetDuration(x) \in Nat /\ 0 <= GetDuration(x)
  <1>1. GetDuration(x) \in Nat
    BY DurationTime, ClampTime
  <1>2. QED BY <1>1 DEF GetDuration

\* The state of an item is none of the others.
LEMMA StatesDiffer ==
    None \notin {"FALSE", "TRUE", "PENDING", "STOPPING"} /\ None \notin Nat
  BY TypeAssumption

\* Game::stopDecay leaves no entry and no more time than there was.
LEMMA StopDecayStep ==
    ASSUME NEW w \in World, NEW i \in Item, NEW B, Own(w, i, B), NEW r, r = StopDecay(w, i)
    PROVE  /\ Step(w, r, i, B) /\ NoEntry(r, i)
           /\ r.item[i].in = w.item[i].in /\ r.item[i].type = w.item[i].type
           /\ i \notin B => GetDuration(r.item[i]) <= GetDuration(w.item[i])
           /\ w.item[i].duration = None => GetDuration(r.item[i]) = 0
           /\ w.item[i].duration = None => r.item[i].duration = None
  <1>1. PICK x \in Attributes : x = w.item[i]
    BY DEF World
  <1>2. GetDuration(x) \in Nat
    BY TimeLeft
  <1>3. CASE x.state = None
    <2>1. r = w
      BY <1>1, <1>3 DEF StopDecay
    <2>2. NoEntry(r, i)
      BY <1>1, <1>3, <2>1 DEF Own, NoEntry
    <2>3. Step(w, r, i, B)
      BY <2>1 DEF Step, Local
    <2>4. x.duration = None => GetDuration(x) = 0
      BY <1>3, TimeLeft, StatesDiffer
    <2>5. QED BY <1>1, <1>2, <2>1, <2>2, <2>3, <2>4
  <1>4. CASE x.state # None /\ x.timestamp = None
    <2>1. PICK y : y = [x EXCEPT !.state = None]
      OBVIOUS
    <2>2. /\ y \in Attributes /\ y.state = None /\ y.in = x.in /\ y.type = x.type
          /\ y.duration = x.duration /\ y.timestamp = None
      BY <1>4, <2>1 DEF Attributes, States
    <2>3. r = Given(w, i, y)
      BY <1>1, <1>4, <2>1 DEF StopDecay, Given
    <2>4. Local(w, r, i) /\ r.item[i] = y /\ r.map = w.map /\ (InTime(w) => InTime(r))
      BY <2>2, <2>3, StepAttributes
    <2>5. \A p \in w.map : p[2] # i
      <3>1. ASSUME NEW p \in w.map, p[2] = i PROVE FALSE
        <4>1. p = <<None, i>> /\ p \in Times \X Item
          BY <1>1, <1>4, <3>1 DEF Own, World, Pairs
        <4>2. QED BY <4>1, ClampTime
      <3>2. QED BY <3>1
    <2>6. NoEntry(r, i)
      BY <2>4, <2>5 DEF NoEntry
    <2>7. Own(r, i, B)
      BY <2>2, <2>4, <2>5, StatesDiffer DEF Own
    <2>8. i \notin B => GetDuration(y) <= GetDuration(x)
      <3>1. x.state = "TRUE" => i \in B
        <4>1. <<None, i>> \notin w.map
          BY <2>5
        <4>2. QED BY <1>1, <1>4, <4>1 DEF Own
      <3>2. x.state = "STOPPING" => x.duration = None
        BY <1>1 DEF Own
      <3>3. GetDuration(y) = IF x.duration = None THEN 0 ELSE x.duration
        BY <2>2, TimeLeft, StatesDiffer
      <3>4. CASE x.duration = None
        BY <1>2, <3>3, <3>4
      <3>5. CASE x.state \notin {"TRUE", "STOPPING"}
        <4>1. GetDuration(y) = GetDuration(x)
          BY <3>3, <3>5, TimeLeft
        <4>2. QED BY <1>2, <4>1
      <3>6. QED BY <3>1, <3>2, <3>4, <3>5
    <2>9. x.duration = None => GetDuration(y) = 0
      BY <2>2, TimeLeft, StatesDiffer
    <2>10. QED BY <1>1, <2>2, <2>4, <2>6, <2>7, <2>8, <2>9 DEF Step
  <1>5. CASE x.state # None /\ x.timestamp # None
    <2>1. PICK s : s = DecayStop(w, i)
      OBVIOUS
    <2>2. /\ Local(w, s, i) /\ NoEntry(s, i) /\ (InTime(w) => InTime(s))
          /\ s.item[i].in = x.in /\ s.item[i].type = x.type
          /\ s.item[i].timestamp = x.timestamp
          /\ \/ s = w
             \/ /\ s.item[i].state = None
                /\ s.item[i].duration = IF x.duration = None THEN None ELSE GetDuration(x)
      BY <1>1, <2>1, DecayStopStep
    <2>3. PICK z \in Attributes : z = s.item[i]
      BY <2>2 DEF Local, World
    <2>4. PICK y : y = [z EXCEPT !.timestamp = None]
      OBVIOUS
    <2>5. /\ y \in Attributes /\ y.state = z.state /\ y.in = x.in /\ y.type = x.type
          /\ y.duration = z.duration /\ y.timestamp = None
      BY <2>2, <2>3, <2>4 DEF Attributes
    <2>6. s \in World
      BY <2>2 DEF Local
    <2>7. r = Given(s, i, y)
      BY <1>1, <1>5, <2>1, <2>3, <2>4, <2>6 DEF StopDecay, World, Given
    <2>8. Local(s, r, i) /\ r.item[i] = y /\ r.map = s.map /\ (InTime(s) => InTime(r))
      BY <2>5, <2>6, <2>7, StepAttributes
    <2>9. NoEntry(r, i)
      BY <2>2, <2>8 DEF NoEntry
    <2>10. \/ z = x /\ (x.state = "TRUE" => i \in B)
           \/ z.state = None /\ z.duration = IF x.duration = None THEN None ELSE GetDuration(x)
      <3>1. CASE s = w
        <4>1. <<x.timestamp, i>> \notin w.map
          BY <2>2, <3>1 DEF NoEntry
        <4>2. QED BY <1>1, <2>3, <3>1, <4>1 DEF Own
      <3>2. CASE s # w
        BY <2>2, <2>3, <3>2
      <3>3. QED BY <3>1, <3>2
    <2>11. Own(r, i, B)
      <3>1. \A p \in r.map : p[2] # i
        BY <2>9 DEF NoEntry
      <3>2. y.state = "TRUE" => i \in B
        BY <2>5, <2>10, StatesDiffer
      <3>3. y.state = "STOPPING" => y.duration = None
        BY <1>1, <2>5, <2>10, StatesDiffer DEF Own
      <3>4. y.state # None => y.in
        BY <1>1, <2>5, <2>10 DEF Own
      <3>5. QED BY <2>8, <3>1, <3>2, <3>3, <3>4 DEF Own
    <2>12. Step(s, r, i, B)
      BY <2>8, <2>11 DEF Step
    <2>13. Step(w, r, i, B)
      BY <2>2, <2>12, StepTransitive
    <2>14. GetDuration(y) <= GetDuration(x)
      <3>1. GetDuration(y) = 0 \/ y.state \notin {"TRUE", "STOPPING"}
        BY <2>5, TimeLeft
      <3>2. CASE y.state \notin {"TRUE", "STOPPING"}
        <4>1. GetDuration(y) = IF y.duration = None THEN 0 ELSE y.duration
          BY <2>5, <3>2, TimeLeft
        <4>2. CASE z = x
          <5>1. GetDuration(y) = GetDuration(x)
            BY <2>5, <3>2, <4>1, <4>2, TimeLeft
          <5>2. QED BY <1>2, <5>1
        <4>3. CASE z # x
          <5>1. GetDuration(y) = 0 \/ GetDuration(y) = GetDuration(x)
            BY <2>5, <2>10, <4>1, <4>3
          <5>2. QED BY <1>2, <5>1
        <4>4. QED BY <4>2, <4>3
      <3>3. CASE GetDuration(y) = 0
        BY <1>2, <3>3
      <3>4. QED BY <3>1, <3>2, <3>3
    <2>15. x.duration = None => GetDuration(y) = 0 /\ y.duration = None
      <3>1. x.duration = None => y.duration = None
        BY <2>5, <2>10
      <3>2. QED BY <2>5, <3>1, TimeLeft
    <2>16. QED BY <1>1, <2>5, <2>8, <2>9, <2>13, <2>14, <2>15
  <1>6. QED BY <1>3, <1>4, <1>5

\* internalRemoveItem
LEMMA RemovedStep ==
    ASSUME NEW w \in World, NEW i \in Item, NEW B, Own(w, i, B), NEW r, r = Removed(w, i)
    PROVE  Step(w, r, i, B) /\ ~r.item[i].in
  <1>1. PICK s : s = StopDecay(w, i)
    OBVIOUS
  <1>2. Step(w, s, i, B) /\ NoEntry(s, i)
    BY <1>1, StopDecayStep
  <1>3. PICK y : y = Released
    OBVIOUS
  <1>4. y \in Attributes /\ ~y.in /\ y.state = None
    BY <1>3, ReleasedType
  <1>5. s \in World
    BY <1>2 DEF Step, Local
  <1>6. r = Given(s, i, y)
    BY <1>1, <1>3 DEF Removed, Given
  <1>7. Local(s, r, i) /\ r.item[i] = y /\ r.map = s.map /\ (InTime(s) => InTime(r))
    BY <1>4, <1>5, <1>6, StepAttributes
  <1>8. Own(r, i, B)
    BY <1>2, <1>4, <1>7, StatesDiffer DEF Own, NoEntry
  <1>9. Step(s, r, i, B)
    BY <1>7, <1>8 DEF Step
  <1>10. Step(w, r, i, B)
    BY <1>2, <1>9, StepTransitive DEF Step
  <1>11. QED BY <1>4, <1>7, <1>10

\* What Item::setID does with the attributes of the item.
Retyped(x, y, t) ==
    /\ y \in Attributes /\ y.type = t /\ y.in = x.in /\ y.timestamp = x.timestamp
    /\ decayTime[t] > 0 /\ (x.type \notin stopTime \/ x.duration = None) =>
           y.state = "PENDING" /\ y.duration = decayTime[t]
    /\ ~(decayTime[t] > 0 /\ (x.type \notin stopTime \/ x.duration = None)) =>
           \/ decayTime[t] = 0 /\ y.duration = None /\ y.state \in {None, "STOPPING"}
           \/ y.duration = x.duration /\ y.state = x.state
    /\ t \in stopTime => y.duration = x.duration /\ y.state = x.state

LEMMA SetIDStep ==
    ASSUME NEW w \in World, NEW i \in Item, NEW B, Own(w, i, B), NEW t \in Type,
           w.item[i].in, NEW r, r = SetID(w, i, t)
    PROVE  Step(w, r, i, B) /\ Retyped(w.item[i], r.item[i], t)
  <1>0. PICK x : x = w.item[i] /\ x.in
    OBVIOUS
  <1>1. x \in Attributes
    BY <1>0 DEF World
  <1>2. decayTime[t] \in Times /\ decayTime[t] \in Nat
    BY TypeAssumption, ClampTime
  <1>3. t \in stopTime => decayTime[t] = 0
    BY TypeAssumption
  <1>4. PICK z : z =
            IF decayTime[t] > 0 /\ (x.type \notin stopTime \/ x.duration = None)
            THEN [x EXCEPT !.type = t, !.state = "PENDING", !.duration = decayTime[t]]
            ELSE IF decayTime[t] = 0 /\ t \notin stopTime /\ decayTo[t] = Never
            THEN [x EXCEPT !.type = t, !.duration = None,
                           !.state = IF x.state = None THEN None ELSE "STOPPING"]
            ELSE [x EXCEPT !.type = t]
    OBVIOUS
  <1>5. r = Given(w, i, z)
    BY <1>0, <1>4 DEF SetID, Given
  <1>6. z \in Attributes
    BY <1>1, <1>2, <1>4 DEF Attributes, States
  <1>7. /\ Local(w, r, i) /\ r.item[i] = z /\ r.map = w.map /\ (InTime(w) => InTime(r))
    BY <1>5, <1>6, StepAttributes
  <1>9. /\ z.type = t /\ z.in = x.in /\ z.timestamp = x.timestamp
        /\ decayTime[t] > 0 /\ (x.type \notin stopTime \/ x.duration = None) =>
               z.state = "PENDING" /\ z.duration = decayTime[t]
        /\ ~(decayTime[t] > 0 /\ (x.type \notin stopTime \/ x.duration = None)) =>
               \/ decayTime[t] = 0 /\ z.duration = None /\ z.state = IF x.state = None THEN None ELSE "STOPPING"
               \/ z.duration = x.duration /\ z.state = x.state
        /\ t \in stopTime => z.duration = x.duration /\ z.state = x.state
    <2>1. CASE decayTime[t] > 0 /\ (x.type \notin stopTime \/ x.duration = None)
      <3>1. z = [x EXCEPT !.type = t, !.state = "PENDING", !.duration = decayTime[t]]
        BY <1>4, <2>1
      <3>2. t \notin stopTime
        BY <1>2, <1>3, <2>1
      <3>3. QED BY <1>1, <2>1, <3>1, <3>2 DEF Attributes
    <2>2. CASE /\ ~(decayTime[t] > 0 /\ (x.type \notin stopTime \/ x.duration = None))
               /\ decayTime[t] = 0 /\ t \notin stopTime /\ decayTo[t] = Never
      <3>1. z = [x EXCEPT !.type = t, !.duration = None,
                          !.state = IF x.state = None THEN None ELSE "STOPPING"]
        BY <1>4, <2>2
      <3>2. QED BY <1>1, <2>2, <3>1 DEF Attributes
    <2>3. CASE /\ ~(decayTime[t] > 0 /\ (x.type \notin stopTime \/ x.duration = None))
               /\ ~(decayTime[t] = 0 /\ t \notin stopTime /\ decayTo[t] = Never)
      <3>1. z = [x EXCEPT !.type = t]
        BY <1>4, <2>3
      <3>2. QED BY <1>1, <2>3, <3>1 DEF Attributes
    <2>4. QED BY <2>1, <2>2, <2>3
  <1>10. z.state = "TRUE" => x.state = "TRUE"
    BY <1>9, StatesDiffer
  <1>11. Own(r, i, B)
    <2>1. /\ \A p \in w.map : p[2] = i => p = <<x.timestamp, i>> /\ x.state # None
          /\ x.state = "TRUE" => i \in B \/ <<x.timestamp, i>> \in w.map
          /\ x.state = "STOPPING" => x.duration = None
          /\ x.state # None => x.in
      BY <1>0 DEF Own
    <2>2. x.state # None => z.state # None
      BY <1>9, StatesDiffer
    <2>3. z.state = "STOPPING" => z.duration = None
      BY <1>9, <2>1
    <2>4. z.state # None => z.in
      BY <1>0, <1>9
    <2>5. QED BY <1>7, <1>9, <1>10, <2>1, <2>2, <2>3, <2>4 DEF Own
  <1>12. Retyped(x, z, t)
    BY <1>6, <1>9 DEF Retyped
  <1>13. QED BY <1>0, <1>7, <1>11, <1>12 DEF Step

\* Game::startDecay of an item with time left gives it no more than it has.
LEMMA BeginStep ==
    ASSUME NEW w \in World, NEW i \in Item, NEW B, Own(w, i, B), NEW late,
           NEW x, x = w.item[i], NEW r, r = Begin(w, i, late),
           CanDecay(x) /\ x.state \notin {"TRUE", "STOPPING"} => x.duration # None
    PROVE  /\ Step(w, r, i, B)
           /\ r.item[i].in = x.in /\ r.item[i].type = x.type
           /\ i \notin B => GetDuration(r.item[i]) <= GetDuration(x)
           /\ x.state = "STOPPING" /\ x.duration = None => GetDuration(r.item[i]) = 0
           /\ ~CanDecay(x) /\ x.state \notin {"TRUE", "STOPPING"} => r = w
  <1>1. x \in Attributes
    BY DEF World
  <1>2. GetDuration(x) \in Nat
    BY <1>1, TimeLeft
  <1>3. CASE x.state = "STOPPING" \/ (~CanDecay(x) /\ x.state = "TRUE")
    <2>1. r = StopDecay(w, i)
      BY <1>3 DEF Begin
    <2>2. /\ Step(w, r, i, B)
          /\ r.item[i].in = w.item[i].in /\ r.item[i].type = w.item[i].type
          /\ i \notin B => GetDuration(r.item[i]) <= GetDuration(w.item[i])
          /\ w.item[i].duration = None => GetDuration(r.item[i]) = 0
      BY <2>1, StopDecayStep
    <2>3. QED BY <1>3, <2>2
  <1>4. CASE x.state # "STOPPING" /\ (~CanDecay(x) \/ x.state = "TRUE")
                /\ ~(~CanDecay(x) /\ x.state = "TRUE")
    <2>1. r = w
      BY <1>4 DEF Begin
    <2>2. Step(w, r, i, B)
      BY <2>1 DEF Step, Local
    <2>3. QED BY <1>2, <1>4, <2>1, <2>2
  <1>5. CASE CanDecay(x) /\ x.state \notin {"TRUE", "STOPPING"}
    <2>1. PICK d \in Times : d = x.duration
      BY <1>1, <1>5 DEF Attributes
    <2>2. r = DecayStart(w, i, d, late)
      BY <1>5, <2>1 DEF Begin
    <2>3. w.item[i].in
      BY <1>5 DEF CanDecay
    <2>4. /\ Step(w, r, i, B)
          /\ r.item[i].state = "TRUE" /\ r.item[i].timestamp = d /\ r.item[i].in
          /\ r.item[i].type = w.item[i].type
      BY <2>2, <2>3, DecayStartStep
    <2>5. PICK y \in Attributes : y = r.item[i]
      BY <2>4 DEF Step, Local, World
    <2>6. GetDuration(y) = d /\ GetDuration(x) = d
      <3>1. d # None /\ y.state = "TRUE" /\ y.timestamp = d
        BY <2>4, <2>5, ClampTime
      <3>2. QED BY <1>1, <1>5, <2>1, <3>1, TimeLeft
    <2>7. r.item[i].in = x.in
      <3>1. x.in = TRUE /\ y.in = TRUE
        BY <1>1, <2>3, <2>4, <2>5 DEF Attributes
      <3>2. QED BY <2>5, <3>1
    <2>8. GetDuration(r.item[i]) <= GetDuration(x)
      BY <1>2, <2>5, <2>6
    <2>9. QED BY <1>5, <2>4, <2>7, <2>8
  <1>6. QED BY <1>3, <1>4, <1>5

\* Game::internalDecayItem; what stops time only keeps what was left.
LEMMA InternalDecayItemStep ==
    ASSUME NEW w \in World, NEW i \in Item, NEW B, Own(w, i, B), NEW late,
           NEW x, x = w.item[i], CanDecay(x), x.state \notin {"TRUE", "STOPPING"},
           NEW r, r = InternalDecayItem(w, i, late)
    PROVE  /\ Step(w, r, i, B)
           /\ r.item[i].in => /\ r.item[i].type = decayTo[x.type]
                              /\ r.item[i].type \in stopTime =>
                                     GetDuration(r.item[i]) = GetDuration(x)
  <1>1. x \in Attributes /\ x.in /\ decayTime[x.type] > 0 /\ x.type \in Type
    BY DEF World, CanDecay, Attributes
  <1>2. decayTime[x.type] \in Nat /\ x.type \notin stopTime
    BY <1>1, TypeAssumption
  <1>3. CASE decayTo[x.type] \in Type
    <2>1. PICK t \in Type : t = decayTo[x.type]
      BY <1>3
    <2>2. PICK s : s = SetID(w, i, t)
      OBVIOUS
    <2>3. PICK y : y = s.item[i]
      OBVIOUS
    <2>4. /\ Step(w, s, i, B) /\ y \in Attributes /\ y.type = t /\ y.in = x.in
          /\ decayTime[t] > 0 => y.state = "PENDING" /\ y.duration = decayTime[t]
          /\ t \in stopTime => y.duration = x.duration /\ y.state = x.state
      <3>1. w.item[i].in
        BY <1>1
      <3>2. Step(w, s, i, B) /\ Retyped(x, y, t)
        BY <2>2, <2>3, <3>1, SetIDStep
      <3>3. QED BY <1>2, <3>2 DEF Retyped
    <2>5. s \in World /\ Own(s, i, B)
      BY <2>4 DEF Step, Local
    <2>6. r = Begin(s, i, late)
      BY <2>1, <2>2 DEF InternalDecayItem
    <2>7. CanDecay(y) => y.duration # None
      <3>1. decayTime[t] \in Nat
        BY TypeAssumption
      <3>2. QED BY <2>4, <3>1, StatesDiffer DEF CanDecay
    <2>8. /\ Step(s, r, i, B) /\ r.item[i].in = y.in /\ r.item[i].type = y.type
          /\ ~CanDecay(y) /\ y.state \notin {"TRUE", "STOPPING"} => r = s
      BY <2>3, <2>5, <2>6, <2>7, BeginStep
    <2>9. Step(w, r, i, B)
      BY <2>4, <2>8, StepTransitive DEF Step
    <2>10. ASSUME t \in stopTime PROVE GetDuration(r.item[i]) = GetDuration(x)
      <3>1. ~CanDecay(y)
        BY <2>4, <2>10, TypeAssumption DEF CanDecay
      <3>2. r = s
        BY <2>4, <2>8, <2>10, <3>1
      <3>3. GetDuration(y) = GetDuration(x)
        BY <1>1, <2>4, <2>10, TimeLeft
      <3>4. QED BY <2>3, <3>2, <3>3
    <2>11. QED BY <2>1, <2>4, <2>8, <2>9, <2>10
  <1>4. CASE decayTo[x.type] \notin Type
    <2>1. r = Removed(w, i)
      BY <1>4 DEF InternalDecayItem
    <2>2. QED BY <2>1, RemovedStep
  <1>5. QED BY <1>3, <1>4

\* Game::startDecay
LEMMA StartDecayStep ==
    ASSUME NEW w \in World, NEW i \in Item, NEW B, Own(w, i, B), NEW late,
           NEW x, x = w.item[i], NEW r, r = StartDecay(w, i, late)
    PROVE  /\ Step(w, r, i, B)
           /\ \/ /\ r.item[i].in = x.in /\ r.item[i].type = x.type
                 /\ i \notin B => GetDuration(r.item[i]) <= GetDuration(x)
                 /\ x.state = "STOPPING" /\ x.duration = None => GetDuration(r.item[i]) = 0
              \/ /\ CanDecay(x) /\ x.state \notin {"TRUE", "STOPPING"}
                 /\ x.duration \in {None, 0}
                 /\ r.item[i].in => /\ r.item[i].type = decayTo[x.type]
                                    /\ r.item[i].type \in stopTime => GetDuration(r.item[i]) = 0
  <1>1. x \in Attributes
    BY DEF World
  <1>2. CASE CanDecay(x) /\ x.state \notin {"TRUE", "STOPPING"} /\ x.duration \in {None, 0}
    <2>1. r = InternalDecayItem(w, i, late)
      BY <1>2 DEF StartDecay
    <2>2. /\ Step(w, r, i, B)
          /\ r.item[i].in => /\ r.item[i].type = decayTo[x.type]
                             /\ r.item[i].type \in stopTime =>
                                     GetDuration(r.item[i]) = GetDuration(x)
      BY <1>2, <2>1, InternalDecayItemStep
    <2>3. GetDuration(x) = 0
      BY <1>1, <1>2, TimeLeft
    <2>4. QED BY <1>2, <2>2, <2>3
  <1>3. CASE ~(CanDecay(x) /\ x.state \notin {"TRUE", "STOPPING"} /\ x.duration \in {None, 0})
    <2>1. r = Begin(w, i, late)
      BY <1>3 DEF StartDecay
    <2>2. CanDecay(x) /\ x.state \notin {"TRUE", "STOPPING"} => x.duration # None
      BY <1>3
    <2>3. QED BY <2>1, <2>2, BeginStep
  <1>4. QED BY <1>2, <1>3

-----------------------------------------------------------------------------
(***************************************************************************)
(* The inductive invariant: every item agrees with the map and the batch,  *)
(* and outside checkDecay the map has an event in time.                    *)
(***************************************************************************)
AllOwn == \A i \in Item : Own(world, i, batch)

EventReady == ~checking => InTime(world)

IInv == TypeOK /\ AllOwn /\ EventReady

\* This step does not give item i time, unless it becomes something else that lasts.
Keeps(i) ==
    item[i].in /\ item'[i].in /\ SameTime(item[i], item'[i]) /\ i \notin batch =>
        GetDuration(item'[i]) <= GetDuration(item[i])

LEMMA WorldType ==
    ASSUME IInv
    PROVE  /\ world \in World /\ world.item = item /\ world.map = decayMap
           /\ world.event = event /\ world.orphans = orphans
           /\ \A i \in Item : Own(world, i, batch) /\ item[i] \in Attributes
  <1>1. TypeOK /\ AllOwn
    BY DEF IInv
  <1>2. item \in [Item -> Attributes]
    BY <1>1 DEF TypeOK, Attributes
  <1>3. world \in World
    BY <1>1, <1>2 DEF TypeOK, world, World
  <1>4. QED BY <1>1, <1>2, <1>3 DEF world, AllOwn

\* The world after a call.
LEMMA WorldBecomes ==
    ASSUME NEW r \in World, Become(r)
    PROVE  world' = r /\ item' = r.item /\ decayMap' = r.map /\ event' = r.event
           /\ orphans' = r.orphans
  <1>1. r = [item |-> r.item, map |-> r.map, event |-> r.event, orphans |-> r.orphans]
    BY DEF World
  <1>2. item' = r.item /\ decayMap' = r.map /\ event' = r.event /\ orphans' = r.orphans
    BY DEF Become
  <1>3. QED BY <1>1, <1>2 DEF world

\* The other items agree with the map and the batch as before.
LEMMA OthersOwn ==
    ASSUME NEW w \in World, NEW r, NEW i \in Item, Local(w, r, i), NEW j \in Item \ {i},
           NEW B, NEW C, Own(w, j, B), j \in B => j \in C
    PROVE  Own(r, j, C)
  <1>1. r.item[j] = w.item[j] /\ r \in World
    BY DEF Local
  <1>2. \A p \in Pairs : p[2] = j => (p \in r.map <=> p \in w.map)
    BY DEF Local
  <1>3. PICK x \in Attributes : x = w.item[j]
    BY DEF World
  <1>4. r.map \subseteq Pairs /\ w.map \subseteq Pairs
    BY <1>1 DEF World
  <1>5. \A p \in r.map : p[2] = j => p \in w.map
    BY <1>2, <1>4
  <1>6. <<x.timestamp, j>> \in w.map => <<x.timestamp, j>> \in r.map
    BY <1>2, <1>4
  <1>7. QED BY <1>1, <1>3, <1>5, <1>6 DEF Own

\* A call for item i keeps the invariant and leaves the other items as they are.
LEMMA Called ==
    ASSUME IInv, NEW i \in Item, NEW r, Become(r), UNCHANGED checking,
           batch' \in SUBSET batch, batch \ {i} \subseteq batch', Step(world, r, i, batch')
    PROVE  IInv' /\ item'[i] = r.item[i] /\ \A j \in Item \ {i} : item'[j] = item[j]
  <1>1. /\ world \in World /\ world.item = item
        /\ \A j \in Item : Own(world, j, batch)
    BY WorldType
  <1>2. r \in World /\ Local(world, r, i) /\ Own(r, i, batch') /\ (InTime(world) => InTime(r))
    BY DEF Step, Local
  <1>3. /\ world' = r /\ item' = r.item /\ decayMap' = r.map /\ event' = r.event
        /\ orphans' = r.orphans
    BY <1>2, WorldBecomes
  <1>4. \A j \in Item \ {i} : item'[j] = item[j]
    BY <1>1, <1>2, <1>3 DEF Local
  <1>5. TypeOK'
    <2>1. /\ r.item \in [Item -> Attributes] /\ r.map \subseteq Pairs
          /\ r.event \in Times \cup {None} /\ r.orphans \subseteq Times
      BY <1>2 DEF World
    <2>2. /\ item' \in [Item -> Attributes] /\ decayMap' \subseteq Pairs
          /\ event' \in Times \cup {None} /\ orphans' \subseteq Times
      BY <1>3, <2>1
    <2>3. batch' \subseteq Item /\ checking' \in BOOLEAN /\ (batch' # {} => checking')
      BY DEF IInv, TypeOK
    <2>4. QED BY <2>2, <2>3 DEF TypeOK, Attributes
  <1>6. ASSUME NEW j \in Item PROVE Own(r, j, batch')
    <2>1. CASE j = i
      BY <1>2, <2>1
    <2>2. CASE j # i
      <3>1. j \in Item \ {i} /\ Own(world, j, batch) /\ (j \in batch => j \in batch')
        BY <1>1, <2>2
      <3>2. QED BY <1>1, <1>2, <3>1, OthersOwn
    <2>3. QED BY <2>1, <2>2
  <1>7. AllOwn'
    <2>1. \A j \in Item : Own(world', j, batch')
      BY <1>3, <1>6
    <2>2. QED BY <2>1 DEF AllOwn, Own
  <1>8. EventReady'
    <2>1. ~checking' => InTime(world')
      BY <1>2, <1>3 DEF IInv, EventReady
    <2>2. QED BY <2>1 DEF EventReady, InTime
  <1>9. QED BY <1>3, <1>4, <1>5, <1>7, <1>8 DEF IInv

-----------------------------------------------------------------------------
(***************************************************************************)
(* The actions of scripts.                                                 *)
(***************************************************************************)
LEMMA CreateStep ==
    ASSUME IInv, NEW i \in Item, NEW t \in Type, NEW late, Create(i, t, late)
    PROVE  IInv' /\ (\A j \in Item \ {i} : item'[j] = item[j]) /\ Keeps(i)
  <1>1. /\ world \in World /\ world.item = item /\ Own(world, i, batch)
        /\ item[i] \in Attributes
    BY WorldType
  <1>2. /\ ~item[i].in /\ batch' = batch /\ UNCHANGED checking
        /\ Become(StartDecay([world EXCEPT !.item[i] = Fresh(t)], i, late))
    BY DEF Create
  <1>3. PICK x : x = Fresh(t)
    OBVIOUS
  <1>4. x \in Attributes /\ x.in /\ x.state = None
    BY <1>3, FreshType
  <1>5. PICK w : w = Given(world, i, x)
    OBVIOUS
  <1>6. /\ Local(world, w, i) /\ w.item[i] = x /\ w.map = world.map
        /\ (InTime(world) => InTime(w))
    BY <1>1, <1>4, <1>5, StepAttributes
  <1>7. Own(w, i, batch)
    <2>1. item[i].state = None
      BY <1>1, <1>2 DEF Own
    <2>2. \A p \in w.map : p[2] # i
      BY <1>1, <1>6, <2>1 DEF Own
    <2>3. QED BY <1>4, <1>6, <2>2, StatesDiffer DEF Own
  <1>8. PICK r : r = StartDecay(w, i, late)
    OBVIOUS
  <1>9. w \in World
    BY <1>6 DEF Local
  <1>10. Step(w, r, i, batch)
    BY <1>7, <1>8, <1>9, StartDecayStep
  <1>11. Step(world, r, i, batch')
    BY <1>2, <1>6, <1>10, StepTransitive
  <1>12. Become(r)
    BY <1>2, <1>3, <1>5, <1>8 DEF Given
  <1>13. IInv' /\ \A j \in Item \ {i} : item'[j] = item[j]
    BY <1>2, <1>11, <1>12, Called
  <1>14. Keeps(i)
    BY <1>2 DEF Keeps
  <1>15. QED BY <1>13, <1>14

\* A type that stops time has neither a duration nor anything to decay to.
LEMMA StopTimeType ==
    ASSUME NEW x, x.type \in stopTime
    PROVE  decayTime[x.type] = 0 /\ ~CanDecay(x)
  BY TypeAssumption DEF CanDecay

LEMMA TransformStep ==
    ASSUME IInv, NEW i \in Item, NEW t \in Type, NEW late, Transform(i, t, late)
    PROVE  IInv' /\ (\A j \in Item \ {i} : item'[j] = item[j]) /\ Keeps(i)
  <1>1. /\ world \in World /\ world.item = item /\ Own(world, i, batch)
        /\ item[i] \in Attributes
    BY WorldType
  <1>2. /\ item[i].in /\ item[i].type # t /\ batch' = batch /\ UNCHANGED checking
        /\ Become(StartDecay(SetID(world, i, t), i, late))
    BY DEF Transform
  <1>3. PICK w : w = SetID(world, i, t)
    OBVIOUS
  <1>4. PICK x \in Attributes : x = item[i] /\ x.in /\ x.type # t
    BY <1>1, <1>2
  <1>5. PICK y : y = w.item[i]
    OBVIOUS
  <1>6. world.item[i].in
    BY <1>1, <1>2
  <1>7. Step(world, w, i, batch) /\ Retyped(x, y, t)
    BY <1>1, <1>3, <1>4, <1>5, <1>6, SetIDStep
  <1>8. w \in World /\ Own(w, i, batch)
    BY <1>7 DEF Step, Local
  <1>9. PICK r : r = StartDecay(w, i, late)
    OBVIOUS
  <1>10. PICK z : z = r.item[i]
    OBVIOUS
  <1>11. /\ Step(w, r, i, batch)
         /\ \/ /\ z.in = y.in /\ z.type = y.type
               /\ i \notin batch => GetDuration(z) <= GetDuration(y)
               /\ y.state = "STOPPING" /\ y.duration = None => GetDuration(z) = 0
            \/ /\ CanDecay(y) /\ y.state \notin {"TRUE", "STOPPING"}
               /\ y.duration \in {None, 0}
               /\ z.in => /\ z.type = decayTo[y.type]
                          /\ z.type \in stopTime => GetDuration(z) = 0
    BY <1>5, <1>8, <1>9, <1>10, StartDecayStep
  <1>12. Step(world, r, i, batch')
    BY <1>2, <1>7, <1>11, StepTransitive DEF Step
  <1>13. Become(r)
    BY <1>2, <1>3, <1>9
  <1>14. IInv' /\ item'[i] = z /\ \A j \in Item \ {i} : item'[j] = item[j]
    BY <1>2, <1>10, <1>12, <1>13, Called
  <1>15. z \in Attributes
    BY <1>10, <1>12 DEF Step, Local, World
  <1>16. ASSUME z.in, SameTime(x, z), i \notin batch
         PROVE  GetDuration(z) <= GetDuration(x)
    <2>1. GetDuration(x) \in Nat /\ GetDuration(y) \in Nat /\ GetDuration(z) \in Nat
      BY <1>4, <1>7, <1>15, TimeLeft DEF Retyped
    <2>2. \/ x.type = z.type /\ decayTo[x.type] # x.type
          \/ z.type \in stopTime
          \/ x.type \in stopTime /\ x.duration \notin {None, 0}
      BY <1>16 DEF SameTime
    <2>3. decayTime[t] \in Nat
      BY TypeAssumption
    <2>4. CASE decayTime[t] > 0 /\ (x.type \notin stopTime \/ x.duration = None)
      <3>1. y.state = "PENDING" /\ y.duration = decayTime[t] /\ y.type = t
        BY <1>7, <2>4 DEF Retyped
      <3>2. y.duration \notin {None, 0}
        BY <2>3, <2>4, <3>1, StatesDiffer
      <3>3. z.type = t
        BY <1>11, <3>1, <3>2
      <3>4. t \notin stopTime
        BY <2>3, <2>4, TypeAssumption
      <3>5. FALSE
        BY <1>4, <2>2, <2>4, <3>3, <3>4
      <3>6. QED BY <3>5
    <2>5. CASE ~(decayTime[t] > 0 /\ (x.type \notin stopTime \/ x.duration = None))
      <3>1. \/ y.duration = None /\ y.state \in {None, "STOPPING"}
            \/ y.duration = x.duration /\ y.state = x.state
        BY <1>7, <2>5 DEF Retyped
      <3>2. y \in Attributes /\ y.type = t /\ y.timestamp = x.timestamp
        BY <1>7 DEF Retyped
      <3>3. CASE CanDecay(y)
        <4>1. decayTime[t] > 0 /\ x.type \in stopTime /\ x.duration # None
          BY <2>3, <2>5, <3>2, <3>3, TypeAssumption DEF CanDecay
        <4>2. t \notin stopTime
          BY <2>3, <4>1, TypeAssumption
        <4>3. y.duration = x.duration /\ y.state = x.state
          BY <1>7, <2>3, <4>1 DEF Retyped
        <4>4. GetDuration(y) = GetDuration(x)
          BY <1>4, <3>2, <4>3, TimeLeft
        <4>5. CASE GetDuration(z) <= GetDuration(y)
          BY <4>4, <4>5
        <4>6. CASE ~(GetDuration(z) <= GetDuration(y))
          <5>1. y.duration = 0 /\ z.type = decayTo[y.type]
            BY <1>11, <1>16, <4>1, <4>3, <4>6
          <5>2. z.type \in stopTime
            BY <2>2, <4>1, <4>3, <5>1
          <5>3. GetDuration(z) = 0
            BY <1>11, <1>16, <4>6, <5>2
          <5>4. QED BY <2>1, <5>3
        <4>7. QED BY <4>5, <4>6
      <3>4. CASE ~CanDecay(y)
        <4>1. /\ GetDuration(z) <= GetDuration(y)
              /\ y.state = "STOPPING" /\ y.duration = None => GetDuration(z) = 0
          BY <1>11, <1>16, <3>4
        <4>2. CASE y.duration = None /\ y.state \in {None, "STOPPING"}
          <5>1. y.state = None => GetDuration(y) = 0
            BY <3>2, <4>2, TimeLeft, StatesDiffer
          <5>2. GetDuration(z) = 0
            BY <2>1, <4>1, <4>2, <5>1
          <5>3. QED BY <2>1, <5>2
        <4>3. CASE y.duration = x.duration /\ y.state = x.state
          <5>1. GetDuration(y) = GetDuration(x)
            BY <1>4, <3>2, <4>3, TimeLeft
          <5>2. QED BY <4>1, <5>1
        <4>4. QED BY <3>1, <4>2, <4>3
      <3>5. QED BY <3>3, <3>4
    <2>6. QED BY <2>4, <2>5
  <1>17. Keeps(i)
    BY <1>4, <1>14, <1>16 DEF Keeps
  <1>18. QED BY <1>14, <1>17

LEMMA RemoveStep ==
    ASSUME IInv, NEW i \in Item, Remove(i)
    PROVE  IInv' /\ (\A j \in Item \ {i} : item'[j] = item[j]) /\ Keeps(i)
  <1>1. world \in World /\ Own(world, i, batch)
    BY WorldType
  <1>2. batch' = batch /\ UNCHANGED checking /\ Become(Removed(world, i))
    BY DEF Remove
  <1>3. PICK r : r = Removed(world, i)
    OBVIOUS
  <1>4. Step(world, r, i, batch') /\ ~r.item[i].in /\ Become(r)
    BY <1>1, <1>2, <1>3, RemovedStep
  <1>5. IInv' /\ item'[i] = r.item[i] /\ \A j \in Item \ {i} : item'[j] = item[j]
    BY <1>2, <1>4, Called
  <1>6. QED BY <1>4, <1>5 DEF Keeps

LEMMA SetDurationStep ==
    ASSUME IInv, NEW i \in Item, NEW d \in 0 .. MaxDuration, NEW late, SetDuration(i, d, late)
    PROVE  IInv' /\ (\A j \in Item \ {i} : item'[j] = item[j])
  <1>1. /\ world \in World /\ world.item = item /\ Own(world, i, batch)
        /\ item[i] \in Attributes /\ d \in Times
    BY WorldType, ClampTime
  <1>2. /\ item[i].in /\ batch' = batch /\ UNCHANGED checking
        /\ Become(StartDecay([world EXCEPT !.item[i] =
                                [@ EXCEPT !.state = "PENDING", !.duration = d]], i, late))
    BY DEF SetDuration
  <1>3. PICK x \in Attributes : x = item[i] /\ x.in
    BY <1>1, <1>2
  <1>4. PICK y : y = [x EXCEPT !.state = "PENDING", !.duration = d]
    OBVIOUS
  <1>5. y \in Attributes /\ y.in /\ y.state = "PENDING" /\ y.timestamp = x.timestamp
    BY <1>1, <1>3, <1>4 DEF Attributes, States
  <1>6. PICK w : w = Given(world, i, y)
    OBVIOUS
  <1>7. w = [world EXCEPT !.item[i] = [@ EXCEPT !.state = "PENDING", !.duration = d]]
    BY <1>1, <1>3, <1>4, <1>6 DEF Given, World
  <1>8. /\ Local(world, w, i) /\ w.item[i] = y /\ w.map = world.map
        /\ (InTime(world) => InTime(w)) /\ w \in World
    <2>1. /\ Local(world, w, i) /\ w.item[i] = y /\ w.map = world.map
          /\ (InTime(world) => InTime(w))
      BY <1>1, <1>5, <1>6, StepAttributes
    <2>2. QED BY <2>1 DEF Local
  <1>9. Own(w, i, batch)
    <2>1. \A p \in world.map : p[2] = i => p = <<x.timestamp, i>>
      BY <1>1, <1>3 DEF Own
    <2>2. QED BY <1>5, <1>8, <2>1, StatesDiffer DEF Own
  <1>10. PICK r : r = StartDecay(w, i, late)
    OBVIOUS
  <1>11. Step(w, r, i, batch) /\ Become(r)
    BY <1>2, <1>7, <1>8, <1>9, <1>10, StartDecayStep
  <1>12. Step(world, r, i, batch')
    BY <1>2, <1>8, <1>11, StepTransitive
  <1>13. QED BY <1>2, <1>11, <1>12, Called

LEMMA SetDecayStateStep ==
    ASSUME IInv, NEW i \in Item, NEW on \in BOOLEAN, NEW late, SetDecayState(i, on, late)
    PROVE  IInv' /\ (\A j \in Item \ {i} : item'[j] = item[j]) /\ Keeps(i)
  <1>1. /\ world \in World /\ world.item = item /\ Own(world, i, batch)
        /\ item[i] \in Attributes
    BY WorldType
  <1>2. /\ item[i].in /\ batch' = batch /\ UNCHANGED checking
        /\ Become(IF on THEN StartDecay(world, i, late) ELSE StopDecay(world, i))
    BY DEF SetDecayState
  <1>3. PICK x \in Attributes : x = item[i] /\ x.in
    BY <1>1, <1>2
  <1>4. CASE on
    <2>1. PICK r : r = StartDecay(world, i, late)
      OBVIOUS
    <2>2. PICK z : z = r.item[i]
      OBVIOUS
    <2>3. /\ Step(world, r, i, batch)
          /\ \/ /\ z.in = x.in /\ z.type = x.type
                /\ i \notin batch => GetDuration(z) <= GetDuration(x)
                /\ x.state = "STOPPING" /\ x.duration = None => GetDuration(z) = 0
             \/ /\ CanDecay(x) /\ x.state \notin {"TRUE", "STOPPING"}
                /\ x.duration \in {None, 0}
                /\ z.in => /\ z.type = decayTo[x.type]
                           /\ z.type \in stopTime => GetDuration(z) = 0
      <3>1. PICK w \in World : w = world
        BY <1>1
      <3>2. Own(w, i, batch) /\ x = w.item[i] /\ r = StartDecay(w, i, late)
        BY <1>1, <1>3, <2>1, <3>1
      <3>3. /\ Step(w, r, i, batch)
            /\ \/ /\ z.in = x.in /\ z.type = x.type
                  /\ i \notin batch => GetDuration(z) <= GetDuration(x)
                  /\ x.state = "STOPPING" /\ x.duration = None => GetDuration(z) = 0
               \/ /\ CanDecay(x) /\ x.state \notin {"TRUE", "STOPPING"}
                  /\ x.duration \in {None, 0}
                  /\ z.in => /\ z.type = decayTo[x.type]
                             /\ z.type \in stopTime => GetDuration(z) = 0
        BY <2>2, <3>2, StartDecayStep
      <3>4. QED BY <3>1, <3>3
    <2>4. Step(world, r, i, batch') /\ Become(r)
      BY <1>2, <1>4, <2>1, <2>3
    <2>5. IInv' /\ item'[i] = z /\ \A j \in Item \ {i} : item'[j] = item[j]
      BY <1>2, <2>2, <2>4, Called
    <2>6. ASSUME z.in, SameTime(x, z), i \notin batch
          PROVE  GetDuration(z) <= GetDuration(x)
      <3>1. GetDuration(x) \in Nat
        BY TimeLeft
      <3>2. CASE CanDecay(x) /\ z.type = decayTo[x.type]
                 /\ (z.type \in stopTime => GetDuration(z) = 0)
        <4>1. x.type \notin stopTime
          BY <3>2, StopTimeType
        <4>2. z.type \in stopTime
          BY <2>6, <3>2, <4>1 DEF SameTime
        <4>3. QED BY <3>1, <3>2, <4>2, TimeLeft
      <3>3. QED BY <2>3, <2>6, <3>2
    <2>7. QED BY <1>3, <2>5, <2>6 DEF Keeps
  <1>5. CASE ~on
    <2>1. PICK r : r = StopDecay(world, i)
      OBVIOUS
    <2>2. /\ Step(world, r, i, batch)
          /\ i \notin batch => GetDuration(r.item[i]) <= GetDuration(item[i])
      BY <1>1, <2>1, StopDecayStep
    <2>3. Step(world, r, i, batch') /\ Become(r)
      BY <1>2, <1>5, <2>1, <2>2
    <2>4. IInv' /\ item'[i] = r.item[i] /\ \A j \in Item \ {i} : item'[j] = item[j]
      BY <1>2, <2>3, Called
    <2>5. QED BY <2>2, <2>4 DEF Keeps
  <1>6. QED BY <1>4, <1>5

LEMMA RemoveDurationStep ==
    ASSUME IInv, NEW i \in Item, RemoveDuration(i)
    PROVE  IInv' /\ (\A j \in Item \ {i} : item'[j] = item[j]) /\ Keeps(i)
  <1>1. /\ world \in World /\ world.item = item /\ Own(world, i, batch)
        /\ item[i] \in Attributes
    BY WorldType
  <1>2. /\ item[i].in /\ batch' = batch /\ UNCHANGED checking
        /\ Become([StopDecay(world, i) EXCEPT !.item[i].duration = None])
    BY DEF RemoveDuration
  <1>3. PICK s : s = StopDecay(world, i)
    OBVIOUS
  <1>4. /\ Step(world, s, i, batch)
        /\ i \notin batch => GetDuration(s.item[i]) <= GetDuration(item[i])
    BY <1>1, <1>3, StopDecayStep
  <1>5. s \in World /\ Own(s, i, batch)
    BY <1>4 DEF Step, Local
  <1>6. PICK y \in Attributes : y = s.item[i]
    BY <1>5 DEF World
  <1>7. PICK z : z = [y EXCEPT !.duration = None]
    OBVIOUS
  <1>8. /\ z \in Attributes /\ z.state = y.state /\ z.timestamp = y.timestamp /\ z.in = y.in
        /\ z.duration = None
    BY <1>7 DEF Attributes
  <1>9. PICK r : r = Given(s, i, z)
    OBVIOUS
  <1>10. r = [StopDecay(world, i) EXCEPT !.item[i].duration = None]
    BY <1>3, <1>5, <1>6, <1>7, <1>9 DEF Given, World
  <1>11. /\ Local(s, r, i) /\ r.item[i] = z /\ r.map = s.map /\ (InTime(s) => InTime(r))
    BY <1>5, <1>8, <1>9, StepAttributes
  <1>12. Own(r, i, batch)
    BY <1>5, <1>6, <1>8, <1>11 DEF Own
  <1>13. Step(s, r, i, batch)
    BY <1>11, <1>12 DEF Step
  <1>14. Step(world, r, i, batch') /\ Become(r)
    BY <1>2, <1>4, <1>10, <1>13, StepTransitive DEF Step
  <1>15. IInv' /\ item'[i] = r.item[i] /\ \A j \in Item \ {i} : item'[j] = item[j]
    BY <1>2, <1>14, Called
  <1>16. ASSUME i \notin batch PROVE GetDuration(z) <= GetDuration(item[i])
    <2>1. GetDuration(item[i]) \in Nat /\ GetDuration(y) \in Nat
      BY <1>1, <1>6, TimeLeft
    <2>2. CASE z.state \in {"TRUE", "STOPPING"}
      <3>1. GetDuration(z) = GetDuration(y)
        BY <1>6, <1>8, <2>2, TimeLeft
      <3>2. QED BY <1>4, <1>6, <1>16, <3>1
    <2>3. CASE z.state \notin {"TRUE", "STOPPING"}
      <3>1. GetDuration(z) = 0
        BY <1>8, <2>3, TimeLeft
      <3>2. QED BY <2>1, <3>1
    <2>4. QED BY <2>2, <2>3
  <1>17. QED BY <1>11, <1>15, <1>16 DEF Keeps

-----------------------------------------------------------------------------
(***************************************************************************)
(* checkDecay and the clock.                                               *)
(***************************************************************************)
LEMMA CheckDecayStep ==
    ASSUME IInv, CheckDecay
    PROVE  IInv' /\ item' = item
  <1>1. /\ ~checking /\ checking' = TRUE /\ item' = item
        /\ event' \in {event, None} /\ orphans' \subseteq orphans
    BY DEF CheckDecay
  <1>2. PICK due : due = {p \in decayMap : p[1] = 0}
    OBVIOUS
  <1>3. decayMap' = decayMap \ due /\ batch' = {p[2] : p \in due}
    BY <1>2 DEF CheckDecay
  <1>4. decayMap \subseteq Pairs /\ batch = {}
    BY <1>1 DEF IInv, TypeOK
  <1>5. TypeOK'
    <2>1. batch' \subseteq Item
      BY <1>2, <1>3, <1>4 DEF Pairs
    <2>2. decayMap' \subseteq Pairs
      BY <1>3, <1>4
    <2>3. event' \in Times \cup {None} /\ orphans' \subseteq Times
      BY <1>1 DEF IInv, TypeOK
    <2>4. QED BY <1>1, <2>1, <2>2, <2>3 DEF IInv, TypeOK
  <1>6. ASSUME NEW i \in Item PROVE Own(world, i, batch)'
    <2>1. PICK x \in Attributes : x = item[i]
      BY WorldType
    <2>2. Own(world, i, batch)
      BY WorldType
    <2>3. /\ \A p \in decayMap : p[2] = i => p = <<x.timestamp, i>> /\ x.state # None
          /\ x.state = "TRUE" => <<x.timestamp, i>> \in decayMap
          /\ x.state = "STOPPING" => x.duration = None
          /\ x.state # None => x.in
      BY <1>4, <2>1, <2>2 DEF Own, world
    <2>4. \A p \in decayMap' : p[2] = i => p = <<x.timestamp, i>> /\ x.state # None
      BY <1>3, <2>3
    <2>5. x.state = "TRUE" => i \in batch' \/ <<x.timestamp, i>> \in decayMap'
      <3>1. ASSUME x.state = "TRUE", <<x.timestamp, i>> \notin decayMap' PROVE i \in batch'
        <4>1. PICK p \in due : p = <<x.timestamp, i>>
          BY <1>3, <2>3, <3>1
        <4>2. p[2] = i
          BY <4>1
        <4>3. QED BY <1>3, <4>1, <4>2
      <3>2. QED BY <3>1
    <2>6. world'.item[i] = x /\ world'.map = decayMap'
      BY <1>1, <2>1 DEF world
    <2>7. Own(world', i, batch')
      BY <2>3, <2>4, <2>5, <2>6 DEF Own
    <2>8. QED BY <2>7 DEF Own
  <1>7. AllOwn'
    BY <1>6 DEF AllOwn
  <1>8. EventReady'
    BY <1>1 DEF EventReady
  <1>9. QED BY <1>1, <1>5, <1>7, <1>8 DEF IInv

LEMMA ProcessDecayBatchStep ==
    ASSUME IInv, NEW i \in Item, NEW late, ProcessDecayBatch(i, late)
    PROVE  IInv' /\ i \in batch /\ \A j \in Item \ {i} : item'[j] = item[j]
  <1>1. /\ world \in World /\ world.item = item /\ Own(world, i, batch)
    BY WorldType
  <1>2. PICK x \in Attributes : x = item[i]
    BY WorldType
  <1>3. PICK off : off = [world EXCEPT !.item[i].state = "FALSE"]
    OBVIOUS
  <1>4. /\ i \in batch /\ batch' = batch \ {i} /\ UNCHANGED checking
        /\ Become(IF ~x.in THEN world ELSE IF CanDecay(x) THEN InternalDecayItem(off, i, late)
                  ELSE [off EXCEPT !.item[i].duration = GetDuration(x)])
    BY <1>2, <1>3 DEF ProcessDecayBatch
  <1>5. PICK y : y = [x EXCEPT !.state = "FALSE"]
    OBVIOUS
  <1>6. /\ y \in Attributes /\ y.state = "FALSE" /\ y.in = x.in /\ y.type = x.type
        /\ y.timestamp = x.timestamp
    BY <1>5 DEF Attributes, States
  <1>7. off = Given(world, i, y)
    BY <1>1, <1>2, <1>3, <1>5 DEF Given, World
  <1>8. /\ Local(world, off, i) /\ off.item[i] = y /\ off.map = world.map
        /\ (InTime(world) => InTime(off))
    BY <1>1, <1>6, <1>7, StepAttributes
  <1>9. off \in World
    BY <1>8 DEF Local
  <1>10. \A p \in world.map : p[2] = i => p = <<x.timestamp, i>>
    BY <1>1, <1>2 DEF Own
  <1>11. x.in => Own(off, i, batch')
    BY <1>6, <1>8, <1>10, StatesDiffer DEF Own
  <1>12. PICK r : r = IF ~x.in THEN world ELSE IF CanDecay(x) THEN InternalDecayItem(off, i, late)
                      ELSE [off EXCEPT !.item[i].duration = GetDuration(x)]
    OBVIOUS
  <1>13. Step(world, r, i, batch')
    <2>1. CASE ~x.in
      <3>1. r = world
        BY <1>12, <2>1
      <3>2. x.state = None
        BY <1>1, <1>2, <2>1 DEF Own
      <3>3. Own(world, i, batch')
        BY <1>1, <1>2, <3>2, StatesDiffer DEF Own
      <3>4. QED BY <1>1, <3>1, <3>3 DEF Step, Local
    <2>2. CASE x.in /\ CanDecay(x)
      <3>1. r = InternalDecayItem(off, i, late)
        BY <1>12, <2>2
      <3>2. CanDecay(y) /\ y.state \notin {"TRUE", "STOPPING"}
        BY <1>6, <2>2 DEF CanDecay
      <3>3. Step(off, r, i, batch')
        BY <1>8, <1>9, <1>11, <2>2, <3>1, <3>2, InternalDecayItemStep
      <3>4. QED BY <1>8, <3>3, StepTransitive
    <2>3. CASE x.in /\ ~CanDecay(x)
      <3>1. PICK d \in Times : d = GetDuration(x)
        BY DurationTime
      <3>2. PICK z : z = [y EXCEPT !.duration = d]
        OBVIOUS
      <3>3. /\ z \in Attributes /\ z.state = "FALSE" /\ z.in /\ z.timestamp = x.timestamp
        BY <1>6, <2>3, <3>1, <3>2 DEF Attributes
      <3>4. r = [off EXCEPT !.item[i].duration = GetDuration(x)]
        BY <1>12, <2>3
      <3>5. r = Given(off, i, z)
        BY <1>8, <1>9, <3>1, <3>2, <3>4 DEF Given, World
      <3>6. /\ Local(off, r, i) /\ r.item[i] = z /\ r.map = off.map /\ (InTime(off) => InTime(r))
        BY <1>9, <3>3, <3>5, StepAttributes
      <3>7. Own(r, i, batch')
        BY <1>8, <1>10, <3>3, <3>6, StatesDiffer DEF Own
      <3>8. Step(off, r, i, batch')
        BY <3>6, <3>7 DEF Step
      <3>9. QED BY <1>8, <3>8, StepTransitive
    <2>4. QED BY <2>1, <2>2, <2>3
  <1>14. Become(r) /\ batch' \in SUBSET batch /\ batch \ {i} \subseteq batch'
    BY <1>4, <1>12
  <1>15. QED BY <1>4, <1>13, <1>14, Called

LEMMA EndCheckStep ==
    ASSUME IInv, NEW late, EndCheck(late)
    PROVE  IInv' /\ item' = item
  <1>1. /\ world \in World /\ world.item = item /\ world.map = decayMap
        /\ \A i \in Item : Own(world, i, batch)
    BY WorldType
  <1>2. PICK r : r = IF decayMap = {} THEN world ELSE ScheduleNextCheck(world, late)
    OBVIOUS
  <1>3. batch' = batch /\ batch = {} /\ checking' = FALSE /\ Become(r)
    BY <1>2 DEF EndCheck
  <1>4. r \in World /\ r.item = item /\ r.map = decayMap /\ InTime(r)
    <2>1. CASE decayMap = {}
      BY <1>1, <1>2, <2>1 DEF InTime
    <2>2. CASE decayMap # {}
      <3>1. First(decayMap) \in Times
        BY <1>1, <2>2, FirstOfMap DEF World
      <3>2. PICK c \in Times : c = Clamp(First(decayMap)) /\ c \in Nat
        BY <3>1, ClampTime
      <3>3. r = AddEvent(StopEvent(world, late), c)
        BY <1>1, <1>2, <2>2, <3>2 DEF ScheduleNextCheck
      <3>4. r \in World /\ r.item = item /\ r.map = decayMap /\ r.event = c
        <4>1. PICK w \in World : w = world
          BY <1>1
        <4>2. r = AddEvent(StopEvent(w, late), c)
          BY <3>3, <4>1
        <4>3. r \in World /\ r.item = w.item /\ r.map = w.map /\ r.event = c
          BY <4>2, AddEventStep
        <4>4. QED BY <1>1, <4>1, <4>3
      <3>5. c \in r.orphans \cup ({r.event} \ {None}) /\ c <= Clamp(First(r.map))
        BY <3>2, <3>4, ClampTime
      <3>6. QED BY <3>4, <3>5 DEF InTime
    <2>3. QED BY <2>1, <2>2
  <1>5. world' = r /\ item' = item /\ decayMap' = decayMap /\ event' = r.event /\ orphans' = r.orphans
    BY <1>3, <1>4, WorldBecomes
  <1>6. TypeOK'
    <2>1. r.event \in Times \cup {None} /\ r.orphans \subseteq Times
      BY <1>4 DEF World
    <2>2. QED BY <1>3, <1>5, <2>1 DEF IInv, TypeOK
  <1>7. AllOwn'
    <2>1. \A i \in Item : Own(r, i, batch)
      BY <1>1, <1>4 DEF Own
    <2>2. \A i \in Item : Own(world', i, batch')
      BY <1>3, <1>5, <2>1
    <2>3. QED BY <2>2 DEF AllOwn, Own
  <1>8. EventReady'
    BY <1>4, <1>5 DEF EventReady, InTime
  <1>9. QED BY <1>5, <1>6, <1>7, <1>8 DEF IInv

\* One unit of time later.
LEMMA SoonerTime ==
    /\ Sooner(None) = None
    /\ \A t \in Times : Sooner(t) \in Times /\ Sooner(t) \in Nat /\ Sooner(t) <= t
                        /\ Sooner(t) = IF t = 0 THEN 0 ELSE t - 1
    /\ \A s, t \in Times : s <= t => Sooner(s) <= Sooner(t)
    /\ \A s, t \in Times : s <= Clamp(t) => Sooner(s) <= Clamp(Sooner(t))
  <1>1. PICK m \in Nat : Times = 0 .. m
    <2>1. Max({MaxDuration, MinInterval}) = IF MaxDuration >= MinInterval THEN MaxDuration ELSE MinInterval
      BY TypeAssumption, GreatestOfTwo
    <2>2. Max({MaxDuration, MinInterval}) \in Nat
      BY <2>1, TypeAssumption
    <2>3. QED BY <2>2 DEF Times
  <1>2. \A t \in Times : Sooner(t) = IF t = 0 THEN 0 ELSE t - 1
    BY ClampTime DEF Sooner
  <1>3. \A t \in Times : Sooner(t) \in Times /\ Sooner(t) \in Nat /\ Sooner(t) <= t
    BY <1>1, <1>2
  <1>4. \A s, t \in Times : s <= t => Sooner(s) <= Sooner(t)
    BY <1>1, <1>2
  <1>5. ASSUME NEW s \in Times, NEW t \in Times, s <= Clamp(t)
        PROVE  Sooner(s) <= Clamp(Sooner(t))
    <2>1. /\ Sooner(t) \in Times /\ MinInterval \in Nat
          /\ Clamp(t) = IF MinInterval >= t THEN MinInterval ELSE t
      BY <1>3, ClampTime
    <2>2. Clamp(Sooner(t)) = IF MinInterval >= Sooner(t) THEN MinInterval ELSE Sooner(t)
      BY <2>1, ClampTime
    <2>3. s \in Nat /\ t \in Nat
      BY ClampTime
    <2>4. PICK a, b : a = Sooner(s) /\ b = Sooner(t)
      OBVIOUS
    <2>5. a = (IF s = 0 THEN 0 ELSE s - 1) /\ b = (IF t = 0 THEN 0 ELSE t - 1)
      BY <1>2, <2>4
    <2>6. a <= IF MinInterval >= b THEN MinInterval ELSE b
      BY <1>5, <2>1, <2>3, <2>5
    <2>7. QED BY <2>2, <2>4, <2>6
  <1>6. Sooner(None) = None
    BY DEF Sooner
  <1>7. QED BY <1>2, <1>3, <1>4, <1>5, <1>6

LEMMA TickStep ==
    ASSUME IInv, Tick
    PROVE  /\ IInv'
           /\ \A i \in Item : GetDuration(item'[i]) <= GetDuration(item[i])
  <1>1. /\ item' = [i \in Item |-> [item[i] EXCEPT !.timestamp = Sooner(@)]]
        /\ decayMap' = {<<Sooner(p[1]), p[2]>> : p \in decayMap}
        /\ event' = Sooner(event) /\ orphans' = {Sooner(t) : t \in orphans}
        /\ batch' = batch /\ checking' = checking
    BY DEF Tick
  <1>2. /\ decayMap \subseteq Pairs /\ event \in Times \cup {None} /\ orphans \subseteq Times
        /\ \A i \in Item : item[i] \in Attributes /\ Own(world, i, batch)
    BY WorldType DEF IInv, TypeOK
  <1>3. ASSUME NEW i \in Item
        PROVE  /\ item'[i] \in Attributes
               /\ item'[i].timestamp = Sooner(item[i].timestamp)
               /\ item'[i].state = item[i].state /\ item'[i].in = item[i].in
               /\ item'[i].duration = item[i].duration
               /\ GetDuration(item'[i]) <= GetDuration(item[i])
               /\ Own(world', i, batch')
    <2>1. PICK x \in Attributes : x = item[i]
      BY <1>2
    <2>2. PICK s \in Times \cup {None} : s = Sooner(x.timestamp)
      BY SoonerTime DEF Attributes
    <2>3. PICK y : y = [x EXCEPT !.timestamp = s]
      OBVIOUS
    <2>4. item'[i] = y
      BY <1>1, <2>1, <2>2, <2>3 DEF Attributes
    <2>5. /\ y \in Attributes /\ y.timestamp = s /\ y.state = x.state /\ y.in = x.in
          /\ y.duration = x.duration
      BY <2>3 DEF Attributes
    <2>6. GetDuration(y) <= GetDuration(x)
      <3>1. GetDuration(x) \in Nat
        BY TimeLeft
      <3>2. CASE x.state \notin {"TRUE", "STOPPING"}
        <4>1. GetDuration(y) = GetDuration(x)
          BY <2>5, <3>2, TimeLeft
        <4>2. QED BY <3>1, <4>1
      <3>3. CASE x.state \in {"TRUE", "STOPPING"} /\ x.timestamp = None
        <4>1. s = None
          BY <2>2, <3>3, SoonerTime
        <4>2. GetDuration(y) = 0
          BY <2>5, <3>3, <4>1, TimeLeft
        <4>3. QED BY <3>1, <4>2
      <3>4. CASE x.state \in {"TRUE", "STOPPING"} /\ x.timestamp # None
        <4>1. x.timestamp \in Times
          BY <3>4 DEF Attributes
        <4>2. s \in Times /\ s <= x.timestamp
          BY <2>2, <4>1, SoonerTime
        <4>3. GetDuration(x) = x.timestamp
          BY <3>4, TimeLeft
        <4>4. GetDuration(y) = s
          BY <2>5, <3>4, <4>2, TimeLeft, ClampTime
        <4>5. QED BY <4>2, <4>3, <4>4
      <3>5. QED BY <3>2, <3>3, <3>4
    <2>7. /\ \A p \in decayMap : p[2] = i => p = <<x.timestamp, i>> /\ x.state # None
          /\ x.state = "TRUE" => i \in batch \/ <<x.timestamp, i>> \in decayMap
          /\ x.state = "STOPPING" => x.duration = None
          /\ x.state # None => x.in
      BY <1>2, <2>1 DEF Own, world
    <2>8. ASSUME NEW q \in decayMap', q[2] = i PROVE q = <<s, i>> /\ x.state # None
      <3>1. PICK p \in decayMap : q = <<Sooner(p[1]), p[2]>>
        BY <1>1, <2>8
      <3>2. p[2] = i
        BY <2>8, <3>1
      <3>3. p = <<x.timestamp, i>> /\ x.state # None
        BY <2>7, <3>2
      <3>4. QED BY <2>2, <3>1, <3>2, <3>3
    <2>9. <<x.timestamp, i>> \in decayMap => <<s, i>> \in decayMap'
      <3>1. ASSUME <<x.timestamp, i>> \in decayMap PROVE <<s, i>> \in decayMap'
        <4>1. PICK p \in decayMap : p = <<x.timestamp, i>>
          BY <3>1
        <4>2. <<Sooner(p[1]), p[2]>> = <<s, i>>
          BY <2>2, <4>1
        <4>3. QED BY <1>1, <4>1, <4>2
      <3>2. QED BY <3>1
    <2>10. world'.item[i] = y /\ world'.map = decayMap'
      BY <2>4 DEF world
    <2>11. Own(world', i, batch')
      BY <1>1, <2>5, <2>7, <2>8, <2>9, <2>10 DEF Own
    <2>12. QED BY <2>1, <2>2, <2>4, <2>5, <2>6, <2>11
  <1>4. /\ decayMap' \subseteq Pairs /\ event' \in Times \cup {None} /\ orphans' \subseteq Times
    <2>1. decayMap' \subseteq Pairs
      BY <1>1, <1>2, SoonerTime DEF Pairs
    <2>2. event' \in Times \cup {None}
      BY <1>1, <1>2, SoonerTime
    <2>3. orphans' \subseteq Times
      BY <1>1, <1>2, SoonerTime
    <2>4. QED BY <2>1, <2>2, <2>3
  <1>5. TypeOK'
    <2>1. item' \in [Item -> Attributes]
      <3>1. DOMAIN item' = Item /\ item' = [i \in Item |-> item'[i]]
        BY <1>1
      <3>2. QED BY <1>3, <3>1
    <2>2. batch' \subseteq Item /\ checking' \in BOOLEAN /\ (batch' # {} => checking')
      BY <1>1 DEF IInv, TypeOK
    <2>3. QED BY <1>4, <2>1, <2>2 DEF TypeOK, Attributes
  <1>6. AllOwn'
    <2>1. \A i \in Item : Own(world', i, batch')
      BY <1>3
    <2>2. QED BY <2>1 DEF AllOwn, Own
  <1>7. EventReady'
    <2>1. SUFFICES ASSUME ~checking', decayMap' # {}
                   PROVE  \E t \in orphans' \cup ({event'} \ {None}) : t <= Clamp(First(decayMap'))
      BY DEF EventReady, InTime, world
    <2>2. ~checking /\ decayMap # {}
      BY <1>1, <2>1
    <2>3. InTime(world)
      BY <2>2 DEF IInv, EventReady
    <2>4. PICK t \in orphans \cup ({event} \ {None}) : t <= Clamp(First(decayMap))
      BY <2>2, <2>3 DEF InTime, world
    <2>5. t \in Times
      BY <1>2, <2>4
    <2>6. Sooner(t) \in orphans' \cup ({event'} \ {None})
      BY <1>1, <2>4, <2>5, SoonerTime, ClampTime
    <2>7. First(decayMap) \in Times /\ \A p \in decayMap : First(decayMap) <= p[1]
      BY <1>2, <2>2, FirstOfMap
    <2>8. First(decayMap') \in Times /\ \E q \in decayMap' : First(decayMap') = q[1]
      BY <1>4, <2>1, FirstOfMap
    <2>9. PICK p \in decayMap : First(decayMap') = Sooner(p[1])
      <3>1. PICK q \in decayMap' : First(decayMap') = q[1]
        BY <2>8
      <3>2. PICK p \in decayMap : q = <<Sooner(p[1]), p[2]>>
        BY <1>1, <3>1
      <3>3. q[1] = Sooner(p[1])
        BY <3>2
      <3>4. QED BY <3>1, <3>3
    <2>10. p[1] \in Times
      BY <1>2 DEF Pairs
    <2>11. Sooner(First(decayMap)) <= First(decayMap') /\ Sooner(First(decayMap)) \in Times
      BY <2>7, <2>9, <2>10, SoonerTime
    <2>12. Sooner(t) <= Clamp(Sooner(First(decayMap))) /\ Sooner(t) \in Nat
      BY <2>4, <2>5, <2>7, SoonerTime
    <2>13. Sooner(t) <= Clamp(First(decayMap'))
      BY <2>8, <2>11, <2>12, ClampMono
    <2>14. QED BY <2>6, <2>13
  <1>8. QED BY <1>3, <1>5, <1>6, <1>7 DEF IInv

-----------------------------------------------------------------------------
(***************************************************************************)
(* The theorems.                                                           *)
(***************************************************************************)
LEMMA InitHolds ==
    ASSUME Init
    PROVE  IInv
  <1>1. Released \in Attributes /\ Released.state = None
    BY ReleasedType
  <1>2. /\ item = [i \in Item |-> Released] /\ decayMap = {} /\ event = None /\ orphans = {}
        /\ batch = {} /\ checking = FALSE
    BY DEF Init
  <1>3. item \in [Item -> Attributes] /\ \A i \in Item : item[i].state = None
    BY <1>1, <1>2
  <1>4. TypeOK
    BY <1>2, <1>3 DEF TypeOK, Attributes
  <1>5. AllOwn
    BY <1>2, <1>3, StatesDiffer DEF AllOwn, Own, world
  <1>6. EventReady
    BY <1>2 DEF EventReady, InTime, world
  <1>7. QED BY <1>4, <1>5, <1>6 DEF IInv

\* Every step keeps the invariant, and gives no item time that it did not have.
LEMMA NextHolds ==
    ASSUME IInv, Next
    PROVE  /\ IInv'
           /\ \A i \in Item :
                 item[i].in /\ item'[i].in /\ SameTime(item[i], item'[i]) /\ i \notin batch =>
                     \/ GetDuration(item'[i]) <= GetDuration(item[i])
                     \/ \E d \in 0 .. MaxDuration, late \in Late : SetDuration(i, d, late)
  <1> DEFINE Gives(i) ==
        item[i].in /\ item'[i].in /\ SameTime(item[i], item'[i]) /\ i \notin batch =>
            \/ GetDuration(item'[i]) <= GetDuration(item[i])
            \/ \E d \in 0 .. MaxDuration, late \in Late : SetDuration(i, d, late)
  <1>1. ASSUME NEW i \in Item, item'[i] = item[i] PROVE Gives(i)
    <2>1. GetDuration(item[i]) \in Nat
      BY WorldType, TimeLeft
    <2>2. QED BY <1>1, <2>1
  <1>2. ASSUME NEW i \in Item, Gives(i), \A j \in Item \ {i} : item'[j] = item[j]
        PROVE  \A j \in Item : Gives(j)
    BY <1>1, <1>2
  <1>3. ASSUME NEW i \in Item, Keeps(i) PROVE Gives(i)
    BY <1>3 DEF Keeps
  <1> HIDE DEF Gives
  <1>4. ASSUME NEW i \in Item, Script(i) PROVE IInv' /\ \A j \in Item : Gives(j)
    <2>1. ASSUME NEW late \in Late, NEW t \in Type, Create(i, t, late)
          PROVE  IInv' /\ \A j \in Item : Gives(j)
      BY <1>2, <1>3, <2>1, CreateStep
    <2>2. ASSUME NEW late \in Late, NEW t \in Type, Transform(i, t, late)
          PROVE  IInv' /\ \A j \in Item : Gives(j)
      BY <1>2, <1>3, <2>2, TransformStep
    <2>3. ASSUME NEW late \in Late, NEW d \in 0 .. MaxDuration, SetDuration(i, d, late)
          PROVE  IInv' /\ \A j \in Item : Gives(j)
      <3>1. Gives(i)
        BY <2>3 DEF Gives
      <3>2. QED BY <1>2, <2>3, <3>1, SetDurationStep
    <2>4. ASSUME NEW late \in Late, NEW on \in BOOLEAN, SetDecayState(i, on, late)
          PROVE  IInv' /\ \A j \in Item : Gives(j)
      BY <1>2, <1>3, <2>4, SetDecayStateStep
    <2>5. ASSUME Remove(i) PROVE IInv' /\ \A j \in Item : Gives(j)
      BY <1>2, <1>3, <2>5, RemoveStep
    <2>6. ASSUME RemoveDuration(i) PROVE IInv' /\ \A j \in Item : Gives(j)
      BY <1>2, <1>3, <2>6, RemoveDurationStep
    <2>7. QED BY <1>4, <2>1, <2>2, <2>3, <2>4, <2>5, <2>6 DEF Script
  <1>5. ASSUME Check PROVE IInv' /\ \A j \in Item : Gives(j)
    <2>1. CASE CheckDecay
      <3>1. IInv' /\ item' = item
        BY <2>1, CheckDecayStep
      <3>2. QED BY <1>1, <3>1
    <2>2. ASSUME NEW late \in Late, EndCheck(late) PROVE IInv' /\ \A j \in Item : Gives(j)
      <3>1. IInv' /\ item' = item
        BY <2>2, EndCheckStep
      <3>2. QED BY <1>1, <3>1
    <2>3. ASSUME NEW late \in Late, NEW i \in Item, ProcessDecayBatch(i, late)
          PROVE  IInv' /\ \A j \in Item : Gives(j)
      <3>1. IInv' /\ i \in batch /\ \A j \in Item \ {i} : item'[j] = item[j]
        BY <2>3, ProcessDecayBatchStep
      <3>2. Gives(i)
        BY <3>1 DEF Gives
      <3>3. QED BY <1>2, <3>1, <3>2
    <2>4. QED BY <1>5, <2>1, <2>2, <2>3 DEF Check
  <1>6. ASSUME Tick PROVE IInv' /\ \A j \in Item : Gives(j)
    <2>1. IInv' /\ \A i \in Item : GetDuration(item'[i]) <= GetDuration(item[i])
      BY <1>6, TickStep
    <2>2. QED BY <2>1 DEF Gives
  <1>7. IInv' /\ \A j \in Item : Gives(j)
    BY <1>4, <1>5, <1>6 DEF Next
  <1>8. QED BY <1>7 DEF Gives

LEMMA StutterHolds ==
    ASSUME IInv, UNCHANGED vars
    PROVE  IInv'
  BY DEF IInv, TypeOK, AllOwn, EventReady, Own, InTime, world, vars

(***************************************************************************)
(* The inductive invariant of the decay schedule.                          *)
(***************************************************************************)
THEOREM Invariance == Spec => []IInv
  <1>1. Init => IInv
    BY InitHolds
  <1>2. IInv /\ [Next]_vars => IInv'
    BY NextHolds, StutterHolds
  <1>3. QED BY <1>1, <1>2, PTL DEF Spec

(***************************************************************************)
(* Attributes, timestamps and events stay what they are, whatever scripts  *)
(* and batches do.                                                         *)
(***************************************************************************)
THEOREM TypeCorrect == Spec => []TypeOK
  <1>1. IInv => TypeOK
    BY DEF IInv
  <1>2. QED BY <1>1, Invariance, PTL

(***************************************************************************)
(* What decays is in decayMap once, under its timestamp, or in the batch;  *)
(* and while anything is in decayMap an event of checkDecay comes in time. *)
(* Neither depends on how many events stopEvent missed.                    *)
(***************************************************************************)
THEOREM ScheduleIsExact == Spec => []ScheduleExact
  <1>1. IInv => MapExact
    <2>1. SUFFICES ASSUME IInv PROVE MapExact
      OBVIOUS
    <2>2. decayMap \subseteq Pairs /\ \A i \in Item : Own(world, i, batch)
      BY <2>1 DEF IInv, AllOwn, TypeOK
    <2>3. ASSUME NEW p \in decayMap
          PROVE  /\ item[p[2]].state # None /\ item[p[2]].timestamp = p[1]
                 /\ item[p[2]].in
      <3>1. PICK i \in Item : i = p[2]
        BY <2>2 DEF Pairs
      <3>2. p = <<item[i].timestamp, i>> /\ item[i].state # None /\ item[i].in
        BY <2>2, <3>1 DEF Own, world
      <3>3. QED BY <3>1, <3>2
    <2>4. ASSUME NEW i \in Item, item[i].state = "TRUE"
          PROVE  i \in batch \/ \E p \in decayMap : p[2] = i
      <3>1. i \in batch \/ <<item[i].timestamp, i>> \in decayMap
        BY <2>2, <2>4 DEF Own, world
      <3>2. QED BY <3>1
    <2>5. QED BY <2>3, <2>4 DEF MapExact
  <1>2. IInv => EventInTime
    BY DEF IInv, EventReady, InTime, world, EventInTime
  <1>3. QED BY <1>1, <1>2, Invariance, PTL DEF ScheduleExact

(***************************************************************************)
(* Stopping, starting and unlighting never give an item more time: only a  *)
(* script that sets its duration does.                                     *)
(***************************************************************************)
THEOREM TimeIsNotGained == Spec => NoTimeGained
  <1>1. IInv /\ Next =>
            \A i \in Item :
                item[i].in /\ item'[i].in /\ SameTime(item[i], item'[i]) /\ i \notin batch =>
                    \/ GetDuration(item'[i]) <= GetDuration(item[i])
                    \/ \E d \in 0 .. MaxDuration, late \in Late : SetDuration(i, d, late)
    BY NextHolds
  <1>2. QED BY <1>1, Invariance, PTL DEF Spec, NoTimeGained
=============================================================================
