----------------------------- MODULE Containers -----------------------------
(***************************************************************************)
(* Items in containers (src/src/container.cpp) and the operations of       *)
(* src/src/game.cpp that move, add and remove them.                        *)
(*                                                                         *)
(* A stack is its kind and its count: which object of the program it is    *)
(* follows from its place.  Containers are items as well, they nest and    *)
(* keep the weight of all they hold.  All runs on the dispatcher thread,   *)
(* one operation is one step; a refusal leaves everything as it was.       *)
(* Tiles and inventory slots are not modelled, the outermost containers    *)
(* stand where they are; rights, corpses and script callbacks can only     *)
(* refuse an operation.                                                    *)
(***************************************************************************)
EXTENDS Integers, Sequences, FiniteSets, SequencesExt, FiniteSetsExt

CONSTANTS
    Outer,      \* containers on a tile or in a slot
    Bag,        \* containers that can be put into others
    Unlimited,  \* the ones without hasCapacityLimit: depot chest, inbox, gold pouch
    capacity,   \* Container::capacity()
    Kind,       \* stackable item types
    StackSize,  \* Item::getStackSize()
    Virtual, Gone, World, \* no container: VirtualCylinder, nullptr, tile or slot
    MaxUnits    \* bound: units of items in the model

Container == Outer \cup Bag
Stack == [kind : Kind, count : 1 .. StackSize]

ASSUME SizeAssumption ==
    /\ IsFiniteSet(Container) /\ IsFiniteSet(Kind)
    /\ Outer \cap Bag = {} /\ Stack \cap Bag = {} /\ Unlimited \subseteq Container
    /\ capacity \in [Container -> 1 .. 253]
    /\ StackSize \in Nat \ {0} /\ MaxUnits \in Nat
    /\ {Virtual, Gone, World} \cap Container = {} /\ Cardinality({Virtual, Gone, World}) = 3

VARIABLES
    itemlist,    \* Container::itemlist, front first
    parent,      \* Item::parent of a container
    totalWeight, \* Container::totalWeight
    ledger       \* history: units that callers added less those they removed

vars == <<itemlist, parent, totalWeight, ledger>>

\* The sum of the values of f, as the number of pairs below its graph.
Total(f) == Cardinality(UNION {{i} \X (1 .. f[i]) : i \in DOMAIN f})

IsStack(x) == x \notin Bag
Wherever == -1   \* INDEX_WHEREEVER
MoveUp == 254

TypeOK ==
    /\ itemlist \in [Container -> Seq(Stack \cup Bag)]
    /\ parent \in [Container -> Container \cup {Virtual, Gone, World}]
    /\ totalWeight \in [Container -> Nat]
    /\ ledger \in [Kind -> 0 .. MaxUnits]

Init ==
    /\ itemlist = [c \in Container |-> <<>>]
    /\ parent = [c \in Container |-> IF c \in Outer THEN World ELSE Virtual]
    /\ totalWeight = [c \in Container |-> 0]
    /\ ledger = [k \in Kind |-> 0]

-----------------------------------------------------------------------------
(***************************************************************************)
(* The primitives of Container change a tree [list, up, weight].           *)
(***************************************************************************)
tree == [list |-> itemlist, up |-> parent, weight |-> totalWeight]

\* With a container, the one it is in.
Closed(up, S) == \A d \in S : up[d] \in Container => up[d] \in S

\* c and the containers it is in, those that the walk over getParent finds: the
\* least set with c that is closed
Chain(up, c) ==
    {d \in Container : \A S \in SUBSET Container : c \in S /\ Closed(up, S) => d \in S}

\* Item::getWeight and Container::getWeight, with base weight 1
Weight(t, x) == IF IsStack(x) THEN x.count ELSE 1 + t.weight[x]

\* slip: the containers around c keep their weight
SlipUpdateItemWeight(t, c, diff) == [t EXCEPT !.weight[c] = @ + diff]

UpdateItemWeight(t, c, diff) ==
    LET above == Chain(t.up, c)
    IN  [t EXCEPT !.weight = [d \in Container |-> IF d \in above THEN @[d] + diff ELSE @[d]]]

\* s becomes the list of c, and p the parent of x if x is a container.
Relist(t, c, s, x, p) ==
    [list   |-> [t.list EXCEPT ![c] = s],
     up     |-> IF IsStack(x) THEN t.up ELSE [t.up EXCEPT ![x] = p],
     weight |-> t.weight]

\* Container::addThing(index, x): an index past the capacity is dropped.
AddThing(t, c, index, x) ==
    IF index >= capacity[c] THEN t
    ELSE UpdateItemWeight(Relist(t, c, <<x>> \o t.list[c], x, c), c, Weight(t, x))

\* Container::updateThing, with a new count
UpdateThing(t, c, j, count) ==
    UpdateItemWeight([t EXCEPT !.list[c][j].count = count], c, count - t.list[c][j].count)

\* Container::removeThing
\* slip: a container takes its weight along only after it has left
SlipRemoveThing(t, c, j, count) ==
    LET x == t.list[c][j]
    IN  IF IsStack(x) /\ count # x.count THEN UpdateThing(t, c, j, x.count - count)
        ELSE LET r == Relist(t, c, RemoveAt(t.list[c], j), x, Gone)
             IN  IF IsStack(x) THEN UpdateItemWeight(r, c, 0 - x.count) ELSE r

RemoveThing(t, c, j, count) ==
    LET x == t.list[c][j]
    IN  IF IsStack(x) /\ count # x.count THEN UpdateThing(t, c, j, x.count - count)
        ELSE Relist(UpdateItemWeight(t, c, 0 - Weight(t, x)), c, RemoveAt(t.list[c], j), x, Gone)

-----------------------------------------------------------------------------
(***************************************************************************)
(* What Container is asked before an item enters it.  The item is x, and   *)
(* own is its position in c, or 0 when it comes from elsewhere.            *)
(***************************************************************************)
Partial(c, x, j) ==
    LET y == itemlist[c][j]
    IN  IsStack(x) /\ IsStack(y) /\ y.kind = x.kind /\ y.count < StackSize

\* the stacks of c that x could be merged into
Mergeable(c, x, own) == {j \in DOMAIN itemlist[c] : j # own /\ Partial(c, x, j)}

Room(c, S) == Total([j \in S |-> StackSize - itemlist[c][j].count])

GetFreeSlotsFor(c, x, own, count) ==
    Max({0, capacity[c] - Len(itemlist[c])})
        + IF own > 0 /\ (~IsStack(x) \/ count >= x.count) THEN 1 ELSE 0

HasRoomForItem(c, x, own, index, count) ==
    \/ c \in Unlimited
    \/ GetFreeSlotsFor(c, x, own, count) > 0
    \/ IF index = Wherever THEN Mergeable(c, x, own) # {}
       ELSE index + 1 \in Mergeable(c, x, own)

QueryAdd(c, x, own, index, count) ==
    /\ ~IsStack(x) => x \notin Chain(parent, c)
    /\ HasRoomForItem(c, x, own, index, count)

\* slip: the stack that moves counts as room for itself
SlipQueryMaxCount(c, x, own, index, count) ==
    IF c \in Unlimited THEN Max({1, count})
    ELSE LET free == GetFreeSlotsFor(c, x, own, count)
         IN  IF IsStack(x) THEN (free + 1) * StackSize + Room(c, Mergeable(c, x, own)) ELSE free

QueryMaxCount(c, x, own, index, count) ==
    IF c \in Unlimited THEN Max({1, count})
    ELSE LET free == GetFreeSlotsFor(c, x, own, count)
             into == IF index = Wherever THEN Mergeable(c, x, own)
                     ELSE {index + 1} \cap Mergeable(c, x, own)
         IN  IF IsStack(x) THEN free * StackSize + Room(c, into) ELSE free

\* Container::queryDestination, asked until it answers itself: the container,
\* the index and the position of toItem, 0 for none.
Settle(c, x, own, index, dest) ==
    LET into == Mergeable(c, x, 0)
    IN  IF own = 0 /\ into # {} /\ dest \notin into
        THEN [to |-> c, index |-> Min(into) - 1, toItem |-> Min(into)]
        ELSE [to |-> c, index |-> index, toItem |-> dest]

Own(at, j, c) == IF at = c THEN j ELSE 0

QueryDestination(at, j, c, index) ==
    LET x == itemlist[at][j]
    IN  IF index = MoveUp
        THEN LET d == IF parent[c] \in Container THEN parent[c] ELSE c
             IN  Settle(d, x, Own(at, j, d), Wherever, 0)
        ELSE IF index >= capacity[c] \/ index + 1 \notin DOMAIN itemlist[c]
        THEN Settle(c, x, Own(at, j, c), IF index >= capacity[c] THEN Wherever ELSE index, 0)
        ELSE LET y == itemlist[c][index + 1]
             IN  IF IsStack(y) THEN Settle(c, x, Own(at, j, c), index, index + 1)
                 ELSE Settle(y, x, Own(at, j, y), Wherever, 0)

-----------------------------------------------------------------------------
Alive(c) == parent[c] # Gone

Become(t) == itemlist' = t.list /\ parent' = t.up /\ totalWeight' = t.weight

\* What internalMoveItem does once nothing refuses: m of the item at position j
\* of at go to d.to, as much of it as fits into toItem, the rest as a stack of its
\* own.  A stack before toItem that leaves the same container shifts it.
Moved(at, j, d, m) ==
    LET x == itemlist[at][j]
        t == RemoveThing(tree, at, j, m)
        shift == IF at = d.to /\ j < d.toItem /\ IsStack(x) /\ m = x.count THEN 1 ELSE 0
        dest == d.toItem - shift
        n == IF IsStack(x) /\ d.toItem > 0 /\ IsStack(itemlist[d.to][d.toItem])
                  /\ itemlist[d.to][d.toItem].kind = x.kind
             THEN Min({StackSize - itemlist[d.to][d.toItem].count, m}) ELSE 0
        u == IF n > 0 THEN UpdateThing(t, d.to, dest, t.list[d.to][dest].count + n) ELSE t
    IN  IF ~IsStack(x) THEN AddThing(u, d.to, d.index, x)
        ELSE IF m > n THEN AddThing(u, d.to, d.index, [x EXCEPT !.count = m - n]) ELSE u

\* Game::internalMoveItem
MoveItem(at, j, c, index, count) ==
    LET x == itemlist[at][j]
        d == QueryDestination(at, j, c, index)
        own == Own(at, j, d.to)
        max == QueryMaxCount(d.to, x, own, d.index, count)
        m == IF IsStack(x) THEN Min({count, max}) ELSE max
    IN  /\ Alive(at) /\ Alive(c)
        /\ ~(d.to = at /\ d.toItem = j)
        /\ QueryAdd(d.to, x, own, d.index, count)
        /\ max > 0
        /\ IsStack(x) => m <= x.count
        /\ Become(Moved(at, j, d, m))
        /\ UNCHANGED ledger

\* Units that reach the stack at position j when n units are added to c: what
\* the stacks before it have no room for.
\* slip: every stack is offered all of it
SlipReaches(c, x, j) == x.count

Reaches(c, x, j) ==
    Max({0, x.count - Room(c, {i \in Mergeable(c, x, 0) : i < j})})

\* internalAddItem and the calls of itself for what remains: the stacks of the
\* kind are filled in order, the rest becomes a new one.
Added(c, x) ==
    LET into == Mergeable(c, x, 0)
        rest == Max({0, x.count - Room(c, into)})
        filled == [j \in DOMAIN itemlist[c] |->
            IF j \in into
            THEN [itemlist[c][j] EXCEPT !.count = Min({StackSize, @ + Reaches(c, x, j)})]
            ELSE itemlist[c][j]]
        t == UpdateItemWeight([tree EXCEPT !.list[c] = filled], c, x.count - rest)
    IN  IF rest > 0 THEN AddThing(t, c, Wherever, [x EXCEPT !.count = rest]) ELSE t

\* Game::internalAddItem with a new stack and INDEX_WHEREEVER, as the server calls it
AddItem(c, k, n) ==
    LET x == [kind |-> k, count |-> n]
        d == Settle(c, x, 0, Wherever, 0)
    IN  /\ Alive(c) /\ Total(ledger) + n <= MaxUnits
        /\ QueryAdd(c, x, 0, d.index, n)
        /\ QueryMaxCount(c, x, 0, Wherever, n) >= n
        /\ Become(Added(c, x))
        /\ ledger' = [ledger EXCEPT ![k] = @ + n]

\* internalAddItem with a container that a script made, and may have filled
AddBag(c, b) ==
    /\ Alive(c) /\ parent[b] = Virtual
    /\ QueryAdd(c, b, 0, Wherever, 1)
    /\ QueryMaxCount(c, b, 0, Wherever, 1) > 0
    /\ Become(AddThing(tree, c, Wherever, b))
    /\ UNCHANGED ledger

Count(x, k) == IF IsStack(x) /\ x.kind = k THEN x.count ELSE 0
Units(s, k) == Total([j \in DOMAIN s |-> Count(s[j], k)])
UnitsIn(S, k) == Total([c \in S |-> Units(itemlist[c], k)])

\* Game::internalRemoveItem; a container is released with all it holds.
RemoveItem(c, j, count) ==
    LET x == itemlist[c][j]
        t == RemoveThing(tree, c, j, count)
        inside == IF IsStack(x) THEN {} ELSE {d \in Container : x \in Chain(parent, d)}
    IN  /\ Alive(c)
        /\ IsStack(x) => count <= x.count
        /\ Become([list   |-> [d \in Container |-> IF d \in inside THEN <<>> ELSE t.list[d]],
                   up     |-> [d \in Container |-> IF d \in inside THEN Gone ELSE t.up[d]],
                   weight |-> [d \in Container |-> IF d \in inside THEN 0 ELSE t.weight[d]]])
        /\ ledger' = [k \in Kind |->
              ledger[k] - IF ~IsStack(x) THEN UnitsIn(inside, k)
                          ELSE Count([x EXCEPT !.count = count], k)]

\* Places behind the last item are alike, one of them is enough.
Indexes(c) == {Wherever, MoveUp} \cup 0 .. Min({capacity[c] - 1, Len(itemlist[c])})

\* A client may ask for more than there is; a bag is moved as a whole.
Counts(x) == IF IsStack(x) THEN 1 .. StackSize ELSE {1}

Next ==
    \/ \E c \in Container, k \in Kind, n \in 1 .. StackSize : AddItem(c, k, n)
    \/ \E c \in Container, b \in Bag : AddBag(c, b)
    \/ \E at, c \in Container : \E j \in DOMAIN itemlist[at], index \in Indexes(c) :
          \E count \in Counts(itemlist[at][j]) : MoveItem(at, j, c, index, count)
    \/ \E c \in Container : \E j \in DOMAIN itemlist[c] :
          \E count \in Counts(itemlist[c][j]) : RemoveItem(c, j, count)

Spec == Init /\ [][Next]_vars

-----------------------------------------------------------------------------
(***************************************************************************)
(* Containers form a forest that both sides agree on: a bag is in the list *)
(* of its parent, once, and in no other, and never inside itself.          *)
(***************************************************************************)
ForestAgrees ==
    /\ \A b \in Bag, c \in Container :
          LET at == {j \in DOMAIN itemlist[c] : itemlist[c][j] = b}
          IN  IF parent[b] = c THEN \E j \in DOMAIN itemlist[c] : at = {j} ELSE at = {}
    /\ \A b \in Bag : parent[b] \in Container => b \notin Chain(parent, parent[b])

(***************************************************************************)
(* The weight a container keeps is that of its contents, however deep a    *)
(* change of them was: it decides what a player may still pick up.         *)
(***************************************************************************)
WeightExact ==
    \A c \in Container :
        totalWeight[c] = Total([j \in DOMAIN itemlist[c] |-> Weight(tree, itemlist[c][j])])

(***************************************************************************)
(* Both together: the containers are trees, and the numbers kept in them   *)
(* agree with what hangs below.                                            *)
(***************************************************************************)
TreeExact == ForestAgrees /\ WeightExact

(***************************************************************************)
(* Nothing is lost and nothing doubled: what is in the containers is what  *)
(* callers were told has been added, less what they removed.  Splits and   *)
(* merges of stacks, and merges that leave a remainder, keep every unit.   *)
(***************************************************************************)
LedgerExact == \A k \in Kind : UnitsIn(Container, k) = ledger[k]

(***************************************************************************)
(* A container with a capacity is never filled beyond it from outside.     *)
(* (It can be by splitting one of its own stacks: hasRoomForItem accepts   *)
(* the part because it could be merged, queryDestination then does not     *)
(* look for a stack to merge it into.)                                     *)
(***************************************************************************)
NotOverfilled ==
    [][\A c \in Container \ Unlimited :
          Len(itemlist'[c]) > Max({capacity[c], Len(itemlist[c])}) =>
              /\ \A k \in Kind : Units(itemlist[c], k) = Units(itemlist'[c], k)
              /\ {b \in Bag : parent[b] = c} = {b \in Bag : parent'[b] = c}]_vars
=============================================================================
