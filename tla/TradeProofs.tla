----------------------------- MODULE TradeProofs -----------------------------
(***************************************************************************)
(* Proofs about Trade, for any players, items and squares.                 *)
(*                                                                         *)
(* The first part is about containment: what lies around an item is a      *)
(* chain that ends in a player, on a square or nowhere, as long as no set  *)
(* of items lies inside itself (NoTrap).  The second part is about trades. *)
(***************************************************************************)
EXTENDS Trade, TLAPS

Place == Player \cup Container \cup Spot \cup {Nowhere}

\* Item i and the items around it; what it is in; the outermost of that.
Chain(at, i) == Pact!Around(at, i)
Up(at, i) == {at[c] : c \in Chain(at, i)}
Top(at, i) == CHOOSE t \in Up(at, i) : t \notin Item

\* No items lie only in each other.
NoTrap(at) == \A S \in SUBSET Item : S # {} => \E x \in S : at[x] \notin S

Closed(at, S) == \A x \in S : at[x] \in Item => at[x] \in S

-----------------------------------------------------------------------------
(***************************************************************************)
(* Containment.                                                            *)
(***************************************************************************)
LEMMA ChainClosed ==
    ASSUME NEW at, NEW i \in Item
    PROVE  i \in Chain(at, i) /\ Chain(at, i) \subseteq Item /\ Closed(at, Chain(at, i))
  BY DEF Chain, Pact!Around, Closed

LEMMA ChainLeast ==
    ASSUME NEW at, NEW i \in Item, NEW S \in SUBSET Item, i \in S, Closed(at, S)
    PROVE  Chain(at, i) \subseteq S
  BY DEF Chain, Pact!Around, Closed

LEMMA ChainTransitive ==
    ASSUME NEW at, NEW i \in Item, NEW c \in Chain(at, i)
    PROVE  c \in Item /\ Chain(at, c) \subseteq Chain(at, i) /\ Up(at, c) \subseteq Up(at, i)
  <1>1. c \in Item /\ Chain(at, i) \in SUBSET Item /\ Closed(at, Chain(at, i))
    BY ChainClosed
  <1>2. Chain(at, c) \subseteq Chain(at, i)
    BY <1>1, ChainLeast
  <1>3. QED BY <1>1, <1>2 DEF Up

\* One step up the chain.
LEMMA ChainUnfold ==
    ASSUME NEW at, NEW i \in Item
    PROVE  /\ at[i] \in Item => Chain(at, i) = {i} \cup Chain(at, at[i])
           /\ at[i] \notin Item => Chain(at, i) = {i}
  <1>1. i \in Chain(at, i) /\ Chain(at, i) \subseteq Item /\ Closed(at, Chain(at, i))
    BY ChainClosed
  <1>2. ASSUME at[i] \in Item PROVE Chain(at, i) = {i} \cup Chain(at, at[i])
    <2>1. PICK c \in Item : c = at[i]
      BY <1>2
    <2>2. c \in Chain(at, c) /\ Chain(at, c) \subseteq Item /\ Closed(at, Chain(at, c))
      BY ChainClosed
    <2>3. {i} \cup Chain(at, c) \in SUBSET Item /\ Closed(at, {i} \cup Chain(at, c))
      BY <2>1, <2>2 DEF Closed
    <2>4. Chain(at, i) \subseteq {i} \cup Chain(at, c)
      BY <2>3, ChainLeast
    <2>5. c \in Chain(at, i)
      BY <1>1, <2>1 DEF Closed
    <2>6. Chain(at, c) \subseteq Chain(at, i)
      BY <2>5, ChainTransitive
    <2>7. QED BY <1>1, <2>1, <2>4, <2>6
  <1>3. ASSUME at[i] \notin Item PROVE Chain(at, i) = {i}
    <2>1. Closed(at, {i})
      BY <1>3 DEF Closed
    <2>2. QED BY <1>1, <2>1, ChainLeast
  <1>4. QED BY <1>2, <1>3

\* The items above i are those of its chain but i.
LEMMA ChainUp ==
    ASSUME NEW at, NEW i \in Item
    PROVE  /\ at[i] \in Up(at, i)
           /\ \A c \in Item : c \in Up(at, i) => c \in Chain(at, i)
           /\ \A c \in Chain(at, i) : c = i \/ c \in Up(at, i)
           /\ at[i] \in Item => Up(at, i) = {at[i]} \cup Up(at, at[i])
           /\ at[i] \notin Item => Up(at, i) = {at[i]}
  <1>1. i \in Chain(at, i) /\ Chain(at, i) \subseteq Item /\ Closed(at, Chain(at, i))
    BY ChainClosed
  <1>2. \A c \in Item : c \in Up(at, i) => c \in Chain(at, i)
    BY <1>1 DEF Closed, Up
  <1>3. PICK S : S = {i} \cup {c \in Item : c \in Up(at, i)}
    OBVIOUS
  <1>4. S \in SUBSET Item /\ i \in S /\ Closed(at, S)
    BY <1>1, <1>2, <1>3 DEF Closed, Up
  <1>5. Chain(at, i) \subseteq S
    BY <1>4, ChainLeast
  <1>6. at[i] \in Up(at, i)
    BY <1>1 DEF Up
  <1>7. at[i] \in Item => Up(at, i) = {at[i]} \cup Up(at, at[i])
    BY ChainUnfold DEF Up
  <1>8. at[i] \notin Item => Up(at, i) = {at[i]}
    BY ChainUnfold DEF Up
  <1>9. QED BY <1>2, <1>3, <1>5, <1>6, <1>7, <1>8

\* Of two items around a third one, one is around the other.
LEMMA ChainLinear ==
    ASSUME NEW at, NEW i \in Item, NEW x \in Chain(at, i), NEW y \in Chain(at, i)
    PROVE  x \in Chain(at, y) \/ y \in Chain(at, x)
  <1>1. PICK T : T = {z \in Item : x \in Chain(at, z) \/ z \in Chain(at, x)}
    OBVIOUS
  <1>2. x \in Item /\ x \in Chain(at, x) /\ Closed(at, Chain(at, x))
    BY ChainClosed
  <1>3. ASSUME NEW z \in T, at[z] \in Item PROVE at[z] \in T
    <2>1. z \in Item
      BY <1>1
    <2>2. CASE z \in Chain(at, x)
      <3>1. at[z] \in Chain(at, x)
        BY <1>2, <1>3, <2>2 DEF Closed
      <3>2. QED BY <1>1, <1>3, <3>1
    <2>3. CASE x \in Chain(at, z) /\ z \notin Chain(at, x)
      <3>1. x # z
        BY <1>2, <2>3
      <3>2. x \in Chain(at, at[z])
        BY <1>3, <2>1, <2>3, <3>1, ChainUnfold
      <3>3. QED BY <1>1, <1>3, <3>2
    <2>4. QED BY <1>1, <2>2, <2>3
  <1>4. T \in SUBSET Item /\ i \in T /\ Closed(at, T)
    BY <1>1, <1>3 DEF Closed
  <1>5. Chain(at, i) \subseteq T
    BY <1>4, ChainLeast
  <1>6. QED BY <1>1, <1>5

\* A chain has one end.
LEMMA TopUnique ==
    ASSUME NEW at, NoTrap(at), NEW i \in Item
    PROVE  /\ Top(at, i) \in Up(at, i) /\ Top(at, i) \notin Item
           /\ \A t \in Up(at, i) : t \notin Item => t = Top(at, i)
  <1>1. i \in Chain(at, i) /\ Chain(at, i) \subseteq Item /\ Closed(at, Chain(at, i))
    BY ChainClosed
  <1>2. PICK x \in Chain(at, i) : at[x] \notin Chain(at, i)
    BY <1>1 DEF NoTrap
  <1>3. at[x] \in Up(at, i) /\ at[x] \notin Item
    BY <1>1, <1>2 DEF Closed, Up
  <1>4. Top(at, i) \in Up(at, i) /\ Top(at, i) \notin Item
    BY <1>3 DEF Top
  <1>5. ASSUME NEW t \in Up(at, i), t \notin Item PROVE t = at[x]
    <2>1. PICK y \in Chain(at, i) : t = at[y]
      BY <1>5 DEF Up
    <2>2. Chain(at, x) = {x} /\ Chain(at, y) = {y}
      BY <1>1, <1>3, <1>5, <2>1, ChainUnfold
    <2>3. x = y
      BY <2>2, ChainLinear
    <2>4. QED BY <2>1, <2>3
  <1>6. QED BY <1>4, <1>5

\* An item and one around it have the same end.
LEMMA TopShared ==
    ASSUME NEW at, NoTrap(at), NEW i \in Item, NEW c \in Chain(at, i)
    PROVE  Top(at, c) = Top(at, i)
  <1>1. c \in Item /\ Up(at, c) \subseteq Up(at, i)
    BY ChainTransitive
  <1>2. Top(at, c) \in Up(at, c) /\ Top(at, c) \notin Item
    BY <1>1, TopUnique
  <1>3. QED BY <1>1, <1>2, TopUnique

\* Nothing lies in itself.
LEMMA NotAboveItself ==
    ASSUME NEW at, NoTrap(at), NEW i \in Item
    PROVE  i \notin Up(at, i)
  <1>1. SUFFICES ASSUME i \in Up(at, i) PROVE FALSE
    OBVIOUS
  <1>2. i \in Chain(at, i) /\ Chain(at, i) \subseteq Item
    BY ChainClosed
  <1>3. at[i] \in Item
    BY <1>1, ChainUp
  <1>4. i \in Chain(at, at[i])
    <2>1. i = at[i] \/ i \in Up(at, at[i])
      BY <1>1, <1>3, ChainUp
    <2>2. QED BY <1>3, <2>1, ChainUp, ChainClosed
  <1>5. PICK T : T = {z \in Item : i \in Chain(at, z)}
    OBVIOUS
  <1>6. ASSUME NEW z \in T, at[z] \in Item PROVE at[z] \in T
    <2>1. z \in Item /\ (i = z \/ i \in Chain(at, at[z]))
      BY <1>5, <1>6, ChainUnfold
    <2>2. QED BY <1>4, <1>5, <1>6, <2>1
  <1>7. T \in SUBSET Item /\ i \in T /\ Closed(at, T)
    BY <1>2, <1>5, <1>6 DEF Closed
  <1>8. Chain(at, i) \subseteq T
    BY <1>7, ChainLeast
  <1>9. PICK x \in Chain(at, i) : at[x] \notin Item
    BY TopUnique DEF Up
  <1>10. Chain(at, x) = {x}
    BY <1>2, <1>9, ChainUnfold
  <1>11. x = i
    BY <1>5, <1>8, <1>10
  <1>12. QED BY <1>3, <1>9, <1>11

\* Moves elsewhere leave a chain as it is.
LEMMA ChainKept ==
    ASSUME NEW at, NEW to, NEW i \in Item, \A c \in Chain(at, i) : to[c] = at[c]
    PROVE  Chain(to, i) = Chain(at, i) /\ Up(to, i) = Up(at, i) /\ Top(to, i) = Top(at, i)
  <1>1. i \in Chain(at, i) /\ Chain(at, i) \subseteq Item /\ Closed(at, Chain(at, i))
    BY ChainClosed
  <1>2. Closed(to, Chain(at, i))
    BY <1>1 DEF Closed
  <1>3. Chain(to, i) \subseteq Chain(at, i)
    BY <1>1, <1>2, ChainLeast
  <1>4. i \in Chain(to, i) /\ Chain(to, i) \subseteq Item /\ Closed(to, Chain(to, i))
    BY ChainClosed
  <1>5. Closed(at, Chain(to, i))
    BY <1>3, <1>4 DEF Closed
  <1>6. Chain(to, i) = Chain(at, i)
    BY <1>3, <1>4, <1>5, ChainLeast
  <1>7. Up(to, i) = Up(at, i)
    BY <1>6 DEF Up
  <1>8. QED BY <1>6, <1>7 DEF Top

\* Putting an item where it is not around makes no trap.
LEMMA NoTrapMove ==
    ASSUME NEW at \in [Item -> Place], NoTrap(at), NEW i \in Item, NEW d,
           d \in Item => i \notin Chain(at, d), NEW to, to = [at EXCEPT ![i] = d]
    PROVE  NoTrap(to)
  <1>1. SUFFICES ASSUME NEW S \in SUBSET Item, S # {}, \A x \in S : to[x] \in S
                 PROVE  FALSE
    BY DEF NoTrap
  <1>2. to[i] = d /\ \A x \in Item \ {i} : to[x] = at[x]
    OBVIOUS
  <1>3. CASE i \notin S
    BY <1>1, <1>2, <1>3 DEF NoTrap
  <1>4. CASE i \in S
    <2>1. d \in S /\ d \in Item
      BY <1>1, <1>2, <1>4
    <2>2. d \in Chain(at, d) /\ Chain(at, d) \subseteq Item /\ Closed(at, Chain(at, d))
      BY <2>1, ChainClosed
    <2>3. PICK T : T = S \cap Chain(at, d)
      OBVIOUS
    <2>4. T \in SUBSET Item /\ T # {} /\ i \notin T
      BY <2>1, <2>2, <2>3
    <2>5. ASSUME NEW x \in T PROVE at[x] \in T
      <3>1. at[x] = to[x] /\ at[x] \in S
        BY <1>1, <1>2, <2>3, <2>4, <2>5
      <3>2. at[x] \in Chain(at, d)
        BY <2>2, <2>3, <3>1 DEF Closed
      <3>3. QED BY <2>3, <3>1, <3>2
    <2>6. QED BY <2>4, <2>5 DEF NoTrap
  <1>5. QED BY <1>3, <1>4

-----------------------------------------------------------------------------
(***************************************************************************)
(* The inductive invariant: a player who was only asked has put up nothing *)
(* yet, and no items lie in each other.                                    *)
(***************************************************************************)
AckOpen == \A p \in Player : tradeState[p] = "acknowledge" => offer[p] = Nobody

IInv == TypeOK /\ TradesSound /\ NoTrap(place) /\ AckOpen

InReach(at, ps, p, i) ==
    Top(at, i) = p \/ (Top(at, i) \in Spot /\ ~Far(ps[p], Top(at, i), 1))

\* The trade of p can be completed with the players on, at ps, and the items at at.
StillOpen(p, on, ps, at) ==
    /\ p \in on /\ peer[p] \in on
    /\ ~Far(ps[p], ps[peer[p]], 2)
    /\ offer[p] # Nobody => at[offer[p]] # Nowhere /\ InReach(at, ps, p, offer[p])

\* OffersApart and OpenTradeInReach, of any offers, places and positions.
Apart(items, of, at) ==
    /\ items = {of[p] : p \in {q \in Player : of[q] # Nobody}}
    /\ \A p, q \in Player : p # q /\ of[p] # Nobody /\ of[q] # Nobody
             => of[p] # of[q] /\ of[p] \notin Up(at, of[q])

Open(on, ps, at, with, of) ==
    \A p \in Player :
        with[p] # Nobody =>
            /\ p \in on /\ with[p] \in on
            /\ ~Far(ps[p], ps[with[p]], 2)
            /\ of[p] # Nobody => at[of[p]] # Nowhere /\ InReach(at, ps, p, of[p])

\* The players Game::internalCloseTrade is applied to, for the players of D.
Closes(D) == D \cup {peer[p] : p \in {q \in D : peer[q] # Nobody}}

LEMMA Disjoint ==
    /\ Nobody \notin Player /\ Nobody \notin Item /\ Nowhere \notin Item
    /\ Nowhere \notin Player /\ Nowhere \notin Spot /\ Container \subseteq Item
    /\ \A x \in Player : x \notin Item /\ x \notin Spot
    /\ \A x \in Spot : x \notin Item /\ x \in Int
  BY PlaceAssumption

LEMMA ReachDef ==
    /\ \A i : Parents(i) = Up(place, i) /\ TopParent(i) = Top(place, i)
    /\ \A i, p : Reaches(p, i) <=> InReach(place, pos, p, i)
    /\ \A i : Pact!Above(i) = Up(place, i) /\ Pact!Above(i)' = Up(place', i)
    /\ OffersApart <=> Apart(tradeItems, offer, place)
    /\ OpenTradeInReach <=> Open(online, pos, place, peer, offer)
    /\ OffersApart' <=> Apart(tradeItems', offer', place')
    /\ OpenTradeInReach' <=> Open(online', pos', place', peer', offer')
  <1>1. \A i : Pact!Above(i) = Up(place, i) /\ Pact!Above(i)' = Up(place', i)
    BY DEF Pact!Above, Up, Chain, Pact!Around
  <1>2. \A i : Parents(i) = Up(place, i) /\ TopParent(i) = Top(place, i)
    BY <1>1 DEF TopParent, Parents, Top
  <1>3. \A i, p : Reaches(p, i) <=> InReach(place, pos, p, i)
    BY <1>2 DEF Reaches, InReach
  <1>4. OffersApart <=> Apart(tradeItems, offer, place)
    BY <1>2 DEF OffersApart, Apart, IsHolding
  <1>5. OpenTradeInReach <=> Open(online, pos, place, peer, offer)
    BY <1>3 DEF OpenTradeInReach, Open
  <1>6. OffersApart' <=> Apart(tradeItems', offer', place')
    BY DEF OffersApart, Apart, IsHolding, Parents, Pact!Above, Up, Chain, Pact!Around
  <1>7. OpenTradeInReach' <=> Open(online', pos', place', peer', offer')
    BY DEF OpenTradeInReach, Open, Reaches, InReach, TopParent, Top, Parents, Pact!Above,
           Up, Chain, Pact!Around, Far
  <1>8. QED BY <1>1, <1>2, <1>3, <1>4, <1>5, <1>6, <1>7

\* What the invariant says of a player who trades, and of one who offers.
LEMMA Trader ==
    ASSUME IInv, NEW p \in Player
    PROVE  /\ peer[p] # Nobody =>
                  /\ peer[p] \in Player /\ peer[p] # p /\ peer[peer[p]] = p
                  /\ StillOpen(p, online, pos, place)
           /\ tradeState[p] = "none" <=> peer[p] = Nobody
           /\ offer[p] # Nobody => peer[p] # Nobody /\ offer[p] \in Item
  <1>1. TypeOK /\ PeersMutual /\ OpenTradeInReach
    BY DEF IInv, TradesSound
  <1>2. peer[p] \in Player \cup {Nobody} /\ offer[p] \in Item \cup {Nobody}
    BY <1>1 DEF TypeOK
  <1>3. /\ peer[p] # Nobody => peer[p] # p /\ peer[peer[p]] = p
        /\ tradeState[p] = "none" <=> peer[p] = Nobody
        /\ offer[p] # Nobody => peer[p] # Nobody
    BY <1>1 DEF PeersMutual
  <1>4. ASSUME peer[p] # Nobody PROVE StillOpen(p, online, pos, place)
    BY <1>1, <1>2, <1>4, ReachDef DEF Open, StillOpen
  <1>5. QED BY <1>2, <1>3, <1>4

-----------------------------------------------------------------------------
(***************************************************************************)
(* Closing trades.                                                         *)
(***************************************************************************)
LEMMA ClosesPairs ==
    ASSUME IInv, NEW D \in SUBSET Player
    PROVE  /\ D \subseteq Closes(D) /\ Closes(D) \subseteq Player
           /\ \A p \in Player : peer[p] \in Closes(D) => p \in Closes(D)
           /\ \A p \in Closes(D) : peer[p] \in Closes(D) \cup {Nobody}
  <1>1. \A p \in Player : peer[p] # Nobody => peer[p] \in Player /\ peer[peer[p]] = p
    BY Trader
  <1>2. D \subseteq Closes(D) /\ Closes(D) \subseteq Player
    BY <1>1 DEF Closes
  <1>3. ASSUME NEW p \in Closes(D) PROVE peer[p] \in Closes(D) \cup {Nobody}
    <2>1. CASE p \in D
      BY <2>1 DEF Closes
    <2>2. CASE p \notin D
      <3>1. PICK q \in D : peer[q] # Nobody /\ p = peer[q]
        BY <1>3, <2>2 DEF Closes
      <3>2. QED BY <1>1, <1>2, <3>1
    <2>3. QED BY <2>1, <2>2
  <1>4. ASSUME NEW p \in Player, peer[p] \in Closes(D) PROVE p \in Closes(D)
    <2>1. peer[p] # Nobody
      BY <1>2, <1>4, Disjoint
    <2>2. peer[peer[p]] = p
      BY <1>1, <2>1
    <2>3. p \in Closes(D) \cup {Nobody}
      BY <1>3, <1>4, <2>2
    <2>4. QED BY <1>4, <2>3, Disjoint
  <1>5. QED BY <1>2, <1>3, <1>4

\* Closing keeps the invariant if the trades that stay open can be completed and
\* nothing around their items moved.
LEMMA Closing ==
    ASSUME IInv, NEW D \in SUBSET Player, InternalCloseTrade(D),
           online' \subseteq Player, pos' \in [Player -> Spot], place' \in [Item -> Place],
           NoTrap(place'),
           \A p \in Player \ Closes(D) : peer[p] # Nobody =>
               StillOpen(p, online', pos', place'),
           \A p \in Player \ Closes(D) : offer[p] # Nobody =>
               \A c \in Chain(place, offer[p]) : place'[c] = place[c]
    PROVE  IInv'
  <1> DEFINE E == Closes(D)
  <1>1. /\ D \subseteq E /\ E \subseteq Player
        /\ \A p \in Player : peer[p] \in E => p \in E
        /\ \A p \in E : peer[p] \in E \cup {Nobody}
    BY ClosesPairs
  <1>2. /\ tradeState' = [p \in Player |-> IF p \in E THEN "none" ELSE tradeState[p]]
        /\ peer' = [p \in Player |-> IF p \in E THEN Nobody ELSE peer[p]]
        /\ offer' = [p \in Player |-> IF p \in E THEN Nobody ELSE offer[p]]
        /\ tradeItems' = tradeItems \ {offer[p] : p \in E}
    BY DEF InternalCloseTrade, Closes
  <1> HIDE DEF E
  <1>3. /\ \A p \in E : tradeState'[p] = "none" /\ peer'[p] = Nobody /\ offer'[p] = Nobody
        /\ \A p \in Player \ E :
              tradeState'[p] = tradeState[p] /\ peer'[p] = peer[p] /\ offer'[p] = offer[p]
    BY <1>1, <1>2
  <1>4. /\ TypeOK /\ AckOpen /\ OffersApart
    BY DEF IInv, TradesSound
  <1>5. TypeOK'
    <2>1. /\ tradeState' \in [Player -> States] /\ peer' \in [Player -> Player \cup {Nobody}]
          /\ offer' \in [Player -> Item \cup {Nobody}] /\ tradeItems' \subseteq Item
      BY <1>2, <1>4 DEF TypeOK, States
    <2>2. QED BY <2>1 DEF TypeOK, Place
  <1>6. PeersMutual'
    <2>1. ASSUME NEW p \in Player
          PROVE  /\ peer'[p] # Nobody => peer'[p] # p /\ peer'[peer'[p]] = p
                 /\ tradeState'[p] = "none" <=> peer'[p] = Nobody
                 /\ offer'[p] # Nobody => peer'[p] # Nobody
      <3>1. CASE p \in E
        BY <1>3, <3>1
      <3>2. CASE p \notin E
        <4>1. tradeState'[p] = tradeState[p] /\ peer'[p] = peer[p] /\ offer'[p] = offer[p]
          BY <1>3, <3>2
        <4>2. peer[p] # Nobody => peer[p] \in Player \ E
          BY <1>1, <3>2, Trader
        <4>3. QED BY <1>3, <4>1, <4>2, Trader
      <3>3. QED BY <3>1, <3>2
    <2>2. QED BY <2>1 DEF PeersMutual
  <1>7. AckOpen'
    BY <1>1, <1>3, <1>4 DEF AckOpen
  <1>8. tradeItems' = {offer'[p] : p \in {q \in Player : offer'[q] # Nobody}}
    <2>1. tradeItems = {offer[p] : p \in {q \in Player : offer[q] # Nobody}}
      BY <1>4 DEF OffersApart
    <2>2. \A p, q \in Player : p # q /\ offer[p] # Nobody /\ offer[q] # Nobody => offer[p] # offer[q]
      BY <1>4 DEF OffersApart
    <2>3. ASSUME NEW x \in tradeItems' PROVE \E p \in Player : offer'[p] = x /\ offer'[p] # Nobody
      <3>1. PICK p \in Player : offer[p] # Nobody /\ x = offer[p]
        BY <1>2, <2>1, <2>3
      <3>2. p \notin E
        BY <1>2, <2>3, <3>1
      <3>3. QED BY <1>3, <3>1, <3>2
    <2>4. ASSUME NEW p \in Player, offer'[p] # Nobody PROVE offer'[p] \in tradeItems'
      <3>1. p \notin E /\ offer'[p] = offer[p]
        BY <1>3, <2>4
      <3>2. offer[p] \in tradeItems
        BY <2>1, <2>4, <3>1
      <3>3. offer[p] \notin {offer[q] : q \in E}
        BY <1>1, <2>2, <2>4, <3>1
      <3>4. QED BY <1>2, <3>1, <3>2, <3>3
    <2>5. QED BY <2>3, <2>4
  <1>9. ASSUME NEW p \in Player, NEW q \in Player, p # q, offer'[p] # Nobody, offer'[q] # Nobody
        PROVE  offer'[p] # offer'[q] /\ offer'[p] \notin Up(place', offer'[q])
    <2>1. p \in Player \ E /\ q \in Player \ E /\ offer'[p] = offer[p] /\ offer'[q] = offer[q]
      BY <1>3, <1>9
    <2>2. offer[q] \in Item /\ offer[p] # offer[q] /\ offer[p] \notin Up(place, offer[q])
      BY <1>4, <1>9, <2>1, Trader, ReachDef DEF Apart
    <2>3. Up(place', offer[q]) = Up(place, offer[q])
      BY <1>9, <2>1, <2>2, ChainKept DEF E
    <2>4. QED BY <2>1, <2>2, <2>3
  <1>10. OffersApart'
    BY <1>8, <1>9, ReachDef DEF Apart
  <1>11. OpenTradeInReach'
    <2>1. ASSUME NEW p \in Player, peer'[p] # Nobody
          PROVE  /\ p \in online' /\ peer'[p] \in online'
                 /\ ~Far(pos'[p], pos'[peer'[p]], 2)
                 /\ offer'[p] # Nobody =>
                        place'[offer'[p]] # Nowhere /\ InReach(place', pos', p, offer'[p])
      <3>1. p \in Player \ E /\ peer'[p] = peer[p] /\ offer'[p] = offer[p]
        BY <1>3, <2>1
      <3>2. StillOpen(p, online', pos', place')
        BY <2>1, <3>1 DEF E
      <3>3. QED BY <3>1, <3>2 DEF StillOpen
    <2>2. QED BY <2>1, ReachDef DEF Open
  <1>12. QED BY <1>5, <1>6, <1>7, <1>10, <1>11 DEF IInv, TradesSound, NoTrap

-----------------------------------------------------------------------------
(***************************************************************************)
(* The hooks reach everybody whose offer is concerned.                     *)
(***************************************************************************)
LEMMA Owner ==
    ASSUME IInv, NEW r \in Player, offer[r] # Nobody
    PROVE  /\ offer[r] \in Item /\ r \in online /\ place[offer[r]] # Nowhere
           /\ InReach(place, pos, r, offer[r])
  BY Trader DEF StillOpen

\* The owner of offer o hears of changes in a container with the same outermost cylinder.
LEMMA OwnerWitness ==
    ASSUME IInv, NEW r \in Player, offer[r] # Nobody, NEW c,
           c \in Item => Top(place, c) = Top(place, offer[r]),
           c \notin Item => c = Top(place, offer[r])
    PROVE  r \in Witnesses(c)
  <1>1. r \in online /\ InReach(place, pos, r, offer[r])
    BY Owner
  <1>2. PICK t : t = Top(place, offer[r])
    OBVIOUS
  <1>3. t = r \/ (t \in Spot /\ ~Far(pos[r], t, 1))
    BY <1>1, <1>2 DEF InReach
  <1>4. CASE c \in Item
    <2>1. TopParent(c) = t /\ c \notin Player /\ c \notin Spot
      BY <1>2, <1>4, ReachDef, Disjoint
    <2>2. QED BY <1>1, <1>3, <2>1, Disjoint DEF Witnesses
  <1>5. CASE c \notin Item
    BY <1>1, <1>2, <1>3, <1>5, Disjoint DEF Witnesses
  <1>6. QED BY <1>4, <1>5

\* An item that is in the chain of an offer, or has the offer in its chain, does not leave
\* unnoticed.
LEMMA RemovalNoticed ==
    ASSUME IInv, NEW r \in Player, offer[r] # Nobody, NEW i \in Item,
           i \in Chain(place, offer[r]) \/ offer[r] \in Chain(place, i)
    PROVE  r \in DisturbedByRemoval(i)
  <1>1. PICK o \in Item : o = offer[r] /\ o # Nobody
    BY Owner
  <1>2. NoTrap(place)
    BY DEF IInv
  <1>3. Top(place, i) = Top(place, o)
    BY <1>1, <1>2, TopShared
  <1>4. PICK c : c = place[i]
    OBVIOUS
  <1>5. c \in Item => Top(place, c) = Top(place, o)
    <2>1. c \in Item => c \in Chain(place, i)
      BY <1>4, ChainClosed DEF Closed
    <2>2. QED BY <1>2, <1>3, <2>1, TopShared
  <1>6. c \notin Item => c = Top(place, o)
    <2>1. c \in Up(place, i)
      BY <1>4, ChainUp
    <2>2. QED BY <1>2, <1>3, <2>1, TopUnique
  <1>7. r \in Witnesses(c)
    BY <1>1, <1>5, <1>6, OwnerWitness
  <1>8. CASE o \in Chain(place, i)
    <2>1. Touches(r, i, c)
      <3>1. CASE o = i
        BY <1>1, <3>1 DEF Touches
      <3>2. CASE o # i
        <4>1. o \in Up(place, i)
          BY <1>8, <3>2, ChainUp
        <4>2. c \in Item /\ (o = c \/ o \in Up(place, c))
          BY <1>4, <4>1, ChainUp
        <4>3. QED BY <1>1, <4>2, ReachDef DEF Touches
      <3>3. QED BY <3>1, <3>2
    <2>2. QED BY <1>4, <1>7, <2>1 DEF DisturbedByRemoval, SeesItemLeave, SeesContainerItemLeave
  <1>9. CASE o \notin Chain(place, i) /\ i \in Chain(place, o)
    <2>1. o # i
      BY <1>9, ChainClosed
    <2>2. i \in Up(place, o) /\ c \in Up(place, o)
      BY <1>4, <1>9, <2>1, ChainUp DEF Up
    <2>3. IsHolding(i, o) /\ IsHolding(c, o)
      BY <2>2, ReachDef DEF IsHolding
    <2>4. c \in Item => place[o] # c
      <3>1. ASSUME c \in Item, place[o] = c PROVE FALSE
        <4>1. i = c \/ i \in Up(place, c)
          BY <2>2, <3>1, ChainUp
        <4>2. i \in Up(place, i)
          BY <1>4, <3>1, <4>1, ChainUp
        <4>3. QED BY <1>2, <4>2, NotAboveItself
      <3>2. QED BY <3>1
    <2>5. SeesItemLeave(r, i)
      BY <1>1, <2>3 DEF SeesItemLeave
    <2>6. c \in Item => SeesContainerItemLeave(r, i)
      BY <1>1, <1>4, <2>3, <2>4 DEF SeesContainerItemLeave
    <2>7. QED BY <1>4, <1>7, <2>5, <2>6 DEF DisturbedByRemoval
  <1>10. QED BY <1>1, <1>8, <1>9

\* Nothing is put into an offer unnoticed.
LEMMA AddNoticed ==
    ASSUME IInv, NEW r \in Player, offer[r] # Nobody, NEW i \in Item, NEW d \in Item,
           offer[r] \in Chain(place, d)
    PROVE  r \in DisturbedByAdd(i, d)
  <1>1. PICK o \in Item : o = offer[r] /\ o # Nobody
    BY Owner
  <1>2. NoTrap(place)
    BY DEF IInv
  <1>3. Top(place, d) = Top(place, o)
    BY <1>1, <1>2, TopShared
  <1>4. r \in Witnesses(d)
    BY <1>1, <1>3, OwnerWitness
  <1>5. o = d \/ o \in Up(place, d)
    BY <1>1, ChainUp
  <1>6. Touches(r, i, d)
    BY <1>1, <1>5, ReachDef DEF Touches
  <1>7. QED BY <1>4, <1>6 DEF DisturbedByAdd

LEMMA DisturbedPlayers ==
    ASSUME IInv, NEW i \in Item
    PROVE  /\ DisturbedByRemoval(i) \in SUBSET Player
           /\ \A d \in Place : DisturbedByAdd(i, d) \in SUBSET Player
  <1>1. /\ online \subseteq Player /\ NoTrap(place)
        /\ place \in [Item -> Place]
    BY DEF IInv, TypeOK, Place
  <1>2. ASSUME NEW c \in Place PROVE Witnesses(c) \subseteq Player
    BY <1>1 DEF Witnesses
  <1>3. Witnesses(place[i]) \subseteq Player
    BY <1>1, <1>2
  <1>4. DisturbedByRemoval(i) \subseteq Witnesses(place[i])
    BY DEF DisturbedByRemoval
  <1>5. \A d : DisturbedByAdd(i, d) \subseteq Witnesses(d)
    BY DEF DisturbedByAdd
  <1>6. QED BY <1>2, <1>3, <1>4, <1>5

-----------------------------------------------------------------------------
(***************************************************************************)
(* Closing is dissolving.                                                  *)
(***************************************************************************)
LEMMA ClosingDissolves ==
    ASSUME IInv, NEW D \in SUBSET Player, InternalCloseTrade(D),
           NEW E, E = Closes(D), Pact!Untouched(Player \ E)
    PROVE  Pact!PactNext
  <1>1. E \in SUBSET Player /\ \A p \in E : peer[p] \in E \cup {Nobody}
    BY ClosesPairs
  <1>2. /\ tradeState' = [p \in Player |-> IF p \in E THEN "none" ELSE tradeState[p]]
        /\ peer' = [p \in Player |-> IF p \in E THEN Nobody ELSE peer[p]]
        /\ offer' = [p \in Player |-> IF p \in E THEN Nobody ELSE offer[p]]
    BY DEF InternalCloseTrade, Closes
  <1>3. {p \in Player : tradeState'[p] = "accept"} = {p \in Player : tradeState[p] = "accept"} \ E
    BY <1>1, <1>2
  <1>4. Pact!Dissolve(E)
    BY <1>1, <1>2, <1>3 DEF Pact!Dissolve
  <1>5. QED BY <1>1, <1>4 DEF Pact!PactNext

\* Without a move nothing is touched.
LEMMA UnmovedUntouched ==
    ASSUME UNCHANGED place, NEW S
    PROVE  Pact!Untouched(S)
  BY DEF Pact!Untouched

-----------------------------------------------------------------------------
(***************************************************************************)
(* The actions.  Each keeps the invariant and is a step of the pact.       *)
(***************************************************************************)
PactStep == [Pact!PactNext]_(Pact!pactVars)

\* A trade is closed and nobody and nothing moves.
LEMMA CloseStep ==
    ASSUME IInv, NEW D \in SUBSET Player, InternalCloseTrade(D), UNCHANGED <<online, pos, place>>
    PROVE  IInv' /\ PactStep
  <1>1. /\ online' \subseteq Player /\ pos' \in [Player -> Spot] /\ place' \in [Item -> Place]
        /\ NoTrap(place')
    BY DEF IInv, TypeOK, Place
  <1>2. \A p \in Player \ Closes(D) : peer[p] # Nobody => StillOpen(p, online', pos', place')
    BY Trader
  <1>3. IInv'
    BY <1>1, <1>2, Closing
  <1>4. PICK E : E = Closes(D)
    OBVIOUS
  <1>5. Pact!Untouched(Player \ E)
    BY UnmovedUntouched
  <1>6. Pact!PactNext
    BY <1>4, <1>5, ClosingDissolves
  <1>7. QED BY <1>3, <1>6 DEF PactStep

\* Game::playerRequestTrade
LEMMA RequestTradeStep ==
    ASSUME IInv, NEW p \in Player, NEW q \in Player, NEW i \in Item, RequestTrade(p, q, i)
    PROVE  IInv' /\ PactStep
  <1>1. TypeOK /\ AckOpen /\ Apart(tradeItems, offer, place) /\ NoTrap(place)
    BY ReachDef DEF IInv, TradesSound
  <1>2. /\ p \in online /\ q \in online /\ p # q /\ ~Far(pos[p], pos[q], 2)
        /\ place[i] # Nowhere /\ InReach(place, pos, p, i)
        /\ UNCHANGED <<online, pos, place>>
    BY ReachDef DEF RequestTrade
  <1>3. /\ tradeState[p] = "none" \/ (tradeState[p] = "acknowledge" /\ peer[p] = q)
        /\ tradeState[q] = "none" \/ peer[q] = p
    BY DEF RequestTrade, CanStart
  <1>4. /\ offer' = [offer EXCEPT ![p] = i]
        /\ tradeItems' = tradeItems \cup {i}
        /\ tradeState' = [tradeState EXCEPT ![p] = "initiated",
                             ![q] = IF @ = "none" THEN "acknowledge" ELSE @]
        /\ peer' = [peer EXCEPT ![p] = q, ![q] = IF tradeState[q] = "none" THEN p ELSE @]
    BY DEF RequestTrade, StartTrade
  <1>5. /\ offer[p] = Nobody /\ peer[p] \in {Nobody, q} /\ peer[q] \in {Nobody, p}
        /\ tradeState[p] \in {"none", "acknowledge"}
    BY <1>1, <1>3, Trader DEF AckOpen
  <1>6. \A r \in Player : tradeState[r] = "none" <=> peer[r] = Nobody
    BY Trader
  <1>7. /\ tradeState \in [Player -> States] /\ peer \in [Player -> Player \cup {Nobody}]
        /\ offer \in [Player -> Item \cup {Nobody}] /\ tradeItems \subseteq Item
        /\ place \in [Item -> Place] /\ place' \in [Item -> Place]
    BY <1>1, <1>2 DEF TypeOK, Place
  <1>8. /\ offer'[p] = i /\ \A r \in Player \ {p} : offer'[r] = offer[r]
        /\ tradeState'[p] = "initiated"
        /\ tradeState'[q] = IF tradeState[q] = "none" THEN "acknowledge" ELSE tradeState[q]
        /\ peer'[p] = q /\ peer'[q] = p
        /\ \A r \in Player \ {p, q} : tradeState'[r] = tradeState[r] /\ peer'[r] = peer[r]
    BY <1>2, <1>3, <1>4, <1>7
  <1>9. TypeOK'
    <2>1. /\ tradeState' \in [Player -> States] /\ peer' \in [Player -> Player \cup {Nobody}]
      BY <1>4, <1>7 DEF States
    <2>2. offer' \in [Player -> Item \cup {Nobody}] /\ tradeItems' \subseteq Item
      BY <1>4, <1>7
    <2>3. QED BY <1>1, <1>2, <2>1, <2>2 DEF TypeOK
  <1>10. ASSUME NEW r \in Player \ {p, q} PROVE peer[r] # p /\ peer[r] # q
    BY <1>5, <1>10, Trader, Disjoint
  <1>11. PeersMutual'
    <2>1. ASSUME NEW r \in Player
          PROVE  /\ peer'[r] # Nobody => peer'[r] # r /\ peer'[peer'[r]] = r
                 /\ tradeState'[r] = "none" <=> peer'[r] = Nobody
                 /\ offer'[r] # Nobody => peer'[r] # Nobody
      <3>1. CASE r = p
        BY <1>2, <1>8, <3>1, Disjoint
      <3>2. CASE r = q
        BY <1>2, <1>8, <3>2, Disjoint
      <3>3. CASE r \notin {p, q}
        <4>1. peer[r] # Nobody => peer[r] \in Player \ {p, q}
          BY <1>10, <3>3, Trader
        <4>2. QED BY <1>8, <3>3, <4>1, Trader
      <3>4. QED BY <3>1, <3>2, <3>3
    <2>2. QED BY <2>1 DEF PeersMutual
  <1>12. AckOpen'
    <2>1. ASSUME NEW r \in Player, tradeState'[r] = "acknowledge" PROVE offer'[r] = Nobody
      <3>1. r # p
        BY <1>8, <2>1
      <3>2. offer'[r] = offer[r] /\ tradeState[r] \in {"acknowledge", "none"}
        BY <1>8, <2>1, <3>1
      <3>3. QED BY <1>1, <3>2, Trader DEF AckOpen
    <2>2. QED BY <2>1 DEF AckOpen
  <1>13. ASSUME NEW r \in Player, offer[r] # Nobody
         PROVE  /\ offer[r] # i /\ offer[r] \notin Up(place, i) /\ i \notin Up(place, offer[r])
                /\ offer[r] \in Item
    <2>1. PICK o \in Item : o = offer[r] /\ o \in tradeItems
      BY <1>1, <1>13, Trader DEF Apart
    <2>2. ~(i = o \/ (i \in Container /\ IsHolding(i, o)) \/ IsHolding(o, i))
      BY <2>1 DEF RequestTrade, AlreadyTraded
    <2>3. i # o /\ o \notin Up(place, i) /\ ~(i \in Container /\ i \in Up(place, o))
      BY <2>2, ReachDef DEF IsHolding
    <2>4. i \in Up(place, o) => i \in Container
      <3>1. \A c \in Item : place[c] \in Item => place[c] \in Container
        BY <1>7, Disjoint DEF Place
      <3>2. QED BY <3>1, ChainClosed DEF Up
    <2>5. QED BY <2>1, <2>3, <2>4
  <1>14. Apart(tradeItems', offer', place')
    <2>1. tradeItems' = {offer'[r] : r \in {s \in Player : offer'[s] # Nobody}}
      <3>1. i # Nobody
        BY Disjoint
      <3>2. {offer'[r] : r \in {s \in Player : offer'[s] # Nobody}}
            = {i} \cup {offer[r] : r \in {s \in Player : offer[s] # Nobody}}
        BY <1>5, <1>8, <3>1
      <3>3. QED BY <1>1, <1>4, <3>2 DEF Apart
    <2>2. ASSUME NEW r \in Player, NEW s \in Player, r # s, offer'[r] # Nobody, offer'[s] # Nobody
          PROVE  offer'[r] # offer'[s] /\ offer'[r] \notin Up(place, offer'[s])
      <3>1. CASE r = p
        BY <1>8, <1>13, <2>2, <3>1
      <3>2. CASE s = p
        BY <1>8, <1>13, <2>2, <3>2
      <3>3. CASE r # p /\ s # p
        BY <1>1, <1>8, <2>2, <3>3 DEF Apart
      <3>4. QED BY <3>1, <3>2, <3>3
    <2>3. QED BY <1>2, <2>1, <2>2 DEF Apart
  <1>15. Open(online', pos', place', peer', offer')
    <2>1. ASSUME NEW r \in Player, peer'[r] # Nobody
          PROVE  /\ r \in online /\ peer'[r] \in online /\ ~Far(pos[r], pos[peer'[r]], 2)
                 /\ offer'[r] # Nobody =>
                        place[offer'[r]] # Nowhere /\ InReach(place, pos, r, offer'[r])
      <3>1. CASE r = p
        BY <1>2, <1>8, <3>1
      <3>2. CASE r = q
        <4>1. offer'[q] = offer[q] /\ ~Far(pos[q], pos[p], 2)
          BY <1>2, <1>8 DEF Far
        <4>2. offer[q] # Nobody => place[offer[q]] # Nowhere /\ InReach(place, pos, q, offer[q])
          BY Owner
        <4>3. QED BY <1>2, <1>8, <3>2, <4>1, <4>2
      <3>3. CASE r \notin {p, q}
        BY <1>8, <2>1, <3>3, Trader DEF StillOpen
      <3>4. QED BY <3>1, <3>2, <3>3
    <2>2. QED BY <1>2, <2>1 DEF Open
  <1>16. IInv'
    <2>1. NoTrap(place)'
      BY <1>1, <1>2 DEF NoTrap
    <2>2. QED BY <1>9, <1>11, <1>12, <1>14, <1>15, <2>1, ReachDef DEF IInv, TradesSound
  <1>17. Pact!Propose(p, q, i)
    <2>1. peer' = [peer EXCEPT ![p] = q, ![q] = p]
      BY <1>2, <1>4, <1>7, <1>8
    <2>2. {r \in Player : tradeState'[r] = "accept"} = {r \in Player : tradeState[r] = "accept"}
      <3>1. \A r \in Player : tradeState'[r] = "accept" <=> tradeState[r] = "accept"
        BY <1>5, <1>8
      <3>2. QED BY <3>1
    <2>3. ~Pact!PutUp(i)
      BY <1>13, ReachDef DEF Pact!PutUp
    <2>4. \A r \in Player : offer[r] # Nobody => i \notin Pact!Above(offer[r])
      BY <1>13, ReachDef
    <2>5. QED BY <1>2, <1>4, <1>5, <2>1, <2>2, <2>3, <2>4 DEF Pact!Propose
  <1>18. Pact!PactNext
    BY <1>17 DEF Pact!PactNext
  <1>19. QED BY <1>16, <1>18 DEF PactStep

\* The first acceptance
LEMMA AcceptFirstStep ==
    ASSUME IInv, NEW p \in Player, AcceptFirst(p)
    PROVE  IInv' /\ PactStep
  <1>1. /\ peer[p] # Nobody
        /\ tradeState' = [tradeState EXCEPT ![p] = "accept"]
        /\ UNCHANGED <<online, pos, place, peer, offer, tradeItems>>
    BY DEF AcceptFirst, MayAccept
  <1>2. TypeOK /\ PeersMutual /\ OffersApart /\ OpenTradeInReach /\ NoTrap(place) /\ AckOpen
    BY DEF IInv, TradesSound
  <1>3. /\ tradeState'[p] = "accept"
        /\ \A r \in Player \ {p} : tradeState'[r] = tradeState[r]
        /\ tradeState' \in [Player -> States]
    BY <1>1, <1>2 DEF TypeOK, States
  <1>4. TypeOK'
    BY <1>1, <1>2, <1>3 DEF TypeOK
  <1>5. PeersMutual'
    BY <1>1, <1>2, <1>3 DEF PeersMutual
  <1>6. AckOpen'
    BY <1>1, <1>2, <1>3 DEF AckOpen
  <1>7. OffersApart' /\ OpenTradeInReach'
    BY <1>1, <1>2, ReachDef
  <1>8. NoTrap(place)'
    BY <1>1, <1>2 DEF NoTrap
  <1>9. Pact!Agree(p)
    <2>1. {r \in Player : tradeState'[r] = "accept"}
          = {r \in Player : tradeState[r] = "accept"} \cup {p}
      BY <1>3
    <2>2. QED BY <1>1, <2>1 DEF Pact!Agree
  <1>10. Pact!PactNext
    BY <1>9 DEF Pact!PactNext
  <1>11. QED BY <1>4, <1>5, <1>6, <1>7, <1>8, <1>10 DEF IInv, TradesSound, PactStep

\* The end of a transfer closes the trade of the two.
LEMMA EndTransferCloses ==
    ASSUME IInv, NEW p \in Player, NEW q \in Player, BothOffered(p, q), EndTransfer(p, q)
    PROVE  InternalCloseTrade({p}) /\ Closes({p}) = {p, q} /\ UNCHANGED <<online, pos>>
  <1>1. q = peer[p] /\ peer[p] # Nobody
    BY DEF BothOffered, MayAccept
  <1>2. Closes({p}) = {p, q}
    BY <1>1 DEF Closes
  <1>3. TypeOK
    BY DEF IInv
  <1>4. /\ tradeState' = [r \in Player |-> IF r \in {p, q} THEN "none" ELSE tradeState[r]]
        /\ peer' = [r \in Player |-> IF r \in {p, q} THEN Nobody ELSE peer[r]]
        /\ offer' = [r \in Player |-> IF r \in {p, q} THEN Nobody ELSE offer[r]]
        /\ tradeItems' = tradeItems \ {offer[r] : r \in {p, q}}
    BY <1>3 DEF EndTransfer, TypeOK
  <1>5. InternalCloseTrade({p})
    BY <1>2, <1>4 DEF InternalCloseTrade, Closes
  <1>6. QED BY <1>2, <1>5 DEF EndTransfer

LEMMA AcceptFailedStep ==
    ASSUME IInv, NEW p \in Player, AcceptFailed(p)
    PROVE  IInv' /\ PactStep
  <1>1. PICK q \in Player : BothOffered(p, q) /\ EndTransfer(p, q) /\ UNCHANGED place
    BY DEF AcceptFailed
  <1>2. InternalCloseTrade({p}) /\ UNCHANGED <<online, pos, place>>
    BY <1>1, EndTransferCloses
  <1>3. {p} \in SUBSET Player
    OBVIOUS
  <1>4. QED BY <1>2, <1>3, CloseStep

\* What the two traders have put up, and that it is nothing to anybody else.
LEMMA Offered ==
    ASSUME IInv, NEW p \in Player, NEW q \in Player, BothOffered(p, q)
    PROVE  /\ offer[p] \in Item /\ offer[q] \in Item /\ offer[p] # offer[q] /\ p # q
           /\ peer[p] = q /\ peer[q] = p /\ tradeState[q] = "accept"
           /\ offer[p] # Nobody /\ offer[q] # Nobody
           /\ \A r \in Player \ {p, q} : offer[r] # Nobody =>
                  /\ offer[r] \notin {offer[p], offer[q]}
                  /\ offer[p] \notin Chain(place, offer[r])
                  /\ offer[q] \notin Chain(place, offer[r])
                  /\ offer[r] \notin Up(place, offer[p]) /\ offer[r] \notin Up(place, offer[q])
  <1>1. /\ q = peer[p] /\ peer[p] # Nobody /\ tradeState[q] = "accept"
        /\ offer[p] # Nobody /\ offer[q] # Nobody
    BY DEF BothOffered, MayAccept
  <1>2. p # q /\ peer[q] = p /\ offer[p] \in Item /\ offer[q] \in Item
    BY <1>1, Trader
  <1>3. Apart(tradeItems, offer, place)
    BY ReachDef DEF IInv, TradesSound
  <1>4. ASSUME NEW r \in Player, NEW s \in Player, r # s, offer[r] # Nobody, offer[s] # Nobody
        PROVE  /\ offer[r] # offer[s] /\ offer[r] \notin Up(place, offer[s])
               /\ offer[r] \notin Chain(place, offer[s])
    <2>1. offer[r] # offer[s] /\ offer[r] \notin Up(place, offer[s]) /\ offer[s] \in Item
      BY <1>3, <1>4, Trader DEF Apart
    <2>2. QED BY <2>1, ChainUp
  <1>5. QED BY <1>1, <1>2, <1>4

\* Where an item given to q may go: it is q's then, and in no offer of somebody else.
LEMMA Room ==
    ASSUME IInv, NEW q \in Player, NEW i \in Item, NEW j \in Item, NEW d \in RoomsOf(q, i, j),
           NEW to, to[i] = d, \A k \in Item \ {i, j} : to[k] = place[k]
    PROVE  /\ d \in Place
           /\ d \in Item => i \notin Chain(place, d) /\ j \notin Chain(place, d)
           /\ q \in Up(to, i)
           /\ \A r \in Player \ {q} : offer[r] # Nobody => offer[r] \notin Up(to, i)
  <1>1. NoTrap(place)
    BY DEF IInv
  <1>2. CASE d = q
    <2>1. d \notin Item /\ Up(to, i) = {q}
      BY <1>2, Disjoint, ChainUp
    <2>2. \A r \in Player : offer[r] # Nobody => offer[r] # q
      BY Owner, Disjoint
    <2>3. QED BY <1>2, <2>1, <2>2 DEF Place
  <1>3. CASE d # q
    <2>1. /\ d \in Container /\ d \in Item /\ d # i /\ d # j /\ Top(place, d) = q
          /\ i \notin Up(place, d) /\ j \notin Up(place, d)
      BY <1>3, Disjoint, ReachDef DEF RoomsOf, IsHolding
    <2>2. i \notin Chain(place, d) /\ j \notin Chain(place, d)
      BY <2>1, ChainUp
    <2>3. \A c \in Chain(place, d) : to[c] = place[c]
      BY <2>1, <2>2, ChainClosed
    <2>4. Up(to, d) = Up(place, d)
      BY <2>1, <2>3, ChainKept
    <2>5. Up(to, i) = {d} \cup Up(place, d)
      BY <2>1, <2>4, ChainUp
    <2>6. q \in Up(place, d)
      BY <1>1, <2>1, TopUnique
    <2>7. ASSUME NEW r \in Player \ {q}, offer[r] # Nobody PROVE offer[r] \notin Up(to, i)
      <3>1. SUFFICES ASSUME offer[r] \in Up(to, i) PROVE FALSE
        OBVIOUS
      <3>2. offer[r] \in Item /\ InReach(place, pos, r, offer[r])
        BY <2>7, Owner
      <3>3. offer[r] \in Chain(place, d)
        BY <2>1, <2>5, <3>1, <3>2, ChainUp, ChainClosed
      <3>4. Top(place, offer[r]) = q
        BY <1>1, <2>1, <3>3, TopShared
      <3>5. QED BY <2>7, <3>2, <3>4, Disjoint DEF InReach
    <2>8. QED BY <2>1, <2>2, <2>5, <2>6, <2>7 DEF Place
  <1>4. QED BY <1>2, <1>3

\* A transfer that moves nothing but the two items keeps the invariant.
LEMMA TransferKeeps ==
    ASSUME IInv, NEW p \in Player, NEW q \in Player, BothOffered(p, q), EndTransfer(p, q),
           place' \in [Item -> Place], NoTrap(place'),
           \A k \in Item \ {offer[p], offer[q]} : place'[k] = place[k]
    PROVE  IInv'
  <1>1. InternalCloseTrade({p}) /\ Closes({p}) = {p, q} /\ UNCHANGED <<online, pos>>
    BY EndTransferCloses
  <1>2. online' \subseteq Player /\ pos' \in [Player -> Spot] /\ {p} \in SUBSET Player
    BY <1>1 DEF IInv, TypeOK
  <1>3. ASSUME NEW r \in Player \ {p, q}, offer[r] # Nobody
        PROVE  \A c \in Chain(place, offer[r]) : place'[c] = place[c]
    <2>1. /\ offer[p] \notin Chain(place, offer[r]) /\ offer[q] \notin Chain(place, offer[r])
          /\ offer[r] \in Item
      BY <1>3, Offered, Owner
    <2>2. QED BY <2>1, ChainClosed
  <1>4. ASSUME NEW r \in Player \ {p, q}, peer[r] # Nobody
        PROVE  StillOpen(r, online', pos', place')
    <2>1. StillOpen(r, online, pos, place)
      BY <1>4, Trader
    <2>2. ASSUME offer[r] # Nobody
          PROVE  place'[offer[r]] # Nowhere /\ InReach(place', pos', r, offer[r])
      <3>1. offer[r] \in Item /\ place[offer[r]] # Nowhere /\ InReach(place, pos, r, offer[r])
        BY <2>2, Owner
      <3>2. Top(place', offer[r]) = Top(place, offer[r])
        BY <1>3, <2>2, <3>1, ChainKept
      <3>3. place'[offer[r]] = place[offer[r]]
        BY <1>3, <2>2, <3>1, ChainClosed
      <3>4. QED BY <1>1, <3>1, <3>2, <3>3 DEF InReach
    <2>3. QED BY <1>1, <2>1, <2>2 DEF StillOpen
  <1>5. QED BY <1>1, <1>2, <1>3, <1>4, Closing

\* It settles the pact.
LEMMA TransferSettles ==
    ASSUME IInv, NEW p \in Player, NEW q \in Player, BothOffered(p, q), EndTransfer(p, q),
           \A k \in Item \ {offer[p], offer[q]} : place'[k] = place[k],
           q \in Up(place', offer[p]),
           p \in Up(place', offer[q]) \/
               (offer[p] \in Container /\ place'[offer[q]] = place[offer[q]]),
           \A r \in Player \ {p, q} : offer[r] # Nobody =>
               /\ offer[r] \notin Up(place', offer[p])
               /\ place'[offer[q]] = place[offer[q]] \/ offer[r] \notin Up(place', offer[q])
    PROVE  PactStep
  <1>1. PICK i \in Item, j \in Item : i = offer[p] /\ j = offer[q]
    BY Offered
  <1>2. peer[p] = q /\ peer[q] = p /\ tradeState[q] = "accept" /\ offer[p] # Nobody /\ offer[q] # Nobody
    BY Offered
  <1>3. Pact!Untouched(Player \ {p, q})
    <2>1. ASSUME NEW k \in Item, place'[k] # place[k], NEW r \in Player \ {p, q}, NEW o \in Item,
                 offer[r] = o
          PROVE  o # k /\ o \notin Up(place, k) /\ o \notin Up(place', k)
      <3>1. k \in {i, j} /\ offer[r] # Nobody
        BY <1>1, <2>1, Disjoint
      <3>2. o \notin {i, j} /\ o \notin Up(place, i) /\ o \notin Up(place, j)
        BY <1>1, <2>1, <3>1, Offered
      <3>3. o \notin Up(place', k)
        BY <1>1, <2>1, <3>1
      <3>4. QED BY <3>1, <3>2, <3>3
    <2>2. QED BY <2>1, ReachDef DEF Pact!Untouched
  <1>4. {r \in Player : tradeState'[r] = "accept"}
        = {r \in Player : tradeState[r] = "accept"} \ {p, q}
    <2>1. tradeState' = [tradeState EXCEPT ![p] = "none", ![q] = "none"] /\ TypeOK
      BY DEF EndTransfer, IInv
    <2>2. /\ \A r \in Player \ {p, q} : tradeState'[r] = tradeState[r]
          /\ tradeState'[p] = "none" /\ tradeState'[q] = "none"
      BY <2>1 DEF TypeOK
    <2>3. QED BY <2>2
  <1>5. /\ q \in Pact!Above(i)'
        /\ p \in Pact!Above(j)' \/ (i \in Container /\ place'[j] = place[j])
        /\ \A k \in Item \ {i, j} : place'[k] = place[k]
    BY <1>1, ReachDef
  <1>6. Pact!Settle(p, q)
    BY <1>1, <1>2, <1>3, <1>4, <1>5 DEF Pact!Settle, EndTransfer
  <1>7. Pact!PactNext
    BY <1>6 DEF Pact!PactNext
  <1>8. QED BY <1>7 DEF PactStep

LEMMA AcceptDoneStep ==
    ASSUME IInv, NEW p \in Player, AcceptDone(p)
    PROVE  IInv' /\ PactStep
  <1>1. PICK q \in Player : /\ BothOffered(p, q) /\ EndTransfer(p, q)
                            /\ \E d \in RoomsOf(q, offer[p], offer[q]),
                                  e \in RoomsOf(p, offer[q], offer[p]) :
                                  place' = [place EXCEPT ![offer[p]] = d, ![offer[q]] = e]
    BY DEF AcceptDone
  <1>2. PICK i \in Item, j \in Item : i = offer[p] /\ j = offer[q] /\ i # j /\ p # q
    BY <1>1, Offered
  <1>3. PICK d \in RoomsOf(q, i, j), e \in RoomsOf(p, j, i) :
            place' = [place EXCEPT ![i] = d, ![j] = e]
    BY <1>1, <1>2
  <1>4. place \in [Item -> Place] /\ NoTrap(place)
    BY DEF IInv, TypeOK, Place
  <1>5. place'[i] = d /\ place'[j] = e /\ \A k \in Item \ {i, j} : place'[k] = place[k]
    BY <1>2, <1>3, <1>4
  <1>6. /\ d \in Place /\ (d \in Item => i \notin Chain(place, d) /\ j \notin Chain(place, d))
        /\ q \in Up(place', i)
        /\ \A r \in Player \ {q} : offer[r] # Nobody => offer[r] \notin Up(place', i)
    BY <1>5, Room
  <1>7. /\ e \in Place /\ (e \in Item => j \notin Chain(place, e) /\ i \notin Chain(place, e))
        /\ p \in Up(place', j)
        /\ \A r \in Player \ {p} : offer[r] # Nobody => offer[r] \notin Up(place', j)
    BY <1>5, Room
  <1>8. place' \in [Item -> Place]
    BY <1>3, <1>4, <1>6, <1>7
  <1>9. NoTrap(place')
    <2>1. PICK f : f = [place EXCEPT ![i] = d]
      OBVIOUS
    <2>2. f \in [Item -> Place] /\ NoTrap(f)
      BY <1>4, <1>6, <2>1, NoTrapMove
    <2>3. place' = [f EXCEPT ![j] = e]
      BY <1>2, <1>3, <1>4, <2>1
    <2>4. e \in Item => j \notin Chain(f, e)
      <3>1. ASSUME e \in Item PROVE j \notin Chain(f, e)
        <4>1. \A c \in Chain(place, e) : f[c] = place[c]
          BY <1>4, <1>7, <2>1, <3>1, ChainClosed
        <4>2. Chain(f, e) = Chain(place, e)
          BY <3>1, <4>1, ChainKept
        <4>3. QED BY <1>7, <3>1, <4>2
      <3>2. QED BY <3>1
    <2>5. QED BY <2>2, <2>3, <2>4, NoTrapMove
  <1>10. IInv'
    BY <1>1, <1>2, <1>5, <1>8, <1>9, TransferKeeps
  <1>11. PactStep
    BY <1>1, <1>2, <1>5, <1>6, <1>7, TransferSettles
  <1>12. QED BY <1>10, <1>11

LEMMA AcceptHalfStep ==
    ASSUME IInv, NEW p \in Player, AcceptHalf(p)
    PROVE  IInv' /\ PactStep
  <1>1. PICK q \in Player : /\ BothOffered(p, q) /\ EndTransfer(p, q) /\ offer[p] \in Container
                            /\ \E d \in RoomsOf(q, offer[p], offer[q]) :
                                  place' = [place EXCEPT ![offer[p]] = d]
    BY DEF AcceptHalf
  <1>2. PICK i \in Item, j \in Item : i = offer[p] /\ j = offer[q] /\ i # j /\ p # q
    BY <1>1, Offered
  <1>3. PICK d \in RoomsOf(q, i, j) : place' = [place EXCEPT ![i] = d]
    BY <1>1, <1>2
  <1>4. place \in [Item -> Place] /\ NoTrap(place)
    BY DEF IInv, TypeOK, Place
  <1>5. place'[i] = d /\ \A k \in Item \ {i} : place'[k] = place[k]
    BY <1>2, <1>3, <1>4
  <1>6. /\ d \in Place /\ (d \in Item => i \notin Chain(place, d))
        /\ q \in Up(place', i)
        /\ \A r \in Player \ {q} : offer[r] # Nobody => offer[r] \notin Up(place', i)
    BY <1>5, Room
  <1>7. place' \in [Item -> Place] /\ NoTrap(place')
    BY <1>3, <1>4, <1>6, NoTrapMove
  <1>8. IInv'
    BY <1>1, <1>2, <1>5, <1>7, TransferKeeps
  <1>9. PactStep
    BY <1>1, <1>2, <1>5, <1>6, TransferSettles
  <1>10. QED BY <1>8, <1>9

\* Items move, or are removed, and those who notice close their trades.
LEMMA DisturbanceStep ==
    ASSUME IInv, NEW D \in SUBSET Player, InternalCloseTrade(D), UNCHANGED <<online, pos>>,
           place' \in [Item -> Place], NoTrap(place'),
           \A r \in Player, j \in Item :
               offer[r] # Nobody /\ place'[j] # place[j] =>
                   r \in D \/ (/\ j \notin Chain(place, offer[r])
                               /\ offer[r] \notin Chain(place, j)
                               /\ offer[r] \notin Up(place', j))
    PROVE  IInv' /\ PactStep
  <1>1. PICK E : E = Closes(D)
    OBVIOUS
  <1>2. D \subseteq E /\ E \subseteq Player
    BY <1>1, ClosesPairs
  <1>3. online' \subseteq Player /\ pos' \in [Player -> Spot]
    BY DEF IInv, TypeOK
  <1>4. ASSUME NEW r \in Player \ E, offer[r] # Nobody
        PROVE  \A c \in Chain(place, offer[r]) : place'[c] = place[c]
    <2>1. Chain(place, offer[r]) \subseteq Item
      BY <1>4, Owner, ChainClosed
    <2>2. QED BY <1>2, <1>4, <2>1
  <1>5. ASSUME NEW r \in Player \ E, peer[r] # Nobody
        PROVE  StillOpen(r, online', pos', place')
    <2>1. StillOpen(r, online, pos, place)
      BY <1>5, Trader
    <2>2. ASSUME offer[r] # Nobody
          PROVE  place'[offer[r]] # Nowhere /\ InReach(place', pos', r, offer[r])
      <3>1. offer[r] \in Item /\ place[offer[r]] # Nowhere /\ InReach(place, pos, r, offer[r])
        BY <2>2, Owner
      <3>2. Top(place', offer[r]) = Top(place, offer[r])
        BY <1>4, <2>2, <3>1, ChainKept
      <3>3. place'[offer[r]] = place[offer[r]]
        BY <1>4, <2>2, <3>1, ChainClosed
      <3>4. QED BY <3>1, <3>2, <3>3 DEF InReach
    <2>3. QED BY <2>1, <2>2 DEF StillOpen
  <1>6. IInv'
    BY <1>1, <1>3, <1>4, <1>5, Closing
  <1>7. Pact!Untouched(Player \ E)
    <2>1. ASSUME NEW k \in Item, place'[k] # place[k], NEW r \in Player \ E, NEW o \in Item,
                 offer[r] = o
          PROVE  o # k /\ o \notin Up(place, k) /\ o \notin Up(place', k)
      <3>1. offer[r] # Nobody /\ r \notin D
        BY <1>2, <2>1, Disjoint
      <3>2. k \notin Chain(place, o) /\ o \notin Chain(place, k) /\ o \notin Up(place', k)
        BY <2>1, <3>1
      <3>3. QED BY <2>1, <3>2, ChainClosed, ChainUp
    <2>2. QED BY <2>1, ReachDef DEF Pact!Untouched
  <1>8. Pact!PactNext
    BY <1>1, <1>7, ClosingDissolves
  <1>9. QED BY <1>6, <1>8 DEF PactStep

LEMMA MoveItemStep ==
    ASSUME IInv, NEW p \in Player, NEW i \in Item, NEW d \in {p} \cup Container \cup Spot,
           MoveItem(p, i, d)
    PROVE  IInv' /\ PactStep
  <1>1. /\ place' = [place EXCEPT ![i] = d]
        /\ InternalCloseTrade(DisturbedByRemoval(i) \cup DisturbedByAdd(i, d))
        /\ UNCHANGED <<online, pos>>
        /\ d \in Container => d # i /\ ~IsHolding(i, d)
    BY DEF MoveItem
  <1>2. place \in [Item -> Place] /\ NoTrap(place) /\ d \in Place
    BY DEF IInv, TypeOK, Place
  <1>3. PICK D : D = DisturbedByRemoval(i) \cup DisturbedByAdd(i, d)
    OBVIOUS
  <1>4. D \in SUBSET Player
    BY <1>2, <1>3, DisturbedPlayers
  <1>5. ASSUME d \in Item PROVE i \notin Chain(place, d)
    <2>1. d \in Container
      BY <1>5, Disjoint
    <2>2. d # i /\ i \notin Up(place, d)
      BY <1>1, <2>1, ReachDef DEF IsHolding
    <2>3. QED BY <1>5, <2>2, ChainUp
  <1>6. place' \in [Item -> Place] /\ NoTrap(place')
    BY <1>1, <1>2, <1>5, NoTrapMove
  <1>7. place'[i] = d /\ \A j \in Item \ {i} : place'[j] = place[j]
    BY <1>1, <1>2
  <1>8. ASSUME NEW r \in Player, NEW j \in Item, offer[r] # Nobody, place'[j] # place[j], r \notin D
        PROVE  /\ j \notin Chain(place, offer[r]) /\ offer[r] \notin Chain(place, j)
               /\ offer[r] \notin Up(place', j)
    <2>1. j = i
      BY <1>7, <1>8
    <2>2. i \notin Chain(place, offer[r]) /\ offer[r] \notin Chain(place, i)
      BY <1>3, <1>8, RemovalNoticed
    <2>3. offer[r] \in Item
      BY <1>8, Owner
    <2>4. CASE d \in Item
      <3>1. offer[r] \notin Chain(place, d)
        BY <1>3, <1>8, <2>4, AddNoticed
      <3>2. \A c \in Chain(place, d) : place'[c] = place[c]
        BY <1>5, <1>7, <2>4, ChainClosed
      <3>3. Up(place', d) = Up(place, d)
        BY <2>4, <3>2, ChainKept
      <3>4. Up(place', i) = {d} \cup Up(place, d)
        BY <1>7, <2>4, <3>3, ChainUp
      <3>5. QED BY <2>1, <2>2, <2>3, <2>4, <3>1, <3>4, ChainClosed, ChainUp
    <2>5. CASE d \notin Item
      <3>1. Up(place', i) = {d}
        BY <1>7, <2>5, ChainUp
      <3>2. QED BY <2>1, <2>2, <2>3, <2>5, <3>1
    <2>6. QED BY <2>4, <2>5
  <1>9. QED BY <1>1, <1>3, <1>4, <1>6, <1>8, DisturbanceStep

LEMMA RemoveItemStep ==
    ASSUME IInv, NEW i \in Item, RemoveItem(i)
    PROVE  IInv' /\ PactStep
  <1>1. /\ place' = [j \in Item |-> IF j = i \/ i \in Up(place, j) THEN Nowhere ELSE place[j]]
        /\ InternalCloseTrade(DisturbedByRemoval(i))
        /\ UNCHANGED <<online, pos>>
    BY ReachDef DEF RemoveItem, IsHolding
  <1>2. place \in [Item -> Place] /\ NoTrap(place)
    BY DEF IInv, TypeOK, Place
  <1>3. PICK D : D = DisturbedByRemoval(i)
    OBVIOUS
  <1>4. D \in SUBSET Player
    BY <1>3, DisturbedPlayers
  <1>5. place' \in [Item -> Place]
    BY <1>1, <1>2 DEF Place
  <1>6. \A j \in Item : place'[j] # place[j] =>
            place'[j] = Nowhere /\ (j = i \/ i \in Up(place, j))
    BY <1>1
  <1>7. \A j \in Item : place'[j] \in Item => place'[j] = place[j]
    BY <1>1, Disjoint
  <1>8. NoTrap(place')
    BY <1>2, <1>7 DEF NoTrap
  <1>9. ASSUME NEW r \in Player, NEW j \in Item, offer[r] # Nobody, place'[j] # place[j], r \notin D
        PROVE  /\ j \notin Chain(place, offer[r]) /\ offer[r] \notin Chain(place, j)
               /\ offer[r] \notin Up(place', j)
    <2>1. i \notin Chain(place, offer[r]) /\ offer[r] \notin Chain(place, i)
      BY <1>3, <1>9, RemovalNoticed
    <2>2. i \in Chain(place, j)
      BY <1>6, <1>9, ChainUp, ChainClosed
    <2>3. offer[r] \in Item
      BY <1>9, Owner
    <2>4. j \notin Chain(place, offer[r])
      BY <2>1, <2>2, <2>3, ChainTransitive
    <2>5. offer[r] \notin Chain(place, j)
      BY <2>1, <2>2, ChainLinear
    <2>6. Up(place', j) = {Nowhere}
      BY <1>6, <1>9, Disjoint, ChainUp
    <2>7. QED BY <2>3, <2>4, <2>5, <2>6, Disjoint
  <1>10. QED BY <1>1, <1>3, <1>4, <1>5, <1>8, <1>9, DisturbanceStep

LEMMA MoveStep ==
    ASSUME IInv, NEW p \in Player, NEW s \in Spot, Move(p, s)
    PROVE  IInv' /\ PactStep
  <1>1. PICK gone \in BOOLEAN :
            gone <=> \/ offer[p] # Nobody /\ Far(PositionOf(offer[p], pos'), s, 1)
                     \/ peer[p] # Nobody /\ Far(pos'[peer[p]], s, 2)
    <2>1. (\/ offer[p] # Nobody /\ Far(PositionOf(offer[p], pos'), s, 1)
           \/ peer[p] # Nobody /\ Far(pos'[peer[p]], s, 2)) \in BOOLEAN
      OBVIOUS
    <2>2. QED BY <2>1
  <1>2. /\ pos' = [pos EXCEPT ![p] = s] /\ UNCHANGED <<online, place>>
        /\ InternalCloseTrade(IF gone THEN {p} ELSE {})
    <2>1. CASE gone
      BY <1>1, <2>1 DEF Move
    <2>2. CASE ~gone
      BY <1>1, <2>2 DEF Move
    <2>3. QED BY <2>1, <2>2
  <1>3. PICK D : D = IF gone THEN {p} ELSE {}
    OBVIOUS
  <1>4. D \in SUBSET Player /\ InternalCloseTrade(D)
    BY <1>2, <1>3
  <1>5. PICK E : E = Closes(D)
    OBVIOUS
  <1>6. D \subseteq E /\ E \subseteq Player /\ \A r \in Player : peer[r] \in E => r \in E
    BY <1>4, <1>5, ClosesPairs
  <1>7. /\ online' \subseteq Player /\ pos' \in [Player -> Spot] /\ place' \in [Item -> Place]
        /\ NoTrap(place') /\ pos'[p] = s /\ \A r \in Player \ {p} : pos'[r] = pos[r]
    BY <1>2 DEF IInv, TypeOK, Place
  <1>8. ASSUME NEW r \in Player \ E, peer[r] # Nobody
        PROVE  StillOpen(r, online', pos', place')
    <2>1. /\ r \in online /\ peer[r] \in online /\ ~Far(pos[r], pos[peer[r]], 2)
          /\ offer[r] # Nobody =>
                 place[offer[r]] # Nowhere /\ InReach(place, pos, r, offer[r])
          /\ peer[r] \in Player /\ peer[peer[r]] = r /\ peer[r] # r
      BY <1>8, Trader DEF StillOpen
    <2>2. CASE r = p
      <3>1. ~gone
        BY <1>3, <1>6, <1>8, <2>2
      <3>2. ~Far(pos'[p], pos'[peer[p]], 2)
        BY <1>1, <1>7, <1>8, <2>2, <3>1 DEF Far
      <3>3. ASSUME offer[p] # Nobody PROVE InReach(place, pos', p, offer[p])
        <4>1. InReach(place, pos, p, offer[p]) /\ offer[p] \in Item
          BY <3>3, Owner
        <4>2. PICK t : t = Top(place, offer[p])
          OBVIOUS
        <4>3. t = p \/ t \in Spot
          BY <4>1, <4>2 DEF InReach
        <4>4. CASE t = p
          BY <4>2, <4>4 DEF InReach
        <4>5. CASE t \in Spot
          <5>1. PositionOf(offer[p], pos') = t
            BY <4>2, <4>5, ReachDef, Disjoint DEF PositionOf
          <5>2. ~Far(t, s, 1)
            BY <1>1, <3>1, <3>3, <5>1
          <5>3. ~Far(pos'[p], t, 1)
            BY <1>7, <5>2 DEF Far
          <5>4. QED BY <4>2, <4>5, <5>3 DEF InReach
        <4>6. QED BY <4>3, <4>4, <4>5
      <3>4. QED BY <1>2, <2>1, <2>2, <3>2, <3>3 DEF StillOpen
    <2>3. CASE r # p
      <3>1. pos'[r] = pos[r]
        BY <1>7, <2>3
      <3>2. ~Far(pos'[r], pos'[peer[r]], 2)
        <4>1. CASE peer[r] = p
          <5>1. peer[p] = r /\ peer[p] # Nobody
            BY <2>1, <4>1, Disjoint
          <5>2. ~gone
            BY <1>3, <1>6, <1>8, <4>1
          <5>3. QED BY <1>1, <1>7, <4>1, <5>1, <5>2
        <4>2. CASE peer[r] # p
          BY <1>7, <2>1, <3>1, <4>2
        <4>3. QED BY <4>1, <4>2
      <3>3. offer[r] # Nobody => InReach(place, pos', r, offer[r])
        BY <2>1, <3>1 DEF InReach
      <3>4. QED BY <1>2, <2>1, <3>2, <3>3 DEF StillOpen
    <2>4. QED BY <2>2, <2>3
  <1>9. IInv'
    BY <1>2, <1>4, <1>5, <1>7, <1>8, Closing
  <1>10. Pact!Untouched(Player \ E)
    BY <1>2, UnmovedUntouched
  <1>11. Pact!PactNext
    BY <1>4, <1>5, <1>10, ClosingDissolves
  <1>12. QED BY <1>9, <1>11 DEF PactStep

LEMMA LogoutStep ==
    ASSUME IInv, NEW p \in Player, Logout(p)
    PROVE  IInv' /\ PactStep
  <1>1. PICK D : D = IF peer[p] # Nobody THEN {p} ELSE {}
    OBVIOUS
  <1>2. /\ online' = online \ {p} /\ UNCHANGED <<pos, place>> /\ InternalCloseTrade(D)
        /\ D \in SUBSET Player
    BY <1>1 DEF Logout
  <1>3. PICK E : E = Closes(D)
    OBVIOUS
  <1>4. D \subseteq E /\ \A r \in Player : peer[r] \in E => r \in E
    BY <1>2, <1>3, ClosesPairs
  <1>5. /\ online' \subseteq Player /\ pos' \in [Player -> Spot] /\ place' \in [Item -> Place]
        /\ NoTrap(place')
    BY <1>2 DEF IInv, TypeOK, Place
  <1>6. ASSUME NEW r \in Player \ E, peer[r] # Nobody
        PROVE  StillOpen(r, online', pos', place')
    <2>1. StillOpen(r, online, pos, place) /\ peer[peer[r]] = r
      BY <1>6, Trader
    <2>2. r # p
      BY <1>1, <1>4, <1>6
    <2>3. peer[r] # p
      BY <1>1, <1>4, <1>6, <2>1, Disjoint
    <2>4. QED BY <1>2, <2>1, <2>2, <2>3 DEF StillOpen
  <1>7. IInv'
    BY <1>2, <1>3, <1>5, <1>6, Closing
  <1>8. Pact!Untouched(Player \ E)
    BY <1>2, UnmovedUntouched
  <1>9. Pact!PactNext
    BY <1>2, <1>3, <1>8, ClosingDissolves
  <1>10. QED BY <1>7, <1>9 DEF PactStep

LEMMA LoginStep ==
    ASSUME IInv, NEW p \in Player, NEW s \in Spot, Login(p, s)
    PROVE  IInv' /\ PactStep
  <1>1. /\ p \notin online /\ online' = online \cup {p} /\ pos' = [pos EXCEPT ![p] = s]
        /\ UNCHANGED <<place, tradeState, peer, offer, tradeItems>>
    BY DEF Login, tradeVars
  <1>2. TypeOK /\ PeersMutual /\ Apart(tradeItems, offer, place) /\ NoTrap(place) /\ AckOpen
    BY ReachDef DEF IInv, TradesSound
  <1>3. TypeOK' /\ \A r \in Player \ {p} : pos'[r] = pos[r]
    BY <1>1, <1>2 DEF TypeOK
  <1>4. Open(online', pos', place', peer', offer')
    <2>1. ASSUME NEW r \in Player, peer[r] # Nobody
          PROVE  StillOpen(r, online', pos', place')
      <3>1. /\ r \in online /\ peer[r] \in online /\ ~Far(pos[r], pos[peer[r]], 2)
            /\ offer[r] # Nobody =>
                   place[offer[r]] # Nowhere /\ InReach(place, pos, r, offer[r])
            /\ peer[r] \in Player
        BY <2>1, Trader DEF StillOpen
      <3>2. pos'[r] = pos[r] /\ pos'[peer[r]] = pos[peer[r]]
        BY <1>1, <1>3, <3>1
      <3>3. offer[r] # Nobody => InReach(place, pos', r, offer[r])
        BY <3>1, <3>2 DEF InReach
      <3>4. QED BY <1>1, <3>1, <3>2, <3>3 DEF StillOpen
    <2>2. QED BY <1>1, <2>1 DEF Open, StillOpen
  <1>5. PeersMutual' /\ AckOpen' /\ NoTrap(place)' /\ Apart(tradeItems', offer', place')
    <2>1. PeersMutual'
      BY <1>1, <1>2 DEF PeersMutual
    <2>2. AckOpen'
      BY <1>1, <1>2 DEF AckOpen
    <2>3. NoTrap(place)'
      BY <1>1, <1>2 DEF NoTrap
    <2>4. QED BY <1>1, <1>2, <2>1, <2>2, <2>3
  <1>6. IInv'
    BY <1>3, <1>4, <1>5, ReachDef DEF IInv, TradesSound
  <1>7. PactStep
    BY <1>1 DEF PactStep, Pact!pactVars
  <1>8. QED BY <1>6, <1>7

-----------------------------------------------------------------------------
(***************************************************************************)
(* The theorems.                                                           *)
(***************************************************************************)
LEMMA InitHolds ==
    ASSUME Init
    PROVE  IInv /\ Pact!PactInit
  <1>1. /\ online = Player /\ pos \in [Player -> Spot] /\ place \in [Item -> Player]
        /\ tradeState = [p \in Player |-> "none"] /\ peer = [p \in Player |-> Nobody]
        /\ offer = [p \in Player |-> Nobody] /\ tradeItems = {}
    BY DEF Init
  <1>2. TypeOK
    BY <1>1 DEF TypeOK, States
  <1>3. PeersMutual /\ AckOpen
    BY <1>1 DEF PeersMutual, AckOpen
  <1>4. Apart(tradeItems, offer, place) /\ Open(online, pos, place, peer, offer)
    BY <1>1 DEF Apart, Open
  <1>5. NoTrap(place)
    <2>1. \A i \in Item : place[i] \notin Item
      BY <1>1, Disjoint
    <2>2. QED BY <2>1 DEF NoTrap
  <1>6. IInv
    BY <1>2, <1>3, <1>4, <1>5, ReachDef DEF IInv, TradesSound
  <1>7. {p \in Player : tradeState[p] = "accept"} = {}
    BY <1>1
  <1>8. QED BY <1>1, <1>6, <1>7 DEF Pact!PactInit

LEMMA NextHolds ==
    ASSUME IInv, Next
    PROVE  IInv' /\ PactStep
  <1>1. ASSUME NEW p \in Player, NEW q \in Player, NEW i \in Item, RequestTrade(p, q, i)
        PROVE  IInv' /\ PactStep
    BY <1>1, RequestTradeStep
  <1>2. ASSUME NEW p \in Player, AcceptFirst(p) PROVE IInv' /\ PactStep
    BY <1>2, AcceptFirstStep
  <1>3. ASSUME NEW p \in Player, AcceptClosed(p) \/ CloseTrade(p) PROVE IInv' /\ PactStep
    <2>1. /\ InternalCloseTrade({p}) /\ {p} \in SUBSET Player
          /\ UNCHANGED <<online, pos, place>>
      BY <1>3 DEF AcceptClosed, CloseTrade
    <2>2. QED BY <2>1, CloseStep
  <1>4. ASSUME NEW p \in Player, AcceptFailed(p) PROVE IInv' /\ PactStep
    BY <1>4, AcceptFailedStep
  <1>5. ASSUME NEW p \in Player, AcceptDone(p) PROVE IInv' /\ PactStep
    BY <1>5, AcceptDoneStep
  <1>6. ASSUME NEW p \in Player, AcceptHalf(p) PROVE IInv' /\ PactStep
    BY <1>6, AcceptHalfStep
  <1>7. ASSUME NEW p \in Player, Logout(p) PROVE IInv' /\ PactStep
    BY <1>7, LogoutStep
  <1>8. ASSUME NEW p \in Player, NEW s \in Spot, Move(p, s) PROVE IInv' /\ PactStep
    BY <1>8, MoveStep
  <1>9. ASSUME NEW p \in Player, NEW s \in Spot, Login(p, s) PROVE IInv' /\ PactStep
    BY <1>9, LoginStep
  <1>10. ASSUME NEW p \in Player, NEW i \in Item, NEW d \in {p} \cup Container \cup Spot,
                MoveItem(p, i, d)
         PROVE  IInv' /\ PactStep
    BY <1>10, MoveItemStep
  <1>11. ASSUME NEW i \in Item, RemoveItem(i) PROVE IInv' /\ PactStep
    BY <1>11, RemoveItemStep
  <1>12. QED BY <1>1, <1>2, <1>3, <1>4, <1>5, <1>6, <1>7, <1>8, <1>9, <1>10, <1>11 DEF Next

LEMMA StutterHolds ==
    ASSUME IInv, UNCHANGED vars
    PROVE  IInv' /\ PactStep
  <1>1. UNCHANGED <<online, pos, place, tradeState, peer, offer, tradeItems>>
    BY DEF vars, tradeVars
  <1>2. /\ TypeOK /\ PeersMutual /\ AckOpen /\ NoTrap(place)
        /\ Apart(tradeItems, offer, place) /\ Open(online, pos, place, peer, offer)
    BY ReachDef DEF IInv, TradesSound
  <1>3. TypeOK' /\ PeersMutual' /\ AckOpen' /\ NoTrap(place)'
    BY <1>1, <1>2 DEF TypeOK, PeersMutual, AckOpen, NoTrap
  <1>4. Apart(tradeItems', offer', place') /\ Open(online', pos', place', peer', offer')
    BY <1>1, <1>2
  <1>5. IInv'
    BY <1>3, <1>4, ReachDef DEF IInv, TradesSound
  <1>6. PactStep
    BY <1>1 DEF PactStep, Pact!pactVars
  <1>7. QED BY <1>5, <1>6

(***************************************************************************)
(* The inductive invariant of trading.                                     *)
(***************************************************************************)
THEOREM Invariance == Spec => []IInv
  <1>1. Init => IInv
    BY InitHolds
  <1>2. IInv /\ [Next]_vars => IInv'
    BY NextHolds, StutterHolds
  <1>3. QED BY <1>1, <1>2, PTL DEF Spec

(***************************************************************************)
(* Positions, places, states and offers stay what they are.                *)
(***************************************************************************)
THEOREM TypeCorrect == Spec => []TypeOK
  <1>1. IInv => TypeOK
    BY DEF IInv
  <1>2. QED BY <1>1, Invariance, PTL

(***************************************************************************)
(* However many players trade, move, drag and log out: trading is mutual,  *)
(* no item is promised twice, by itself or with the bag around it, and a   *)
(* trade that is open can be completed.                                    *)
(***************************************************************************)
THEOREM TradesAreSound == Spec => []TradesSound
  <1>1. IInv => TradesSound
    BY DEF IInv
  <1>2. QED BY <1>1, Invariance, PTL

(***************************************************************************)
(* No bag ever ends up inside itself, so that Item::getTopParent always    *)
(* comes to an end, whatever is dragged about and traded.                  *)
(***************************************************************************)
THEOREM ContainmentEnds == Spec => [](\A i \in Item : TopParent(i) \notin Item /\ ~IsHolding(i, i))
  <1>1. IInv => \A i \in Item : TopParent(i) \notin Item /\ ~IsHolding(i, i)
    <2>1. SUFFICES ASSUME IInv, NEW i \in Item PROVE TopParent(i) \notin Item /\ ~IsHolding(i, i)
      OBVIOUS
    <2>2. NoTrap(place)
      BY <2>1 DEF IInv
    <2>3. Top(place, i) \notin Item /\ i \notin Up(place, i)
      BY <2>2, TopUnique, NotAboveItself
    <2>4. QED BY <2>3, ReachDef DEF IsHolding
  <1>2. QED BY <1>1, Invariance, PTL

(***************************************************************************)
(* Trading keeps the pact: an offer stays untouched until the trade is     *)
(* dissolved, and changes hands only between two who both agreed.          *)
(***************************************************************************)
THEOREM PactRefinement == Spec => ImplementsPact
  <1>1. Init => Pact!PactInit
    BY InitHolds
  <1>2. IInv /\ [Next]_vars => [Pact!PactNext]_(Pact!pactVars)
    BY NextHolds, StutterHolds DEF PactStep
  <1>3. QED BY <1>1, <1>2, Invariance, PTL DEF Spec, ImplementsPact, Pact!PactSpec
=============================================================================
