-------------------------------- MODULE Trade --------------------------------
(***************************************************************************)
(* Trading between players: Game::playerRequestTrade and its companions in *)
(* src/src/game.cpp, and the hooks of src/src/player.cpp that break a      *)
(* trade off when an offered item or a trader moves.                       *)
(*                                                                         *)
(* Items lie in a player's inventory, in a container or on a spot of a     *)
(* one-dimensional map, which is enough to tell "within one square" (an    *)
(* item one may touch) from "within two" (a player one may trade with)     *)
(* from "too far".  One action is one dispatcher task: a packet handler, a *)
(* step of a creature, a removal of an item.  What the scripts decide, and *)
(* whether an item finds room, are choices.                                *)
(***************************************************************************)
EXTENDS Integers

CONSTANTS
    Player,
    Item,
    Container,   \* the items that can hold items
    Spot,        \* the squares of the map, integers
    Nobody,      \* no trade partner, no trade item
    Nowhere      \* the place of an item that was removed

ASSUME PlaceAssumption ==
    /\ Container \subseteq Item
    /\ Spot \subseteq Int
    /\ Player \cap Item = {} /\ Player \cap Spot = {} /\ Item \cap Spot = {}
    /\ \A x \in Player \cup Item \cup Spot : x # Nobody /\ x # Nowhere

VARIABLES
    online,     \* players in the world
    pos,        \* the spot a player stands on
    place,      \* the cylinder an item is in
    tradeState, \* Player::tradeState
    peer,       \* Player::tradePartner
    offer,      \* Player::tradeItem
    tradeItems  \* the keys of Game::tradeItems

tradeVars == <<tradeState, peer, offer, tradeItems>>
vars == <<online, pos, place, tradeVars>>

\* TRADE_TRANSFER exists only inside playerAcceptTrade, which is one action.
States == {"none", "initiated", "accept", "acknowledge"}

TypeOK ==
    /\ online \subseteq Player
    /\ pos \in [Player -> Spot]
    /\ place \in [Item -> Player \cup Container \cup Spot \cup {Nowhere}]
    /\ tradeState \in [Player -> States]
    /\ peer \in [Player -> Player \cup {Nobody}]
    /\ offer \in [Player -> Item \cup {Nobody}]
    /\ tradeItems \subseteq Item

Init ==
    /\ online = Player
    /\ pos \in [Player -> Spot]
    /\ place \in [Item -> Player]
    /\ tradeState = [p \in Player |-> "none"]
    /\ peer = [p \in Player |-> Nobody]
    /\ offer = [p \in Player |-> Nobody]
    /\ tradeItems = {}

-----------------------------------------------------------------------------
(***************************************************************************)
(* Containment.                                                            *)
(***************************************************************************)
Pact == INSTANCE TradePact WITH agreed <- {p \in Player : tradeState[p] = "accept"}

\* Item::getParent, repeated; the last one is Item::getTopParent.
Parents(i) == Pact!Above(i)
TopParent(i) == CHOOSE t \in Parents(i) : t \notin Item

IsHolding(c, i) == c \in Parents(i)

Far(s, t, d) == s - t > d \/ t - s > d
PositionOf(i, at) == IF TopParent(i) \in Player THEN at[TopParent(i)] ELSE TopParent(i)

\* internalGetThing finds an item of the player or one lying within reach.
Reaches(p, i) ==
    \/ TopParent(i) = p
    \/ TopParent(i) \in Spot /\ ~Far(pos[p], TopParent(i), 1)

(***************************************************************************)
(* The players a change inside cylinder c is reported to: the player that  *)
(* carries it, else the spectators of the tile, else, for a container on   *)
(* the ground, the players within one square.                              *)
(***************************************************************************)
Witnesses(c) ==
    IF c \in Player THEN {c}
    ELSE IF c \in Spot THEN online
    ELSE IF TopParent(c) \in Player THEN {TopParent(c)}
    ELSE {p \in online : ~Far(pos[p], TopParent(c), 1)}

\* Player::checkTradeState for item i lying in (or put into) cylinder c.
Touches(p, i, c) ==
    offer[p] # Nobody /\ offer[p] \in {i, c} \cup (IF c \in Item THEN Parents(c) ELSE {})

\* Player::onRemoveTileItem and onRemoveInventoryItem: the item, one in it or
\* one around it is on offer.
SeesItemLeave(p, i) ==
    Touches(p, i, place[i]) \/ (offer[p] # Nobody /\ IsHolding(i, offer[p]))

\* Player::onRemoveContainerItem: also when an offer lies deeper in the same
\* container than the item that leaves it.
SeesContainerItemLeave(p, i) ==
    \/ Touches(p, i, place[i])
    \/ offer[p] # Nobody /\ place[offer[p]] # place[i] /\ IsHolding(place[i], offer[p])

DisturbedByRemoval(i) ==
    {p \in Witnesses(place[i]) :
        IF place[i] \in Item THEN SeesContainerItemLeave(p, i) ELSE SeesItemLeave(p, i)}

\* slip: no hook when something is put into a container
SlipDisturbedByAdd(i, c) == {}

\* Player::onAddContainerItem; tiles and inventories have no such hook
DisturbedByAdd(i, c) == {p \in Witnesses(c) : c \in Item /\ Touches(p, i, c)}

-----------------------------------------------------------------------------
(***************************************************************************)
(* Game::internalCloseTrade for every player of D: the player and his      *)
(* partner lose state, partner and item, and the items leave the registry. *)
(***************************************************************************)
InternalCloseTrade(D) ==
    LET E == D \cup {peer[p] : p \in {q \in D : peer[q] # Nobody}}
    IN  /\ tradeState' = [p \in Player |-> IF p \in E THEN "none" ELSE tradeState[p]]
        /\ peer' = [p \in Player |-> IF p \in E THEN Nobody ELSE peer[p]]
        /\ offer' = [p \in Player |-> IF p \in E THEN Nobody ELSE offer[p]]
        /\ tradeItems' = tradeItems \ {offer[p] : p \in E}

-----------------------------------------------------------------------------
(***************************************************************************)
(* Offering.                                                               *)
(***************************************************************************)
\* Game::playerRequestTrade, the scan of tradeItems
\* slip: only the item itself is looked up
SlipAlreadyTraded(i) == i \in tradeItems

AlreadyTraded(i) ==
    \E j \in tradeItems :
        \/ i = j
        \/ i \in Container /\ IsHolding(i, j)
        \/ IsHolding(j, i)

\* Game::internalStartTrade, the two refusals
CanStart(p, q) ==
    /\ tradeState[p] = "none" \/ (tradeState[p] = "acknowledge" /\ peer[p] = q)
    /\ tradeState[q] = "none" \/ peer[q] = p

\* Game::internalStartTrade, past the refusals
\* slip: registers the item the player offered before
SlipStartTrade(p, q, i) ==
    /\ offer' = [offer EXCEPT ![p] = i]
    /\ tradeItems' = tradeItems \cup {offer[p]}
    /\ tradeState' = [tradeState EXCEPT ![p] = "initiated",
                         ![q] = IF @ = "none" THEN "acknowledge" ELSE @]
    /\ peer' = [peer EXCEPT ![p] = q, ![q] = IF tradeState[q] = "none" THEN p ELSE @]
StartTrade(p, q, i) ==
    /\ offer' = [offer EXCEPT ![p] = i]
    /\ tradeItems' = tradeItems \cup {i}
    /\ tradeState' = [tradeState EXCEPT ![p] = "initiated",
                         ![q] = IF @ = "none" THEN "acknowledge" ELSE @]
    /\ peer' = [peer EXCEPT ![p] = q, ![q] = IF tradeState[q] = "none" THEN p ELSE @]

\* A script may refuse the request, which changes nothing.
RequestTrade(p, q, i) ==
    /\ p \in online /\ q \in online /\ p # q
    /\ ~Far(pos[p], pos[q], 2)
    /\ place[i] # Nowhere /\ Reaches(p, i)
    /\ ~AlreadyTraded(i)
    /\ CanStart(p, q)
    /\ StartTrade(p, q, i)
    /\ UNCHANGED <<online, pos, place>>

-----------------------------------------------------------------------------
(***************************************************************************)
(* Game::playerAcceptTrade.  The first acceptance is only recorded; at the *)
(* second one the trade is closed, fails or goes through.  The hooks of    *)
(* the two traders are silent in TRADE_TRANSFER, and by OffersApart the    *)
(* two items are nothing to the trades of others.                          *)
(***************************************************************************)
MayAccept(p) ==
    /\ p \in online
    /\ tradeState[p] \in {"acknowledge", "initiated"}
    /\ peer[p] # Nobody

AcceptFirst(p) ==
    /\ MayAccept(p) /\ tradeState[peer[p]] # "accept"
    /\ tradeState' = [tradeState EXCEPT ![p] = "accept"]
    /\ UNCHANGED <<online, pos, place, peer, offer, tradeItems>>

\* Different instances (at either acceptance), no line of sight, an item that
\* is missing, or a script that refuses: internalCloseTrade.
AcceptClosed(p) ==
    /\ MayAccept(p)
    /\ InternalCloseTrade({p})
    /\ UNCHANGED <<online, pos, place>>

\* Both pointers are set and the scripts agree: TRADE_TRANSFER.
BothOffered(p, q) ==
    /\ MayAccept(p) /\ q = peer[p] /\ tradeState[q] = "accept"
    /\ offer[p] # Nobody /\ offer[q] # Nobody

\* The end of playerAcceptTrade, whatever became of the items.
EndTransfer(p, q) ==
    /\ tradeState' = [tradeState EXCEPT ![p] = "none", ![q] = "none"]
    /\ peer' = [peer EXCEPT ![p] = Nobody, ![q] = Nobody]
    /\ offer' = [offer EXCEPT ![p] = Nobody, ![q] = Nobody]
    /\ tradeItems' = tradeItems \ {offer[p], offer[q]}
    /\ UNCHANGED <<online, pos>>

\* No room, no capacity, an equipped backpack, or the first move refused.
AcceptFailed(p) ==
    \E q \in Player :
        /\ BothOffered(p, q)
        /\ EndTransfer(p, q)
        /\ UNCHANGED place

\* Where internalMoveItem may put item i of a player: the inventory itself or
\* a container in it, but never inside the counter-offer.
RoomsOf(q, i, counter) ==
    {q} \cup {c \in Container \ {i, counter} :
                 /\ TopParent(c) = q
                 /\ ~IsHolding(i, c) /\ ~IsHolding(counter, c)}

\* Both items change hands.
AcceptDone(p) ==
    \E q \in Player :
        /\ BothOffered(p, q)
        /\ \E d \in RoomsOf(q, offer[p], offer[q]), e \in RoomsOf(p, offer[q], offer[p]) :
              place' = [place EXCEPT ![offer[p]] = d, ![offer[q]] = e]
        /\ EndTransfer(p, q)

\* The result of the second internalMoveItem is not looked at.  The room it
\* was tested for can have been inside the container just given away.
AcceptHalf(p) ==
    \E q \in Player :
        /\ BothOffered(p, q) /\ offer[p] \in Container
        /\ \E d \in RoomsOf(q, offer[p], offer[q]) :
              place' = [place EXCEPT ![offer[p]] = d]
        /\ EndTransfer(p, q)

\* Game::playerCloseTrade, from the client
CloseTrade(p) ==
    /\ p \in online
    /\ InternalCloseTrade({p})
    /\ UNCHANGED <<online, pos, place>>

-----------------------------------------------------------------------------
(***************************************************************************)
(* What happens around a trade.                                            *)
(***************************************************************************)
\* Player p drags item i into cylinder d.
MoveItem(p, i, d) ==
    /\ p \in online
    /\ place[i] # Nowhere /\ Reaches(p, i) /\ d # place[i]
    /\ d \in Container => d # i /\ ~IsHolding(i, d) /\ place[d] # Nowhere /\ Reaches(p, d)
    /\ d \in Player => d = p
    /\ place' = [place EXCEPT ![i] = d]
    /\ InternalCloseTrade(DisturbedByRemoval(i) \cup DisturbedByAdd(i, d))
    /\ UNCHANGED <<online, pos>>

\* Item i is used up, decays or is removed by a script, with its contents.
RemoveItem(i) ==
    /\ place[i] # Nowhere
    /\ place' = [j \in Item |-> IF j = i \/ IsHolding(i, j) THEN Nowhere ELSE place[j]]
    /\ InternalCloseTrade(DisturbedByRemoval(i))
    /\ UNCHANGED <<online, pos>>

\* Player::onCreatureMove, for a step or a teleport
Move(p, s) ==
    /\ p \in online /\ s # pos[p]
    /\ pos' = [pos EXCEPT ![p] = s]
    /\ LET gone == \/ offer[p] # Nobody /\ Far(PositionOf(offer[p], pos'), s, 1)
                   \/ peer[p] # Nobody /\ Far(pos'[peer[p]], s, 2)
       IN  InternalCloseTrade(IF gone THEN {p} ELSE {})
    /\ UNCHANGED <<online, place>>

\* Player::onCreatureDisappear of the player himself
Logout(p) ==
    /\ p \in online
    /\ online' = online \ {p}
    /\ InternalCloseTrade(IF peer[p] # Nobody THEN {p} ELSE {})
    /\ UNCHANGED <<pos, place>>

Login(p, s) ==
    /\ p \notin online
    /\ online' = online \cup {p}
    /\ pos' = [pos EXCEPT ![p] = s]
    /\ UNCHANGED <<place, tradeVars>>

Next ==
    \/ \E p, q \in Player, i \in Item : RequestTrade(p, q, i)
    \/ \E p \in Player :
          \/ AcceptFirst(p) \/ AcceptClosed(p) \/ AcceptFailed(p)
          \/ AcceptDone(p) \/ AcceptHalf(p) \/ CloseTrade(p) \/ Logout(p)
          \/ \E s \in Spot : Move(p, s) \/ Login(p, s)
          \/ \E i \in Item, d \in {p} \cup Container \cup Spot : MoveItem(p, i, d)
    \/ \E i \in Item : RemoveItem(i)

Spec == Init /\ [][Next]_vars

-----------------------------------------------------------------------------
(***************************************************************************)
(* Whatever a client sends and whoever logs out, trading is mutual: the    *)
(* player I trade with trades with me, and nobody is in a trade state      *)
(* without a partner.  (Game::internalStartTrade writes the two players    *)
(* separately, Game::internalCloseTrade clears the partner it finds.)      *)
(***************************************************************************)
PeersMutual ==
    \A p \in Player :
        /\ peer[p] # Nobody => peer[p] # p /\ peer[peer[p]] = p
        /\ tradeState[p] = "none" <=> peer[p] = Nobody
        /\ offer[p] # Nobody => peer[p] # Nobody

(***************************************************************************)
(* Game::tradeItems, which playerRequestTrade relies on to refuse an item  *)
(* twice, holds exactly the items on offer, and no offered item lies       *)
(* inside another: an item can never be promised to two players, neither   *)
(* by itself nor with the bag around it.                                   *)
(***************************************************************************)
OffersApart ==
    /\ tradeItems = {offer[p] : p \in {q \in Player : offer[q] # Nobody}}
    /\ \A p, q \in Player :
          p # q /\ offer[p] # Nobody /\ offer[q] # Nobody
             => offer[p] # offer[q] /\ ~IsHolding(offer[p], offer[q])

(***************************************************************************)
(* A trade that is still open is one both can complete: the two are online *)
(* and within two squares, and each offered item still exists and is where *)
(* its owner could touch it.  The checks are made only when the player     *)
(* himself moves and only on the cylinder an item leaves or enters.        *)
(***************************************************************************)
OpenTradeInReach ==
    \A p \in Player :
        peer[p] # Nobody =>
            /\ p \in online /\ peer[p] \in online
            /\ ~Far(pos[p], pos[peer[p]], 2)
            /\ offer[p] # Nobody => place[offer[p]] # Nowhere /\ Reaches(p, offer[p])

(***************************************************************************)
(* The three together are what playerAcceptTrade takes for granted when it *)
(* moves the two items without looking again.                              *)
(***************************************************************************)
TradesSound == PeersMutual /\ OffersApart /\ OpenTradeInReach

(***************************************************************************)
(* The refinement: what is on offer stays untouched, with its contents,    *)
(* until the trade is dissolved, and it passes from one trader to the      *)
(* other only when both accepted.                                          *)
(***************************************************************************)
ImplementsPact == Pact!PactSpec
=============================================================================
