------------------------------ MODULE TradePact ------------------------------
(***************************************************************************)
(* What a trade between two players promises, without positions, messages, *)
(* the registry of traded items or the trade states: two players bind      *)
(* themselves to each other and put up one item each; as long as an item   *)
(* is put up nothing happens to it nor to anything inside it; and it       *)
(* changes hands only between two players who both agreed.                 *)
(*                                                                         *)
(* The module says nothing of how a trade is broken off: any bound pair    *)
(* may be dissolved at any step, and the step may do what it likes with    *)
(* the items that pair had put up.  Trade.tla implements this module.      *)
(***************************************************************************)
CONSTANTS Player, Item, Container, Nobody

VARIABLES place,   \* where an item is: a player, an item, a spot, nowhere
          offer,   \* the item a player put up, or Nobody
          peer,    \* the player somebody is bound to, or Nobody
          agreed   \* the players who accepted

pactVars == <<place, offer, peer, agreed>>

PactInit ==
    /\ offer = [p \in Player |-> Nobody]
    /\ peer = [p \in Player |-> Nobody]
    /\ agreed = {}

(***************************************************************************)
(* Item i and the items around it, the innermost set that has i and with   *)
(* an item also the item that one is in; and everything item i is in.      *)
(***************************************************************************)
Around(at, i) ==
    {c \in Item : \A S \in SUBSET Item :
        i \in S /\ (\A x \in S : at[x] \in Item => at[x] \in S) => c \in S}

Above(i) == {place[c] : c \in Around(place, i)}

PutUp(i) == \E p \in Player : offer[p] # Nobody /\ offer[p] \in {i} \cup Above(i)

(***************************************************************************)
(* p puts up item i for q: no part of it may be put up already.            *)
(***************************************************************************)
Propose(p, q, i) ==
    /\ p # q
    /\ offer[p] = Nobody
    /\ peer[p] \in {Nobody, q}
    /\ peer[q] \in {Nobody, p}
    /\ ~PutUp(i)
    /\ \A r \in Player : offer[r] # Nobody => i \notin Above(offer[r])
    /\ offer' = [offer EXCEPT ![p] = i]
    /\ peer' = [peer EXCEPT ![p] = q, ![q] = p]
    /\ UNCHANGED <<place, agreed>>

Agree(p) ==
    /\ peer[p] # Nobody
    /\ agreed' = agreed \cup {p}
    /\ UNCHANGED <<place, offer, peer>>

(***************************************************************************)
(* Nothing that the players of S put up moved, nothing left it and nothing *)
(* was put into it.                                                        *)
(***************************************************************************)
Untouched(S) ==
    \A i \in Item : place'[i] # place[i] =>
        \A p \in S, o \in Item :
            offer[p] = o => o \notin {i} \cup Above(i) \cup Above(i)'

(***************************************************************************)
(* The pairs in D are dissolved and things are moved about; what the other *)
(* players put up stays as it is.  D may be empty.                         *)
(***************************************************************************)
Dissolve(D) ==
    /\ \A p \in D : peer[p] \in D \cup {Nobody}
    /\ offer' = [p \in Player |-> IF p \in D THEN Nobody ELSE offer[p]]
    /\ peer' = [p \in Player |-> IF p \in D THEN Nobody ELSE peer[p]]
    /\ agreed' = agreed \ D
    /\ Untouched(Player \ D)

(***************************************************************************)
(* p and q both agreed: what p put up is now in q and what q put up in p,  *)
(* each with all it contains; nothing else moved.  The one exception the   *)
(* implementation makes is that a bag given away may leave its former      *)
(* owner no room for the counter-offer, which then stays where it was.     *)
(***************************************************************************)
Settle(p, q) ==
    /\ peer[p] = q /\ peer[q] = p /\ q \in agreed
    /\ offer[p] # Nobody /\ offer[q] # Nobody
    /\ \E i, j \in Item :
          /\ i = offer[p] /\ j = offer[q]
          /\ q \in Above(i)'
          /\ p \in Above(j)' \/ (i \in Container /\ place'[j] = place[j])
          /\ \A k \in Item \ {i, j} : place'[k] = place[k]
    /\ Untouched(Player \ {p, q})
    /\ offer' = [offer EXCEPT ![p] = Nobody, ![q] = Nobody]
    /\ peer' = [peer EXCEPT ![p] = Nobody, ![q] = Nobody]
    /\ agreed' = agreed \ {p, q}

PactNext ==
    \/ \E p, q \in Player : (\E i \in Item : Propose(p, q, i)) \/ Settle(p, q)
    \/ \E p \in Player : Agree(p)
    \/ \E D \in SUBSET Player : Dissolve(D)

PactSpec == PactInit /\ [][PactNext]_pactVars
=============================================================================
