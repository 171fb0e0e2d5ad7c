SPECIFICATION Spec
CONSTANTS
    Player = {p1, p2, p3}
    Item = {bag, pouch, coin}
    Container = {bag, pouch}
    Spot = {0, 1, 3}
    Nobody = Nobody
    Nowhere = Nowhere
SYMMETRY Symmetry
INVARIANTS
    TypeOK
    TradesSound

    
