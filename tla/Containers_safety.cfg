\* Two kinds in stacks of two, four units in all; the chest has room for everything.
SPECIFICATION Spec
CONSTANTS
    backpack = backpack
    bag = bag
    pouch = pouch
    chest = chest
    Outer = {backpack, chest}
    Bag = {bag, pouch}
    Unlimited = {chest}
    capacity <- Capacities
    Kind = {gold, arrow}
    StackSize = 2
    Virtual = Virtual
    Gone = Gone
    World = World
    MaxUnits = 4
SYMMETRY Symmetry
INVARIANTS
    TypeOK
    TreeExact
    LedgerExact
 
