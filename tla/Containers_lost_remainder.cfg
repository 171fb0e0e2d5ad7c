\* A chest whose capacity, which it ignores otherwise, is one place.
SPECIFICATION Spec
CONSTANTS
    backpack = backpack
    bag = bag
    pouch = pouch
    chest = chest
    Outer = {backpack, chest}
    Bag = {bag, pouch}
    Unlimited = {chest}
    capacity <- ShortChest
    Kind = {gold, arrow}
    StackSize = 2
    Virtual = Virtual
    Gone = Gone
    World = World
    MaxUnits = 4

INVARIANT LedgerExact
