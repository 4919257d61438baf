SPECIFICATION Spec
CONSTANTS
    Aid = {a}
    Id = {1}
    Slot = {k1, k2}
    None = None
    Good <- MCGood
    g = g
    h = h
    Price <- MCPrice
    SellPrice <- MCSellPrice
    RepairPrice = 1
    Initial <- MCInitial
    MaximumItems = 1
    Word = 4
    LastId = 4
    Batch = 1
    MaxMade = 2
    Checked = FALSE
SYMMETRY Symmetry
PROPERTY WholeUpdates
CHECK_DEADLOCK FALSE
