SPECIFICATION Spec
CONSTANTS
    Item = {a, b}
    NoItem = NoItem
    Size = 4
    MaxBatch = 2
    MaxPop = 2
    Large = FALSE
INVARIANTS TypeOK NoSlotRace WithinCapacity CopiedOldest
PROPERTY FifoSpec
