CONSTANTS
    Capacity = 4
    Values = {v1, v2}
    Null = Null
    MaxBatch = 2
SPECIFICATION FairSpec
INVARIANTS RingInv NoSlotRace
PROPERTIES ImplementsQueue EventuallyTaken
