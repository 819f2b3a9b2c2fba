SPECIFICATION Spec
CONSTANTS
  Task = {t1, t2}
  Num = 3
  Maskable = TRUE
INVARIANTS NoDoubleAllocation MaskHolds FreeListIntact
PROPERTIES IsAllocator
