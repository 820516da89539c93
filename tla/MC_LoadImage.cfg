\* load_image over the image catalogue: classification, placement and
\* the cursor left for load_module.
CONSTANTS
  Images <- MC_Images
  Hints <- MC_Hints
  Args <- MC_Args
  MemLower = 640
  MemUpper = 4096
  StaleAddrs <- MC_StaleAddrs
  Cmdlines <- MC_Cmdlines
SPECIFICATION BootSpec
INVARIANT TypeOK
INVARIANT ClassifiedAsSpec
INVARIANT ImageComplete
INVARIANT PlacedInUpperMemory
INVARIANT CursorAboveImage
INVARIANT DebugSectionsBestEffort
CHECK_DEADLOCK FALSE
INVARIANT SymbolsHandedOver
PROPERTY KernelNameAsReference
PROPERTY EveryOptionHonoured
