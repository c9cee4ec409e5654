\* Two calls of Battery_Init: the second one finds what the first has left.
SPECIFICATION FairSpec
CONSTANT MaxInits = 2
INVARIANT MisuseNeedsClose
PROPERTIES DockStaysRequested EdgesAreRead
CHECK_DEADLOCK FALSE
