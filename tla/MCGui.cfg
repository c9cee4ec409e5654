\* Every call; two widgets; no symmetry, which is unsound for liveness.
SPECIFICATION FairSpec
CONSTANTS
  Client = {c1, c2}
  Calls = {"Add", "Change", "Remove", "Clear", "Quad", "CleanUp"}
  Widget = {w1, w2}
  Nobody = Nobody
INVARIANTS LockLostToWaiter UnrobbedIsSafe UnspoiltIsDrawn
PROPERTIES CallsReturn
CHECK_DEADLOCK FALSE
