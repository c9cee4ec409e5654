\* Clicks move the brightness by one; the process may crash or exit, so it stops.
SPECIFICATION FairSpec
CONSTANTS
  RowOrder <- MCRowOrder
  Brightness = "brightness"
  Throws = {"voltage"}
  MaxChange = 1
INVARIANTS ReadingsAreActive MainOutlivesMenu
PROPERTY DirtyIsDrawn
CHECK_DEADLOCK FALSE
