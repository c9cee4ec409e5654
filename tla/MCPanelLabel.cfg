\* One click; the process may stop.
SPECIFICATION Spec
CONSTANTS
  RowOrder <- MCRowOrder
  Brightness = "brightness"
  Throws = {}
  MaxChange = 1
INVARIANT ChangesActiveLabel
CHECK_DEADLOCK FALSE
