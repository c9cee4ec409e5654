\* No clicks; main may return, after which nothing runs.
SPECIFICATION Spec
CONSTANTS
  RowOrder <- MCRowOrder
  Brightness = "brightness"
  Throws = {}
  MaxChange = 0
INVARIANT ShowsGivenText
CHECK_DEADLOCK FALSE
