SPECIFICATION FormsSpec
CONSTANTS
  N = 256
  Widths = {1, 4, 5, 10, 11, 12}
  Lengths = {0, 1, 8, 13}
INVARIANTS
  PacksInPlace
  UnpacksInPlace
  FormsAgree
  AccessesStayInside
CHECK_DEADLOCK FALSE
