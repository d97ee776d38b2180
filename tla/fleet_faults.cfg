CONSTANTS
  a = a  b = b  c = c  p = p  a1 = a1  b1 = b1  c1 = c1  p1 = p1
  Bots = {a, b, c, p}
  Live = {a, b, c}
  Checking = {a, b, p}
  Orders = {a1, b1, c1, p1}
  OwnerOf <- MCOwnerOf
  NotionalOf <- MCNotionalOf
  Cap = 3
SPECIFICATION Spec
CHECK_DEADLOCK FALSE
INVARIANTS TypeOK
PROPERTIES OvershootIsUnseen RefusedOnlyIfFull
