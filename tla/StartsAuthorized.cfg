SPECIFICATION AccessSpec
CONSTANTS
  Members = {m1, m2}
  Calls = {c1, c2}
  MaxProofs = 2
  MaxDay = 1
PROPERTY StartsAuthorized
CHECK_DEADLOCK FALSE
