CONSTANTS
  small = small
  large = large
  padded = padded
  Zero = Zero
  Null = Null
  MaxLost = 2
  Sizes = {small, large}
  Actual <- MCActual
SPECIFICATION Spec
CHECK_DEADLOCK FALSE
INVARIANTS
  TypeOK
  FileMatchesFrame
  NothingLeaks
