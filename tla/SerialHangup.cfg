SPECIFICATION CallerSpec
CONSTANTS
  Room = 2
  Baudrates = {115200, 123}
  Supported = {115200}
  Sizes = {0, 2}
  MaxBytes = 3
INVARIANT RaisesOnlyWhenGone
CHECK_DEADLOCK FALSE
