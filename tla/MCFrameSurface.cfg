SPECIFICATION Spec
CONSTANTS
  HD_MAX_WINDOWS = 2
  Cap = 2
  MaxCreates = 3
  Addresses = {a, b, c}
  NoPixels = NoPixels
  Nothing = Nothing
INVARIANT SurfaceStaysUnderFrame
