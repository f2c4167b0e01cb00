SPECIFICATION MCSpec
CONSTANTS
  LeftPoints <- MCLeft
  RightPoints <- MCRight
  FatherPoint = "f"
  Boxes <- MCBoxes
  Searchers = {s1}
  MaxOps = 4
INVARIANT LogEmptyAtRebuild
