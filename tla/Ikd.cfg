SPECIFICATION MCSpec
CONSTANTS
  LeftPoints <- MCLeft
  RightPoints <- MCRight
  FatherPoint = "f"
  Boxes <- MCBoxes
  Searchers = {s1, s2}
  MaxOps = 3
INVARIANTS MapRight WalksExcluded AnswersRight
PROPERTIES Refines NobodyStuck
