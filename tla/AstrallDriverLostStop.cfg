CONSTANT Outcomes = {"ok", "lost"}
SPECIFICATION Spec
INVARIANT DownOnlyAtRest
