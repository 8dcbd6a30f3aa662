CONSTANT MaxEdits = 2
SPECIFICATION Spec
INVARIANTS NumberedLabRuns MakeLabIsCurrent
