CONSTANT MaxEdits = 2
SPECIFICATION Spec
INVARIANT DocumentedCommandRuns
