CONSTANT MaxEdits = 2
SPECIFICATION Spec
INVARIANT Lab27Runs
