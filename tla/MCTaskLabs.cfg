SPECIFICATION Spec
CONSTANT Rounds = 2
INVARIANTS
    ReportsTrue
    WrittenOnce
PROPERTY Termination
