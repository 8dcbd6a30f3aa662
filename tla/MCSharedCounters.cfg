CONSTANTS
    Counting = {t1, t2, t3}
    Reading = {r1, r2}
    Iters = 3
    NBUCKETS = 2
SPECIFICATION Spec
INVARIANTS TypeOK NothingLost RaceBounds
PROPERTY Termination
