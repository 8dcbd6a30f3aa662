CONSTANTS
    Pushers = {t1, t2, t3}
    Pushes = 2
    NULL = NULL
SPECIFICATION Spec
INVARIANTS ListIntact EachThreadReversed
PROPERTIES ImplementsStack PopsEverything
