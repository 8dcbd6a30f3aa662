SPECIFICATION Spec
CONSTANT ListBound = 2
INVARIANTS
    ShowsExactly
    ListsComplete
    MessagesTrue
