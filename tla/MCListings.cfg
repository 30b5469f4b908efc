\* Up to four rows, pages of one or two, four changes during the walk.
SPECIFICATION Spec
CONSTANTS
    Sizes = {1, 2}
    MaxRows = 4
    MaxChanges = 4
INVARIANTS
    ShownUnlessNewerLeft
    TwiceOnlyIfNewerCame
CHECK_DEADLOCK FALSE
