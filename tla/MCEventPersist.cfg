CONSTANTS
  Flushers = {f1, f2, f3}
  MaxEvents = 4
SYMMETRY FlusherSymmetry
SPECIFICATION Spec
INVARIANT TypeOK
INVARIANT EventsInOrder
INVARIANT FinishedFlushesSurvive
INVARIANT OnlyATailIsLost
