CONSTANTS
  Names = {n1}
  UnknownName = unknown
  Handlers = {h1, h2}
  MaxEvents = 3
  MaxOns = 3
  MaxFlushes = 1
SPECIFICATION FairSpec
INVARIANT TypeOK
INVARIANT AtRestWhenIdle
INVARIANT EveryHandlerIsCalled
INVARIANT NoDuplicateCalls
INVARIANT InOrderWithoutFlush
PROPERTY FlushEnds
