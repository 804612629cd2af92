\* Two files, three handlers, two changes of the one or the other or both.
SPECIFICATION MCSpec
CONSTANTS
  f1 = f1
  f2 = f2
  k1 = k1
  k2 = k2
  e1 = e1
  e2 = e2
  Files = {f1, f2}
  ContentChans = {k1, k2}
  ErrChans = {e1, e2}
  Contents = {c1}
  Empty = Empty
  Fault = Fault
  MaxWrites = 3
  MaxHandlers = 2
  MaxChanges = 2
INVARIANT TypeOK
INVARIANT NoHandlerMissed
PROPERTY ContentIsNewer
PROPERTY ImplementsFeed
PROPERTY StableContentDelivered
PROPERTY StableErrorDelivered
