SPECIFICATION Spec
CONSTANTS
  ClipTime = 2
  MaxCopies = 4
  MaxChanges = 2
CHECK_DEADLOCK FALSE
INVARIANT TypeOK
INVARIANT LatestCopyIsTimed
INVARIANT WaitingMeansStopped
INVARIANT ReadIsUnderWay
INVARIANT RestoresFound
PROPERTY NeverClobbersOthers
PROPERTY CopyEnds
