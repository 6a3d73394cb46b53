CONSTANTS
    p1 = p1
    t1 = t1
    t2 = t2
    k1 = k1
    k2 = k2
    NoVal = NoVal
SPECIFICATION Spec
INVARIANTS
    TypeOK DeliveredInOrder NothingLost  UpdatesKept PanicsHaveCause
    ConnectedHasPeer RefusalsHold IdleHasNothingToDo NeedsMet OneShardPerKey
    DirectIsExpected ViewsAgree   OneKernel BoundsKept
    PublishedOnce
PROPERTIES
    AtMostOncePerHorizon MovesForward NotPulledAway
CHECK_DEADLOCK FALSE
