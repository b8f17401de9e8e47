SPECIFICATION Spec
CONSTANT NB_TRANSFER = 32
INVARIANTS TypeOK ClosedQuiet TwoInFlight EventsSuffice
PROPERTY AlwaysCloses
