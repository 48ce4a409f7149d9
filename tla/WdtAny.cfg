SPECIFICATION Spec
INVARIANT TimersAsAsked
PROPERTY LockHolds
