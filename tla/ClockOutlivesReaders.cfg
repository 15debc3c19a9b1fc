\* One SETUP; the sender goes away without a TEARDOWN.
CONSTANT MaxSetups = 1
SPECIFICATION Spec
INVARIANTS ClockOutlivesReaders
CHECK_DEADLOCK FALSE
