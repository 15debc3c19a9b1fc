\* Three SETUPs with keys, in one connection or in several after each other.
CONSTANT MaxSetups = 3
SPECIFICATION Spec
INVARIANTS SessionTypeOK PointersAreLive NothingLeftBehind TwoTeardownsEnd PairingNeverFinishes
CHECK_DEADLOCK FALSE
