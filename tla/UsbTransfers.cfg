SPECIFICATION Spec
CONSTANT Received = 1028
CONSTANT FollowOvertaken = FALSE
INVARIANTS NeverOvertakes OnlyItsTDsRun ControlTransferShape SpeaksToItsDevice
CHECK_DEADLOCK FALSE
