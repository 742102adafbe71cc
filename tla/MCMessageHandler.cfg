\* A peer that waits, and one that sends a message or two ahead.
SPECIFICATION Spec
CONSTANTS
    Outgoing <- MCOutgoing
    Windows = {1, 2, 3}
    MaxRead = 4
INVARIANTS
    TypeOK
    InOrder
    NothingLost
    NoFragment
PROPERTIES
    PatientPeerIsHeard
CHECK_DEADLOCK FALSE
