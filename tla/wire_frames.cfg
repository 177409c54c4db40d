SPECIFICATION WireSpec
CONSTANTS
    Messages <- MCMessages
    MaxWritten = 2
CHECK_DEADLOCK FALSE
INVARIANT MessagesArrive
