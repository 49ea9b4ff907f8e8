CONSTANTS
    Requests = {q1}
    QueueLimit = 1
    MaxInputs = 2

SPECIFICATION Spec
CHECK_DEADLOCK FALSE
PROPERTY GivesUpOnBadLinesOnly
