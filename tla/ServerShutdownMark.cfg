SPECIFICATION Spec
CONSTANTS
    Requests = {q1}
    MaxMessages = 1
    Faults = FALSE
PROPERTIES
    MarkUndone
