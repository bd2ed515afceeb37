SPECIFICATION Spec
CONSTANTS
    Events = {e1, e2}
    NoEvent = NoEvent
    numOfWorkers = 1
    backlog = 1
PROPERTY EventsEventuallyProcessed
CHECK_DEADLOCK FALSE
