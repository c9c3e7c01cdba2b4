\* The owner and another thread, three calls after the opening.
SPECIFICATION Spec
CONSTANTS
    Threads = {"main", "events"}
    Owner = "main"
    Prios = {"info", "debug", "silent"}
    Outs = {"file", "console"}
    MinLevel = 0
    MaxLevel = 60
    MaxCalls = 4
    MaxClock = 1
INVARIANTS TimesInOrder GroupsStayTogether
PROPERTIES WritesWhileStarted CallsReturn
CHECK_DEADLOCK FALSE
