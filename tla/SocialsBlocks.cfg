SPECIFICATION Spec
CONSTANTS
    Aid = {a1, a2}
    MaxTasks = 1
PROPERTY BlocksOutlastRequests
CHECK_DEADLOCK FALSE
