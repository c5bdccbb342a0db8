CONSTANTS
    Requests = {y1, y2}
    MaxRequests = 3
SPECIFICATION Spec
CHECK_DEADLOCK FALSE
INVARIANT StaleIsRefreshed
