SPECIFICATION Spec
CONSTANTS
    Procs = {1, 2, 3}
    Commands = {"submit", "status", "result", "upload"}
    Results = {"error", "text", "media"}
    Digests = {"same", "other"}
    Absent = Absent
    Torn = Torn
INVARIANTS TypeOK SubmittedOnce DeliveredIsThere
PROPERTIES NamedJobKept
CHECK_DEADLOCK FALSE
