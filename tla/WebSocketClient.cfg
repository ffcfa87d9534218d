\* One message, the initial session and two reconnections.
CONSTANTS
    Messages = {m1}
    reconnect_max_attempts = 2
    reconnect_buffer_waits_for_auth = TRUE
    MaxSessions = 3

SPECIFICATION FairSpec

INVARIANTS
    SocketsAgree
    NothingLost
    
PROPERTIES
    AcceptedIsWritten

CHECK_DEADLOCK FALSE
