\* disconnect() while the writer task has seen a broken socket.
CONSTANTS
    Messages = {m1}
    reconnect_max_attempts = 2
    reconnect_buffer_waits_for_auth = TRUE
    MaxSessions = 2

SPECIFICATION Spec

PROPERTIES
    DisconnectIsFinal

CHECK_DEADLOCK FALSE
