------------------------------- MODULE MCKeys -------------------------------
EXTENDS Keys

MCSenders == {"takion", "stream", "congestion", "feedback"}

\* With a header of 2, a buffer of 5 and sizes below 8 one message fills the
\* buffer, one does not fit, and the size of one wraps with its header's.
MCSpoken == {[type |-> "session_id", size |-> 1], [type |-> "heartbeat_req", size |-> 0],
             [type |-> "keyboard_open", size |-> 3], [type |-> "other", size |-> 4],
             [type |-> "other", size |-> 7]}
MCConfigs == {{"dualsense", "keyboard"}}
=============================================================================
