\* How a flow ends at both ends, and that a silent flow ends.
CONSTANTS
    Idle = 3
    Cap = 1
SPECIFICATION FlowLiveSpec
PROPERTIES NearReapsOnlySilent EndsTogether SilentFlowIsReclaimed
\* The flow ends.
CHECK_DEADLOCK FALSE
