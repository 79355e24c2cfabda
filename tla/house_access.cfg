SPECIFICATION Spec
CONSTANTS
    control = control
    request = request
    relay = relay
    nodes = nodes
    Threads = {control, request, relay, nodes}
    Script <- MCScript
    StartsAfter <- MCStartsAfter
    NoThread = NoThread
INVARIANTS
    RacesOnlyByReference
\* The scripts end.
CHECK_DEADLOCK FALSE
