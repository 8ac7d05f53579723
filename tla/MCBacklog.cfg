\* Two items of one lane; the daemon, one operator, and two dispatches.
CONSTANTS
    a = a
    b = b
    x = x
    Items <- MCItems
    Scopes = {x}
    Scope <- MCScope
    Needs <- MCNeeds
    MaxInFlight = 2
    Operators = {op}
    Daemon = daemon
    DispatchBound = 2
SPECIFICATION BacklogLiveSpec
INVARIANTS BacklogTypeOK LanesExclusive RefireNeedsApproval 
PROPERTIES LanesFreed
