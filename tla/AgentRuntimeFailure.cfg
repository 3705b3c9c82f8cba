SPECIFICATION Spec
CONSTANTS
    main = main
    tool = tool
    ghost = ghost
    User = User
    Nobody = Nobody
    Main = main
    Names = {main, tool, ghost}
    Agents = {main, tool}
    Replies <- MCReplies
    MaxSteps = 3
    MaxDepth = 1
    MaxCalls = 8
    MaxTasks = 1
INVARIANTS
    FailureExposed
CHECK_DEADLOCK FALSE
