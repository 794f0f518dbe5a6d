CONSTANTS
    Handlers = {"h1", "h2"}
SPECIFICATION Spec
INVARIANT DrainsBeforeExit
CHECK_DEADLOCK FALSE
