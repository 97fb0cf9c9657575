SPECIFICATION Spec
CONSTANTS
    setValue = setValue
    listen = listen
    zwave = zwave
    jablotron = jablotron
    None = None
    Commands <- MCCommands
    SetValues = {setValue}
    Managers <- MCManagers
    Targets <- MCTargets
    Connected <- MCManagers
    Repliers <- MCManagers
INVARIANTS TypeOK RepliesAreKnown ResultsAreGenuine
PROPERTIES ImplementsBoard RepliesArriveAtResults
CHECK_DEADLOCK FALSE
