SPECIFICATION SafeSpec
CONSTANTS
    setValue = setValue
    listen = listen
    zwave = zwave
    jablotron = jablotron
    None = None
    Commands <- MCCommands
    SetValues = {setValue}
    Managers <- MCManagers
    Targets <- MCTargets
    Connected <- MCManagers
    Repliers <- MCManagers
INVARIANT ExecutedByAddressee
CHECK_DEADLOCK FALSE
