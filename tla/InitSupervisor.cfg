SPECIFICATION LiveSpec
CONSTANTS
    shell = shell
    getty = getty
    script = script
    Nobody = Nobody
    Entries <- MCEntries
    Pids = {1, 2, 3}
    Inittabs <- MCInittabs
    Orders = {"hup", "int", "halt"}
    MaxFaults = 1
    KillRemoved = TRUE
INVARIANTS OneProcess ReloadStopsRemoved
PROPERTY RespawnKept
CHECK_DEADLOCK FALSE
