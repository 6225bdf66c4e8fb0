CONSTANTS
    s = s
    c = c
    sysManager = sysManager
    groupManager = groupManager
    advancer = advancer
    messages = messages
    Host = {s, c}
    WorkerRow = {sysManager, groupManager, advancer, messages}
    Wrapper <- MCWrapper
    ManagerRow <- MCManagerRow
    Chain <- MCChain
    Provisioners <- MCProvisioners
    DeclaredTarget <- MCDeclaredTarget
    MaxRowChanges = 4
    MaxExits = 1
SPECIFICATION WorkerManagerSpec
INVARIANT OneExecutionPerRow
PROPERTY WantedRowsRun
CHECK_DEADLOCK FALSE
