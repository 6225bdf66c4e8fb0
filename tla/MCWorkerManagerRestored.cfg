CONSTANTS
    s = s
    c = c
    sysManager = sysManager
    groupManager = groupManager
    advancer = advancer
    messages = messages
    Host = {s, c}
    WorkerRow = {sysManager, groupManager, advancer, messages}
    Wrapper <- MCWrapper
    ManagerRow <- MCManagerRow
    Chain <- MCChain
    Provisioners <- MCProvisioners
    DeclaredTarget <- MCDeclaredTarget
    MaxRowChanges = 2
    MaxExits = 0
SPECIFICATION WorkerManagerSpec

PROPERTY ResumesWhenRestored
CHECK_DEADLOCK FALSE
