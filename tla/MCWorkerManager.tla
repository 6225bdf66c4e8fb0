--------------------------- MODULE MCWorkerManager ---------------------------
(* Instance of WorkerManager: a system manager and a consumer's manager that *)
(* share a cursor advancer row; message consumers only the latter can run.   *)
EXTENDS WorkerManager, TLC

CONSTANTS s, c, sysManager, groupManager, advancer, messages

MCWrapper == s :> "system" @@ c :> "consume"
MCManagerRow == s :> sysManager @@ c :> groupManager
MCChain == s :> WorkerRow @@ c :> {groupManager, advancer, messages}
MCProvisioners == s :> {advancer} @@ c :> {advancer, messages}
MCDeclaredTarget ==
    sysManager :> 1 @@ groupManager :> AnyNumber @@ advancer :> 1 @@ messages :> AnyNumber
=============================================================================
