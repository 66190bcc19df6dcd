---------------------- MODULE RestartingProviderSandbox ---------------------
(***************************************************************************)
(* RestartingProvider as the pool of launchers that Sandbox promises to    *)
(* the threads which handle requests.                                      *)
(***************************************************************************)
EXTENDS RestartingProvider

\* The pool as its callers see it: a request asks for a launcher when its thread
\* starts, and has one until the replacement is in the storage or has failed.
AsUser(where) ==
    CASE where \in {"new", "queued"}                    -> "out"
      [] where = "start"                                -> "wants"
      [] where \in Holding \cup {"removed", "creating"}  -> "has"
      [] where \in Ended \cup {"reply"}                  -> "over"

Pool == INSTANCE Sandbox WITH
    MaxFailures <- MaxFaults,
    open     <- phase = "serve",
    stock    <- [l \in Languages |-> Len(storage[l])],
    offered  <- keys,
    user     <- [r \in Requests |-> AsUser(pc[r])],
    failures <- faults

\* Provider, manipulator and storage together implement Sandbox: whatever fails,
\* exits or crashes, every taken launcher is replaced before its request is over,
\* none is lost before a call has failed, and nobody waits while one is free.
ImplementsSandbox == Pool!FairSandboxSpec
=============================================================================
