------------------------------ MODULE MCCluster ------------------------------
(***************************************************************************)
(* The parts of a cluster of nodes, each on its own: the pool of nodes,    *)
(* offline downloads, transfers by a slave, and the client of aria2.  A    *)
(* behaviour is one of the part that its initial state chooses.            *)
(***************************************************************************)
EXTENDS NodePool, OfflineDownload, SlaveTransfer, Aria2RPC

VARIABLE part

MCInit ==
    /\ part \in {"pool", "offline", "transfer", "rpc"}
    /\ PoolInit /\ OffInit /\ TransferInit /\ RPCInit

PoolPart(A) == part = "pool" /\ A /\ UNCHANGED <<part, offVars, transferVars, rpcVars>>
OfflinePart(A) == part = "offline" /\ A /\ UNCHANGED <<part, poolVars, transferVars, rpcVars>>
TransferPart(A) == part = "transfer" /\ A /\ UNCHANGED <<part, poolVars, offVars, rpcVars>>
RPCPart(A) == part = "rpc" /\ A /\ UNCHANGED <<part, poolVars, offVars, transferVars>>

MCNext == PoolPart(PoolNext) \/ OfflinePart(OffNext) \/ TransferPart(TransferNext) \/ RPCPart(RPCNext)

mcVars == <<part, poolVars, offVars, transferVars, rpcVars>>

(* The fairness of the part that the behaviour is one of.                  *)
MCFairness ==
    /\ \A o \in Objects : WF_mcVars(PoolPart(LoopStep(o)))
    /\ \A d \in Downloads :
        /\ WF_mcVars(OfflinePart(MonitorStep(d))) /\ WF_mcVars(OfflinePart(TransferStep(d)))
        /\ WF_mcVars(OfflinePart(RecycleDo(d))) /\ WF_mcVars(OfflinePart(RemoveAll(d)))

MCSpec == MCInit /\ [][MCNext]_mcVars /\ MCFairness
=============================================================================
