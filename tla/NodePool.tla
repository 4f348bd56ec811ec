------------------------------ MODULE NodePool ------------------------------
(***************************************************************************)
(* The master's pool of slave nodes: one ping loop for each node object,   *)
(* status changes reported to the pool, the index of nodes by feature, and *)
(* the administrator's changes.  An ID may get a new node object when it   *)
(* is switched off and on; an object that is still pinging then reports    *)
(* under the same ID.                                                      *)
(***************************************************************************)
EXTENDS Integers, FiniteSets

CONSTANTS
    NodeIDs,        \* IDs of slave nodes
    MaxObjects,     \* bound: node objects ever made
    Retry,          \* slave_node_retry
    MaxOutages,     \* bound: times a slave goes down or comes back
    MaxRequests     \* bound: requests of administrators

Objects == 1 .. MaxObjects
None == -1          \* no entry in a map of the pool
Nil == 0            \* an entry that holds no node

ASSUME PoolAssumption ==
    Retry \in Nat \ {0} /\ MaxObjects \in Nat /\ MaxOutages \in Nat /\ MaxRequests \in Nat

VARIABLES
    dbNode,         \* ID -> status and Aria2Enabled in the database
    node,           \* object -> ID, feature, status, place in its ping loop, failures in a row
    made,           \* objects made so far
    active, inactive, \* the maps of the pool: ID -> object, Nil or None
    featureMap,     \* objects listed for the feature
    rebuilds,       \* calls of buildIndexMap that are due
    reInits,        \* node.Init running on an existing object
    requests,       \* requests between their database write and their call of the pool
    up,             \* which slaves answer
    outages, requested,
    crashed,        \* the process has panicked
    overlapped,     \* history: the pool was changed while a ping or an Init was under way
    edited          \* history: objects whose feature changed

poolVars == <<dbNode, node, made, active, inactive, featureMap, rebuilds, reInits, requests, up,
              outages, requested, crashed, overlapped, edited>>

Unmade == [id |-> None, enabled |-> FALSE, status |-> FALSE, at |-> "none", retry |-> 0, closed |-> FALSE]
NewSlave(id, enabled) ==
    [id |-> id, enabled |-> enabled, status |-> TRUE, at |-> "waiting", retry |-> 0, closed |-> FALSE]

PoolInit ==
    /\ dbNode = [id \in NodeIDs |-> [status |-> "suspend", enabled |-> TRUE]]
    /\ node = [o \in Objects |-> Unmade] /\ made = 0
    /\ active = [id \in NodeIDs |-> None] /\ inactive = [id \in NodeIDs |-> None]
    /\ featureMap = {} /\ rebuilds = 0 /\ reInits = {} /\ requests = {}
    /\ up = [id \in NodeIDs |-> FALSE] /\ outages = 0 /\ requested = 0
    /\ crashed = FALSE /\ overlapped = FALSE /\ edited = {}

Running == ~crashed
(* Something of this ID is in flight: a ping, its report, or an Init.      *)
InFlight(id) ==
    \/ \E o \in Objects : node[o].id = id /\ node[o].at \in {"pinging", "reporting"}
    \/ \E r \in reInits : node[r.object].id = id

-----------------------------------------------------------------------------
(* The administrator: save or switch a node in the database, then tell the *)
(* pool; delete it from the pool, then from the database.                  *)

Request(id, op, row) ==
    /\ Running /\ requested < MaxRequests /\ requested' = requested + 1
    /\ dbNode' = [dbNode EXCEPT ![id] = row]
    /\ requests' = requests \cup {[op |-> op, id |-> id, enabled |-> row.enabled, n |-> requested]}
    /\ UNCHANGED <<node, made, active, inactive, featureMap, rebuilds, reInits, up, outages, crashed,
                   overlapped, edited>>

SaveNode(id, enabled) ==
    /\ dbNode[id].status = "active"
    /\ Request(id, "add", [status |-> "active", enabled |-> enabled])
Toggle(id) ==
    /\ dbNode[id].status # "deleted"
    /\ IF dbNode[id].status = "active"
       THEN Request(id, "delete", [dbNode[id] EXCEPT !.status = "suspend"])
       ELSE Request(id, "add", [dbNode[id] EXCEPT !.status = "active"])
DeleteNode(id) ==
    /\ dbNode[id].status # "deleted"
    /\ Request(id, "forget", dbNode[id])

Held(id) == IF active[id] # None THEN active[id] ELSE inactive[id]

(* NodePool.Add: refresh the object there is, in a goroutine, or make one. *)
add(id, enabled) ==
    /\ made < MaxObjects /\ made' = made + 1
    /\ node' = [node EXCEPT ![made + 1] = NewSlave(id, enabled)]
    /\ active' = [active EXCEPT ![id] = made + 1]
Add(r) ==
    /\ Running /\ r \in requests /\ r.op = "add" /\ requests' = requests \ {r}
    /\ rebuilds' = rebuilds + 1
    /\ overlapped' = (overlapped \/ InFlight(r.id))
    /\ IF Held(r.id) \in Objects
       THEN /\ reInits' = reInits \cup {[object |-> Held(r.id), enabled |-> r.enabled, at |-> "model", n |-> r.n]}
            /\ UNCHANGED <<node, made, active>>
       ELSE add(r.id, r.enabled) /\ UNCHANGED reInits
    /\ UNCHANGED <<dbNode, inactive, featureMap, up, outages, requested, crashed, edited>>

(* NodePool.Delete: Kill closes the channel of the loop; a nil entry has   *)
(* nothing to kill and panics.                                             *)
Kill(o) == node' = [node EXCEPT ![o].closed = TRUE]
Delete(r) ==
    /\ Running /\ r \in requests /\ r.op \in {"delete", "forget"} /\ requests' = requests \ {r}
    /\ rebuilds' = rebuilds + 1
    /\ overlapped' = (overlapped \/ InFlight(r.id))
    /\ CASE Held(r.id) = Nil -> crashed' = TRUE /\ UNCHANGED <<node, active, inactive>>
         [] Held(r.id) = None -> UNCHANGED <<node, active, inactive, crashed>>
         [] OTHER -> /\ Kill(Held(r.id))
                     /\ IF active[r.id] # None
                        THEN active' = [active EXCEPT ![r.id] = None] /\ UNCHANGED inactive
                        ELSE inactive' = [inactive EXCEPT ![r.id] = None] /\ UNCHANGED active
                     /\ UNCHANGED crashed
    /\ dbNode' = IF r.op = "forget" THEN [dbNode EXCEPT ![r.id].status = "deleted"] ELSE dbNode
    /\ UNCHANGED <<made, featureMap, reInits, up, outages, requested, edited>>

(* buildIndexMap: asks every active node for the feature; nil panics.      *)
buildIndexMap ==
    /\ Running /\ rebuilds > 0 /\ rebuilds' = rebuilds - 1
    /\ IF \E id \in NodeIDs : active[id] = Nil
       THEN crashed' = TRUE /\ UNCHANGED featureMap
       ELSE /\ featureMap' = {active[id] : id \in {i \in NodeIDs : active[i] \in Objects /\ node[active[i]].enabled}}
            /\ UNCHANGED crashed
    /\ UNCHANGED <<dbNode, node, made, active, inactive, reInits, requests, up, outages, requested,
                   overlapped, edited>>

(* SlaveNode.Init on an object that has a loop: the model first, then a    *)
(* signal that the loop takes between two pings; a closed channel panics.  *)
ReInitModel(r) ==
    /\ Running /\ r \in reInits /\ r.at = "model"
    /\ node' = [node EXCEPT ![r.object].enabled = r.enabled]
    /\ edited' = IF node[r.object].enabled # r.enabled THEN edited \cup {r.object} ELSE edited
    /\ reInits' = (reInits \ {r}) \cup {[r EXCEPT !.at = "signal"]}
    /\ UNCHANGED <<dbNode, made, active, inactive, featureMap, rebuilds, requests, up, outages, requested,
                   crashed, overlapped>>

ReInitSignal(r) ==
    /\ Running /\ r \in reInits /\ r.at = "signal"
    /\ IF node[r.object].closed
       THEN crashed' = TRUE /\ UNCHANGED node
       ELSE /\ node[r.object].at = "waiting"
            /\ node' = [node EXCEPT ![r.object].retry = 0]
            /\ UNCHANGED crashed
    /\ reInits' = reInits \ {r}
    /\ UNCHANGED <<dbNode, made, active, inactive, featureMap, rebuilds, requests, up, outages, requested,
                   overlapped, edited>>

-----------------------------------------------------------------------------
(* The ping loop.  It hears of Kill only between two pings: an object that *)
(* was killed during a ping still reports, and then ends.                  *)

(* select may still take the tick when the channel was closed meanwhile.   *)
SendPing(o) ==
    /\ Running /\ node[o].at = "waiting"
    /\ node' = [node EXCEPT ![o].at = "pinging"]
    /\ overlapped' = (overlapped \/ node[o].closed)
    /\ UNCHANGED <<dbNode, made, active, inactive, featureMap, rebuilds, reInits, requests, up, outages,
                   requested, crashed, edited>>

LoopEnds(o) ==
    /\ Running /\ node[o].at = "waiting" /\ node[o].closed
    /\ node' = [node EXCEPT ![o].at = "ended"]
    /\ UNCHANGED <<dbNode, made, active, inactive, featureMap, rebuilds, reInits, requests, up, outages,
                   requested, crashed, overlapped, edited>>

changeStatus(o, isActive, retry) ==
    node' = [node EXCEPT ![o].status = isActive, ![o].retry = retry,
                         ![o].at = IF node[o].status # isActive THEN "reporting" ELSE "waiting"]

Smaller(a, b) == IF a < b THEN a ELSE b
PingFails(o) ==
    /\ Running /\ node[o].at = "pinging" /\ ~up[node[o].id]
    /\ LET retry == Smaller(node[o].retry + 1, Retry)
       IN  IF retry >= Retry
           THEN changeStatus(o, FALSE, retry)
           ELSE node' = [node EXCEPT ![o].retry = retry, ![o].at = "waiting"]
    /\ UNCHANGED <<dbNode, made, active, inactive, featureMap, rebuilds, reInits, requests, up, outages,
                   requested, crashed, overlapped, edited>>

MutPingAnswered(o) ==
    /\ Running /\ node[o].at = "pinging" /\ up[node[o].id]
    /\ node' = [node EXCEPT ![o].retry = 0, ![o].at = "waiting"]
    /\ UNCHANGED <<dbNode, made, active, inactive, featureMap, rebuilds, reInits, requests, up, outages, requested, crashed, overlapped, edited>>
PingAnswered(o) ==
    /\ Running /\ node[o].at = "pinging" /\ up[node[o].id]
    /\ changeStatus(o, TRUE, 0)
    /\ UNCHANGED <<dbNode, made, active, inactive, featureMap, rebuilds, reInits, requests, up, outages,
                   requested, crashed, overlapped, edited>>

MutNodeStatusChange(o) ==
    /\ Running /\ node[o].at = "reporting"
    /\ active' = [active EXCEPT ![node[o].id] = IF node[o].status THEN Held(node[o].id) ELSE @]
    /\ inactive' = [inactive EXCEPT ![node[o].id] = IF node[o].status THEN @ ELSE Held(node[o].id)]
    /\ node' = [node EXCEPT ![o].at = "waiting"]
    /\ rebuilds' = rebuilds + 1
    /\ UNCHANGED <<dbNode, made, featureMap, reInits, requests, up, outages, requested, crashed, overlapped, edited>>
(* NodePool.nodeStatusChange moves whatever the ID has; an ID that is not  *)
(* in the pool any more gets an entry without a node.                      *)
nodeStatusChange(o) ==
    /\ Running /\ node[o].at = "reporting"
    /\ LET id == node[o].id
           moved == IF inactive[id] # None THEN inactive[id] ELSE IF active[id] = None THEN Nil ELSE active[id]
           left == IF inactive[id] # None THEN active[id] ELSE None
       IN  /\ active' = [active EXCEPT ![id] = IF node[o].status THEN moved ELSE left]
           /\ inactive' = [inactive EXCEPT ![id] = IF node[o].status THEN None ELSE moved]
    /\ node' = [node EXCEPT ![o].at = "waiting"]
    /\ rebuilds' = rebuilds + 1
    /\ UNCHANGED <<dbNode, made, featureMap, reInits, requests, up, outages, requested, crashed,
                   overlapped, edited>>

SlaveGoesDownOrUp(id) ==
    /\ Running /\ outages < MaxOutages /\ outages' = outages + 1
    /\ up' = [up EXCEPT ![id] = ~@]
    /\ UNCHANGED <<dbNode, node, made, active, inactive, featureMap, rebuilds, reInits, requests, requested,
                   crashed, overlapped, edited>>

LoopStep(o) == SendPing(o) \/ LoopEnds(o) \/ PingFails(o) \/ PingAnswered(o) \/ nodeStatusChange(o)

PoolNext ==
    \/ \E id \in NodeIDs : \/ \E enabled \in BOOLEAN : SaveNode(id, enabled)
                           \/ Toggle(id) \/ DeleteNode(id) \/ SlaveGoesDownOrUp(id)
    \/ \E r \in requests : Add(r) \/ Delete(r)
    \/ \E r \in reInits : ReInitModel(r) \/ ReInitSignal(r)
    \/ buildIndexMap
    \/ \E o \in Objects : LoopStep(o)

(* The loops ping for ever, and what has begun goes on.                    *)
PoolFairness == \A o \in Objects : WF_poolVars(LoopStep(o))

PoolSpec == PoolInit /\ [][PoolNext]_poolVars /\ PoolFairness

-----------------------------------------------------------------------------
(* A crash of the process, by a nil node or a closed channel, needs a      *)
(* change of the pool while a ping or an Init of the same node was under   *)
(* way (NodePool.Delete, nodeStatusChange, SlaveNode.Init).                *)
CrashOnlyByOverlap == crashed => overlapped

(* Between reports the pool and the nodes agree on who is online: the pool *)
(* holds a node as active exactly when its loop last saw it answering      *)
(* (changeStatus, nodeStatusChange).                                       *)
PoolAgrees ==
    ~overlapped /\ ~crashed => \A id \in NodeIDs :
        /\ active[id] = None \/ inactive[id] = None
        /\ Held(id) \in Objects /\ node[Held(id)].at # "reporting" => (active[id] # None) = node[Held(id)].status

(* Once the index is rebuilt it lists the active nodes that have the       *)
(* feature, the ones edited in place apart: Add rebuilds the index while   *)
(* the goroutine it started may not have stored the new model yet          *)
(* (NodePool.Add, buildIndexMap).                                          *)
IndexExact ==
    rebuilds = 0 /\ ~crashed /\ ~overlapped =>
        LET listed == {active[id] : id \in {i \in NodeIDs : active[i] \in Objects}}
        IN  /\ featureMap \subseteq listed
            /\ \A o \in listed \ edited : node[o].enabled <=> o \in featureMap

(* A node of the pool that is answering again gets back among the active   *)
(* ones (StartPingLoop in recovery mode, nodeStatusChange), unless it goes *)
(* down, is taken out, or a change overlapped its ping.                    *)
BackOnline ==
    \A id \in NodeIDs :
        (inactive[id] \in Objects /\ up[id]) ~>
            (active[id] # None \/ ~up[id] \/ Held(id) \notin Objects \/ overlapped \/ crashed)

(* What the ping loops and the administrator's changes keep together: the  *)
(* process, the pool's view of its nodes and the index (NodePool).         *)
PoolInv == CrashOnlyByOverlap /\ PoolAgrees /\ IndexExact
=============================================================================
