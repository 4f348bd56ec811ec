---------------------------- MODULE SlaveTransfer ----------------------------
(***************************************************************************)
(* The server hands the upload of a file that a slave downloaded to that   *)
(* slave, and waits on its message queue for the slave's notification.     *)
(* The slave knows its server from heartbeats, and keeps a tracker of jobs *)
(* so that the same request does not run twice.                            *)
(***************************************************************************)
EXTENDS Integers, FiniteSets

CONSTANTS
    Puts,           \* calls of Put by tasks of the server
    Hashes,         \* hashes of requests: server, source, destination and policy
    MaxResets,      \* bound: restarts of the slave and heartbeats that update
    MaxLosses       \* bound: answers or notifications that get lost

VARIABLES
    put,            \* each call of Put: its place, its hash and its result
    handler,        \* the slave's handler of its request
    known,          \* the slave has the MasterInfo
    jobTracker,     \* hashes in the MasterInfo
    jobs,           \* jobs of the slave's task pool
    notices,        \* notifications on their way to the server
    stored,         \* hashes whose file is in its storage
    started,        \* history: jobs started for a hash since the tracker was made
    resets, losses,
    raced,          \* history: two handlers were inside SubmitTask at once
    repeated        \* history: hashes that were requested more than once

transferVars ==
    <<put, handler, known, jobTracker, jobs, notices, stored, started, resets, losses, raced, repeated>>

ASSUME TransferAssumption == MaxResets \in Nat /\ MaxLosses \in Nat

TransferInit ==
    /\ put = [p \in Puts |-> [at |-> "idle", hash |-> CHOOSE h \in Hashes : TRUE]]
    /\ handler = [p \in Puts |-> "none"]
    /\ known = FALSE /\ jobTracker = {} /\ jobs = {} /\ notices = {} /\ stored = {}
    /\ started = [h \in Hashes |-> 0] /\ resets = 0 /\ losses = 0 /\ raced = FALSE /\ repeated = {}

(* inMemoryMQ: the channels of a topic are those of the calls that have    *)
(* subscribed and not returned.                                            *)
Subscribed(h) == {p \in Puts : put[p].at \in {"requesting", "waiting"} /\ put[p].hash = h}

-----------------------------------------------------------------------------
(* Driver.Put of slaveinmaster: subscribe, request, wait.                  *)

Subscribe(p, h) ==
    /\ put[p].at = "idle"
    /\ put' = [put EXCEPT ![p] = [at |-> "requesting", hash |-> h]]
    /\ handler' = [handler EXCEPT ![p] = "arrived"]
    /\ repeated' = IF \E q \in Puts : put[q].at # "idle" /\ put[q].hash = h THEN repeated \cup {h} ELSE repeated
    /\ UNCHANGED <<known, jobTracker, jobs, notices, stored, started, resets, losses, raced>>

(* slaveController.SubmitTask runs under a read lock: the look-up and the  *)
(* write of one handler may be interleaved with those of another.          *)
SubmitTaskLookup(p) ==
    /\ handler[p] = "arrived"
    /\ handler' = [handler EXCEPT ![p] = IF ~known THEN "refused"
                                         ELSE IF put[p].hash \in jobTracker THEN "accepted"
                                         ELSE "writing"]
    /\ UNCHANGED <<put, known, jobTracker, jobs, notices, stored, started, resets, losses, raced, repeated>>

SubmitTaskWrite(p) ==
    /\ handler[p] = "writing"
    /\ jobTracker' = jobTracker \cup {put[p].hash}
    /\ jobs' = jobs \cup {[hash |-> put[p].hash, by |-> p]}
    /\ started' = [started EXCEPT ![put[p].hash] = @ + 1]
    /\ handler' = [handler EXCEPT ![p] = "accepted"]
    /\ raced' = (raced \/ \E q \in Puts \ {p} : handler[q] = "writing")
    /\ UNCHANGED <<put, known, notices, stored, resets, losses, repeated>>

(* Two handlers that write the map at once may be stopped by the runtime,  *)
(* and the slave with them: it loses all that it holds in memory.          *)
SlaveLost ==
    /\ known' = FALSE /\ jobTracker' = {} /\ jobs' = {}
    /\ handler' = [p \in Puts |-> IF handler[p] = "none" THEN "none" ELSE "refused"]
ConcurrentMapWrites ==
    /\ \E p, q \in Puts : p # q /\ handler[p] = "writing" /\ handler[q] = "writing"
    /\ SlaveLost /\ raced' = TRUE
    /\ UNCHANGED <<put, notices, stored, started, resets, losses, repeated>>

(* The answer of the request; it may be lost although the job runs.        *)
Answered(p, ok) ==
    /\ put[p].at = "requesting" /\ handler[p] \in {"accepted", "refused"}
    /\ put' = [put EXCEPT ![p].at = IF ok THEN "waiting" ELSE "failed"]
    /\ handler' = [handler EXCEPT ![p] = "none"]
    /\ UNCHANGED <<known, jobTracker, jobs, notices, stored, started, resets, raced, repeated>>
RequestAnswered(p) == Answered(p, handler[p] = "accepted") /\ UNCHANGED losses
AnswerLost(p) == losses < MaxLosses /\ losses' = losses + 1 /\ Answered(p, FALSE)

WaitTimeout(p) ==
    /\ put[p].at = "waiting"
    /\ put' = [put EXCEPT ![p].at = "failed"]
    /\ UNCHANGED <<handler, known, jobTracker, jobs, notices, stored, started, resets, losses, raced, repeated>>

-----------------------------------------------------------------------------
(* TransferTask.Do on the slave.  The notification is not sent when the    *)
(* slave does not know its server.                                         *)
MutTransferTaskDo(j, ok) ==
    /\ j \in jobs /\ jobs' = jobs \ {j} /\ (ok => known)
    /\ stored' = IF ok THEN stored \cup {j.hash} ELSE stored
    /\ notices' = IF known /\ ok THEN notices \cup {[hash |-> j.hash, by |-> j.by, ok |-> ok]} ELSE notices
    /\ UNCHANGED <<put, handler, known, jobTracker, started, resets, losses, raced, repeated>>
TransferTaskDo(j, ok) ==
    /\ j \in jobs /\ jobs' = jobs \ {j}
    /\ ok => known
    /\ stored' = IF ok THEN stored \cup {j.hash} ELSE stored
    /\ notices' = IF known THEN notices \cup {[hash |-> j.hash, by |-> j.by, ok |-> ok]} ELSE notices
    /\ UNCHANGED <<put, handler, known, jobTracker, started, resets, losses, raced, repeated>>

(* HandleSlaveNotificationPush and Publish: the message is offered to each *)
(* subscriber of the topic; a call that still waits for the answer of its  *)
(* own request may be too late for it.                                     *)
Publish(n) ==
    /\ n \in notices /\ notices' = notices \ {n}
    /\ \A p \in Subscribed(n.hash) : put[p].at = "waiting"
    /\ put' = [p \in Puts |-> IF p \in Subscribed(n.hash)
                              THEN [put[p] EXCEPT !.at = IF n.ok THEN "done" ELSE "failed"] ELSE put[p]]
    /\ UNCHANGED <<handler, known, jobTracker, jobs, stored, started, resets, losses, raced, repeated>>
MessageExpires(n) ==
    /\ n \in notices /\ notices' = notices \ {n}
    /\ losses < MaxLosses /\ losses' = losses + 1
    /\ put' = [p \in Puts |-> IF p \in Subscribed(n.hash) /\ put[p].at = "waiting"
                              THEN [put[p] EXCEPT !.at = IF n.ok THEN "done" ELSE "failed"] ELSE put[p]]
    /\ \E p \in Puts : p \in Subscribed(n.hash) /\ put[p].at = "requesting"
    /\ UNCHANGED <<handler, known, jobTracker, jobs, stored, started, resets, raced, repeated>>
NotificationLost(n) ==
    /\ n \in notices /\ notices' = notices \ {n}
    /\ losses < MaxLosses /\ losses' = losses + 1
    /\ UNCHANGED <<put, handler, known, jobTracker, jobs, stored, started, resets, raced, repeated>>

-----------------------------------------------------------------------------
(* HandleHeartBeat: an unknown server is entered, and one that announces   *)
(* an update is entered anew, with an empty tracker.                       *)
HandleHeartBeat(isUpdate) ==
    /\ isUpdate \/ ~known
    /\ known' = TRUE /\ jobTracker' = {} /\ started' = [h \in Hashes |-> 0]
    /\ IF known THEN resets < MaxResets /\ resets' = resets + 1 ELSE UNCHANGED resets
    /\ \A p \in Puts : handler[p] # "writing"
    /\ UNCHANGED <<put, handler, jobs, notices, stored, losses, raced, repeated>>

SlaveRestarts ==
    /\ resets < MaxResets /\ resets' = resets + 1
    /\ SlaveLost
    /\ UNCHANGED <<put, notices, stored, started, losses, raced, repeated>>

TransferNext ==
    \/ \E p \in Puts :
        \/ \E h \in Hashes : Subscribe(p, h)
        \/ SubmitTaskLookup(p) \/ SubmitTaskWrite(p) \/ RequestAnswered(p) \/ AnswerLost(p) \/ WaitTimeout(p)
    \/ ConcurrentMapWrites \/ SlaveRestarts
    \/ \E j \in jobs, ok \in BOOLEAN : TransferTaskDo(j, ok)
    \/ \E n \in notices : Publish(n) \/ MessageExpires(n) \/ NotificationLost(n)
    \/ \E isUpdate \in BOOLEAN : HandleHeartBeat(isUpdate)

TransferSpec == TransferInit /\ [][TransferNext]_transferVars

-----------------------------------------------------------------------------
(* A call of Put that succeeds has its file in the storage, whatever was   *)
(* lost, repeated or restarted (Driver.Put, Publish by topic).             *)
SuccessIsStored == \A p \in Puts : put[p].at = "done" => put[p].hash \in stored

(* For one life of the tracker a hash starts one job, unless two handlers  *)
(* of the same hash were inside SubmitTask at once (SubmitTask).           *)
RunsOnce == \A h \in Hashes : started[h] > 1 => raced

(* A call waits in vain, until its time limit of two days, only after a    *)
(* loss, a restart, a new tracker, or when its hash had been requested     *)
(* before and the tracker swallowed it (SubmitTask, Publish).              *)
NeverWaitsInVain ==
    \A p \in Puts :
        put[p].at = "waiting" =>
            \/ \E j \in jobs : j.hash = put[p].hash
            \/ \E n \in notices : n.hash = put[p].hash
            \/ losses > 0 \/ resets > 0 \/ raced \/ put[p].hash \in repeated

(* What server and slave keep although answers and notifications get lost: *)
(* success is real, work is done once, and nobody waits for nothing        *)
(* (Driver.Put, SubmitTask, TransferTask.Do, Publish).                     *)
SlaveInv == SuccessIsStored /\ RunsOnce /\ NeverWaitsInVain
=============================================================================
