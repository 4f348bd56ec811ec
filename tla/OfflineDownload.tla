--------------------------- MODULE OfflineDownload ---------------------------
(***************************************************************************)
(* Offline downloads: a user asks for a URL, an aria2 node fetches it into *)
(* a temporary folder, a monitor polls the node, submits the transfer of   *)
(* the files to the user's storage and, once aria2 and the transfer have   *)
(* both ended, the task that recycles the folder.  The server may crash    *)
(* and restart, aria2 or a slave may be unreachable or forget a download,  *)
(* and the user may cancel or delete it at any moment.                     *)
(***************************************************************************)
EXTENDS Integers, FiniteSets

CONSTANTS
    Downloads,      \* requests for a download
    Magnets,        \* those whose first GID is followed by a second one
    Limit,          \* Aria2BatchSize of the user's group
    MaxRetry,       \* MAX_RETRY
    WsNodes,        \* nodes whose aria2 is reached over a websocket
    MaxFailures,     \* bound: times a node becomes unreachable, or aria2 forgets a download
    MaxCrashes,     \* bound: crashes of the server
    MaxUnderFaults  \* bound: downloads of a behaviour with faults

ASSUME OfflineAssumption ==
    /\ Magnets \subseteq Downloads /\ WsNodes \subseteq {"master", "slave"}
    /\ Limit \in Nat \ {0} /\ MaxRetry \in Nat /\ MaxFailures \in Nat /\ MaxCrashes \in Nat
    /\ MaxUnderFaults \in Nat

VARIABLES
    adding,         \* requests of Add in progress and where they stand
    rec,            \* the record of a download in the database
    mon,            \* its monitor: place, retries, and its copy of the record
    nodeOf,         \* the node a download was given to
    aria,           \* external: the state of the download in aria2
    followed,       \* external: the first GID has a follower
    temp,           \* its temporary folder
    transfers,      \* its transfer tasks, one for each time it was submitted
    recycle,        \* its recycle task
    reachable,      \* nodes that answer
    pooled,         \* nodes in the pool
    current,        \* the counter of the round robin
    failures, crashes,
    twoAdding,     \* history: two requests of Add were under way at once
    gap,            \* history: downloads hit by a crash between Submit and the save of TaskID
    disturbed,      \* history: downloads cancelled, deleted or failed while they were monitored
    excused         \* history: downloads whose folder nothing is left to remove

offVars == <<adding, rec, mon, nodeOf, aria, followed, temp, transfers, recycle, reachable, pooled, current,
             failures, crashes, twoAdding, gap, disturbed, excused>>

Nodes == {"master", "slave"}
Attempts == 1 .. MaxCrashes + 1
NoRecord == [status |-> "none", gid |-> 1, task |-> 0, sized |-> FALSE]
NoMonitor == [at |-> "off", retried |-> 0, gid |-> 1, task |-> 0, sized |-> FALSE]

OffInit ==
    /\ adding = [d \in Downloads |-> "no"]
    /\ rec = [d \in Downloads |-> NoRecord] /\ mon = [d \in Downloads |-> NoMonitor]
    /\ nodeOf = [d \in Downloads |-> "master"]
    /\ aria = [d \in Downloads |-> "none"] /\ followed = [d \in Downloads |-> FALSE]
    /\ temp = [d \in Downloads |-> "none"]
    /\ transfers = [d \in Downloads |-> [n \in Attempts |-> "none"]]
    /\ recycle = [d \in Downloads |-> "none"]
    /\ reachable = Nodes /\ pooled = Nodes /\ current = 0 /\ failures = 0 /\ crashes = 0
    /\ twoAdding = FALSE /\ gap = {} /\ disturbed = {} /\ excused = {}

Underway == {"Ready", "Downloading", "Paused", "Seeding"}   \* aria2.Init asks for these
Counted == {"Ready", "Downloading", "Paused"}               \* Add counts these
Begun == {d \in Downloads : adding[d] # "no" \/ aria[d] # "none"}
Faulty == failures + crashes > 0 \/ pooled # Nodes

(* External: states that aria2 does not leave by itself.                   *)
Stopped == {"complete", "error", "removed", "forgotten"}

-----------------------------------------------------------------------------
(* AddURLService.Add: the limit, a node, aria2's task, the record.         *)

AddURL(d) ==
    /\ adding[d] = "no" /\ rec[d].status = "none" /\ aria[d] = "none"
    /\ Faulty => Cardinality(Begun) < MaxUnderFaults
    /\ Cardinality({e \in Downloads : rec[e].status \in Counted}) + 1 <= Limit
    /\ adding' = [adding EXCEPT ![d] = "checked"]
    /\ twoAdding' = (twoAdding \/ \E e \in Downloads : adding[e] # "no")
    /\ UNCHANGED <<rec, mon, nodeOf, aria, followed, temp, transfers, recycle, reachable, pooled, current,
                   failures, crashes, gap, disturbed, excused>>

(* BalanceNodeByFeature with RoundRobin.NextPeer over the nodes there are. *)
NextIndex(total) == (current + 1) % total
NextPeer == IF pooled = {"master"} \/ NextIndex(2) = 0 THEN "master" ELSE "slave"
GetNodeByID(n) == n \in pooled

(* CreateTask of rpcService: a folder and a task in the node's aria2.  The *)
(* slave's handler calls it there, and slaveCaller the handler.            *)
rpcCreateTask(d) == aria' = [aria EXCEPT ![d] = "waiting"] /\ temp' = [temp EXCEPT ![d] = "present"]
SlaveAdd(d) == rpcCreateTask(d)
slaveCreateTask(d) == SlaveAdd(d)

CreateTask(d) ==
    /\ adding[d] = "checked"
    /\ current' = (current + 1) % 2
    /\ nodeOf' = [nodeOf EXCEPT ![d] = NextPeer]
    /\ IF NextPeer \in reachable
       THEN /\ IF NextPeer = "master" THEN rpcCreateTask(d) ELSE slaveCreateTask(d)
            /\ adding' = [adding EXCEPT ![d] = "created"]
       ELSE adding' = [adding EXCEPT ![d] = "no"] /\ UNCHANGED <<aria, temp>>
    /\ UNCHANGED <<rec, mon, followed, transfers, recycle, reachable, pooled, failures, crashes, twoAdding,
                   gap, disturbed, excused>>

(* NewMonitor; a node that left the pool meanwhile ends the download.      *)
NewMonitor(d) ==
    IF GetNodeByID(nodeOf[d])
    THEN mon' = [mon EXCEPT ![d].at = "poll"] /\ rec' = [rec EXCEPT ![d].status = "Ready"] /\ UNCHANGED excused
    ELSE rec' = [rec EXCEPT ![d].status = "Error"] /\ excused' = excused \cup {d} /\ UNCHANGED mon

Create(d) ==
    /\ adding[d] = "created" /\ adding' = [adding EXCEPT ![d] = "no"]
    /\ NewMonitor(d)
    /\ UNCHANGED <<nodeOf, aria, followed, temp, transfers, recycle, reachable, pooled, current, failures,
                   crashes, twoAdding, gap, disturbed>>

-----------------------------------------------------------------------------
(* One round of the monitor, by its timer or a message of the queue.       *)

(* Save of a record the user has deleted fails.                            *)
Saved(d, status, m) ==
    IF rec[d].status = "deleted" THEN rec
    ELSE [rec EXCEPT ![d] = [status |-> status, gid |-> m.gid, task |-> m.task, sized |-> m.sized]]

(* The folder of the server's own aria2 is removed some time later, that   *)
(* of a slave by a call that may fail; no one looks at the error.          *)
rpcDeleteTempFile(d) == temp' = [temp EXCEPT ![d] = IF @ = "present" THEN "doomed" ELSE @]
SlaveDeleteTemp(d) == rpcDeleteTempFile(d)
SlaveDeleteTempFails(d) == nodeOf[d] = "slave" /\ nodeOf[d] \notin reachable
DeleteTempFile(d) ==
    IF ~SlaveDeleteTempFails(d)
    THEN /\ IF nodeOf[d] = "slave" THEN SlaveDeleteTemp(d) ELSE rpcDeleteTempFile(d)
         /\ UNCHANGED excused
    ELSE excused' = excused \cup {d} /\ UNCHANGED temp
RemoveTempFolder(d) == DeleteTempFile(d) /\ mon' = [mon EXCEPT ![d] = NoMonitor]
setErrorStatus(d, m) == rec' = Saved(d, "Error", m)
Disturb(d) == disturbed' = disturbed \cup {d}

GetStatus(d) ==
    CASE aria[d] = "waiting" -> "Ready"
      [] aria[d] = "active" -> "Downloading"
      [] aria[d] = "seeding" -> "Seeding"
      [] aria[d] = "paused" -> "Paused"
      [] aria[d] = "complete" -> "Complete"
      [] aria[d] = "error" -> "Error"
      [] aria[d] = "removed" -> "Canceled"
      [] OTHER -> "Unknown"

(* Over a websocket the error that aria2 answers is dropped and the reply  *)
(* stays empty; over HTTP it is an error of the call.                      *)
SendAria2CallFails(d) == nodeOf[d] \notin reachable
HTTPCallFails(d) == aria[d] = "forgotten" /\ nodeOf[d] \notin WsNodes
rpcStatusFails(d) == SendAria2CallFails(d) \/ HTTPCallFails(d)
SlaveStatusFails(d) == HTTPCallFails(d)
slaveCallerStatusFails(d) == SendAria2CallFails(d) \/ SlaveStatusFails(d)
StatusFails(d) == IF nodeOf[d] = "master" THEN rpcStatusFails(d) ELSE slaveCallerStatusFails(d)

MutUpdateFails(d) ==
    /\ mon[d].at = "poll" /\ StatusFails(d)
    /\ UNCHANGED <<adding, rec, mon, nodeOf, aria, followed, temp, transfers, recycle, reachable, pooled, current, failures, crashes, twoAdding, gap, disturbed, excused>>
UpdateFails(d) ==
    /\ mon[d].at = "poll" /\ StatusFails(d)
    /\ IF mon[d].retried + 1 > MaxRetry
       THEN setErrorStatus(d, mon[d]) /\ RemoveTempFolder(d) /\ Disturb(d)
       ELSE /\ mon' = [mon EXCEPT ![d].retried = @ + 1]
            /\ UNCHANGED <<rec, temp, excused, disturbed>>
    /\ UNCHANGED <<adding, nodeOf, aria, followed, transfers, recycle, reachable, pooled, current, failures,
                   crashes, twoAdding, gap>>

Follow(d) ==
    /\ mon[d].at = "poll" /\ ~StatusFails(d) /\ followed[d] /\ mon[d].gid = 1
    /\ mon' = [mon EXCEPT ![d].retried = 0, ![d].gid = 2]
    /\ rec' = Saved(d, rec[d].status, [mon[d] EXCEPT !.gid = 2])
    /\ UNCHANGED <<adding, nodeOf, aria, followed, temp, transfers, recycle, reachable, pooled, current,
                   failures, crashes, twoAdding, gap, disturbed, excused>>

(* UpdateTaskInfo: the record first; then, when the size has become known, *)
(* ValidateFile, and a file that it refuses is cancelled in aria2.         *)
SaveFails(d) == rec[d].status = "deleted" /\ RemoveTempFolder(d) /\ UNCHANGED <<rec, aria, disturbed>>
ValidateFileRefuses(d, m) ==
    /\ rec[d].status # "deleted" /\ m.sized # mon[d].sized
    /\ setErrorStatus(d, m) /\ RemoveTempFolder(d)
    /\ aria' = [aria EXCEPT ![d] = IF @ \in Stopped THEN @ ELSE "removed"]
    /\ UNCHANGED disturbed
UpdateTaskInfo(d, status, m) == rec[d].status # "deleted" /\ rec' = Saved(d, status, m) /\ UNCHANGED aria

Goes(d, m, at) == mon' = [mon EXCEPT ![d] = [m EXCEPT !.at = at]] /\ UNCHANGED <<temp, excused, disturbed>>
Update(d) ==
    /\ mon[d].at = "poll" /\ ~StatusFails(d) /\ (followed[d] => mon[d].gid = 2)
    /\ LET status == GetStatus(d)
           sized == mon[d].sized \/ status \in {"Downloading", "Seeding", "Complete"}
           m == [mon[d] EXCEPT !.retried = 0, !.sized = sized]
       IN  \/ SaveFails(d)
           \/ ValidateFileRefuses(d, m)
           \/ /\ UpdateTaskInfo(d, status, m)
              /\ CASE status = "Complete" -> Goes(d, m, "complete")
                   [] status = "Seeding" -> Goes(d, m, "seeding")
                   [] status \in Counted -> Goes(d, m, "poll")
                   [] status \in {"Error", "Canceled"} -> RemoveTempFolder(d) /\ Disturb(d)
                   [] OTHER -> /\ mon' = [mon EXCEPT ![d] = NoMonitor] /\ excused' = excused \cup {d}
                               /\ UNCHANGED <<temp, disturbed>>
    /\ UNCHANGED <<adding, nodeOf, followed, transfers, recycle, reachable, pooled, current, failures, crashes,
                   twoAdding, gap>>

(* transfer: the task is recorded and submitted, then its ID is saved.     *)
NextAttempt(d) == CHOOSE n \in Attempts : transfers[d][n] = "none" /\ \A k \in 1 .. n - 1 : transfers[d][k] # "none"

MutTransfer(d) ==
    /\ mon[d].at \in {"complete", "seeding"} /\ \E n \in Attempts : transfers[d][n] = "none"
    /\ transfers' = [transfers EXCEPT ![d][NextAttempt(d)] = "queued"]
    /\ mon' = [mon EXCEPT ![d].at = "submitted", ![d].task = NextAttempt(d)]
    /\ UNCHANGED <<adding, rec, nodeOf, aria, followed, temp, recycle, reachable, pooled, current, failures, crashes, twoAdding, gap, disturbed, excused>>
transfer(d) ==
    /\ mon[d].at \in {"complete", "seeding"} /\ mon[d].task = 0
    /\ transfers' = [transfers EXCEPT ![d][NextAttempt(d)] = "queued"]
    /\ mon' = [mon EXCEPT ![d].at = "submitted", ![d].task = NextAttempt(d)]
    /\ UNCHANGED <<adding, rec, nodeOf, aria, followed, temp, recycle, reachable, pooled, current, failures,
                   crashes, twoAdding, gap, disturbed, excused>>

SaveTaskID(d) ==
    /\ mon[d].at = "submitted"
    /\ mon' = [mon EXCEPT ![d].at = "poll"]
    /\ rec' = Saved(d, rec[d].status, mon[d])
    /\ UNCHANGED <<adding, nodeOf, aria, followed, temp, transfers, recycle, reachable, pooled, current,
                   failures, crashes, twoAdding, gap, disturbed, excused>>

(* Complete with a transfer submitted: recycle once aria2 and the transfer *)
(* have ended; GetStatus is taken from the status this round has read.     *)
Complete(d) ==
    /\ mon[d].at \in {"complete", "seeding"} /\ mon[d].task # 0
    /\ IF mon[d].at = "complete" /\ transfers[d][mon[d].task] = "ended"
       THEN /\ recycle' = [recycle EXCEPT ![d] = "queued"]
            /\ mon' = [mon EXCEPT ![d] = NoMonitor]
       ELSE mon' = [mon EXCEPT ![d].at = "poll"] /\ UNCHANGED recycle
    /\ UNCHANGED <<adding, rec, nodeOf, aria, followed, temp, transfers, reachable, pooled, current, failures,
                   crashes, twoAdding, gap, disturbed, excused>>

-----------------------------------------------------------------------------
(* The task pool, and the delayed removal.                                 *)

TransferDo(d, n) ==
    /\ transfers[d][n] = "queued"
    /\ transfers' = [transfers EXCEPT ![d][n] = "ended"]
    /\ UNCHANGED <<adding, rec, mon, nodeOf, aria, followed, temp, recycle, reachable, pooled, current,
                   failures, crashes, twoAdding, gap, disturbed, excused>>

(* RecycleTask.Do needs the record and the node.                           *)
RecycleDo(d) ==
    /\ recycle[d] = "queued" /\ recycle' = [recycle EXCEPT ![d] = "ended"]
    /\ IF rec[d].status # "deleted" /\ GetNodeByID(nodeOf[d])
       THEN DeleteTempFile(d)
       ELSE excused' = excused \cup {d} /\ UNCHANGED temp
    /\ UNCHANGED <<adding, rec, mon, nodeOf, aria, followed, transfers, reachable, pooled, current, failures,
                   crashes, twoAdding, gap, disturbed>>

RemoveAll(d) ==
    /\ temp[d] = "doomed" /\ temp' = [temp EXCEPT ![d] = "removed"]
    /\ UNCHANGED <<adding, rec, mon, nodeOf, aria, followed, transfers, recycle, reachable, pooled, current,
                   failures, crashes, twoAdding, gap, disturbed, excused>>

-----------------------------------------------------------------------------
(* Cancel of rpcService by the record's GID, which aria2 refuses once it   *)
(* has stopped; the slave's handler calls it there.                        *)
rpcCancels(d) == aria[d] \notin Stopped /\ (followed[d] => rec[d].gid = 2)
SlaveCancel(d) == rpcCancels(d)
slaveCallerCancels(d) == ~SendAria2CallFails(d) /\ SlaveCancel(d)
CancelSucceeds(d) ==
    IF nodeOf[d] = "master" THEN "master" \in reachable /\ rpcCancels(d) ELSE slaveCallerCancels(d)

(* The user: Delete drops the record of what has ended and cancels the     *)
(* rest in aria2, by the GID the record has.                               *)
DeleteDownload(d) ==
    /\ rec[d].status \notin {"none", "deleted"}
    /\ IF rec[d].status \notin Underway
       THEN rec' = [rec EXCEPT ![d].status = "deleted"] /\ UNCHANGED aria
       ELSE /\ GetNodeByID(nodeOf[d]) /\ CancelSucceeds(d)
            /\ aria' = [aria EXCEPT ![d] = "removed"]
            /\ UNCHANGED rec
    /\ Disturb(d)
    /\ UNCHANGED <<adding, mon, nodeOf, followed, temp, transfers, recycle, reachable, pooled, current, failures,
                   crashes, twoAdding, gap, excused>>

(* External: aria2 works on a download.                                    *)
AriaGoesOn(d) ==
    /\ aria[d] \in {"waiting", "active", "seeding", "paused"}
    /\ \/ /\ d \in Magnets /\ ~followed[d] /\ aria[d] = "active"
          /\ followed' = [followed EXCEPT ![d] = TRUE]
          /\ aria' = [aria EXCEPT ![d] = "waiting"]
       \/ /\ aria' = [aria EXCEPT ![d] = CASE @ = "waiting" -> "active"
                                            [] @ = "active" -> IF d \in Magnets THEN "seeding" ELSE "complete"
                                            [] @ = "seeding" -> "complete"
                                            [] OTHER -> "active"]
          /\ (d \in Magnets /\ aria[d] = "active") => followed[d]
          /\ UNCHANGED followed
       \/ aria[d] = "active" /\ aria' = [aria EXCEPT ![d] = "paused"] /\ UNCHANGED followed
       \/ aria[d] \in {"active", "seeding"} /\ aria' = [aria EXCEPT ![d] = "error"] /\ UNCHANGED followed
    /\ UNCHANGED <<adding, rec, mon, nodeOf, temp, transfers, recycle, reachable, pooled, current, failures,
                   crashes, twoAdding, gap, disturbed, excused>>

Outage ==
    /\ Cardinality(Begun) <= MaxUnderFaults /\ failures < MaxFailures /\ failures' = failures + 1
    /\ \/ \E n \in Nodes : reachable' = reachable \ {n} /\ UNCHANGED aria
       \/ /\ \E d \in Downloads : aria[d] # "none" /\ aria' = [aria EXCEPT ![d] = "forgotten"]
          /\ UNCHANGED reachable
    /\ UNCHANGED <<adding, rec, mon, nodeOf, followed, temp, transfers, recycle, pooled, current, crashes,
                   twoAdding, gap, disturbed, excused>>
Recovers(n) ==
    /\ n \notin reachable /\ reachable' = reachable \cup {n}
    /\ UNCHANGED <<adding, rec, mon, nodeOf, aria, followed, temp, transfers, recycle, pooled, current, failures,
                   crashes, twoAdding, gap, disturbed, excused>>
SlaveLeavesPool ==
    /\ Cardinality(Begun) <= MaxUnderFaults /\ "slave" \in pooled /\ pooled' = {"master"}
    /\ UNCHANGED <<adding, rec, mon, nodeOf, aria, followed, temp, transfers, recycle, reachable, current,
                   failures, crashes, twoAdding, gap, disturbed, excused>>

(* aria2.Init after a crash: a monitor for each record that is under way,  *)
(* if its node is in the pool; the tasks of the pool are resumed.          *)
Resumed(d) == rec[d].status \in Underway /\ GetNodeByID(nodeOf[d])
MutAria2Init ==
    /\ mon' = [d \in Downloads |-> IF rec[d].status \in Counted /\ nodeOf[d] \in pooled
                                   THEN [at |-> "poll", retried |-> 0, gid |-> rec[d].gid, task |-> rec[d].task, sized |-> rec[d].sized]
                                   ELSE NoMonitor]
    /\ rec' = [d \in Downloads |-> IF rec[d].status \in Underway /\ nodeOf[d] \notin pooled THEN [rec[d] EXCEPT !.status = "Error"] ELSE rec[d]]
Aria2Init ==
    /\ mon' = [d \in Downloads |->
                  IF Resumed(d)
                  THEN [at |-> "poll", retried |-> 0, gid |-> rec[d].gid, task |-> rec[d].task, sized |-> rec[d].sized]
                  ELSE NoMonitor]
    /\ rec' = [d \in Downloads |->
                  IF rec[d].status \in Underway /\ ~Resumed(d) THEN [rec[d] EXCEPT !.status = "Error"] ELSE rec[d]]

Crash ==
    /\ Cardinality(Begun) <= MaxUnderFaults /\ crashes < MaxCrashes /\ crashes' = crashes + 1
    /\ adding' = [d \in Downloads |-> "no"]
    /\ current' = 0
    /\ Aria2Init
    /\ temp' = [d \in Downloads |-> IF temp[d] = "doomed" /\ nodeOf[d] = "master" THEN "present" ELSE temp[d]]
    /\ gap' = gap \cup {d \in Downloads : mon[d].at = "submitted"}
    /\ excused' = excused \cup {d \in Downloads : temp[d] \in {"present", "doomed"} /\ ~Resumed(d) /\ recycle[d] # "queued"}
    /\ UNCHANGED <<nodeOf, aria, followed, transfers, recycle, reachable, pooled, failures, twoAdding, disturbed>>

MonitorStep(d) ==
    UpdateFails(d) \/ Follow(d) \/ Update(d) \/ transfer(d) \/ SaveTaskID(d) \/ Complete(d)

OffNext ==
    \/ \E d \in Downloads :
        \/ AddURL(d) \/ CreateTask(d) \/ Create(d) \/ MonitorStep(d) \/ DeleteDownload(d)
        \/ \E n \in Attempts : TransferDo(d, n)
        \/ RecycleDo(d) \/ RemoveAll(d) \/ AriaGoesOn(d)
    \/ Outage \/ Crash \/ SlaveLeavesPool
    \/ \E n \in Nodes : Recovers(n)

(* Monitors poll, workers run their tasks and the removal is only delayed. *)
TransferStep(d) == \E n \in Attempts : TransferDo(d, n)
OffFairness ==
    \A d \in Downloads :
        WF_offVars(MonitorStep(d)) /\ WF_offVars(TransferStep(d)) /\ WF_offVars(RecycleDo(d)) /\ WF_offVars(RemoveAll(d))

OffSpec == OffInit /\ [][OffNext]_offVars /\ OffFairness

-----------------------------------------------------------------------------
(* A download whose record says that it is under way has a monitor, across *)
(* restarts and whatever ended the monitor (aria2.Init, Monitor.Update).   *)
UnderwayIsMonitored == \A d \in Downloads : rec[d].status \in Underway => mon[d].at # "off"

(* The files are handed to one transfer task; a second one means that a    *)
(* crash fell between Submit and the save of TaskID (Monitor.transfer).    *)
TransferredOnce ==
    \A d \in Downloads : Cardinality({n \in Attempts : transfers[d][n] # "none"}) > 1 => d \in gap

(* A transfer that has not ended finds its folder, unless the user or      *)
(* aria2 ended the download meanwhile or it was submitted twice            *)
(* (Monitor.Complete, RemoveTempFolder, RecycleTask.Do).                   *)
SourceKept ==
    \A d \in Downloads :
        (\E n \in Attempts : transfers[d][n] = "queued") => temp[d] = "present" \/ d \in disturbed \cup gap

(* The user has more downloads than the group allows only when two         *)
(* requests of Add were under way at once (AddURLService.Add).             *)
LimitKept == Cardinality({d \in Downloads : rec[d].status \in Counted}) > Limit => twoAdding

(* When aria2 has stopped, the monitor ends and the folder goes, unless    *)
(* something left it behind for good: an unreachable slave, an unknown     *)
(* status, a record or node that is gone, a restart after the record       *)
(* left the states that are resumed (Monitor.Loop, aria2.Init).            *)
FolderReclaimed ==
    \A d \in Downloads :
        (temp[d] = "present" /\ aria[d] \in Stopped /\ mon[d].at # "off") ~> (temp[d] = "removed" \/ d \in excused)

(* What monitors, tasks, users and restarts keep together: one transfer for *)
(* a download, with its files in place, within the limit (Monitor, Add).   *)
DownloadInv == TransferredOnce /\ SourceKept /\ LimitKept
=============================================================================
