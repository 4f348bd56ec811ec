--------------------------- MODULE ClusterProofs ----------------------------
(***************************************************************************)
(* Proofs about the cluster and offline downloads: the node pool, the      *)
(* downloads and their monitors, transfers through slaves and the JSON-RPC *)
(* client of aria2, for every set of nodes, downloads, transfers and       *)
(* calls, and every bound on failures. Each part has an inductive          *)
(* invariant of its own, and a lemma for the initial states and one for    *)
(* the steps.                                                              *)
(***************************************************************************)
EXTENDS NodePool, OfflineDownload, SlaveTransfer, Aria2RPC,
        FiniteSetTheorems, WellFoundedInduction, TLAPS

-----------------------------------------------------------------------------
(* Aria2RPC: answers reach their callers                                   *)

\* A request of the aria2 client is in one place at a time: in sendChan, then
\* under its callback in ResponseProcessor and with aria2, then among the
\* answers; its ID is never given out again.
RPCIndInv ==
    /\ call \in [Calls -> {"idle", "waiting", "blocked", "timeout", "returned"}]
    /\ reply \in [Calls -> Calls \cup {"empty"}]
    /\ sendChan \in Seq(Calls) /\ cbs \subseteq Calls
    /\ asked \subseteq cbs
    /\ answers \subseteq [id : Calls, result : BOOLEAN]
    /\ \A c \in cbs : call[c] # "idle"
    /\ \A i \in 1 .. Len(sendChan) : call[sendChan[i]] # "idle" /\ sendChan[i] \notin cbs
    /\ \A i, j \in 1 .. Len(sendChan) : sendChan[i] = sendChan[j] => i = j
    /\ \A a \in answers : a.id \notin asked
    /\ \A a, b \in answers : a.id = b.id => a = b

\* A client that has just been connected (newWebsocketCaller) keeps it.
LEMMA RPCInitInv == RPCInit => RPCIndInv /\ RPCInv
BY DEF RPCInit, RPCIndInv, RPCInv, OwnAnswer, AnswersClaimed

\* Every step of Call, of the goroutines for sending and receiving, of
\* ResponseProcessor and of aria2 keeps it, and with it what the callers rely
\* on.
LEMMA RPCStep == RPCIndInv /\ RPCInv /\ [RPCNext]_rpcVars => RPCIndInv' /\ RPCInv'
<1> SUFFICES ASSUME RPCIndInv, RPCInv, [RPCNext]_rpcVars PROVE RPCIndInv' /\ RPCInv'
  OBVIOUS
<1> USE DEF RPCIndInv, RPCInv, OwnAnswer, AnswersClaimed
<1>1. ASSUME NEW c \in Calls, Call(c) PROVE RPCIndInv' /\ RPCInv'
  <2>1. CASE Len(sendChan) < ChanSize
    <3>1. /\ sendChan' = Append(sendChan, c) /\ call' = [call EXCEPT ![c] = "waiting"]
          /\ UNCHANGED <<reply, cbs, asked, answers>> /\ call[c] = "idle"
      BY <1>1, <2>1 DEF Call
    <3>2. /\ sendChan' \in Seq(Calls) /\ Len(sendChan') = Len(sendChan) + 1
          /\ \A i \in 1 .. Len(sendChan') :
                sendChan'[i] = IF i <= Len(sendChan) THEN sendChan[i] ELSE c
      BY <3>1
    <3>3. c \notin cbs /\ \A i \in 1 .. Len(sendChan) : sendChan[i] # c /\ sendChan[i] \in Calls
      BY <3>1
    <3> QED BY <3>1, <3>2, <3>3
  <2>2. CASE ~(Len(sendChan) < ChanSize)
    BY <1>1, <2>2 DEF Call
  <2> QED BY <2>1, <2>2
<1>2. ASSUME NEW c \in Calls, CallTimeout(c) PROVE RPCIndInv' /\ RPCInv'
  BY <1>2 DEF CallTimeout
<1>3. ASSUME NEW c \in Calls, NEW result \in BOOLEAN, Aria2Answers(c, result)
      PROVE  RPCIndInv' /\ RPCInv'
  BY <1>3 DEF Aria2Answers
<1>4. ASSUME Send PROVE RPCIndInv' /\ RPCInv'
  BY <1>4 DEF Send
<1>5. ASSUME SendEnds \/ ConnBreaks \/ RecvEnds PROVE RPCIndInv' /\ RPCInv'
  BY <1>5 DEF SendEnds, ConnBreaks, RecvEnds
<1>6. ASSUME NEW a \in answers, Process(a) PROVE RPCIndInv' /\ RPCInv'
  BY <1>6 DEF Process
<1>7. ASSUME UNCHANGED rpcVars PROVE RPCIndInv' /\ RPCInv'
  BY <1>7 DEF rpcVars
<1> QED BY <1>1, <1>2, <1>3, <1>4, <1>5, <1>6, <1>7 DEF RPCNext

\* Whatever the order in which aria2 answers, and however many calls time out
\* meanwhile, a caller gets no answer but its own, and every answer that
\* arrives has a callback waiting for it (websocketCaller.Call,
\* ResponseProcessor.Process): for every number of calls and every size of
\* sendChan.
THEOREM AnswersReachCallers == RPCSpec => []RPCInv
BY RPCInitInv, RPCStep, PTL DEF RPCSpec

-----------------------------------------------------------------------------
(* SlaveTransfer: transfers through a slave                                *)

\* The hash of a call that has not been made; never looked at.
SomeHash == CHOOSE h \in Hashes : TRUE

\* The types of the variables; a handler on the slave serves a call that is
\* waiting for its response.
TransferTypeOK ==
    /\ put \in [Puts -> [at : {"idle", "requesting", "waiting", "done", "failed"}, hash : Hashes \cup {SomeHash}]]
    /\ handler \in [Puts -> {"none", "arrived", "writing", "accepted", "refused"}]
    /\ known \in BOOLEAN /\ raced \in BOOLEAN
    /\ jobs \subseteq [hash : Hashes, by : Puts]
    /\ notices \subseteq [hash : Hashes, by : Puts, ok : BOOLEAN]
    /\ started \in [Hashes -> Nat]
    /\ resets \in Nat /\ losses \in Nat
    /\ \A p \in Puts : put[p].at # "idle" => put[p].hash \in Hashes
    /\ \A p \in Puts : handler[p] # "none" => put[p].at = "requesting"

\* Two calls for one hash make it a repeated one; what is in jobTracker was put
\* there by a call whose handler has left SubmitTask.
TrackerKnows ==
    /\ \A p, q \in Puts :
        p # q /\ put[p].at # "idle" /\ put[q].at # "idle" /\ put[p].hash = put[q].hash => put[p].hash \in repeated
    /\ \A h \in jobTracker : \E q \in Puts :
        put[q].at # "idle" /\ put[q].hash = h /\ handler[q] \notin {"arrived", "writing"}

\* A handler that is about to write to jobTracker found no entry; while the
\* slave knows its server, the tracker holds every hash that was started.
StartsTracked ==
    /\ \A p \in Puts : handler[p] = "writing" => known /\ (raced \/ started[put[p].hash] = 0)
    /\ known => \A h \in Hashes : started[h] > 0 => h \in jobTracker

\* The transfer of a hash is running or its result is on its way; or a loss, a
\* restart, a race or a repetition excuses it.
Served(h) ==
    \/ \E j \in jobs : j.hash = h
    \/ \E n \in notices : n.hash = h
    \/ losses > 0 \/ resets > 0 \/ raced \/ h \in repeated

\* What an accepted call will wait for is there already; a good result is sent
\* after the file was stored; a slave that does not know the server runs
\* nothing for it.
AcceptedServed ==
    /\ \A p \in Puts : handler[p] = "accepted" => Served(put[p].hash)
    /\ \A n \in notices : n.ok => n.hash \in stored
    /\ ~known => jobs = {}

\* The inductive invariant: the promise alone does not say where the result of
\* an accepted call comes from while the response is under way, nor why
\* SubmitTask finds the entry of a hash that was started.
SlaveIndInv == TransferTypeOK /\ TrackerKnows /\ StartsTracked /\ AcceptedServed /\ SlaveInv

\* It holds before the first transfer.
LEMMA SlaveInitInv == TransferInit => SlaveIndInv
<1> SUFFICES ASSUME TransferInit PROVE SlaveIndInv
  OBVIOUS
<1>1. put = [p \in Puts |-> [at |-> "idle", hash |-> SomeHash]]
  BY DEF TransferInit, SomeHash
<1>2. /\ handler = [p \in Puts |-> "none"] /\ known = FALSE /\ raced = FALSE
      /\ jobTracker = {} /\ jobs = {} /\ notices = {}
      /\ started = [h \in Hashes |-> 0] /\ resets = 0 /\ losses = 0
  BY DEF TransferInit
<1> HIDE DEF SomeHash
<1>3. \A p \in Puts : put[p].at = "idle" /\ handler[p] = "none"
  BY <1>1, <1>2
<1>4. TransferTypeOK
  <2>1. put \in [Puts -> [at : {"idle", "requesting", "waiting", "done", "failed"}, hash : Hashes \cup {SomeHash}]]
    BY <1>1
  <2> QED BY <1>2, <1>3, <2>1 DEF TransferTypeOK
<1>5. TrackerKnows /\ StartsTracked /\ AcceptedServed
  BY <1>2, <1>3 DEF TrackerKnows, StartsTracked, AcceptedServed
<1>6. SlaveInv
  BY <1>2, <1>3 DEF SlaveInv, SuccessIsStored, RunsOnce, NeverWaitsInVain
<1> QED BY <1>4, <1>5, <1>6 DEF SlaveIndInv

\* Every step of the master's Put, of the slave's handler and of the transfer
\* task keeps it, with resets, lost results and two handlers in SubmitTask at
\* once.
LEMMA SlaveStep == SlaveIndInv /\ [TransferNext]_transferVars => SlaveIndInv'
<1> SUFFICES ASSUME SlaveIndInv, [TransferNext]_transferVars PROVE SlaveIndInv'
  OBVIOUS
<1> USE DEF SlaveIndInv, SlaveInv
<1>1. ASSUME NEW p \in Puts, NEW h \in Hashes, Subscribe(p, h) PROVE SlaveIndInv'
  <2>1. TransferTypeOK'
    BY <1>1 DEF Subscribe, TransferTypeOK
  <2>2. TrackerKnows'
    BY <1>1 DEF Subscribe, TrackerKnows, TransferTypeOK
  <2>3. StartsTracked'
    BY <1>1 DEF Subscribe, StartsTracked, TransferTypeOK
  <2>4. AcceptedServed'
    BY <1>1 DEF Subscribe, AcceptedServed, TrackerKnows, StartsTracked, Served, TransferTypeOK
  <2>5. SuccessIsStored'
    BY <1>1 DEF Subscribe, SuccessIsStored, AcceptedServed, TransferTypeOK
  <2>6. RunsOnce'
    BY <1>1 DEF Subscribe, RunsOnce, StartsTracked, TransferTypeOK
  <2>7. NeverWaitsInVain'
    BY <1>1 DEF Subscribe, NeverWaitsInVain, AcceptedServed, Served, TransferTypeOK
  <2> QED BY <2>1, <2>2, <2>3, <2>4, <2>5, <2>6, <2>7
<1>2. ASSUME NEW p \in Puts, SubmitTaskLookup(p) PROVE SlaveIndInv'
  <2>1. TransferTypeOK'
    BY <1>2 DEF SubmitTaskLookup, TransferTypeOK
  <2>2. TrackerKnows'
    BY <1>2 DEF SubmitTaskLookup, TrackerKnows, TransferTypeOK
  <2>3. StartsTracked'
    BY <1>2 DEF SubmitTaskLookup, StartsTracked, TransferTypeOK
  <2>4. AcceptedServed'
    BY <1>2 DEF SubmitTaskLookup, AcceptedServed, TrackerKnows, StartsTracked, Served,
      TransferTypeOK
  <2>5. SuccessIsStored'
    BY <1>2 DEF SubmitTaskLookup, SuccessIsStored, AcceptedServed, TransferTypeOK
  <2>6. RunsOnce'
    BY <1>2 DEF SubmitTaskLookup, RunsOnce, StartsTracked, TransferTypeOK
  <2>7. NeverWaitsInVain'
    BY <1>2 DEF SubmitTaskLookup, NeverWaitsInVain, AcceptedServed, Served, TransferTypeOK
  <2> QED BY <2>1, <2>2, <2>3, <2>4, <2>5, <2>6, <2>7
<1>3. ASSUME NEW p \in Puts, SubmitTaskWrite(p) PROVE SlaveIndInv'
  <2>1. TransferTypeOK'
    BY <1>3 DEF SubmitTaskWrite, TransferTypeOK
  <2>2. TrackerKnows'
    BY <1>3 DEF SubmitTaskWrite, TrackerKnows, TransferTypeOK
  <2>3. StartsTracked'
    BY <1>3 DEF SubmitTaskWrite, StartsTracked, TransferTypeOK
  <2>4. AcceptedServed'
    <3>1. known /\ UNCHANGED <<put, known, notices, stored, losses, resets, repeated>> /\ (raced => raced')
      BY <1>3 DEF SubmitTaskWrite, StartsTracked, TransferTypeOK
    <3>2. jobs' = jobs \cup {[hash |-> put[p].hash, by |-> p]} /\ handler' = [handler EXCEPT ![p] = "accepted"]
      BY <1>3 DEF SubmitTaskWrite, TransferTypeOK
    <3>3. ASSUME NEW q \in Puts, handler'[q] = "accepted" PROVE Served(put[q].hash)'
      <4>1. CASE q = p
        <5>1. [hash |-> put[p].hash, by |-> p] \in jobs' /\ put' = put
          BY <3>1, <3>2
        <5>2. [hash |-> put[p].hash, by |-> p].hash = put'[q].hash
          BY <4>1, <5>1
        <5> QED BY <5>1, <5>2 DEF Served
      <4>2. CASE q # p
        <5>1. Served(put[q].hash)
          BY <3>2, <3>3, <4>2 DEF AcceptedServed
        <5> QED BY <3>1, <3>2, <5>1 DEF Served
      <4> QED BY <4>1, <4>2
    <3> QED BY <3>1, <3>3 DEF AcceptedServed
  <2>5. SuccessIsStored'
    BY <1>3 DEF SubmitTaskWrite, SuccessIsStored, AcceptedServed, TransferTypeOK
  <2>6. RunsOnce'
    BY <1>3 DEF SubmitTaskWrite, RunsOnce, StartsTracked, TransferTypeOK
  <2>7. NeverWaitsInVain'
    BY <1>3 DEF SubmitTaskWrite, NeverWaitsInVain, AcceptedServed, Served, TransferTypeOK
  <2> QED BY <2>1, <2>2, <2>3, <2>4, <2>5, <2>6, <2>7
<1>4. ASSUME NEW p \in Puts, RequestAnswered(p) PROVE SlaveIndInv'
  <2>1. TransferTypeOK'
    BY <1>4 DEF RequestAnswered, Answered, TransferTypeOK
  <2>2. TrackerKnows'
    BY <1>4 DEF RequestAnswered, Answered, TrackerKnows, TransferTypeOK
  <2>3. StartsTracked'
    BY <1>4 DEF RequestAnswered, Answered, StartsTracked, TransferTypeOK
  <2>4. AcceptedServed'
    BY <1>4 DEF RequestAnswered, Answered, AcceptedServed, TrackerKnows, StartsTracked, Served,
      TransferTypeOK
  <2>5. SuccessIsStored'
    BY <1>4 DEF RequestAnswered, Answered, SuccessIsStored, AcceptedServed, TransferTypeOK
  <2>6. RunsOnce'
    BY <1>4 DEF RequestAnswered, Answered, RunsOnce, StartsTracked, TransferTypeOK
  <2>7. NeverWaitsInVain'
    BY <1>4 DEF RequestAnswered, Answered, NeverWaitsInVain, AcceptedServed, Served, TransferTypeOK
  <2> QED BY <2>1, <2>2, <2>3, <2>4, <2>5, <2>6, <2>7
<1>5. ASSUME NEW p \in Puts, AnswerLost(p) PROVE SlaveIndInv'
  <2>1. TransferTypeOK'
    BY <1>5 DEF AnswerLost, Answered, TransferTypeOK
  <2>2. TrackerKnows'
    BY <1>5 DEF AnswerLost, Answered, TrackerKnows, TransferTypeOK
  <2>3. StartsTracked'
    BY <1>5 DEF AnswerLost, Answered, StartsTracked, TransferTypeOK
  <2>4. AcceptedServed'
    BY <1>5 DEF AnswerLost, Answered, AcceptedServed, TrackerKnows, StartsTracked, Served,
      TransferTypeOK
  <2>5. SuccessIsStored'
    BY <1>5 DEF AnswerLost, Answered, SuccessIsStored, AcceptedServed, TransferTypeOK
  <2>6. RunsOnce'
    BY <1>5 DEF AnswerLost, Answered, RunsOnce, StartsTracked, TransferTypeOK
  <2>7. NeverWaitsInVain'
    BY <1>5 DEF AnswerLost, Answered, NeverWaitsInVain, AcceptedServed, Served, TransferTypeOK
  <2> QED BY <2>1, <2>2, <2>3, <2>4, <2>5, <2>6, <2>7
<1>6. ASSUME NEW p \in Puts, WaitTimeout(p) PROVE SlaveIndInv'
  <2>1. TransferTypeOK'
    BY <1>6 DEF WaitTimeout, TransferTypeOK
  <2>2. TrackerKnows'
    BY <1>6 DEF WaitTimeout, TrackerKnows, TransferTypeOK
  <2>3. StartsTracked'
    BY <1>6 DEF WaitTimeout, StartsTracked, TransferTypeOK
  <2>4. AcceptedServed'
    BY <1>6 DEF WaitTimeout, AcceptedServed, TrackerKnows, StartsTracked, Served, TransferTypeOK
  <2>5. SuccessIsStored'
    BY <1>6 DEF WaitTimeout, SuccessIsStored, AcceptedServed, TransferTypeOK
  <2>6. RunsOnce'
    BY <1>6 DEF WaitTimeout, RunsOnce, StartsTracked, TransferTypeOK
  <2>7. NeverWaitsInVain'
    BY <1>6 DEF WaitTimeout, NeverWaitsInVain, AcceptedServed, Served, TransferTypeOK
  <2> QED BY <2>1, <2>2, <2>3, <2>4, <2>5, <2>6, <2>7
<1>7. ASSUME ConcurrentMapWrites \/ SlaveRestarts PROVE SlaveIndInv'
  <2>0. /\ UNCHANGED <<put, notices, started, losses>> /\ (raced' = raced \/ raced' = TRUE) /\ resets' \in {resets, resets + 1}
        /\ known' = FALSE /\ jobs' = {}
        /\ handler' = [p \in Puts |-> IF handler[p] = "none" THEN "none" ELSE "refused"]
    BY <1>7 DEF ConcurrentMapWrites, SlaveRestarts, SlaveLost, TransferTypeOK
  <2>1. TransferTypeOK'
    <3>1. raced' \in BOOLEAN /\ known' \in BOOLEAN
      BY <2>0, Zenon DEF TransferTypeOK
    <3>2. handler' \in [Puts -> {"none", "arrived", "writing", "accepted", "refused"}]
      BY <2>0 DEF TransferTypeOK
    <3>3. \A p \in Puts : handler'[p] # "none" => put'[p].at = "requesting"
      BY <2>0 DEF TransferTypeOK
    <3> QED BY <2>0, <3>1, <3>2, <3>3 DEF TransferTypeOK
  <2>2. TrackerKnows'
    BY <1>7 DEF ConcurrentMapWrites, SlaveRestarts, SlaveLost, TrackerKnows, TransferTypeOK
  <2>3. StartsTracked'
    BY <1>7 DEF ConcurrentMapWrites, SlaveRestarts, SlaveLost, StartsTracked, TransferTypeOK
  <2>4. AcceptedServed'
    BY <1>7 DEF ConcurrentMapWrites, SlaveRestarts, SlaveLost, AcceptedServed, TrackerKnows,
      StartsTracked, Served, TransferTypeOK
  <2>5. SuccessIsStored'
    BY <1>7 DEF ConcurrentMapWrites, SlaveRestarts, SlaveLost, SuccessIsStored, AcceptedServed,
      TransferTypeOK
  <2>6. RunsOnce'
    BY <1>7 DEF ConcurrentMapWrites, SlaveRestarts, SlaveLost, RunsOnce, StartsTracked,
      TransferTypeOK
  <2>7. NeverWaitsInVain'
    BY <1>7 DEF ConcurrentMapWrites, SlaveRestarts, SlaveLost, NeverWaitsInVain, AcceptedServed,
      Served, TransferTypeOK
  <2> QED BY <2>1, <2>2, <2>3, <2>4, <2>5, <2>6, <2>7
<1>8. ASSUME NEW j \in jobs, NEW ok \in BOOLEAN, TransferTaskDo(j, ok) PROVE SlaveIndInv'
  <2>0. \A h : Served(h) => Served(h)'
    <3>1. known /\ UNCHANGED <<losses, resets, raced, repeated>> /\ jobs' = jobs \ {j}
          /\ notices' = notices \cup {[hash |-> j.hash, by |-> j.by, ok |-> ok]}
      BY <1>8 DEF TransferTaskDo, AcceptedServed, TransferTypeOK
    <3>2. TAKE h
    <3>3. ASSUME NEW k \in jobs, k.hash = h PROVE Served(h)'
      <4>1. CASE k = j
        <5>1. [hash |-> j.hash, by |-> j.by, ok |-> ok] \in notices'
          BY <3>1
        <5>2. [hash |-> j.hash, by |-> j.by, ok |-> ok].hash = h
          BY <3>3, <4>1
        <5> QED BY <5>1, <5>2 DEF Served
      <4>2. CASE k # j
        BY <3>1, <3>3, <4>2 DEF Served
      <4> QED BY <4>1, <4>2
    <3>4. ASSUME NEW n \in notices, n.hash = h PROVE Served(h)'
      BY <3>1, <3>4 DEF Served
    <3>5. ASSUME losses > 0 \/ resets > 0 \/ raced \/ h \in repeated PROVE Served(h)'
      BY <3>1, <3>5 DEF Served
    <3> QED BY <3>3, <3>4, <3>5 DEF Served
  <2>1. TransferTypeOK'
    BY <1>8 DEF TransferTaskDo, TransferTypeOK
  <2>2. TrackerKnows'
    BY <1>8 DEF TransferTaskDo, TrackerKnows, TransferTypeOK
  <2>3. StartsTracked'
    BY <1>8 DEF TransferTaskDo, StartsTracked, TransferTypeOK
  <2>4. AcceptedServed'
    BY <1>8, <2>0 DEF TransferTaskDo, AcceptedServed, TransferTypeOK
  <2>5. SuccessIsStored'
    BY <1>8 DEF TransferTaskDo, SuccessIsStored, AcceptedServed, TransferTypeOK
  <2>6. RunsOnce'
    BY <1>8 DEF TransferTaskDo, RunsOnce, StartsTracked, TransferTypeOK
  <2>7. NeverWaitsInVain'
    <3>1. put' = put
      BY <1>8 DEF TransferTaskDo
    <3>2. ASSUME NEW p \in Puts, put[p].at = "waiting" PROVE Served(put[p].hash)
      BY <3>2 DEF NeverWaitsInVain, Served
    <3>3. ASSUME NEW p \in Puts, put'[p].at = "waiting" PROVE Served(put[p].hash)'
      <4>1. Served(put[p].hash)
        BY <3>1, <3>2, <3>3
      <4>2. ASSUME NEW h, h = put[p].hash PROVE Served(put[p].hash)'
        <5>1. Served(h)'
          BY <2>0, <4>1, <4>2
        <5> QED BY <5>1, <4>2, <3>1 DEF Served
      <4> QED BY <4>2
    <3> QED BY <3>3 DEF NeverWaitsInVain, Served
  <2> QED BY <2>1, <2>2, <2>3, <2>4, <2>5, <2>6, <2>7
<1>9. ASSUME NEW n \in notices, Publish(n) PROVE SlaveIndInv'
  <2>1. TransferTypeOK'
    BY <1>9 DEF Publish, Subscribed, TransferTypeOK
  <2>2. TrackerKnows'
    BY <1>9 DEF Publish, Subscribed, TrackerKnows, TransferTypeOK
  <2>3. StartsTracked'
    BY <1>9 DEF Publish, Subscribed, StartsTracked, TransferTypeOK
  <2>4. AcceptedServed'
    BY <1>9 DEF Publish, Subscribed, AcceptedServed, TrackerKnows, StartsTracked, Served,
      TransferTypeOK
  <2>5. SuccessIsStored'
    BY <1>9 DEF Publish, Subscribed, SuccessIsStored, AcceptedServed, TransferTypeOK
  <2>6. RunsOnce'
    BY <1>9 DEF Publish, Subscribed, RunsOnce, StartsTracked, TransferTypeOK
  <2>7. NeverWaitsInVain'
    BY <1>9 DEF Publish, Subscribed, NeverWaitsInVain, AcceptedServed, Served, TransferTypeOK
  <2> QED BY <2>1, <2>2, <2>3, <2>4, <2>5, <2>6, <2>7
<1>10. ASSUME NEW n \in notices, MessageExpires(n) PROVE SlaveIndInv'
  <2>1. TransferTypeOK'
    BY <1>10 DEF MessageExpires, Subscribed, TransferTypeOK
  <2>2. TrackerKnows'
    BY <1>10 DEF MessageExpires, Subscribed, TrackerKnows, TransferTypeOK
  <2>3. StartsTracked'
    BY <1>10 DEF MessageExpires, Subscribed, StartsTracked, TransferTypeOK
  <2>4. AcceptedServed'
    BY <1>10 DEF MessageExpires, Subscribed, AcceptedServed, TrackerKnows, StartsTracked, Served,
      TransferTypeOK
  <2>5. SuccessIsStored'
    BY <1>10 DEF MessageExpires, Subscribed, SuccessIsStored, AcceptedServed, TransferTypeOK
  <2>6. RunsOnce'
    BY <1>10 DEF MessageExpires, Subscribed, RunsOnce, StartsTracked, TransferTypeOK
  <2>7. NeverWaitsInVain'
    BY <1>10 DEF MessageExpires, Subscribed, NeverWaitsInVain, AcceptedServed, Served,
      TransferTypeOK
  <2> QED BY <2>1, <2>2, <2>3, <2>4, <2>5, <2>6, <2>7
<1>11. ASSUME NEW n \in notices, NotificationLost(n) PROVE SlaveIndInv'
  <2>1. TransferTypeOK'
    BY <1>11 DEF NotificationLost, TransferTypeOK
  <2>2. TrackerKnows'
    BY <1>11 DEF NotificationLost, TrackerKnows, TransferTypeOK
  <2>3. StartsTracked'
    BY <1>11 DEF NotificationLost, StartsTracked, TransferTypeOK
  <2>4. AcceptedServed'
    BY <1>11 DEF NotificationLost, AcceptedServed, TrackerKnows, StartsTracked, Served,
      TransferTypeOK
  <2>5. SuccessIsStored'
    BY <1>11 DEF NotificationLost, SuccessIsStored, AcceptedServed, TransferTypeOK
  <2>6. RunsOnce'
    BY <1>11 DEF NotificationLost, RunsOnce, StartsTracked, TransferTypeOK
  <2>7. NeverWaitsInVain'
    BY <1>11 DEF NotificationLost, NeverWaitsInVain, AcceptedServed, Served, TransferTypeOK
  <2> QED BY <2>1, <2>2, <2>3, <2>4, <2>5, <2>6, <2>7
<1>12. ASSUME NEW isUpdate \in BOOLEAN, HandleHeartBeat(isUpdate) PROVE SlaveIndInv'
  <2>1. TransferTypeOK'
    BY <1>12 DEF HandleHeartBeat, TransferTypeOK
  <2>2. TrackerKnows'
    BY <1>12 DEF HandleHeartBeat, TrackerKnows, TransferTypeOK
  <2>3. StartsTracked'
    BY <1>12 DEF HandleHeartBeat, StartsTracked, TransferTypeOK
  <2>4. AcceptedServed'
    BY <1>12 DEF HandleHeartBeat, AcceptedServed, TrackerKnows, StartsTracked, Served,
      TransferTypeOK
  <2>5. SuccessIsStored'
    BY <1>12 DEF HandleHeartBeat, SuccessIsStored, AcceptedServed, TransferTypeOK
  <2>6. RunsOnce'
    BY <1>12 DEF HandleHeartBeat, RunsOnce, StartsTracked, TransferTypeOK
  <2>7. NeverWaitsInVain'
    BY <1>12 DEF HandleHeartBeat, NeverWaitsInVain, AcceptedServed, Served, TransferTypeOK
  <2> QED BY <2>1, <2>2, <2>3, <2>4, <2>5, <2>6, <2>7
<1>13. ASSUME UNCHANGED transferVars PROVE SlaveIndInv'
  <2>1. TransferTypeOK'
    BY <1>13 DEF transferVars, TransferTypeOK
  <2>2. TrackerKnows'
    BY <1>13 DEF transferVars, TrackerKnows, TransferTypeOK
  <2>3. StartsTracked'
    BY <1>13 DEF transferVars, StartsTracked, TransferTypeOK
  <2>4. AcceptedServed'
    BY <1>13 DEF transferVars, AcceptedServed, TrackerKnows, StartsTracked, Served, TransferTypeOK
  <2>5. SuccessIsStored'
    BY <1>13 DEF transferVars, SuccessIsStored, AcceptedServed, TransferTypeOK
  <2>6. RunsOnce'
    BY <1>13 DEF transferVars, RunsOnce, StartsTracked, TransferTypeOK
  <2>7. NeverWaitsInVain'
    BY <1>13 DEF transferVars, NeverWaitsInVain, AcceptedServed, Served, TransferTypeOK
  <2> QED BY <2>1, <2>2, <2>3, <2>4, <2>5, <2>6, <2>7
<1> QED
  BY <1>1, <1>2, <1>3, <1>4, <1>5, <1>6, <1>7, <1>8, <1>9, <1>10, <1>11, <1>12, <1>13
    DEF TransferNext

\* A call of the master's driver (slaveinmaster.Put) that waits for a result
\* has one coming, a file that was reported as stored is stored, and SubmitTask
\* starts the transfer of a hash at most once, with the exceptions SlaveInv
\* names: for every set of calls and hashes, every number of restarts and of
\* lost results.
THEOREM TransfersHold == TransferSpec => []SlaveInv
<1>1. SlaveIndInv => SlaveInv
  BY DEF SlaveIndInv
<1> QED BY <1>1, SlaveInitInv, SlaveStep, PTL DEF TransferSpec

-----------------------------------------------------------------------------
(* NodePool: the maps of the pool                                          *)

\* A node object: SlaveNode or MasterNode with its ping loop.
NodeRows == [id : NodeIDs \cup {None}, enabled : BOOLEAN, status : BOOLEAN,
             at : {"none", "waiting", "pinging", "reporting", "ended"}, retry : Nat, closed : BOOLEAN]

\* The types of the variables.
PoolTypeOK ==
    /\ dbNode \in [NodeIDs -> [status : {"active", "suspend", "deleted"}, enabled : BOOLEAN]]
    /\ node \in [Objects -> NodeRows]
    /\ made \in Nat
    /\ active \in [NodeIDs -> Objects \cup {Nil, None}]
    /\ inactive \in [NodeIDs -> Objects \cup {Nil, None}]
    /\ rebuilds \in Nat /\ requested \in Nat
    /\ reInits \subseteq [object : Objects, enabled : BOOLEAN, at : {"model", "signal"}, n : Nat]
    /\ requests \subseteq [op : {"add", "delete", "forget"}, id : NodeIDs, enabled : BOOLEAN, n : Nat]
    /\ up \in [NodeIDs -> BOOLEAN]
    /\ crashed \in BOOLEAN /\ overlapped \in BOOLEAN

\* Objects are made in the order of their numbers, and an object that was made
\* has a node and a loop (NewNodeFromDBModel).
ObjectsMade ==
    \A o \in Objects : IF o <= made THEN node[o].id \in NodeIDs /\ node[o].at # "none"
                       ELSE node[o].at = "none" /\ ~node[o].closed

\* The pool holds only objects that were made...
HeldAreMade == \A id \in NodeIDs : active[id] <= made /\ inactive[id] <= made

\* ... and so does Init of an object that is in the pool already.
InitsOfMade == \A r \in reInits : r.object <= made

\* Without an overlap of Add or Delete with the change of a status, an
\* identifier is in one of the two maps, never with a nil object
\* (changeStatus).
EntriesReal ==
    ~overlapped => \A id \in NodeIDs :
        active[id] # Nil /\ inactive[id] # Nil /\ (active[id] = None \/ inactive[id] = None)

\* The object that the pool holds for a node is this node's and was not killed.
HeldAlive ==
    ~overlapped => \A id \in NodeIDs : \A o \in Objects :
        active[id] = o \/ inactive[id] = o => node[o].id = id /\ ~node[o].closed

\* Conversely an object that was not killed is in the pool: Add replaces none
\* and Delete kills what it takes out.
AliveHeld ==
    ~overlapped => \A o \in Objects :
        o <= made /\ ~node[o].closed => active[node[o].id] = o \/ inactive[node[o].id] = o

\* A loop whose object was killed only waits for the signal, or has ended.
KilledStop == ~overlapped => \A o \in Objects : node[o].closed => node[o].at \in {"waiting", "ended"}

\* Init does not run on an object that was killed.
InitsAlive == ~overlapped => \A r \in reInits : ~node[r.object].closed

\* The map an object is in is the one of its status, or the other one while its
\* loop is about to call the callback (subscribed changeStatus).
StatusShown ==
    ~overlapped => \A id \in NodeIDs : \A o \in Objects :
        /\ active[id] = o /\ node[o].at # "reporting" => node[o].status
        /\ active[id] = o /\ node[o].at = "reporting" => ~node[o].status
        /\ inactive[id] = o /\ node[o].at # "reporting" => ~node[o].status
        /\ inactive[id] = o /\ node[o].at = "reporting" => node[o].status

\* The inductive invariant. PoolAgrees speaks of the object that the pool
\* holds; that no other object is alive, and what its loop is doing, is what
\* keeps a status change from resurrecting a node.
PoolIndInv ==
    /\ PoolTypeOK /\ ObjectsMade /\ HeldAreMade /\ InitsOfMade
    /\ EntriesReal /\ HeldAlive /\ AliveHeld /\ KilledStop /\ InitsAlive /\ StatusShown
    /\ CrashOnlyByOverlap /\ IndexExact

\* Every step of the pool's operations, of the ping loops and of the
\* administrator keeps it.
LEMMA PoolStep == PoolIndInv /\ [PoolNext]_poolVars => PoolIndInv'
<1> SUFFICES ASSUME PoolIndInv, [PoolNext]_poolVars PROVE PoolIndInv'
  OBVIOUS
<1> USE DEF PoolIndInv
<1>1. ASSUME NEW id \in NodeIDs, NEW enabled \in BOOLEAN, SaveNode(id, enabled) PROVE PoolIndInv'
  <2>1. PoolTypeOK'
    BY <1>1 DEF SaveNode, Request, Running, PoolTypeOK, NodeRows, Objects, Nil, None
  <2>2. ObjectsMade'
    BY <1>1 DEF SaveNode, Request, Running, ObjectsMade, PoolTypeOK, NodeRows, Objects, Nil, None
  <2>3. HeldAreMade'
    BY <1>1 DEF SaveNode, Request, Running, HeldAreMade, PoolTypeOK, NodeRows, Objects, Nil, None
  <2>4. InitsOfMade'
    BY <1>1 DEF SaveNode, Request, Running, InitsOfMade, PoolTypeOK, NodeRows, Objects, Nil, None
  <2>5. EntriesReal'
    BY <1>1 DEF SaveNode, Request, Running, EntriesReal, PoolTypeOK, NodeRows, Objects, Nil, None,
      HeldAlive, AliveHeld, KilledStop, StatusShown, ObjectsMade, HeldAreMade
  <2>6. HeldAlive'
    BY <1>1 DEF SaveNode, Request, Running, HeldAlive, PoolTypeOK, NodeRows, Objects, Nil, None,
      EntriesReal, HeldAreMade, KilledStop, AliveHeld, ObjectsMade, StatusShown
  <2>7. AliveHeld'
    BY <1>1 DEF SaveNode, Request, Running, AliveHeld, PoolTypeOK, NodeRows, Objects, Nil, None,
      EntriesReal, HeldAlive, ObjectsMade, HeldAreMade
  <2>8. KilledStop'
    BY <1>1 DEF SaveNode, Request, Running, KilledStop, PoolTypeOK, NodeRows, Objects, Nil, None,
      EntriesReal, HeldAlive, ObjectsMade
  <2>9. InitsAlive'
    BY <1>1 DEF SaveNode, Request, Running, InitsAlive, PoolTypeOK, NodeRows, Objects, Nil, None,
      InitsOfMade, HeldAlive, EntriesReal
  <2>10. StatusShown'
    BY <1>1 DEF SaveNode, Request, Running, StatusShown, PoolTypeOK, NodeRows, Objects, Nil, None,
      EntriesReal, HeldAlive, AliveHeld, KilledStop, ObjectsMade, HeldAreMade
  <2>11. CrashOnlyByOverlap'
    BY <1>1 DEF SaveNode, Request, Running, CrashOnlyByOverlap, PoolTypeOK, EntriesReal, InitsAlive,
      Nil
  <2>12. IndexExact'
    BY <1>1 DEF SaveNode, Request, Running, IndexExact, PoolTypeOK, NodeRows, Objects, Nil, None,
      EntriesReal, HeldAlive, CrashOnlyByOverlap
  <2> QED BY <2>1, <2>2, <2>3, <2>4, <2>5, <2>6, <2>7, <2>8, <2>9, <2>10, <2>11, <2>12
<1>2. ASSUME NEW id \in NodeIDs, Toggle(id) PROVE PoolIndInv'
  <2>a. UNCHANGED <<node, made, active, inactive, featureMap, rebuilds, reInits, up, crashed, overlapped, edited>>
    BY <1>2 DEF Toggle, Request
  <2>b. /\ dbNode' \in [NodeIDs -> [status : {"active", "suspend", "deleted"}, enabled : BOOLEAN]]
        /\ requests' \subseteq [op : {"add", "delete", "forget"}, id : NodeIDs, enabled : BOOLEAN, n : Nat] /\ requested' \in Nat
    <3>1. CASE dbNode[id].status = "active"
      BY <1>2, <3>1 DEF Toggle, Request, PoolTypeOK
    <3>2. CASE dbNode[id].status # "active"
      BY <1>2, <3>2 DEF Toggle, Request, PoolTypeOK
    <3> QED BY <3>1, <3>2
  <2>1. PoolTypeOK'
    BY <2>a, <2>b DEF PoolTypeOK, NodeRows, Objects, Nil, None
  <2>2. ObjectsMade'
    BY <2>a, <2>b DEF ObjectsMade, PoolTypeOK, NodeRows, Objects, Nil, None
  <2>3. HeldAreMade'
    BY <2>a, <2>b DEF HeldAreMade, PoolTypeOK, NodeRows, Objects, Nil, None
  <2>4. InitsOfMade'
    BY <2>a, <2>b DEF InitsOfMade, PoolTypeOK, NodeRows, Objects, Nil, None
  <2>5. EntriesReal'
    BY <2>a, <2>b DEF EntriesReal, PoolTypeOK, NodeRows, Objects, Nil, None, HeldAlive, AliveHeld,
      KilledStop, StatusShown, ObjectsMade, HeldAreMade
  <2>6. HeldAlive'
    BY <2>a, <2>b DEF HeldAlive, PoolTypeOK, NodeRows, Objects, Nil, None, EntriesReal, HeldAreMade,
      KilledStop, AliveHeld, ObjectsMade, StatusShown
  <2>7. AliveHeld'
    BY <2>a, <2>b DEF AliveHeld, PoolTypeOK, NodeRows, Objects, Nil, None, EntriesReal, HeldAlive,
      ObjectsMade, HeldAreMade
  <2>8. KilledStop'
    BY <2>a, <2>b DEF KilledStop, PoolTypeOK, NodeRows, Objects, Nil, None, EntriesReal, HeldAlive,
      ObjectsMade
  <2>9. InitsAlive'
    BY <2>a, <2>b DEF InitsAlive, PoolTypeOK, NodeRows, Objects, Nil, None, InitsOfMade, HeldAlive,
      EntriesReal
  <2>10. StatusShown'
    BY <2>a, <2>b DEF StatusShown, PoolTypeOK, NodeRows, Objects, Nil, None, EntriesReal, HeldAlive,
      AliveHeld, KilledStop, ObjectsMade, HeldAreMade
  <2>11. CrashOnlyByOverlap'
    BY <2>a, <2>b DEF CrashOnlyByOverlap, PoolTypeOK, EntriesReal, InitsAlive, Nil
  <2>12. IndexExact'
    BY <2>a, <2>b DEF IndexExact, PoolTypeOK, NodeRows, Objects, Nil, None, EntriesReal, HeldAlive,
      CrashOnlyByOverlap
  <2> QED BY <2>1, <2>2, <2>3, <2>4, <2>5, <2>6, <2>7, <2>8, <2>9, <2>10, <2>11, <2>12
<1>3. ASSUME NEW id \in NodeIDs, DeleteNode(id) PROVE PoolIndInv'
  <2>1. PoolTypeOK'
    BY <1>3 DEF DeleteNode, Request, Running, PoolTypeOK, NodeRows, Objects, Nil, None
  <2>2. ObjectsMade'
    BY <1>3 DEF DeleteNode, Request, Running, ObjectsMade, PoolTypeOK, NodeRows, Objects, Nil, None
  <2>3. HeldAreMade'
    BY <1>3 DEF DeleteNode, Request, Running, HeldAreMade, PoolTypeOK, NodeRows, Objects, Nil, None
  <2>4. InitsOfMade'
    BY <1>3 DEF DeleteNode, Request, Running, InitsOfMade, PoolTypeOK, NodeRows, Objects, Nil, None
  <2>5. EntriesReal'
    BY <1>3 DEF DeleteNode, Request, Running, EntriesReal, PoolTypeOK, NodeRows, Objects, Nil, None,
      HeldAlive, AliveHeld, KilledStop, StatusShown, ObjectsMade, HeldAreMade
  <2>6. HeldAlive'
    BY <1>3 DEF DeleteNode, Request, Running, HeldAlive, PoolTypeOK, NodeRows, Objects, Nil, None,
      EntriesReal, HeldAreMade, KilledStop, AliveHeld, ObjectsMade, StatusShown
  <2>7. AliveHeld'
    BY <1>3 DEF DeleteNode, Request, Running, AliveHeld, PoolTypeOK, NodeRows, Objects, Nil, None,
      EntriesReal, HeldAlive, ObjectsMade, HeldAreMade
  <2>8. KilledStop'
    BY <1>3 DEF DeleteNode, Request, Running, KilledStop, PoolTypeOK, NodeRows, Objects, Nil, None,
      EntriesReal, HeldAlive, ObjectsMade
  <2>9. InitsAlive'
    BY <1>3 DEF DeleteNode, Request, Running, InitsAlive, PoolTypeOK, NodeRows, Objects, Nil, None,
      InitsOfMade, HeldAlive, EntriesReal
  <2>10. StatusShown'
    BY <1>3 DEF DeleteNode, Request, Running, StatusShown, PoolTypeOK, NodeRows, Objects, Nil, None,
      EntriesReal, HeldAlive, AliveHeld, KilledStop, ObjectsMade, HeldAreMade
  <2>11. CrashOnlyByOverlap'
    BY <1>3 DEF DeleteNode, Request, Running, CrashOnlyByOverlap, PoolTypeOK, EntriesReal,
      InitsAlive, Nil
  <2>12. IndexExact'
    BY <1>3 DEF DeleteNode, Request, Running, IndexExact, PoolTypeOK, NodeRows, Objects, Nil, None,
      EntriesReal, HeldAlive, CrashOnlyByOverlap
  <2> QED BY <2>1, <2>2, <2>3, <2>4, <2>5, <2>6, <2>7, <2>8, <2>9, <2>10, <2>11, <2>12
<1>4. ASSUME NEW id \in NodeIDs, SlaveGoesDownOrUp(id) PROVE PoolIndInv'
  <2>1. PoolTypeOK'
    BY <1>4 DEF SlaveGoesDownOrUp, Running, PoolTypeOK, NodeRows, Objects, Nil, None
  <2>2. ObjectsMade'
    BY <1>4 DEF SlaveGoesDownOrUp, Running, ObjectsMade, PoolTypeOK, NodeRows, Objects, Nil, None
  <2>3. HeldAreMade'
    BY <1>4 DEF SlaveGoesDownOrUp, Running, HeldAreMade, PoolTypeOK, NodeRows, Objects, Nil, None
  <2>4. InitsOfMade'
    BY <1>4 DEF SlaveGoesDownOrUp, Running, InitsOfMade, PoolTypeOK, NodeRows, Objects, Nil, None
  <2>5. EntriesReal'
    BY <1>4 DEF SlaveGoesDownOrUp, Running, EntriesReal, PoolTypeOK, NodeRows, Objects, Nil, None,
      HeldAlive, AliveHeld, KilledStop, StatusShown, ObjectsMade, HeldAreMade
  <2>6. HeldAlive'
    BY <1>4 DEF SlaveGoesDownOrUp, Running, HeldAlive, PoolTypeOK, NodeRows, Objects, Nil, None,
      EntriesReal, HeldAreMade, KilledStop, AliveHeld, ObjectsMade, StatusShown
  <2>7. AliveHeld'
    BY <1>4 DEF SlaveGoesDownOrUp, Running, AliveHeld, PoolTypeOK, NodeRows, Objects, Nil, None,
      EntriesReal, HeldAlive, ObjectsMade, HeldAreMade
  <2>8. KilledStop'
    BY <1>4 DEF SlaveGoesDownOrUp, Running, KilledStop, PoolTypeOK, NodeRows, Objects, Nil, None,
      EntriesReal, HeldAlive, ObjectsMade
  <2>9. InitsAlive'
    BY <1>4 DEF SlaveGoesDownOrUp, Running, InitsAlive, PoolTypeOK, NodeRows, Objects, Nil, None,
      InitsOfMade, HeldAlive, EntriesReal
  <2>10. StatusShown'
    BY <1>4 DEF SlaveGoesDownOrUp, Running, StatusShown, PoolTypeOK, NodeRows, Objects, Nil, None,
      EntriesReal, HeldAlive, AliveHeld, KilledStop, ObjectsMade, HeldAreMade
  <2>11. CrashOnlyByOverlap'
    BY <1>4 DEF SlaveGoesDownOrUp, Running, CrashOnlyByOverlap, PoolTypeOK, EntriesReal, InitsAlive,
      Nil
  <2>12. IndexExact'
    BY <1>4 DEF SlaveGoesDownOrUp, Running, IndexExact, PoolTypeOK, NodeRows, Objects, Nil, None,
      EntriesReal, HeldAlive, CrashOnlyByOverlap
  <2> QED BY <2>1, <2>2, <2>3, <2>4, <2>5, <2>6, <2>7, <2>8, <2>9, <2>10, <2>11, <2>12
<1>5. ASSUME NEW r \in requests, Add(r), Held(r.id) \in Objects PROVE PoolIndInv'
  <2>a. /\ UNCHANGED <<dbNode, node, made, active, inactive, featureMap, up, requested, crashed, edited>> /\ rebuilds' = rebuilds + 1
        /\ requests' \subseteq requests /\ overlapped' \in BOOLEAN /\ (~overlapped' => ~overlapped)
    BY <1>5 DEF Add, PoolTypeOK
  <2>b. r.id \in NodeIDs /\ r.enabled \in BOOLEAN /\ r.n \in Nat
    BY DEF PoolTypeOK
  <2>c. /\ reInits' = reInits \cup {[object |-> Held(r.id), enabled |-> r.enabled, at |-> "model", n |-> r.n]}
        /\ Held(r.id) \in Objects /\ (Held(r.id) = active[r.id] \/ Held(r.id) = inactive[r.id])
    BY <1>5 DEF Add, Held
  <2>1. PoolTypeOK'
    BY <2>a, <2>b, <2>c DEF PoolTypeOK, NodeRows, Objects, Nil, None
  <2>2. ObjectsMade'
    BY <2>a, <2>b, <2>c DEF ObjectsMade, PoolTypeOK, NodeRows, Objects, Nil, None
  <2>3. HeldAreMade'
    BY <2>a, <2>b, <2>c DEF HeldAreMade, PoolTypeOK, NodeRows, Objects, Nil, None
  <2>4. InitsOfMade'
    BY <2>a, <2>b, <2>c DEF InitsOfMade, PoolTypeOK, NodeRows, Objects, Nil, None, HeldAreMade
  <2>5. EntriesReal'
    BY <2>a, <2>b, <2>c DEF EntriesReal, PoolTypeOK, NodeRows, Objects, Nil, None, HeldAlive,
      AliveHeld, KilledStop, StatusShown, ObjectsMade, HeldAreMade
  <2>6. HeldAlive'
    BY <2>a, <2>b, <2>c DEF HeldAlive, PoolTypeOK, NodeRows, Objects, Nil, None, EntriesReal,
      HeldAreMade, KilledStop, AliveHeld, ObjectsMade, StatusShown
  <2>7. AliveHeld'
    BY <2>a, <2>b, <2>c DEF AliveHeld, PoolTypeOK, NodeRows, Objects, Nil, None, EntriesReal,
      HeldAlive, ObjectsMade, HeldAreMade
  <2>8. KilledStop'
    BY <2>a, <2>b, <2>c DEF KilledStop, PoolTypeOK, NodeRows, Objects, Nil, None, EntriesReal,
      HeldAlive, ObjectsMade
  <2>9. InitsAlive'
    BY <2>a, <2>b, <2>c DEF InitsAlive, PoolTypeOK, NodeRows, Objects, Nil, None, InitsOfMade,
      HeldAlive, EntriesReal
  <2>10. StatusShown'
    BY <2>a, <2>b, <2>c DEF StatusShown, PoolTypeOK, NodeRows, Objects, Nil, None, EntriesReal,
      HeldAlive, AliveHeld, KilledStop, ObjectsMade, HeldAreMade
  <2>11. CrashOnlyByOverlap'
    BY <2>a, <2>b, <2>c DEF CrashOnlyByOverlap, PoolTypeOK, EntriesReal, InitsAlive, Nil
  <2>12. IndexExact'
    BY <2>a, <2>b, <2>c DEF IndexExact, PoolTypeOK, NodeRows, Objects, Nil, None, EntriesReal,
      HeldAlive, CrashOnlyByOverlap
  <2> QED BY <2>1, <2>2, <2>3, <2>4, <2>5, <2>6, <2>7, <2>8, <2>9, <2>10, <2>11, <2>12
<1>6. ASSUME NEW r \in requests, Add(r), Held(r.id) \notin Objects PROVE PoolIndInv'
  <2>a. /\ UNCHANGED <<dbNode, inactive, featureMap, reInits, up, requested, crashed, edited>> /\ rebuilds' = rebuilds + 1
        /\ requests' \subseteq requests /\ overlapped' \in BOOLEAN /\ (~overlapped' => ~overlapped)
    BY <1>6 DEF Add, add, PoolTypeOK
  <2>b. r.id \in NodeIDs /\ r.enabled \in BOOLEAN /\ made + 1 \in Objects /\ made' = made + 1 /\ made \in Nat
    BY <1>6, PoolAssumption DEF PoolTypeOK, Add, add, Objects
  <2>c. /\ node' \in [Objects -> NodeRows] /\ \A p \in Objects : p # made + 1 => node'[p] = node[p]
        /\ node'[made + 1] = NewSlave(r.id, r.enabled)
        /\ active' \in [NodeIDs -> Objects \cup {Nil, None}] /\ \A id \in NodeIDs : id # r.id => active'[id] = active[id]
        /\ active'[r.id] = made + 1
    <3>1. node' = [node EXCEPT ![made + 1] = NewSlave(r.id, r.enabled)] /\ active' = [active EXCEPT ![r.id] = made + 1]
      BY <1>6 DEF Add, add
    <3>2. NewSlave(r.id, r.enabled) \in NodeRows
      BY <2>b DEF NewSlave, NodeRows
    <3> QED BY <2>b, <3>1, <3>2 DEF PoolTypeOK
  <2>d. ~overlapped => active[r.id] = None /\ inactive[r.id] = None
    BY <1>6, <2>b DEF Held, EntriesReal, PoolTypeOK
  <2>1. PoolTypeOK'
    BY <2>a, <2>b, <2>c, <2>d DEF PoolTypeOK, NodeRows, Objects, Nil, None
  <2>2. ObjectsMade'
    BY <2>a, <2>b, <2>c, <2>d DEF ObjectsMade, PoolTypeOK, NodeRows, Objects, Nil, None, NewSlave
  <2>3. HeldAreMade'
    BY <2>a, <2>b, <2>c, <2>d, SMTT(30) DEF HeldAreMade, PoolTypeOK, NodeRows, Objects, Nil, None
  <2>4. InitsOfMade'
    BY <2>a, <2>b, <2>c, <2>d DEF InitsOfMade, PoolTypeOK, NodeRows, Objects, Nil, None
  <2>5. EntriesReal'
    BY <2>a, <2>b, <2>c, <2>d DEF EntriesReal, PoolTypeOK, NodeRows, Objects, Nil, None, HeldAlive,
      AliveHeld, KilledStop, StatusShown, ObjectsMade, HeldAreMade
  <2>6. HeldAlive'
    BY <2>a, <2>b, <2>c, <2>d DEF HeldAlive, PoolTypeOK, NodeRows, Objects, Nil, None, NewSlave,
      HeldAreMade
  <2>7. AliveHeld'
    BY <2>a, <2>b, <2>c, <2>d DEF AliveHeld, PoolTypeOK, NodeRows, Objects, Nil, None, NewSlave,
      HeldAreMade, ObjectsMade
  <2>8. KilledStop'
    BY <2>a, <2>b, <2>c, <2>d DEF KilledStop, PoolTypeOK, NodeRows, Objects, Nil, None, NewSlave
  <2>9. InitsAlive'
    BY <2>a, <2>b, <2>c, <2>d DEF InitsAlive, PoolTypeOK, NodeRows, Objects, Nil, None, NewSlave,
      InitsOfMade
  <2>10. StatusShown'
    BY <2>a, <2>b, <2>c, <2>d DEF StatusShown, PoolTypeOK, NodeRows, Objects, Nil, None, NewSlave,
      HeldAreMade
  <2>11. CrashOnlyByOverlap'
    BY <2>a, <2>b, <2>c, <2>d DEF CrashOnlyByOverlap, PoolTypeOK, EntriesReal, InitsAlive, Nil
  <2>12. IndexExact'
    BY <2>a, <2>b, <2>c, <2>d DEF IndexExact, PoolTypeOK, NodeRows, Objects, Nil, None, EntriesReal,
      HeldAlive, CrashOnlyByOverlap
  <2> QED BY <2>1, <2>2, <2>3, <2>4, <2>5, <2>6, <2>7, <2>8, <2>9, <2>10, <2>11, <2>12
<1>7. ASSUME NEW r \in requests, Delete(r), Held(r.id) \notin Objects PROVE PoolIndInv'
  <2>a. /\ UNCHANGED <<node, made, active, inactive, featureMap, reInits, up, requested, edited>> /\ rebuilds' = rebuilds + 1
        /\ requests' \subseteq requests /\ overlapped' \in BOOLEAN /\ (~overlapped' => ~overlapped) /\ crashed' \in BOOLEAN
        /\ dbNode' \in [NodeIDs -> [status : {"active", "suspend", "deleted"}, enabled : BOOLEAN]]
    BY <1>7, ZenonT(60) DEF Delete, Held, PoolTypeOK
  <2>b. /\ ~overlapped => crashed' = crashed
        /\ crashed' # crashed => overlapped'
    BY <1>7 DEF Delete, Held, EntriesReal, PoolTypeOK
  <2>1. PoolTypeOK'
    BY <2>a, <2>b DEF PoolTypeOK, NodeRows, Objects, Nil, None
  <2>2. ObjectsMade'
    BY <2>a, <2>b DEF ObjectsMade, PoolTypeOK, NodeRows, Objects, Nil, None
  <2>3. HeldAreMade'
    BY <2>a, <2>b DEF HeldAreMade, PoolTypeOK, NodeRows, Objects, Nil, None
  <2>4. InitsOfMade'
    BY <2>a, <2>b DEF InitsOfMade, PoolTypeOK, NodeRows, Objects, Nil, None
  <2>5. EntriesReal'
    BY <2>a, <2>b DEF EntriesReal, PoolTypeOK, NodeRows, Objects, Nil, None, HeldAlive, AliveHeld,
      KilledStop, StatusShown, ObjectsMade, HeldAreMade
  <2>6. HeldAlive'
    BY <2>a, <2>b DEF HeldAlive, PoolTypeOK, NodeRows, Objects, Nil, None, EntriesReal, HeldAreMade,
      KilledStop, AliveHeld, ObjectsMade, StatusShown
  <2>7. AliveHeld'
    BY <2>a, <2>b DEF AliveHeld, PoolTypeOK, NodeRows, Objects, Nil, None, EntriesReal, HeldAlive,
      ObjectsMade, HeldAreMade
  <2>8. KilledStop'
    BY <2>a, <2>b DEF KilledStop, PoolTypeOK, NodeRows, Objects, Nil, None, EntriesReal, HeldAlive,
      ObjectsMade
  <2>9. InitsAlive'
    BY <2>a, <2>b DEF InitsAlive, PoolTypeOK, NodeRows, Objects, Nil, None, InitsOfMade, HeldAlive,
      EntriesReal
  <2>10. StatusShown'
    BY <2>a, <2>b DEF StatusShown, PoolTypeOK, NodeRows, Objects, Nil, None, EntriesReal, HeldAlive,
      AliveHeld, KilledStop, ObjectsMade, HeldAreMade
  <2>11. CrashOnlyByOverlap'
    BY <2>a, <2>b DEF CrashOnlyByOverlap, PoolTypeOK
  <2>12. IndexExact'
    BY <2>a, <2>b DEF IndexExact, PoolTypeOK, NodeRows, Objects, Nil, None, EntriesReal, HeldAlive,
      CrashOnlyByOverlap
  <2> QED BY <2>1, <2>2, <2>3, <2>4, <2>5, <2>6, <2>7, <2>8, <2>9, <2>10, <2>11, <2>12
<1>8. ASSUME NEW r \in requests, Delete(r), Held(r.id) \in Objects PROVE PoolIndInv'
  <2> DEFINE o == Held(r.id)
  <2>0. /\ Kill(Held(r.id)) /\ UNCHANGED crashed
        /\ IF active[r.id] # None
           THEN active' = [active EXCEPT ![r.id] = None] /\ UNCHANGED inactive
           ELSE inactive' = [inactive EXCEPT ![r.id] = None] /\ UNCHANGED active
    <3>1. Held(r.id) # Nil /\ Held(r.id) # None
      BY <1>8 DEF Objects, Nil, None
    <3> QED BY <1>8, <3>1 DEF Delete
  <2>a. /\ UNCHANGED <<made, featureMap, reInits, up, requested, edited, crashed>> /\ rebuilds' = rebuilds + 1
        /\ requests' \subseteq requests /\ overlapped' \in BOOLEAN /\ (~overlapped' => ~overlapped /\ ~InFlight(r.id))
        /\ dbNode' \in [NodeIDs -> [status : {"active", "suspend", "deleted"}, enabled : BOOLEAN]]
    <3>1. dbNode' = IF r.op = "forget" THEN [dbNode EXCEPT ![r.id].status = "deleted"] ELSE dbNode
      BY <1>8 DEF Delete
    <3>2. dbNode' \in [NodeIDs -> [status : {"active", "suspend", "deleted"}, enabled : BOOLEAN]]
      BY <3>1 DEF PoolTypeOK
    <3>3. overlapped' = (overlapped \/ InFlight(r.id))
      BY <1>8 DEF Delete
    <3> QED BY <1>8, <2>0, <3>2, <3>3 DEF Delete, PoolTypeOK
  <2>b. r.id \in NodeIDs /\ o \in Objects
    BY <1>8 DEF PoolTypeOK
  <2>c. /\ node' \in [Objects -> NodeRows] /\ \A p \in Objects : p # o => node'[p] = node[p]
        /\ node'[o].id = node[o].id /\ node'[o].at = node[o].at /\ node'[o].status = node[o].status
        /\ node'[o].enabled = node[o].enabled /\ node'[o].closed
    BY <2>0, <2>b, ZenonT(60) DEF Kill, PoolTypeOK, NodeRows
  <2>d. /\ active' \in [NodeIDs -> Objects \cup {Nil, None}] /\ inactive' \in [NodeIDs -> Objects \cup {Nil, None}]
        /\ \A id \in NodeIDs : id # r.id => active'[id] = active[id] /\ inactive'[id] = inactive[id]
        /\ IF active[r.id] # None THEN active[r.id] = o /\ active'[r.id] = None /\ inactive'[r.id] = inactive[r.id]
                                  ELSE inactive[r.id] = o /\ active'[r.id] = None /\ inactive'[r.id] = None
    BY <2>0, <2>b DEF PoolTypeOK, Held
  <2>e. ~overlapped => node[o].id = r.id /\ active'[r.id] = None /\ inactive'[r.id] = None
    BY <2>b, <2>d DEF HeldAlive, EntriesReal
  <2> HIDE DEF o
  <2>1. PoolTypeOK'
    BY <2>a, <2>b, <2>c, <2>d, <2>e DEF PoolTypeOK, NodeRows, Objects, Nil, None
  <2>2. ObjectsMade'
    BY <2>a, <2>b, <2>c, <2>d, <2>e DEF ObjectsMade, PoolTypeOK, NodeRows, Objects, Nil, None,
      HeldAreMade
  <2>3. HeldAreMade'
    BY <2>a, <2>b, <2>c, <2>d, <2>e, SMTT(30) DEF HeldAreMade, PoolTypeOK, NodeRows, Objects, Nil, None
  <2>4. InitsOfMade'
    BY <2>a, <2>b, <2>c, <2>d, <2>e DEF InitsOfMade, PoolTypeOK, NodeRows, Objects, Nil, None
  <2>5. EntriesReal'
    BY <2>a, <2>b, <2>c, <2>d, <2>e DEF EntriesReal, PoolTypeOK, NodeRows, Objects, Nil, None,
      HeldAlive, AliveHeld, KilledStop, StatusShown, ObjectsMade, HeldAreMade
  <2>6. HeldAlive'
    BY <2>a, <2>b, <2>c, <2>d, <2>e DEF HeldAlive, PoolTypeOK, NodeRows, Objects, Nil, None,
      EntriesReal, HeldAreMade, KilledStop, AliveHeld, ObjectsMade, StatusShown
  <2>7. AliveHeld'
    BY <2>a, <2>b, <2>c, <2>d, <2>e DEF AliveHeld, PoolTypeOK, NodeRows, Objects, Nil, None,
      EntriesReal, HeldAlive, ObjectsMade, HeldAreMade
  <2>8. KilledStop'
    BY <2>a, <2>b, <2>c, <2>d, <2>e DEF KilledStop, PoolTypeOK, NodeRows, Objects, Nil, None,
      InFlight, ObjectsMade, HeldAreMade
  <2>9. InitsAlive'
    <3>1. ASSUME ~overlapped', NEW i \in reInits PROVE ~node'[i.object].closed
      <4>1. i.object \in Objects /\ ~node[i.object].closed /\ node[i.object].id # r.id
        BY <2>a, <3>1 DEF InitsAlive, PoolTypeOK, InFlight
      <4>2. i.object # o
        BY <2>a, <2>e, <3>1, <4>1
      <4> QED BY <2>c, <4>1, <4>2
    <3> QED BY <2>a, <3>1 DEF InitsAlive
  <2>10. StatusShown'
    <3>1. ASSUME ~overlapped', NEW id \in NodeIDs, NEW x \in Objects, active'[id] = x \/ inactive'[id] = x
          PROVE  id # r.id /\ x # o
      BY <2>a, <2>b, <2>d, <2>e, <3>1 DEF HeldAlive, Objects, None
    <3> QED BY <2>a, <2>c, <2>d, <3>1 DEF StatusShown
  <2>11. CrashOnlyByOverlap'
    BY <2>a, <2>b, <2>c, <2>d, <2>e DEF CrashOnlyByOverlap, PoolTypeOK, EntriesReal, InitsAlive, Nil
  <2>12. IndexExact'
    BY <2>a, <2>b, <2>c, <2>d, <2>e DEF IndexExact, PoolTypeOK, NodeRows, Objects, Nil, None,
      EntriesReal, HeldAlive, CrashOnlyByOverlap
  <2> QED BY <2>1, <2>2, <2>3, <2>4, <2>5, <2>6, <2>7, <2>8, <2>9, <2>10, <2>11, <2>12
<1>9. ASSUME NEW r \in reInits, ReInitModel(r) PROVE PoolIndInv'
  <2>1. PoolTypeOK'
    BY <1>9, ZenonT(60) DEF ReInitModel, PoolTypeOK, NodeRows, Objects, Nil, None
  <2>2. ObjectsMade'
    BY <1>9 DEF ReInitModel, ObjectsMade, PoolTypeOK, NodeRows, Objects, Nil, None
  <2>3. HeldAreMade'
    BY <1>9 DEF ReInitModel, HeldAreMade, PoolTypeOK, NodeRows, Objects, Nil, None
  <2>4. InitsOfMade'
    BY <1>9 DEF ReInitModel, InitsOfMade, PoolTypeOK, NodeRows, Objects, Nil, None
  <2>5. EntriesReal'
    BY <1>9 DEF ReInitModel, EntriesReal, PoolTypeOK, NodeRows, Objects, Nil, None, HeldAlive,
      AliveHeld, KilledStop, StatusShown, ObjectsMade, HeldAreMade
  <2>6. HeldAlive'
    BY <1>9 DEF ReInitModel, HeldAlive, PoolTypeOK, NodeRows, Objects, Nil, None, EntriesReal,
      HeldAreMade, KilledStop, AliveHeld, ObjectsMade, StatusShown
  <2>7. AliveHeld'
    BY <1>9 DEF ReInitModel, AliveHeld, PoolTypeOK, NodeRows, Objects, Nil, None, EntriesReal,
      HeldAlive, ObjectsMade, HeldAreMade
  <2>8. KilledStop'
    BY <1>9 DEF ReInitModel, KilledStop, PoolTypeOK, NodeRows, Objects, Nil, None, EntriesReal,
      HeldAlive, ObjectsMade
  <2>9. InitsAlive'
    BY <1>9 DEF ReInitModel, InitsAlive, PoolTypeOK, NodeRows, Objects, Nil, None, InitsOfMade,
      HeldAlive, EntriesReal
  <2>10. StatusShown'
    BY <1>9 DEF ReInitModel, StatusShown, PoolTypeOK, NodeRows, Objects, Nil, None, EntriesReal,
      HeldAlive, AliveHeld, KilledStop, ObjectsMade, HeldAreMade
  <2>11. CrashOnlyByOverlap'
    BY <1>9 DEF ReInitModel, CrashOnlyByOverlap, PoolTypeOK, EntriesReal, InitsAlive, Nil
  <2>12. IndexExact'
    BY <1>9 DEF ReInitModel, IndexExact, PoolTypeOK, NodeRows, Objects, Nil, None, EntriesReal,
      HeldAlive, CrashOnlyByOverlap
  <2> QED BY <2>1, <2>2, <2>3, <2>4, <2>5, <2>6, <2>7, <2>8, <2>9, <2>10, <2>11, <2>12
<1>10. ASSUME NEW r \in reInits, ReInitSignal(r) PROVE PoolIndInv'
  <2>a. /\ UNCHANGED <<dbNode, made, active, inactive, featureMap, rebuilds, requests, up, requested, overlapped, edited>>
        /\ reInits' \subseteq reInits /\ crashed' \in BOOLEAN
    BY <1>10 DEF ReInitSignal, PoolTypeOK
  <2>b. /\ node' \in [Objects -> NodeRows] /\ (~overlapped => crashed' = crashed)
        /\ \A p \in Objects : /\ node'[p].id = node[p].id /\ node'[p].at = node[p].at /\ node'[p].status = node[p].status
                              /\ node'[p].enabled = node[p].enabled /\ node'[p].closed = node[p].closed
    <3>1. CASE node[r.object].closed
      BY <1>10, <3>1 DEF ReInitSignal, PoolTypeOK, NodeRows, InitsAlive
    <3>2. CASE ~node[r.object].closed
      <4>1. node' = [node EXCEPT ![r.object].retry = 0] /\ UNCHANGED crashed /\ r.object \in Objects
        BY <1>10, <3>2 DEF ReInitSignal, PoolTypeOK
      <4>2. node' \in [Objects -> NodeRows]
        BY <4>1 DEF PoolTypeOK, NodeRows
      <4> QED BY <4>1, <4>2 DEF PoolTypeOK, NodeRows
    <3> QED BY <3>1, <3>2
  <2>1. PoolTypeOK'
    BY <2>a, <2>b DEF PoolTypeOK, NodeRows, Objects, Nil, None
  <2>2. ObjectsMade'
    BY <2>a, <2>b DEF ObjectsMade, PoolTypeOK, NodeRows, Objects, Nil, None
  <2>3. HeldAreMade'
    BY <2>a, <2>b DEF HeldAreMade, PoolTypeOK, NodeRows, Objects, Nil, None
  <2>4. InitsOfMade'
    BY <2>a, <2>b DEF InitsOfMade, PoolTypeOK, NodeRows, Objects, Nil, None
  <2>5. EntriesReal'
    BY <2>a, <2>b DEF EntriesReal, PoolTypeOK, NodeRows, Objects, Nil, None, HeldAlive, AliveHeld,
      KilledStop, StatusShown, ObjectsMade, HeldAreMade
  <2>6. HeldAlive'
    BY <2>a, <2>b DEF HeldAlive, PoolTypeOK, NodeRows, Objects, Nil, None, EntriesReal, HeldAreMade,
      KilledStop, AliveHeld, ObjectsMade, StatusShown
  <2>7. AliveHeld'
    BY <2>a, <2>b DEF AliveHeld, PoolTypeOK, NodeRows, Objects, Nil, None, EntriesReal, HeldAlive,
      ObjectsMade, HeldAreMade
  <2>8. KilledStop'
    BY <2>a, <2>b DEF KilledStop, PoolTypeOK, NodeRows, Objects, Nil, None, EntriesReal, HeldAlive,
      ObjectsMade
  <2>9. InitsAlive'
    BY <2>a, <2>b DEF InitsAlive, PoolTypeOK, NodeRows, Objects, Nil, None, InitsOfMade, HeldAlive,
      EntriesReal
  <2>10. StatusShown'
    BY <2>a, <2>b DEF StatusShown, PoolTypeOK, NodeRows, Objects, Nil, None, EntriesReal, HeldAlive,
      AliveHeld, KilledStop, ObjectsMade, HeldAreMade
  <2>11. CrashOnlyByOverlap'
    BY <2>a, <2>b DEF CrashOnlyByOverlap, PoolTypeOK, EntriesReal, InitsAlive, Nil
  <2>12. IndexExact'
    BY <2>a, <2>b DEF IndexExact, PoolTypeOK, NodeRows, Objects, Nil, None, EntriesReal, HeldAlive,
      CrashOnlyByOverlap
  <2> QED BY <2>1, <2>2, <2>3, <2>4, <2>5, <2>6, <2>7, <2>8, <2>9, <2>10, <2>11, <2>12
<1>11. ASSUME buildIndexMap PROVE PoolIndInv'
  <2>1. PoolTypeOK'
    <3>1. crashed' \in BOOLEAN /\ rebuilds' \in Nat
      <4>1. rebuilds' \in Nat
        BY <1>11 DEF buildIndexMap, PoolTypeOK
      <4>2. crashed' = TRUE \/ crashed' = crashed
        BY <1>11 DEF buildIndexMap
      <4> QED BY <4>1, <4>2 DEF PoolTypeOK
    <3> QED BY <1>11, <3>1 DEF buildIndexMap, PoolTypeOK
  <2>2. ObjectsMade'
    BY <1>11 DEF buildIndexMap, ObjectsMade, PoolTypeOK, NodeRows, Objects, Nil, None
  <2>3. HeldAreMade'
    BY <1>11 DEF buildIndexMap, HeldAreMade, PoolTypeOK, NodeRows, Objects, Nil, None
  <2>4. InitsOfMade'
    BY <1>11 DEF buildIndexMap, InitsOfMade, PoolTypeOK, NodeRows, Objects, Nil, None
  <2>5. EntriesReal'
    BY <1>11 DEF buildIndexMap, EntriesReal, PoolTypeOK, NodeRows, Objects, Nil, None, HeldAlive,
      AliveHeld, KilledStop, StatusShown, ObjectsMade, HeldAreMade
  <2>6. HeldAlive'
    BY <1>11 DEF buildIndexMap, HeldAlive, PoolTypeOK, NodeRows, Objects, Nil, None, EntriesReal,
      HeldAreMade, KilledStop, AliveHeld, ObjectsMade, StatusShown
  <2>7. AliveHeld'
    BY <1>11 DEF buildIndexMap, AliveHeld, PoolTypeOK, NodeRows, Objects, Nil, None, EntriesReal,
      HeldAlive, ObjectsMade, HeldAreMade
  <2>8. KilledStop'
    BY <1>11 DEF buildIndexMap, KilledStop, PoolTypeOK, NodeRows, Objects, Nil, None, EntriesReal,
      HeldAlive, ObjectsMade
  <2>9. InitsAlive'
    BY <1>11 DEF buildIndexMap, InitsAlive, PoolTypeOK, NodeRows, Objects, Nil, None, InitsOfMade,
      HeldAlive, EntriesReal
  <2>10. StatusShown'
    BY <1>11 DEF buildIndexMap, StatusShown, PoolTypeOK, NodeRows, Objects, Nil, None, EntriesReal,
      HeldAlive, AliveHeld, KilledStop, ObjectsMade, HeldAreMade
  <2>11. CrashOnlyByOverlap'
    BY <1>11 DEF buildIndexMap, CrashOnlyByOverlap, PoolTypeOK, EntriesReal, InitsAlive, Nil
  <2>12. IndexExact'
    BY <1>11 DEF buildIndexMap, IndexExact, PoolTypeOK, NodeRows, Objects, Nil, None, EntriesReal,
      HeldAlive, CrashOnlyByOverlap
  <2> QED BY <2>1, <2>2, <2>3, <2>4, <2>5, <2>6, <2>7, <2>8, <2>9, <2>10, <2>11, <2>12
<1>12. ASSUME NEW o \in Objects, SendPing(o) PROVE PoolIndInv'
  <2>1. PoolTypeOK'
    <3>1. /\ node' = [node EXCEPT ![o] = [node[o] EXCEPT !.at = "pinging"]] /\ overlapped' \in BOOLEAN
          /\ UNCHANGED <<dbNode, made, active, inactive, featureMap, rebuilds, reInits, requests, up, outages,
                         requested, crashed, edited>>
      BY <1>12 DEF SendPing, PoolTypeOK
    <3>2. [node[o] EXCEPT !.at = "pinging"] \in NodeRows
      BY DEF PoolTypeOK, NodeRows
    <3>3. node' \in [Objects -> NodeRows]
      BY <3>1, <3>2 DEF PoolTypeOK
    <3> QED BY <3>1, <3>3 DEF PoolTypeOK
  <2>2. ObjectsMade'
    BY <1>12 DEF SendPing, ObjectsMade, PoolTypeOK, NodeRows, Objects, Nil, None
  <2>3. HeldAreMade'
    BY <1>12 DEF SendPing, HeldAreMade, PoolTypeOK, NodeRows, Objects, Nil, None
  <2>4. InitsOfMade'
    BY <1>12 DEF SendPing, InitsOfMade, PoolTypeOK, NodeRows, Objects, Nil, None
  <2>5. EntriesReal'
    BY <1>12 DEF SendPing, EntriesReal, PoolTypeOK, NodeRows, Objects, Nil, None, HeldAlive,
      AliveHeld, KilledStop, StatusShown, ObjectsMade, HeldAreMade
  <2>6. HeldAlive'
    BY <1>12 DEF SendPing, HeldAlive, PoolTypeOK, NodeRows, Objects, Nil, None, EntriesReal,
      HeldAreMade, KilledStop, AliveHeld, ObjectsMade, StatusShown
  <2>7. AliveHeld'
    BY <1>12 DEF SendPing, AliveHeld, PoolTypeOK, NodeRows, Objects, Nil, None, EntriesReal,
      HeldAlive, ObjectsMade, HeldAreMade
  <2>8. KilledStop'
    BY <1>12 DEF SendPing, KilledStop, PoolTypeOK, NodeRows, Objects, Nil, None, EntriesReal,
      HeldAlive, ObjectsMade
  <2>9. InitsAlive'
    BY <1>12 DEF SendPing, InitsAlive, PoolTypeOK, NodeRows, Objects, Nil, None, InitsOfMade,
      HeldAlive, EntriesReal
  <2>10. StatusShown'
    BY <1>12 DEF SendPing, StatusShown, PoolTypeOK, NodeRows, Objects, Nil, None, EntriesReal,
      HeldAlive, AliveHeld, KilledStop, ObjectsMade, HeldAreMade
  <2>11. CrashOnlyByOverlap'
    BY <1>12 DEF SendPing, CrashOnlyByOverlap, PoolTypeOK, EntriesReal, InitsAlive, Nil
  <2>12. IndexExact'
    BY <1>12 DEF SendPing, IndexExact, PoolTypeOK, NodeRows, Objects, Nil, None, EntriesReal,
      HeldAlive, CrashOnlyByOverlap
  <2> QED BY <2>1, <2>2, <2>3, <2>4, <2>5, <2>6, <2>7, <2>8, <2>9, <2>10, <2>11, <2>12
<1>13. ASSUME NEW o \in Objects, LoopEnds(o) PROVE PoolIndInv'
  <2>1. PoolTypeOK'
    BY <1>13, SMTT(30) DEF LoopEnds, PoolTypeOK, NodeRows, Objects, Nil, None
  <2>2. ObjectsMade'
    BY <1>13 DEF LoopEnds, ObjectsMade, PoolTypeOK, NodeRows, Objects, Nil, None
  <2>3. HeldAreMade'
    BY <1>13 DEF LoopEnds, HeldAreMade, PoolTypeOK, NodeRows, Objects, Nil, None
  <2>4. InitsOfMade'
    BY <1>13 DEF LoopEnds, InitsOfMade, PoolTypeOK, NodeRows, Objects, Nil, None
  <2>5. EntriesReal'
    BY <1>13 DEF LoopEnds, EntriesReal, PoolTypeOK, NodeRows, Objects, Nil, None, HeldAlive,
      AliveHeld, KilledStop, StatusShown, ObjectsMade, HeldAreMade
  <2>6. HeldAlive'
    BY <1>13 DEF LoopEnds, HeldAlive, PoolTypeOK, NodeRows, Objects, Nil, None, EntriesReal,
      HeldAreMade, KilledStop, AliveHeld, ObjectsMade, StatusShown
  <2>7. AliveHeld'
    BY <1>13 DEF LoopEnds, AliveHeld, PoolTypeOK, NodeRows, Objects, Nil, None, EntriesReal,
      HeldAlive, ObjectsMade, HeldAreMade
  <2>8. KilledStop'
    BY <1>13 DEF LoopEnds, KilledStop, PoolTypeOK, NodeRows, Objects, Nil, None, EntriesReal,
      HeldAlive, ObjectsMade
  <2>9. InitsAlive'
    BY <1>13 DEF LoopEnds, InitsAlive, PoolTypeOK, NodeRows, Objects, Nil, None, InitsOfMade,
      HeldAlive, EntriesReal
  <2>10. StatusShown'
    BY <1>13 DEF LoopEnds, StatusShown, PoolTypeOK, NodeRows, Objects, Nil, None, EntriesReal,
      HeldAlive, AliveHeld, KilledStop, ObjectsMade, HeldAreMade
  <2>11. CrashOnlyByOverlap'
    BY <1>13 DEF LoopEnds, CrashOnlyByOverlap, PoolTypeOK, EntriesReal, InitsAlive, Nil
  <2>12. IndexExact'
    BY <1>13 DEF LoopEnds, IndexExact, PoolTypeOK, NodeRows, Objects, Nil, None, EntriesReal,
      HeldAlive, CrashOnlyByOverlap
  <2> QED BY <2>1, <2>2, <2>3, <2>4, <2>5, <2>6, <2>7, <2>8, <2>9, <2>10, <2>11, <2>12
<1>14. ASSUME NEW o \in Objects, PingFails(o) PROVE PoolIndInv'
  <2>a. UNCHANGED <<dbNode, made, active, inactive, featureMap, rebuilds, reInits, requests, up, requested, crashed, overlapped, edited>> /\ ~crashed
    BY <1>14 DEF PingFails, changeStatus, Smaller, Running
  <2>n. \E status \in BOOLEAN, retry \in Nat : node' = [node EXCEPT ![o] = [@ EXCEPT !.status = status, !.retry = retry, !.at = IF node[o].status # status THEN "reporting" ELSE "waiting"]]
    <3> DEFINE retry == Smaller(node[o].retry + 1, Retry)
    <3>1. retry \in Nat
      BY PoolAssumption DEF Smaller, PoolTypeOK, NodeRows
    <3>2. CASE retry >= Retry
      <4>1. node' = [node EXCEPT ![o] = [@ EXCEPT !.status = FALSE, !.retry = retry, !.at = IF node[o].status # FALSE THEN "reporting" ELSE "waiting"]]
        BY <1>14, <3>2 DEF PingFails, changeStatus, PoolTypeOK, NodeRows
      <4> QED BY <3>1, <4>1
    <3>3. CASE ~(retry >= Retry)
      <4>1. node' = [node EXCEPT ![o] = [@ EXCEPT !.status = node[o].status, !.retry = retry, !.at = IF node[o].status # node[o].status THEN "reporting" ELSE "waiting"]]
        BY <1>14, <3>3 DEF PingFails, PoolTypeOK, NodeRows
      <4>2. node[o].status \in BOOLEAN
        BY DEF PoolTypeOK, NodeRows
      <4> QED BY <3>1, <4>1, <4>2
    <3> QED BY <3>2, <3>3
  <2>b. /\ node' \in [Objects -> NodeRows]
        /\ \A p \in Objects : p # o => node'[p] = node[p]
    <3>1. PICK status \in BOOLEAN, retry \in Nat : node' = [node EXCEPT ![o] = [@ EXCEPT !.status = status, !.retry = retry, !.at = IF node[o].status # status THEN "reporting" ELSE "waiting"]]
      BY <2>n
    <3> DEFINE row == [node[o] EXCEPT !.status = status, !.retry = retry, !.at = IF node[o].status # status THEN "reporting" ELSE "waiting"]
    <3>2. row \in NodeRows
      <4>1. ASSUME NEW at \in {"reporting", "waiting"} PROVE [node[o] EXCEPT !.status = status, !.retry = retry, !.at = at] \in NodeRows
        <5>1. node[o] \in NodeRows
          BY DEF PoolTypeOK
        <5>2. CASE status = TRUE
          BY <5>1, <5>2 DEF NodeRows
        <5>3. CASE status = FALSE
          BY <5>1, <5>3 DEF NodeRows
        <5> QED BY <5>2, <5>3
      <4>2. (IF node[o].status # status THEN "reporting" ELSE "waiting") \in {"reporting", "waiting"}
        OBVIOUS
      <4> QED BY <4>1, <4>2
    <3>3. node' = [node EXCEPT ![o] = row]
      BY <3>1 DEF PoolTypeOK
    <3> QED BY <3>2, <3>3 DEF PoolTypeOK
  <2>c. /\ node'[o].id = node[o].id /\ node'[o].closed = node[o].closed /\ node'[o].enabled = node[o].enabled
        /\ node[o].at = "pinging"
        /\ node'[o].at = IF node'[o].status # node[o].status THEN "reporting" ELSE "waiting"
    BY <1>14, <2>n DEF PingFails, PoolTypeOK, NodeRows
  <2>1. PoolTypeOK'
    BY <2>a, <2>b, <2>c DEF PoolTypeOK, NodeRows, Objects, Nil, None
  <2>2. ObjectsMade'
    BY <2>a, <2>b, <2>c DEF ObjectsMade, PoolTypeOK, NodeRows, Objects, Nil, None
  <2>3. HeldAreMade'
    BY <2>a, <2>b, <2>c DEF HeldAreMade, PoolTypeOK, NodeRows, Objects, Nil, None
  <2>4. InitsOfMade'
    BY <2>a, <2>b, <2>c DEF InitsOfMade, PoolTypeOK, NodeRows, Objects, Nil, None
  <2>5. EntriesReal'
    BY <2>a, <2>b, <2>c DEF EntriesReal, PoolTypeOK, NodeRows, Objects, Nil, None, HeldAlive,
      AliveHeld, KilledStop, StatusShown, ObjectsMade, HeldAreMade
  <2>6. HeldAlive'
    BY <2>a, <2>b, <2>c DEF HeldAlive, PoolTypeOK, NodeRows, Objects, Nil, None, EntriesReal,
      HeldAreMade, KilledStop, AliveHeld, ObjectsMade, StatusShown
  <2>7. AliveHeld'
    BY <2>a, <2>b, <2>c DEF AliveHeld, PoolTypeOK, NodeRows, Objects, Nil, None, EntriesReal,
      HeldAlive, ObjectsMade, HeldAreMade
  <2>8. KilledStop'
    BY <2>a, <2>b, <2>c DEF KilledStop, PoolTypeOK, NodeRows, Objects, Nil, None, EntriesReal,
      HeldAlive, ObjectsMade
  <2>9. InitsAlive'
    BY <2>a, <2>b, <2>c DEF InitsAlive, PoolTypeOK, NodeRows, Objects, Nil, None, InitsOfMade,
      HeldAlive, EntriesReal
  <2>10. StatusShown'
    BY <2>a, <2>b, <2>c DEF StatusShown, PoolTypeOK, NodeRows, Objects, Nil, None, EntriesReal,
      HeldAlive, AliveHeld, KilledStop, ObjectsMade, HeldAreMade
  <2>11. CrashOnlyByOverlap'
    BY <2>a, <2>b, <2>c DEF CrashOnlyByOverlap, PoolTypeOK, EntriesReal, InitsAlive, Nil
  <2>12. IndexExact'
    BY <2>a, <2>b, <2>c DEF IndexExact, PoolTypeOK, NodeRows, Objects, Nil, None, EntriesReal,
      HeldAlive, CrashOnlyByOverlap
  <2> QED BY <2>1, <2>2, <2>3, <2>4, <2>5, <2>6, <2>7, <2>8, <2>9, <2>10, <2>11, <2>12
<1>15. ASSUME NEW o \in Objects, PingAnswered(o) PROVE PoolIndInv'
  <2>a. UNCHANGED <<dbNode, made, active, inactive, featureMap, rebuilds, reInits, requests, up, requested, crashed, overlapped, edited>> /\ ~crashed
    BY <1>15 DEF PingAnswered, changeStatus, Running
  <2>n. \E status \in BOOLEAN, retry \in Nat : node' = [node EXCEPT ![o] = [@ EXCEPT !.status = status, !.retry = retry, !.at = IF node[o].status # status THEN "reporting" ELSE "waiting"]]
      <3>1. node' = [node EXCEPT ![o] = [@ EXCEPT !.status = TRUE, !.retry = 0, !.at = IF node[o].status # TRUE THEN "reporting" ELSE "waiting"]]
        BY <1>15 DEF PingAnswered, changeStatus, PoolTypeOK, NodeRows
      <3> QED BY <3>1
  <2>b. /\ node' \in [Objects -> NodeRows]
        /\ \A p \in Objects : p # o => node'[p] = node[p]
    <3>1. PICK status \in BOOLEAN, retry \in Nat : node' = [node EXCEPT ![o] = [@ EXCEPT !.status = status, !.retry = retry, !.at = IF node[o].status # status THEN "reporting" ELSE "waiting"]]
      BY <2>n
    <3> DEFINE row == [node[o] EXCEPT !.status = status, !.retry = retry, !.at = IF node[o].status # status THEN "reporting" ELSE "waiting"]
    <3>2. row \in NodeRows
      <4>1. ASSUME NEW at \in {"reporting", "waiting"} PROVE [node[o] EXCEPT !.status = status, !.retry = retry, !.at = at] \in NodeRows
        <5>1. node[o] \in NodeRows
          BY DEF PoolTypeOK
        <5>2. CASE status = TRUE
          BY <5>1, <5>2 DEF NodeRows
        <5>3. CASE status = FALSE
          BY <5>1, <5>3 DEF NodeRows
        <5> QED BY <5>2, <5>3
      <4>2. (IF node[o].status # status THEN "reporting" ELSE "waiting") \in {"reporting", "waiting"}
        OBVIOUS
      <4> QED BY <4>1, <4>2
    <3>3. node' = [node EXCEPT ![o] = row]
      BY <3>1 DEF PoolTypeOK
    <3> QED BY <3>2, <3>3 DEF PoolTypeOK
  <2>c. /\ node'[o].id = node[o].id /\ node'[o].closed = node[o].closed /\ node'[o].enabled = node[o].enabled
        /\ node[o].at = "pinging"
        /\ node'[o].at = IF node'[o].status # node[o].status THEN "reporting" ELSE "waiting"
    BY <1>15, <2>n DEF PingAnswered, PoolTypeOK, NodeRows
  <2>1. PoolTypeOK'
    BY <2>a, <2>b, <2>c DEF PoolTypeOK, NodeRows, Objects, Nil, None
  <2>2. ObjectsMade'
    BY <2>a, <2>b, <2>c DEF ObjectsMade, PoolTypeOK, NodeRows, Objects, Nil, None
  <2>3. HeldAreMade'
    BY <2>a, <2>b, <2>c DEF HeldAreMade, PoolTypeOK, NodeRows, Objects, Nil, None
  <2>4. InitsOfMade'
    BY <2>a, <2>b, <2>c DEF InitsOfMade, PoolTypeOK, NodeRows, Objects, Nil, None
  <2>5. EntriesReal'
    BY <2>a, <2>b, <2>c DEF EntriesReal, PoolTypeOK, NodeRows, Objects, Nil, None, HeldAlive,
      AliveHeld, KilledStop, StatusShown, ObjectsMade, HeldAreMade
  <2>6. HeldAlive'
    BY <2>a, <2>b, <2>c DEF HeldAlive, PoolTypeOK, NodeRows, Objects, Nil, None, EntriesReal,
      HeldAreMade, KilledStop, AliveHeld, ObjectsMade, StatusShown
  <2>7. AliveHeld'
    BY <2>a, <2>b, <2>c DEF AliveHeld, PoolTypeOK, NodeRows, Objects, Nil, None, EntriesReal,
      HeldAlive, ObjectsMade, HeldAreMade
  <2>8. KilledStop'
    BY <2>a, <2>b, <2>c DEF KilledStop, PoolTypeOK, NodeRows, Objects, Nil, None, EntriesReal,
      HeldAlive, ObjectsMade
  <2>9. InitsAlive'
    BY <2>a, <2>b, <2>c DEF InitsAlive, PoolTypeOK, NodeRows, Objects, Nil, None, InitsOfMade,
      HeldAlive, EntriesReal
  <2>10. StatusShown'
    BY <2>a, <2>b, <2>c DEF StatusShown, PoolTypeOK, NodeRows, Objects, Nil, None, EntriesReal,
      HeldAlive, AliveHeld, KilledStop, ObjectsMade, HeldAreMade
  <2>11. CrashOnlyByOverlap'
    BY <2>a, <2>b, <2>c DEF CrashOnlyByOverlap, PoolTypeOK, EntriesReal, InitsAlive, Nil
  <2>12. IndexExact'
    BY <2>a, <2>b, <2>c DEF IndexExact, PoolTypeOK, NodeRows, Objects, Nil, None, EntriesReal,
      HeldAlive, CrashOnlyByOverlap
  <2> QED BY <2>1, <2>2, <2>3, <2>4, <2>5, <2>6, <2>7, <2>8, <2>9, <2>10, <2>11, <2>12
<1>16. ASSUME NEW o \in Objects, nodeStatusChange(o) PROVE PoolIndInv'
  <2>a. /\ node' \in [Objects -> NodeRows] /\ UNCHANGED <<dbNode, made, reInits, requests, up, requested, crashed, overlapped>> /\ rebuilds' = rebuilds + 1
    BY <1>16 DEF nodeStatusChange, PoolTypeOK, NodeRows
  <2>b. /\ active' \in [NodeIDs -> Objects \cup {Nil, None}]
        /\ inactive' \in [NodeIDs -> Objects \cup {Nil, None}]
    BY <1>16 DEF nodeStatusChange, PoolTypeOK
  <2>1. PoolTypeOK'
    BY <2>a, <2>b DEF nodeStatusChange, PoolTypeOK, NodeRows, Objects, Nil, None
  <2>2. ObjectsMade'
    BY <1>16 DEF nodeStatusChange, ObjectsMade, PoolTypeOK, NodeRows, Objects, Nil, None
  <2>3. HeldAreMade'
    BY <1>16 DEF nodeStatusChange, HeldAreMade, PoolTypeOK, NodeRows, Objects, Nil, None
  <2>4. InitsOfMade'
    BY <1>16 DEF nodeStatusChange, InitsOfMade, PoolTypeOK, NodeRows, Objects, Nil, None
  <2>5. EntriesReal'
    BY <1>16 DEF nodeStatusChange, EntriesReal, PoolTypeOK, NodeRows, Objects, Nil, None, HeldAlive,
      AliveHeld, KilledStop, StatusShown, ObjectsMade, HeldAreMade
  <2>6. HeldAlive'
    BY <1>16 DEF nodeStatusChange, HeldAlive, PoolTypeOK, NodeRows, Objects, Nil, None, EntriesReal,
      HeldAreMade, KilledStop, AliveHeld, ObjectsMade, StatusShown
  <2>7. AliveHeld'
    BY <1>16 DEF nodeStatusChange, AliveHeld, PoolTypeOK, NodeRows, Objects, Nil, None, EntriesReal,
      HeldAlive, ObjectsMade, HeldAreMade
  <2>8. KilledStop'
    BY <1>16 DEF nodeStatusChange, KilledStop, PoolTypeOK, NodeRows, Objects, Nil, None,
      EntriesReal, HeldAlive, ObjectsMade
  <2>9. InitsAlive'
    BY <1>16 DEF nodeStatusChange, InitsAlive, PoolTypeOK, NodeRows, Objects, Nil, None,
      InitsOfMade, HeldAlive, EntriesReal
  <2>10. StatusShown'
    BY <1>16, SMTT(30) DEF nodeStatusChange, StatusShown, PoolTypeOK, NodeRows, Objects, Nil, None,
      EntriesReal, HeldAlive, AliveHeld, KilledStop, ObjectsMade, HeldAreMade
  <2>11. CrashOnlyByOverlap'
    BY <1>16 DEF nodeStatusChange, CrashOnlyByOverlap, PoolTypeOK, EntriesReal, InitsAlive, Nil
  <2>12. IndexExact'
    BY <2>a DEF nodeStatusChange, IndexExact, PoolTypeOK, NodeRows, Objects, Nil, None, EntriesReal,
      HeldAlive, CrashOnlyByOverlap
  <2> QED BY <2>1, <2>2, <2>3, <2>4, <2>5, <2>6, <2>7, <2>8, <2>9, <2>10, <2>11, <2>12
<1>17. CASE UNCHANGED poolVars
  <2>1. PoolTypeOK'
    BY <1>17 DEF poolVars, PoolTypeOK
  <2>2. ObjectsMade'
    BY <1>17 DEF poolVars, ObjectsMade
  <2>3. HeldAreMade'
    BY <1>17 DEF poolVars, HeldAreMade
  <2>4. InitsOfMade'
    BY <1>17 DEF poolVars, InitsOfMade
  <2>5. EntriesReal'
    BY <1>17 DEF poolVars, EntriesReal
  <2>6. HeldAlive'
    BY <1>17 DEF poolVars, HeldAlive
  <2>7. AliveHeld'
    BY <1>17 DEF poolVars, AliveHeld
  <2>8. KilledStop'
    BY <1>17 DEF poolVars, KilledStop
  <2>9. InitsAlive'
    BY <1>17 DEF poolVars, InitsAlive
  <2>10. StatusShown'
    BY <1>17 DEF poolVars, StatusShown
  <2>11. CrashOnlyByOverlap'
    BY <1>17 DEF poolVars, CrashOnlyByOverlap
  <2>12. IndexExact'
    BY <1>17 DEF poolVars, IndexExact
  <2> QED BY <2>1, <2>2, <2>3, <2>4, <2>5, <2>6, <2>7, <2>8, <2>9, <2>10, <2>11, <2>12
<1> QED BY <1>1, <1>2, <1>3, <1>4, <1>5, <1>6, <1>7, <1>8, <1>9, <1>10, <1>11, <1>12, <1>13, <1>14,
        <1>15, <1>16, <1>17 DEF PoolNext, LoopStep

\* It holds for an empty pool.
LEMMA PoolInitInv == PoolInit => PoolIndInv
<1> SUFFICES ASSUME PoolInit PROVE PoolIndInv
  OBVIOUS
<1> USE DEF PoolInit, PoolIndInv, Unmade, Objects, Nil, None, NodeRows
<1>1. PoolTypeOK
  BY DEF PoolTypeOK
<1>2. ObjectsMade /\ HeldAreMade /\ InitsOfMade /\ EntriesReal /\ HeldAlive /\ AliveHeld /\ KilledStop /\ InitsAlive /\ StatusShown
  BY DEF ObjectsMade, HeldAreMade, InitsOfMade, EntriesReal, HeldAlive, AliveHeld, KilledStop,
    InitsAlive, StatusShown
<1>3. CrashOnlyByOverlap /\ IndexExact
  BY DEF CrashOnlyByOverlap, IndexExact
<1> QED BY <1>1, <1>2, <1>3

\* It implies that the maps agree with the nodes.
LEMMA PoolIndInvImplies == PoolIndInv => PoolInv
<1> SUFFICES ASSUME PoolIndInv PROVE PoolAgrees
  BY DEF PoolIndInv, PoolInv
<1>1. ASSUME ~overlapped, NEW id \in NodeIDs PROVE active[id] = None \/ inactive[id] = None
  BY <1>1 DEF PoolIndInv, EntriesReal
<1>2. ASSUME ~overlapped, NEW id \in NodeIDs, Held(id) \in Objects, node[Held(id)].at # "reporting"
      PROVE (active[id] # None) = node[Held(id)].status
  <2>1. CASE active[id] # None
    BY <1>2, <2>1 DEF Held, PoolIndInv, StatusShown, PoolTypeOK, NodeRows
  <2>2. CASE active[id] = None
    BY <1>2, <2>2 DEF Held, PoolIndInv, StatusShown, PoolTypeOK, NodeRows
  <2> QED BY <2>1, <2>2
<1> QED BY <1>1, <1>2 DEF PoolAgrees

\* A node is in at most one of the pool's maps, the one of its status; the
\* balancer's index, once rebuilt, lists the active nodes but for those edited
\* in place; and the pool panics only when Add or Delete overlaps with a change
\* of status (NodePool.Add, Delete, changeStatus): for every set of nodes,
\* every number of objects, of rebuilds and of requests.
THEOREM PoolAgreement == PoolSpec => []PoolInv
<1>1. PoolInit => PoolIndInv
  BY PoolInitInv
<1>2. PoolIndInv /\ [PoolNext]_poolVars => PoolIndInv'
  BY PoolStep
<1>3. PoolIndInv => PoolInv
  BY PoolIndInvImplies
<1> QED BY <1>1, <1>2, <1>3, PTL DEF PoolSpec

-----------------------------------------------------------------------------
(* OfflineDownload: downloads and their monitors                           *)

\* The statuses of a record (models.Download).
Statuses == Underway \cup {"none", "Complete", "Error", "Canceled", "Unknown", "deleted"}

\* The transfer task that a record or a monitor remembers, 0 for none.
Tasks == {0} \cup Attempts

\* The records of downloads...
RecRows == [status : Statuses, gid : {1, 2}, task : Tasks, sized : BOOLEAN]

\* ... and their monitors.
MonRows == [at : {"off", "poll", "complete", "seeding", "submitted"}, retried : Nat, gid : {1, 2},
            task : Tasks, sized : BOOLEAN]

\* The types of the variables.
OffTypeOK ==
    /\ adding \in [Downloads -> {"no", "checked", "created"}]
    /\ rec \in [Downloads -> RecRows] /\ mon \in [Downloads -> MonRows]
    /\ aria \in [Downloads -> {"none", "waiting", "active", "paused", "seeding"} \cup Stopped]
    /\ temp \in [Downloads -> {"none", "present", "doomed", "removed"}]
    /\ transfers \in [Downloads -> [Attempts -> {"none", "queued", "ended"}]]
    /\ recycle \in [Downloads -> {"none", "queued", "ended"}]
    /\ crashes \in 0 .. MaxCrashes /\ twoAdding \in BOOLEAN

\* Before CreateTask has stored the record, nothing of the download exists but
\* its folder.
Fresh ==
    \A d \in Downloads :
        /\ rec[d].status = "none" =>
            mon[d].at = "off" /\ recycle[d] = "none" /\ \A n \in Attempts : transfers[d][n] = "none"
        /\ adding[d] # "no" => rec[d].status = "none"
        /\ adding[d] = "created" => temp[d] = "present"

\* While a monitor runs, the temporary folder is there.
FolderWatched == \A d \in Downloads : mon[d].at # "off" => temp[d] = "present"

\* A monitor belongs to a record that is not finished, and the status of the
\* record never runs ahead of aria2.
MonitoredStatus ==
    \A d \in Downloads :
        /\ mon[d].at # "off" => rec[d].status \in Underway \cup {"Complete", "deleted"}
        /\ mon[d].at = "complete" => rec[d].status \notin Underway
        /\ rec[d].status = "Seeding" => aria[d] \in {"seeding"} \cup Stopped
        /\ rec[d].status = "Complete" => aria[d] \in Stopped
        /\ rec[d].status = "deleted" => d \in disturbed

\* Each restart of the server leaves room for one more transfer, so a monitor
\* that has submitted none finds a free one.
AttemptLeft ==
    \A d \in Downloads :
        /\ \A n \in Attempts : n > crashes + 1 => transfers[d][n] = "none"
        /\ mon[d].at # "off" /\ mon[d].task = 0 => transfers[d][crashes + 1] = "none"
        /\ mon[d].at = "submitted" => mon[d].task # 0

\* Only a restart between the submission of a transfer and the save of its
\* number makes a second one.
OneTransfer ==
    \A d \in Downloads \ gap : \A m, n \in Attempts :
        transfers[d][m] # "none" /\ transfers[d][n] # "none" => m = n

\* Otherwise the monitor and the record remember the transfer (Complete,
\* Update).
TransferRemembered ==
    \A d \in Downloads \ gap :
        /\ mon[d].at \in {"complete", "seeding", "submitted"} => mon[d].sized /\ (rec[d].sized \/ rec[d].status = "deleted")
        /\ (\E n \in Attempts : transfers[d][n] # "none") =>
            /\ mon[d].at = "off" \/ (mon[d].task # 0 /\ mon[d].sized)
            /\ mon[d].at = "submitted" \/ rec[d].task # 0 \/ rec[d].status = "deleted"
            /\ rec[d].sized \/ rec[d].status = "deleted"

\* A recycle task exists only after the monitor ended and the transfer did.
RecycledEnded ==
    \A d \in Downloads : recycle[d] # "none" =>
        /\ mon[d].at = "off" /\ rec[d].status \notin Underway
        /\ d \notin gap => \A n \in Attempts : transfers[d][n] # "queued"

\* The records that the limit of a group counts (GetActiveDownloads), ...
CountedSet == {d \in Downloads : rec[d].status \in Counted}

\* ... and the calls of CreateTask that have passed the count.
AddingOnes == {d \in Downloads : adding[d] # "no"}

\* Unless two of them overlapped, there is one at most.
OneAdding == ~twoAdding => \A d, e \in AddingOnes : d = e

\* With its record the group is still within its limit.
WithinLimit ==
    /\ IsFiniteSet(CountedSet)
    /\ ~twoAdding => Cardinality(CountedSet) + (IF AddingOnes = {} THEN 0 ELSE 1) <= Limit

\* The inductive invariant. SourceKept needs to know that no transfer is queued
\* when a recycle task or a cancelled download removes the folder, and that
\* depends on what monitor and record remember of the transfer.
OffIndInv ==
    /\ OffTypeOK /\ Fresh /\ FolderWatched /\ MonitoredStatus /\ UnderwayIsMonitored /\ AttemptLeft
    /\ OneTransfer /\ TransferRemembered /\ RecycledEnded /\ SourceKept /\ OneAdding /\ WithinLimit

\* A step after which fewer records count, and no call more has passed the
\* count, keeps the limit.
LEMMA FewerCounted ==
    ASSUME WithinLimit, CountedSet' \subseteq CountedSet, AddingOnes' \subseteq AddingOnes, twoAdding' = twoAdding
    PROVE  WithinLimit'
<1>1. IsFiniteSet(CountedSet') /\ Cardinality(CountedSet') <= Cardinality(CountedSet)
      /\ Cardinality(CountedSet') \in Nat /\ Cardinality(CountedSet) \in Nat
  BY FS_Subset, FS_CardinalityType DEF WithinLimit
<1> QED BY <1>1, OfflineAssumption DEF WithinLimit

\* What every step has in common that ends a monitor with an error (Update,
\* Error, validateFile, RemoveTempFolder): it keeps the invariant.
LEMMA MonitorEnds ==
    ASSUME OffIndInv, NEW d \in Downloads, mon[d].at = "poll",
           UNCHANGED <<adding, transfers, recycle, crashes, twoAdding, gap>>,
           mon' = [mon EXCEPT ![d] = NoMonitor],
           \/ rec' = rec /\ rec[d].status = "deleted"
           \/ /\ rec[d].status # "deleted"
              /\ \E row \in RecRows : /\ rec' = [rec EXCEPT ![d] = row]
                                      /\ row.status \in {"Error", "Canceled", "Unknown"}
                                      /\ row.task = mon[d].task /\ (mon[d].sized => row.sized),
           NEW a \in {"none", "waiting", "active", "paused", "seeding"} \cup Stopped, a = aria[d] \/ a \in Stopped,
           aria' = [aria EXCEPT ![d] = a],
           NEW t \in {"none", "present", "doomed", "removed"}, temp' = [temp EXCEPT ![d] = t],
           disturbed \subseteq disturbed',
           t = temp[d] \/ d \in disturbed' \/ ~mon[d].sized
    PROVE  OffIndInv'
<1> USE DEF OffIndInv
<1>1. OffTypeOK'
  <2>1. NoMonitor \in MonRows
    BY DEF NoMonitor, MonRows, Tasks
  <2>2. mon' \in [Downloads -> MonRows]
    BY <2>1 DEF OffTypeOK, MonRows
  <2>3. rec' \in [Downloads -> RecRows]
    BY DEF OffTypeOK, RecRows
  <2> QED BY <2>2, <2>3 DEF OffTypeOK, MonRows, RecRows
<1>2. /\ \A e \in Downloads : e # d => rec'[e] = rec[e] /\ mon'[e] = mon[e] /\ temp'[e] = temp[e] /\ aria'[e] = aria[e]
      /\ mon'[d] = NoMonitor /\ temp'[d] = t /\ aria'[d] = a
      /\ IF rec[d].status = "deleted" THEN rec'[d] = rec[d]
         ELSE rec'[d].status \in {"Error", "Canceled", "Unknown"} /\ rec'[d].task = mon[d].task /\ (mon[d].sized => rec'[d].sized)
  BY DEF OffTypeOK
<1>3. NoMonitor.at = "off" /\ NoMonitor.task = 0
  BY DEF NoMonitor
<1>4. rec[d].status # "none" /\ rec'[d].status \notin Underway \cup {"none"}
  BY <1>2 DEF Fresh, Underway
<1>5. Fresh'
  BY <1>2, <1>4 DEF Fresh
<1>6. FolderWatched'
  BY <1>2, <1>3 DEF FolderWatched
<1>7. MonitoredStatus'
  BY <1>2, <1>3, <1>4 DEF MonitoredStatus
<1>8. UnderwayIsMonitored'
  BY <1>2, <1>4 DEF UnderwayIsMonitored
<1>9. AttemptLeft'
  BY <1>2, <1>3 DEF AttemptLeft
<1>10. OneTransfer'
  BY DEF OneTransfer
<1>11. TransferRemembered'
  BY <1>2, <1>3 DEF TransferRemembered
<1>12. RecycledEnded'
  BY <1>2, <1>3, <1>4 DEF RecycledEnded
<1>13. SourceKept'
  BY <1>2 DEF SourceKept, TransferRemembered
<1>14. OneAdding'
  BY DEF OneAdding, AddingOnes
<1>15. WithinLimit'
  <2>1. CountedSet' \subseteq CountedSet
    BY <1>2, <1>4 DEF CountedSet, Counted, Underway
  <2>2. AddingOnes' = AddingOnes
    BY DEF AddingOnes
  <2> QED BY <2>1, <2>2, FewerCounted
<1> QED BY <1>1, <1>5, <1>6, <1>7, <1>8, <1>9, <1>10, <1>11, <1>12, <1>13, <1>14, <1>15

\* What every step has in common after which the monitor goes on (Loop, Update,
\* UpdateTaskInfo, a retry): it keeps the invariant.
LEMMA MonitorGoesOn ==
    ASSUME OffIndInv, NEW d \in Downloads, mon[d].at # "off",
           UNCHANGED <<adding, aria, temp, transfers, recycle, crashes, twoAdding, gap, disturbed>>,
           NEW m \in MonRows, mon' = [mon EXCEPT ![d] = m],
           m.at \in {"poll", "complete", "seeding"}, m.task = mon[d].task, mon[d].sized => m.sized,
           \/ rec' = rec /\ m.at = "poll" /\ mon[d].at # "submitted"
           \/ rec' = rec /\ m.at = "poll" /\ rec[d].status = "deleted"
           \/ /\ rec[d].status # "deleted"
              /\ \E row \in RecRows :
                    /\ rec' = [rec EXCEPT ![d] = row]
                    /\ row.task = m.task /\ row.sized = m.sized
                    /\ row.status \in Underway \cup {"Complete"}
                    /\ row.status \in Counted => rec[d].status \in Counted
                    /\ row.status = "Seeding" => aria[d] \in {"seeding"} \cup Stopped
                    /\ row.status = "Complete" => aria[d] \in Stopped
                    /\ m.at = "complete" => row.status = "Complete"
                    /\ m.at \in {"complete", "seeding"} => m.sized
    PROVE  OffIndInv'
<1> USE DEF OffIndInv
<1>1. OffTypeOK'
  <2>2. mon' \in [Downloads -> MonRows]
    BY DEF OffTypeOK, MonRows
  <2>3. rec' \in [Downloads -> RecRows]
    BY DEF OffTypeOK, RecRows
  <2> QED BY <2>2, <2>3 DEF OffTypeOK, MonRows, RecRows
<1>2. /\ \A e \in Downloads : e # d => rec'[e] = rec[e] /\ mon'[e] = mon[e]
      /\ mon'[d] = m
      /\ \/ rec'[d] = rec[d] /\ m.at = "poll" /\ mon[d].at # "submitted"
         \/ rec'[d] = rec[d] /\ m.at = "poll" /\ rec[d].status = "deleted"
         \/ /\ rec[d].status # "deleted"
            /\ rec'[d].task = m.task /\ rec'[d].sized = m.sized
            /\ rec'[d].status \in Underway \cup {"Complete"}
            /\ rec'[d].status \in Counted => rec[d].status \in Counted
            /\ rec'[d].status = "Seeding" => aria[d] \in {"seeding"} \cup Stopped
            /\ rec'[d].status = "Complete" => aria[d] \in Stopped
            /\ m.at = "complete" => rec'[d].status = "Complete"
            /\ m.at \in {"complete", "seeding"} => m.sized
  BY DEF OffTypeOK
<1>3. rec[d].status # "none" /\ rec'[d].status # "none" /\ recycle[d] = "none"
  BY <1>2 DEF Fresh, Underway, RecycledEnded
<1>4. (rec'[d].status = "deleted" <=> rec[d].status = "deleted") /\ (rec'[d].status \in Counted => rec[d].status \in Counted)
  BY <1>2 DEF Underway
<1>5. Fresh'
  BY <1>2, <1>3 DEF Fresh
<1>6. FolderWatched'
  BY <1>2 DEF FolderWatched
<1>7. MonitoredStatus'
  BY <1>2, <1>4 DEF MonitoredStatus, Underway
<1>8. UnderwayIsMonitored'
  BY <1>2 DEF UnderwayIsMonitored
<1>9. AttemptLeft'
  BY <1>2 DEF AttemptLeft
<1>10. OneTransfer'
  BY DEF OneTransfer
<1>11. TransferRemembered'
  BY <1>2, <1>4 DEF TransferRemembered
<1>12. RecycledEnded'
  BY <1>2, <1>3 DEF RecycledEnded
<1>13. SourceKept'
  BY DEF SourceKept
<1>14. OneAdding'
  BY DEF OneAdding, AddingOnes
<1>15. WithinLimit'
  <2>1. CountedSet' \subseteq CountedSet
    BY <1>2, <1>4 DEF CountedSet
  <2>2. AddingOnes' = AddingOnes
    BY DEF AddingOnes
  <2> QED BY <2>1, <2>2, FewerCounted
<1> QED BY <1>1, <1>5, <1>6, <1>7, <1>8, <1>9, <1>10, <1>11, <1>12, <1>13, <1>14, <1>15

\* A non-empty set of naturals has a least element: induction over the naturals
\* in the form that the provers can use.
LEMMA LeastNatural ==
    ASSUME NEW S \in SUBSET Nat, S # {}
    PROVE  \E n \in S : \A m \in S : n <= m
<1>1. PICK n \in S : \A m \in S : ~(<<m, n>> \in OpToRel(<, Nat))
  BY NatLessThanWellFounded, WFMin, Zenon
<1>2. ASSUME NEW m \in S PROVE n <= m
  <2>1. n \in Nat /\ m \in Nat
    OBVIOUS
  <2>2. m < n => <<m, n>> \in OpToRel(<, Nat)
    BY <2>1 DEF OpToRel
  <2>3. ~(m < n)
    BY <1>1, <2>2, Zenon
  <2> QED BY <2>1, <2>3
<1> QED BY <1>2

\* A monitor that has submitted no transfer finds a free number, not above the
\* number of restarts plus one.
LEMMA AttemptFound ==
    ASSUME OffTypeOK, AttemptLeft, NEW d \in Downloads, mon[d].at # "off", mon[d].task = 0
    PROVE  /\ NextAttempt(d) \in Attempts /\ NextAttempt(d) <= crashes + 1 /\ transfers[d][NextAttempt(d)] = "none"
           /\ NextAttempt(d) # 0
<1> DEFINE free == {n \in Attempts : transfers[d][n] = "none"}
<1>1. crashes + 1 \in free /\ free \in SUBSET Nat /\ crashes \in Nat
  BY OfflineAssumption DEF OffTypeOK, Attempts, AttemptLeft
<1>2. PICK least \in free : \A m \in free : least <= m
  <2> HIDE DEF free
  <2> QED BY <1>1, LeastNatural
<1>3. least \in Attempts /\ transfers[d][least] = "none" /\ least \in Nat
  BY <1>1, <1>2
<1>4. ASSUME NEW k \in 1 .. least - 1 PROVE transfers[d][k] # "none"
  <2>1. k \in Attempts /\ k < least
    BY <1>3, OfflineAssumption DEF Attempts
  <2> QED BY <1>2, <1>3, <2>1
<1> DEFINE first(n) == transfers[d][n] = "none" /\ \A k \in 1 .. n - 1 : transfers[d][k] # "none"
<1>5. first(least)
  BY <1>3, <1>4
<1>6. NextAttempt(d) \in Attempts /\ first(NextAttempt(d))
  <2>1. NextAttempt(d) = CHOOSE n \in Attempts : first(n)
    BY DEF NextAttempt
  <2> HIDE DEF first
  <2> QED BY <1>3, <1>5, <2>1
<1>7. NextAttempt(d) <= crashes + 1
  <2>1. ASSUME NextAttempt(d) > crashes + 1 PROVE FALSE
    <3>1. crashes + 1 \in 1 .. NextAttempt(d) - 1
      BY <1>1, <1>6, <2>1 DEF Attempts
    <3>2. transfers[d][crashes + 1] # "none"
      BY <1>6, <3>1
    <3> QED BY <1>1, <3>2
  <2> QED BY <1>1, <1>6, <2>1 DEF Attempts
<1> QED BY <1>6, <1>7 DEF Attempts

\* Removing the temporary folder changes the folder of this download only
\* (DeleteTempFile).
LEMMA FolderGoes ==
    ASSUME OffTypeOK, NEW d \in Downloads, DeleteTempFile(d)
    PROVE  \E t \in {"none", "present", "doomed", "removed"} : temp' = [temp EXCEPT ![d] = t]
<1>1. CASE temp' = temp
  <2>1. temp' = [temp EXCEPT ![d] = temp[d]]
    BY <1>1 DEF OffTypeOK
  <2> QED BY <2>1 DEF OffTypeOK
<1>2. CASE temp' = [temp EXCEPT ![d] = IF @ = "present" THEN "doomed" ELSE @]
  <2>1. (IF temp[d] = "present" THEN "doomed" ELSE temp[d]) \in {"none", "present", "doomed", "removed"}
    BY DEF OffTypeOK
  <2> QED BY <1>2, <2>1
<1> QED BY <1>1, <1>2 DEF DeleteTempFile, SlaveDeleteTemp, rpcDeleteTempFile

\* Records and monitors have their types.
LEMMA RowsTyped ==
    ASSUME OffIndInv PROVE \A d \in Downloads : mon[d] \in MonRows /\ rec[d] \in RecRows
  BY DEF OffIndInv, OffTypeOK

\* Monitor.Update keeps the invariant, in each of the seven ways in which it
\* ends.
LEMMA UpdatePreserves ==
    ASSUME OffIndInv, NEW d \in Downloads, Update(d)
    PROVE  OffIndInv'
<1> USE DEF OffIndInv
<1> DEFINE status == GetStatus(d)
           sized == mon[d].sized \/ status \in {"Downloading", "Seeding", "Complete"}
           m == [mon[d] EXCEPT !.retried = 0, !.sized = sized]
           row == [status |-> status, gid |-> m.gid, task |-> m.task, sized |-> m.sized]
<1>1. /\ mon[d].at = "poll" /\ UNCHANGED <<adding, transfers, recycle, crashes, twoAdding, gap>>
      /\ \/ SaveFails(d)
         \/ ValidateFileRefuses(d, m)
         \/ /\ UpdateTaskInfo(d, status, m)
            /\ CASE status = "Complete" -> Goes(d, m, "complete")
                 [] status = "Seeding" -> Goes(d, m, "seeding")
                 [] status \in Counted -> Goes(d, m, "poll")
                 [] status \in {"Error", "Canceled"} -> RemoveTempFolder(d) /\ Disturb(d)
                 [] OTHER -> /\ mon' = [mon EXCEPT ![d] = NoMonitor] /\ excused' = excused \cup {d}
                             /\ UNCHANGED <<temp, disturbed>>
  BY DEF Update
<1>2. /\ status \in Underway \cup {"Complete", "Error", "Canceled", "Unknown"}
      /\ status = "Seeding" => aria[d] = "seeding"
      /\ status = "Complete" => aria[d] = "complete"
      /\ status \in Counted => aria[d] \in {"waiting", "active", "paused"}
  BY DEF GetStatus, OffTypeOK, Stopped, Underway, Counted
<1> HIDE DEF status
<1>3. /\ sized \in BOOLEAN /\ (mon[d].sized => sized) /\ (status \in {"Seeding", "Complete"} => sized)
  BY DEF OffTypeOK, MonRows
<1> HIDE DEF sized
<1>4. /\ m \in MonRows /\ m.at = "poll" /\ m.task = mon[d].task /\ m.sized = sized
  <2>1. mon[d] \in MonRows
    BY RowsTyped
  <2>2. CASE sized = TRUE
    BY <1>1, <2>1, <2>2 DEF MonRows
  <2>3. CASE sized = FALSE
    BY <1>1, <2>1, <2>3 DEF MonRows
  <2> QED BY <1>3, <2>2, <2>3
<1>5. aria[d] \in {"none", "waiting", "active", "paused", "seeding"} \cup Stopped /\ aria = [aria EXCEPT ![d] = aria[d]]
      /\ temp[d] \in {"none", "present", "doomed", "removed"} /\ temp = [temp EXCEPT ![d] = temp[d]]
  BY DEF OffTypeOK
<1> HIDE DEF m
<1>6. CASE SaveFails(d)
  <2>1. /\ rec[d].status = "deleted" /\ DeleteTempFile(d) /\ mon' = [mon EXCEPT ![d] = NoMonitor]
        /\ rec' = rec /\ aria' = [aria EXCEPT ![d] = aria[d]] /\ disturbed' = disturbed
    BY <1>5, <1>6 DEF SaveFails, RemoveTempFolder
  <2>2. PICK t \in {"none", "present", "doomed", "removed"} : temp' = [temp EXCEPT ![d] = t]
    BY <2>1, FolderGoes
  <2>3. d \in disturbed'
    BY <2>1 DEF MonitoredStatus
  <2> QED BY <1>1, <1>5, <2>1, <2>2, <2>3, MonitorEnds
<1>7. CASE ValidateFileRefuses(d, m)
  <2> DEFINE err == [status |-> "Error", gid |-> m.gid, task |-> m.task, sized |-> m.sized]
  <2>1. /\ rec[d].status # "deleted" /\ DeleteTempFile(d) /\ mon' = [mon EXCEPT ![d] = NoMonitor]
        /\ rec' = [rec EXCEPT ![d] = err]
        /\ disturbed' = disturbed /\ m.sized # mon[d].sized
        /\ aria' = [aria EXCEPT ![d] = IF @ \in Stopped THEN @ ELSE "removed"]
    BY <1>7 DEF ValidateFileRefuses, RemoveTempFolder, setErrorStatus, Saved
  <2>2. PICK t \in {"none", "present", "doomed", "removed"} : temp' = [temp EXCEPT ![d] = t]
    BY <2>1, FolderGoes
  <2>3. PICK a \in Stopped : aria' = [aria EXCEPT ![d] = a]
    BY <2>1 DEF Stopped
  <2>4. err \in RecRows /\ err.status = "Error" /\ err.task = mon[d].task /\ err.sized = sized
    BY <1>4 DEF MonRows, RecRows, Statuses
  <2>5. ~mon[d].sized
    BY <1>3, <1>4, <2>1, RowsTyped DEF MonRows
  <2> HIDE DEF err
  <2> QED BY <1>1, <1>3, <2>1, <2>2, <2>3, <2>4, <2>5, MonitorEnds
<1> HIDE DEF Goes
<1>8. CASE UpdateTaskInfo(d, status, m) /\ status \in {"Complete", "Seeding"} \cup Counted
           /\ \E at \in {"poll", "complete", "seeding"} :
                 /\ Goes(d, m, at) /\ (at = "complete" => status = "Complete")
                 /\ at \in {"complete", "seeding"} => status \in {"Seeding", "Complete"}
  <2>1. rec[d].status # "deleted" /\ rec' = [rec EXCEPT ![d] = row] /\ aria' = aria
    BY <1>8 DEF UpdateTaskInfo, Saved
  <2>2. row \in RecRows /\ row.status = status /\ row.task = m.task /\ row.sized = m.sized
    BY <1>2, <1>4 DEF MonRows, RecRows, Statuses
  <2>3. PICK at \in {"poll", "complete", "seeding"} :
             /\ Goes(d, m, at) /\ (at = "complete" => status = "Complete")
             /\ at \in {"complete", "seeding"} => status \in {"Seeding", "Complete"}
    BY <1>8
  <2> DEFINE n == [m EXCEPT !.at = at]
  <2>4. n \in MonRows /\ n.at = at /\ n.task = mon[d].task /\ n.sized = sized
    BY <1>4 DEF MonRows
  <2>5. mon' = [mon EXCEPT ![d] = n] /\ UNCHANGED <<temp, disturbed>>
    BY <2>3 DEF Goes
  <2>6. /\ row.status \in Underway \cup {"Complete"}
        /\ row.status \in Counted => rec[d].status \in Counted
        /\ row.status = "Seeding" => aria[d] \in {"seeding"} \cup Stopped
        /\ row.status = "Complete" => aria[d] \in Stopped
    <3>1. rec[d].status \in Underway \cup {"Complete"}
      BY <1>1, <2>1 DEF MonitoredStatus
    <3>2. status \in Counted => rec[d].status \in Counted
      BY <1>2, <3>1 DEF MonitoredStatus, Counted, Underway, Stopped
    <3> QED BY <1>2, <1>8, <2>2, <3>2 DEF Stopped, Underway, Counted
  <2>7. n.at \in {"complete", "seeding"} => n.sized
    BY <1>3, <2>3, <2>4
  <2> HIDE DEF n, row
  <2> QED BY <1>1, <1>3, <1>4, <2>1, <2>2, <2>3, <2>4, <2>5, <2>6, <2>7, MonitorGoesOn
<1>9. CASE /\ UpdateTaskInfo(d, status, m) /\ status \in {"Error", "Canceled", "Unknown"}
           /\ mon' = [mon EXCEPT ![d] = NoMonitor] /\ disturbed \subseteq disturbed'
           /\ \/ DeleteTempFile(d) /\ d \in disturbed'
              \/ temp' = temp
  <2>1. rec[d].status # "deleted" /\ rec' = [rec EXCEPT ![d] = row] /\ aria' = [aria EXCEPT ![d] = aria[d]]
    BY <1>5, <1>9 DEF UpdateTaskInfo, Saved
  <2>2. row \in RecRows /\ row.status = status /\ row.task = mon[d].task /\ row.sized = sized
    BY <1>2, <1>4 DEF MonRows, RecRows, Statuses
  <2>3. PICK t \in {"none", "present", "doomed", "removed"} : temp' = [temp EXCEPT ![d] = t] /\ (t = temp[d] \/ d \in disturbed')
    <3>1. CASE DeleteTempFile(d) /\ d \in disturbed'
      BY <3>1, FolderGoes
    <3>2. CASE temp' = temp
      BY <1>5, <3>2
    <3> QED BY <1>9, <3>1, <3>2
  <2> HIDE DEF row
  <2> QED BY <1>1, <1>3, <1>5, <1>9, <2>1, <2>2, <2>3, MonitorEnds
<1>10. CASE UpdateTaskInfo(d, status, m)
  <2>1. CASE status = "Complete" /\ Goes(d, m, "complete")
    BY <1>8, <1>10, <2>1
  <2>2. CASE status = "Seeding" /\ Goes(d, m, "seeding")
    BY <1>8, <1>10, <2>2
  <2>3. CASE status \in Counted /\ Goes(d, m, "poll")
    BY <1>8, <1>10, <2>3
  <2>4. CASE status \in {"Error", "Canceled"} /\ RemoveTempFolder(d) /\ Disturb(d)
    BY <1>9, <1>10, <2>4 DEF RemoveTempFolder, Disturb
  <2>5. CASE status \notin {"Complete", "Seeding", "Error", "Canceled"} \cup Counted /\ mon' = [mon EXCEPT ![d] = NoMonitor]
              /\ UNCHANGED <<temp, disturbed>>
    BY <1>2, <1>9, <1>10, <2>5 DEF Underway, Counted
  <2>6. CASE SaveFails(d)
    BY <1>6, <2>6
  <2>7. CASE ValidateFileRefuses(d, m)
    BY <1>7, <2>7
  <2> QED BY <1>1, <2>1, <2>2, <2>3, <2>4, <2>5, <2>6, <2>7 DEF Counted
<1> QED BY <1>1, <1>6, <1>7, <1>10

\* Every step of CreateTask, of the monitors, of aria2, of the transfer and
\* recycle tasks and of a restart keeps it.
LEMMA OffStep == OffIndInv /\ [OffNext]_offVars => OffIndInv'
<1> SUFFICES ASSUME OffIndInv, [OffNext]_offVars PROVE OffIndInv'
  OBVIOUS
<1> USE DEF OffIndInv
<1>1. ASSUME NEW d \in Downloads, AddURL(d) PROVE OffIndInv'
  <2>1. OffTypeOK'
    BY <1>1 DEF AddURL, OffTypeOK, Statuses, Tasks, Underway, Stopped, RecRows, MonRows
  <2>2. Fresh'
    BY <1>1 DEF AddURL, Fresh, OffTypeOK, RecRows, MonRows
  <2>3. FolderWatched'
    BY <1>1 DEF AddURL, FolderWatched, OffTypeOK, RecRows, MonRows, Fresh, RecycledEnded,
      UnderwayIsMonitored
  <2>4. MonitoredStatus'
    BY <1>1 DEF AddURL, MonitoredStatus, OffTypeOK, RecRows, MonRows, Fresh, Underway, Stopped
  <2>5. UnderwayIsMonitored'
    BY <1>1 DEF AddURL, UnderwayIsMonitored, OffTypeOK, RecRows, MonRows, MonitoredStatus, Fresh,
      Underway
  <2>6. AttemptLeft'
    BY <1>1 DEF AddURL, AttemptLeft, OffTypeOK, RecRows, MonRows, Fresh
  <2>7. OneTransfer'
    BY <1>1 DEF AddURL, OneTransfer, OffTypeOK, RecRows, MonRows, TransferRemembered
  <2>8. TransferRemembered'
    BY <1>1 DEF AddURL, TransferRemembered, OffTypeOK, RecRows, MonRows, Fresh, MonitoredStatus,
      Underway
  <2>9. RecycledEnded'
    BY <1>1, SMTT(30) DEF AddURL, RecycledEnded, OffTypeOK, RecRows, MonRows, Fresh, MonitoredStatus,
      OneTransfer, UnderwayIsMonitored, Underway
  <2>10. SourceKept'
    BY <1>1 DEF AddURL, SourceKept, OffTypeOK, RecRows, MonRows, FolderWatched, RecycledEnded,
      TransferRemembered, MonitoredStatus, Underway
  <2>11. OneAdding'
    <3>1. adding' = [adding EXCEPT ![d] = "checked"] /\ (~twoAdding' => \A e \in Downloads : adding[e] = "no")
      BY <1>1 DEF AddURL
    <3>2. ~twoAdding' => AddingOnes' \subseteq {d}
      BY <3>1 DEF AddingOnes, OffTypeOK
    <3> QED BY <3>2 DEF OneAdding
  <2>12. WithinLimit'
    <3>1. /\ Cardinality(CountedSet) + 1 <= Limit /\ CountedSet' = CountedSet
      BY <1>1 DEF AddURL, CountedSet
    <3>2. Cardinality(CountedSet) \in Nat /\ IsFiniteSet(CountedSet)
      BY FS_CardinalityType DEF WithinLimit
    <3>3. Cardinality(CountedSet)' = Cardinality(CountedSet) /\ IsFiniteSet(CountedSet)'
      BY <3>1, <3>2
    <3> QED BY <3>1, <3>2, <3>3, OfflineAssumption DEF WithinLimit
  <2> QED BY <2>1, <2>2, <2>3, <2>4, <2>5, <2>6, <2>7, <2>8, <2>9, <2>10, <2>11, <2>12
<1>2. ASSUME NEW d \in Downloads, CreateTask(d) PROVE OffIndInv'
  <2>a. UNCHANGED <<rec, mon, transfers, recycle, crashes, twoAdding, gap, disturbed>> /\ adding[d] = "checked"
    BY <1>2 DEF CreateTask
  <2>b. \/ /\ adding' = [adding EXCEPT ![d] = "created"] /\ aria' = [aria EXCEPT ![d] = "waiting"]
           /\ temp' = [temp EXCEPT ![d] = "present"]
        \/ adding' = [adding EXCEPT ![d] = "no"] /\ UNCHANGED <<aria, temp>>
    BY <1>2 DEF CreateTask, rpcCreateTask, slaveCreateTask, SlaveAdd
  <2>1. OffTypeOK'
    BY <2>a, <2>b DEF OffTypeOK, Statuses, Tasks, Underway, Stopped, RecRows, MonRows
  <2>2. Fresh'
    BY <2>a, <2>b DEF Fresh, OffTypeOK, RecRows, MonRows
  <2>3. FolderWatched'
    BY <2>a, <2>b DEF FolderWatched, OffTypeOK, RecRows, MonRows, Fresh, RecycledEnded,
      UnderwayIsMonitored
  <2>4. MonitoredStatus'
    BY <2>a, <2>b DEF MonitoredStatus, OffTypeOK, RecRows, MonRows, Fresh, Underway, Stopped
  <2>5. UnderwayIsMonitored'
    BY <2>a, <2>b DEF UnderwayIsMonitored, OffTypeOK, RecRows, MonRows, MonitoredStatus, Fresh,
      Underway
  <2>6. AttemptLeft'
    BY <2>a, <2>b DEF AttemptLeft, OffTypeOK, RecRows, MonRows, Fresh
  <2>7. OneTransfer'
    BY <2>a, <2>b DEF OneTransfer, OffTypeOK, RecRows, MonRows, TransferRemembered
  <2>8. TransferRemembered'
    BY <2>a, <2>b DEF TransferRemembered, OffTypeOK, RecRows, MonRows, Fresh, MonitoredStatus,
      Underway
  <2>9. RecycledEnded'
    BY <2>a, <2>b DEF RecycledEnded, OffTypeOK, RecRows, MonRows, Fresh, MonitoredStatus,
      OneTransfer, UnderwayIsMonitored, Underway
  <2>10. SourceKept'
    <3>1. \A n \in Attempts : transfers[d][n] = "none"
      BY <2>a DEF Fresh, OffTypeOK
    <3>2. \A e \in Downloads : e # d => temp'[e] = temp[e]
      BY <2>b DEF OffTypeOK
    <3> QED BY <2>a, <3>1, <3>2 DEF SourceKept
  <2>11. OneAdding'
    BY <2>a, <2>b DEF OneAdding, OffTypeOK, RecRows, MonRows, AddingOnes
  <2>12. WithinLimit'
    <3>1. CountedSet' \subseteq CountedSet /\ AddingOnes' \subseteq AddingOnes /\ twoAdding' = twoAdding
      BY <2>a, <2>b DEF CountedSet, AddingOnes, Counted, OffTypeOK, MonitoredStatus, Underway,
        Stopped
    <3> QED BY <3>1, FewerCounted
  <2> QED BY <2>1, <2>2, <2>3, <2>4, <2>5, <2>6, <2>7, <2>8, <2>9, <2>10, <2>11, <2>12
<1>3. ASSUME NEW d \in Downloads, Create(d), GetNodeByID(nodeOf[d]) PROVE OffIndInv'
  <2>a. /\ UNCHANGED <<aria, temp, transfers, recycle, crashes, twoAdding, gap, disturbed>> /\ adding[d] = "created"
        /\ adding' = [adding EXCEPT ![d] = "no"]
        /\ mon' = [mon EXCEPT ![d].at = "poll"] /\ rec' = [rec EXCEPT ![d].status = "Ready"]
    BY <1>3 DEF Create, NewMonitor
  <2>b. mon' \in [Downloads -> MonRows] /\ rec' \in [Downloads -> RecRows]
    <3>1. [mon[d] EXCEPT !.at = "poll"] \in MonRows /\ [rec[d] EXCEPT !.status = "Ready"] \in RecRows
      BY RowsTyped DEF MonRows, RecRows, Statuses, Underway
    <3> QED BY <2>a, <3>1 DEF OffTypeOK
  <2>c. /\ \A e \in Downloads : e # d => mon'[e] = mon[e] /\ rec'[e] = rec[e]
        /\ mon'[d].at = "poll" /\ rec'[d].status = "Ready" /\ rec[d].status = "none"
        /\ \A n \in Attempts : transfers[d][n] = "none"
        /\ recycle[d] = "none" /\ temp[d] = "present"
    BY <2>a DEF OffTypeOK, Fresh, MonRows, RecRows
  <2>1. OffTypeOK'
    BY <2>a, <2>b, <2>c DEF OffTypeOK, MonRows, RecRows, Statuses, Underway
  <2>2. Fresh'
    BY <2>a, <2>b, <2>c DEF Fresh, OffTypeOK, RecRows, MonRows
  <2>3. FolderWatched'
    BY <2>a, <2>b, <2>c DEF FolderWatched, OffTypeOK, RecRows, MonRows, Fresh, RecycledEnded,
      UnderwayIsMonitored
  <2>4. MonitoredStatus'
    BY <2>a, <2>b, <2>c DEF MonitoredStatus, OffTypeOK, RecRows, MonRows, Fresh, Underway, Stopped
  <2>5. UnderwayIsMonitored'
    BY <2>a, <2>b, <2>c DEF UnderwayIsMonitored, OffTypeOK, RecRows, MonRows, MonitoredStatus,
      Fresh, Underway
  <2>6. AttemptLeft'
    <3>1. crashes + 1 \in Attempts
      BY OfflineAssumption DEF OffTypeOK, Attempts
    <3> QED BY <2>a, <2>c, <3>1 DEF AttemptLeft
  <2>7. OneTransfer'
    BY <2>a, <2>b, <2>c DEF OneTransfer, OffTypeOK, RecRows, MonRows, TransferRemembered
  <2>8. TransferRemembered'
    BY <2>a, <2>b, <2>c DEF TransferRemembered, OffTypeOK, RecRows, MonRows, Fresh, MonitoredStatus,
      Underway
  <2>9. RecycledEnded'
    BY <2>a, <2>b, <2>c DEF RecycledEnded, OffTypeOK, RecRows, MonRows, Fresh, MonitoredStatus,
      OneTransfer, UnderwayIsMonitored, Underway
  <2>10. SourceKept'
    BY <2>a, <2>b, <2>c DEF SourceKept, OffTypeOK, RecRows, MonRows, FolderWatched, RecycledEnded,
      TransferRemembered, MonitoredStatus, Underway
  <2>11. OneAdding'
    BY <2>a, <2>b, <2>c DEF OneAdding, OffTypeOK, RecRows, MonRows, AddingOnes
  <2>12. WithinLimit'
    <3>1. CountedSet' = CountedSet \cup {d} /\ AddingOnes' = AddingOnes \ {d} /\ d \in AddingOnes
      BY <2>a, <2>c DEF CountedSet, AddingOnes, Counted, OffTypeOK
    <3>2. /\ IsFiniteSet(CountedSet \cup {d}) /\ Cardinality(CountedSet \cup {d}) <= Cardinality(CountedSet) + 1
          /\ Cardinality(CountedSet) \in Nat /\ Cardinality(CountedSet \cup {d}) \in Nat
      <4>1. /\ IsFiniteSet(CountedSet) /\ IsFiniteSet(CountedSet \cup {d})
            /\ Cardinality(CountedSet \cup {d}) = IF d \in CountedSet THEN Cardinality(CountedSet) ELSE Cardinality(CountedSet) + 1
        BY FS_AddElement DEF WithinLimit
      <4>2. Cardinality(CountedSet) \in Nat /\ Cardinality(CountedSet \cup {d}) \in Nat
        BY <4>1, FS_CardinalityType
      <4> QED BY <4>1, <4>2
    <3>3. ~twoAdding => AddingOnes' = {}
      BY <3>1 DEF OneAdding
    <3> QED BY <2>a, <3>1, <3>2, <3>3, OfflineAssumption DEF WithinLimit
  <2> QED BY <2>1, <2>2, <2>3, <2>4, <2>5, <2>6, <2>7, <2>8, <2>9, <2>10, <2>11, <2>12
<1>4. ASSUME NEW d \in Downloads, Create(d), ~GetNodeByID(nodeOf[d]) PROVE OffIndInv'
  <2>a. /\ UNCHANGED <<mon, aria, temp, transfers, recycle, crashes, twoAdding, gap, disturbed>> /\ adding[d] = "created"
        /\ adding' = [adding EXCEPT ![d] = "no"] /\ rec' = [rec EXCEPT ![d].status = "Error"]
    BY <1>4 DEF Create, NewMonitor
  <2>b. rec' \in [Downloads -> RecRows]
    <3>1. [rec[d] EXCEPT !.status = "Error"] \in RecRows
      BY RowsTyped DEF RecRows, Statuses
    <3> QED BY <2>a, <3>1 DEF OffTypeOK
  <2>c. /\ \A e \in Downloads : e # d => rec'[e] = rec[e]
        /\ mon[d].at = "off" /\ rec'[d].status = "Error" /\ rec[d].status = "none"
        /\ \A n \in Attempts : transfers[d][n] = "none"
        /\ recycle[d] = "none"
    BY <2>a DEF OffTypeOK, Fresh, MonRows, RecRows
  <2>1. OffTypeOK'
    BY <2>a, <2>b, <2>c DEF OffTypeOK, RecRows
  <2>2. Fresh'
    BY <2>a, <2>b, <2>c DEF Fresh, OffTypeOK, RecRows, MonRows
  <2>3. FolderWatched'
    BY <2>a, <2>b, <2>c DEF FolderWatched, OffTypeOK, RecRows, MonRows, Fresh, RecycledEnded,
      UnderwayIsMonitored
  <2>4. MonitoredStatus'
    BY <2>a, <2>b, <2>c DEF MonitoredStatus, OffTypeOK, RecRows, MonRows, Fresh, Underway, Stopped
  <2>5. UnderwayIsMonitored'
    BY <2>a, <2>b, <2>c DEF UnderwayIsMonitored, OffTypeOK, RecRows, MonRows, MonitoredStatus,
      Fresh, Underway
  <2>6. AttemptLeft'
    BY <2>a, <2>b, <2>c DEF AttemptLeft, OffTypeOK, RecRows, MonRows, Fresh
  <2>7. OneTransfer'
    BY <2>a, <2>b, <2>c DEF OneTransfer, OffTypeOK, RecRows, MonRows, TransferRemembered
  <2>8. TransferRemembered'
    BY <2>a, <2>b, <2>c DEF TransferRemembered, OffTypeOK, RecRows, MonRows, Fresh, MonitoredStatus,
      Underway
  <2>9. RecycledEnded'
    BY <2>a, <2>b, <2>c DEF RecycledEnded, OffTypeOK, RecRows, MonRows, Fresh, MonitoredStatus,
      OneTransfer, UnderwayIsMonitored, Underway
  <2>10. SourceKept'
    BY <2>a, <2>b, <2>c DEF SourceKept, OffTypeOK, RecRows, MonRows, FolderWatched, RecycledEnded,
      TransferRemembered, MonitoredStatus, Underway
  <2>11. OneAdding'
    BY <2>a, <2>b, <2>c DEF OneAdding, OffTypeOK, RecRows, MonRows, AddingOnes
  <2>12. WithinLimit'
    <3>1. CountedSet' \subseteq CountedSet /\ AddingOnes' \subseteq AddingOnes /\ twoAdding' = twoAdding
      BY <2>a, <2>b, <2>c DEF CountedSet, AddingOnes, Counted, OffTypeOK, MonitoredStatus, Underway,
        Stopped
    <3> QED BY <3>1, FewerCounted
  <2> QED BY <2>1, <2>2, <2>3, <2>4, <2>5, <2>6, <2>7, <2>8, <2>9, <2>10, <2>11, <2>12
<1>5. ASSUME NEW d \in Downloads, UpdateFails(d) PROVE OffIndInv'
  <2>a. /\ UNCHANGED <<adding, aria, transfers, recycle, crashes, twoAdding, gap>> /\ mon[d].at = "poll"
        /\ aria' = [aria EXCEPT ![d] = aria[d]] /\ aria[d] \in {"none", "waiting", "active", "paused", "seeding"} \cup Stopped
    BY <1>5 DEF UpdateFails, OffTypeOK
  <2>1. CASE mon[d].retried + 1 > MaxRetry
    <3>1. rec' = Saved(d, "Error", mon[d]) /\ DeleteTempFile(d) /\ mon' = [mon EXCEPT ![d] = NoMonitor] /\ d \in disturbed' /\ disturbed \subseteq disturbed'
      BY <1>5, <2>1 DEF UpdateFails, setErrorStatus, RemoveTempFolder, Disturb
    <3>2. PICK t \in {"none", "present", "doomed", "removed"} : temp' = [temp EXCEPT ![d] = t]
      BY <3>1, FolderGoes
    <3>3. [status |-> "Error", gid |-> mon[d].gid, task |-> mon[d].task, sized |-> mon[d].sized] \in RecRows
      BY DEF OffTypeOK, MonRows, RecRows, Statuses
    <3>4. \/ rec' = rec /\ rec[d].status = "deleted"
          \/ /\ rec[d].status # "deleted"
             /\ \E row \in RecRows : /\ rec' = [rec EXCEPT ![d] = row]
                                     /\ row.status \in {"Error", "Canceled", "Unknown"}
                                     /\ row.task = mon[d].task /\ (mon[d].sized => row.sized)
      BY <3>1, <3>3 DEF Saved
    <3> QED BY <2>a, <3>1, <3>2, <3>4, MonitorEnds
  <2>2. CASE ~(mon[d].retried + 1 > MaxRetry)
    <3>1. mon' = [mon EXCEPT ![d] = [mon[d] EXCEPT !.retried = @ + 1]] /\ UNCHANGED <<rec, temp, disturbed>>
      BY <1>5, <2>2 DEF UpdateFails, OffTypeOK, MonRows
    <3>2. [mon[d] EXCEPT !.retried = @ + 1] \in MonRows
      BY RowsTyped DEF MonRows
    <3>3. /\ [mon[d] EXCEPT !.retried = @ + 1].at = "poll" /\ [mon[d] EXCEPT !.retried = @ + 1].task = mon[d].task
          /\ [mon[d] EXCEPT !.retried = @ + 1].sized = mon[d].sized
      BY <2>a DEF OffTypeOK, MonRows
    <3> QED BY <2>a, <3>1, <3>2, <3>3, MonitorGoesOn
  <2> QED BY <2>1, <2>2
<1>6. ASSUME NEW d \in Downloads, Follow(d) PROVE OffIndInv'
  <2>a. /\ UNCHANGED <<adding, aria, temp, transfers, recycle, crashes, twoAdding, gap, disturbed>> /\ mon[d].at = "poll"
        /\ mon' = [mon EXCEPT ![d] = [mon[d] EXCEPT !.retried = 0, !.gid = 2]]
        /\ rec' = Saved(d, rec[d].status, [mon[d] EXCEPT !.gid = 2])
    BY <1>6 DEF Follow, OffTypeOK, MonRows
  <2>b. [mon[d] EXCEPT !.retried = 0, !.gid = 2] \in MonRows
    BY RowsTyped DEF MonRows
  <2>c. /\ [mon[d] EXCEPT !.retried = 0, !.gid = 2].at = "poll" /\ [mon[d] EXCEPT !.retried = 0, !.gid = 2].task = mon[d].task
        /\ [mon[d] EXCEPT !.retried = 0, !.gid = 2].sized = mon[d].sized
    BY <2>a DEF OffTypeOK, MonRows
  <2> DEFINE row == [status |-> rec[d].status, gid |-> 2, task |-> mon[d].task, sized |-> mon[d].sized]
  <2>d. row \in RecRows
    BY DEF OffTypeOK, RecRows, MonRows
  <2>e. rec[d].status # "deleted" => rec' = [rec EXCEPT ![d] = row]
    BY <2>a DEF Saved, OffTypeOK
  <2>f. rec[d].status # "deleted" =>
          /\ row.status \in Underway \cup {"Complete"}
          /\ row.status = "Seeding" => aria[d] \in {"seeding"} \cup Stopped
          /\ row.status = "Complete" => aria[d] \in Stopped
    BY <2>a DEF MonitoredStatus
  <2>g. rec[d].status = "deleted" => rec' = rec
    BY <2>a DEF Saved
  <2>h. row.task = mon[d].task /\ row.sized = mon[d].sized /\ row.status = rec[d].status
    OBVIOUS
  <2> HIDE DEF row
  <2> QED BY <2>a, <2>b, <2>c, <2>d, <2>e, <2>f, <2>g, <2>h, MonitorGoesOn
<1>7. ASSUME NEW d \in Downloads, Update(d) PROVE OffIndInv'
  BY <1>7, UpdatePreserves
<1>8. ASSUME NEW d \in Downloads, transfer(d) PROVE OffIndInv'
  <2> DEFINE n == NextAttempt(d)
  <2>a. /\ UNCHANGED <<adding, rec, aria, temp, recycle, crashes, twoAdding, gap, disturbed>> /\ mon[d].at \in {"complete", "seeding"} /\ mon[d].task = 0
        /\ transfers' = [transfers EXCEPT ![d][n] = "queued"]
        /\ mon' = [mon EXCEPT ![d].at = "submitted", ![d].task = n]
    BY <1>8 DEF transfer
  <2>b. n \in Attempts /\ n <= crashes + 1 /\ transfers[d][n] = "none" /\ n # 0
    BY <2>a, AttemptFound
  <2> HIDE DEF n
  <2>c. mon' \in [Downloads -> MonRows] /\ transfers' \in [Downloads -> [Attempts -> {"none", "queued", "ended"}]]
    BY <2>a, <2>b DEF OffTypeOK, MonRows, Tasks
  <2>d. /\ \A e \in Downloads : e # d => mon'[e] = mon[e] /\ transfers'[e] = transfers[e]
        /\ mon'[d].at = "submitted" /\ mon'[d].task = n /\ mon'[d].sized = mon[d].sized
        /\ \A k \in Attempts : transfers'[d][k] = IF k = n THEN "queued" ELSE transfers[d][k]
        /\ n \in Nat /\ crashes \in Nat /\ Attempts \subseteq Nat
    BY <2>a, <2>b DEF OffTypeOK, Attempts, MonRows
  <2>1. OffTypeOK'
    BY <2>a, <2>b, <2>c, <2>d DEF OffTypeOK, MonRows
  <2>2. Fresh'
    BY <2>a, <2>b, <2>c, <2>d DEF Fresh, OffTypeOK, RecRows, MonRows
  <2>3. FolderWatched'
    BY <2>a, <2>b, <2>c, <2>d DEF FolderWatched, OffTypeOK, RecRows, MonRows, Fresh, RecycledEnded,
      UnderwayIsMonitored
  <2>4. MonitoredStatus'
    BY <2>a, <2>b, <2>c, <2>d DEF MonitoredStatus, OffTypeOK, RecRows, MonRows, Fresh, Underway,
      Stopped
  <2>5. UnderwayIsMonitored'
    BY <2>a, <2>b, <2>c, <2>d DEF UnderwayIsMonitored, OffTypeOK, RecRows, MonRows, MonitoredStatus,
      Fresh, Underway
  <2>6. AttemptLeft'
    BY <2>a, <2>b, <2>c, <2>d DEF AttemptLeft, OffTypeOK, RecRows, MonRows, Fresh
  <2>7. OneTransfer'
    BY <2>a, <2>b, <2>c, <2>d DEF OneTransfer, OffTypeOK, RecRows, MonRows, TransferRemembered
  <2>8. TransferRemembered'
    BY <2>a, <2>b, <2>c, <2>d DEF TransferRemembered, OffTypeOK, RecRows, MonRows, Fresh,
      MonitoredStatus, Underway
  <2>9. RecycledEnded'
    BY <2>a, <2>b, <2>c, <2>d DEF RecycledEnded, OffTypeOK, RecRows, MonRows, Fresh,
      MonitoredStatus, OneTransfer, UnderwayIsMonitored, Underway
  <2>10. SourceKept'
    BY <2>a, <2>b, <2>c, <2>d DEF SourceKept, OffTypeOK, RecRows, MonRows, FolderWatched,
      RecycledEnded, TransferRemembered, MonitoredStatus, Underway
  <2>11. OneAdding'
    BY <2>a, <2>b, <2>c, <2>d DEF OneAdding, OffTypeOK, RecRows, MonRows, AddingOnes
  <2>12. WithinLimit'
    <3>1. CountedSet' \subseteq CountedSet /\ AddingOnes' \subseteq AddingOnes /\ twoAdding' = twoAdding
      BY <2>a, <2>b, <2>c, <2>d DEF CountedSet, AddingOnes, Counted, OffTypeOK, MonitoredStatus,
        Underway, Stopped
    <3> QED BY <3>1, FewerCounted
  <2> QED BY <2>1, <2>2, <2>3, <2>4, <2>5, <2>6, <2>7, <2>8, <2>9, <2>10, <2>11, <2>12
<1>9. ASSUME NEW d \in Downloads, SaveTaskID(d) PROVE OffIndInv'
  <2>a. /\ UNCHANGED <<adding, aria, temp, transfers, recycle, crashes, twoAdding, gap, disturbed>> /\ mon[d].at = "submitted"
        /\ mon' = [mon EXCEPT ![d] = [mon[d] EXCEPT !.at = "poll"]]
        /\ rec' = Saved(d, rec[d].status, mon[d])
    BY <1>9 DEF SaveTaskID, OffTypeOK, MonRows
  <2>b. [mon[d] EXCEPT !.at = "poll"] \in MonRows
    BY RowsTyped DEF MonRows
  <2>c. /\ [mon[d] EXCEPT !.at = "poll"].at = "poll" /\ [mon[d] EXCEPT !.at = "poll"].task = mon[d].task
        /\ [mon[d] EXCEPT !.at = "poll"].sized = mon[d].sized
    BY <2>a DEF OffTypeOK, MonRows
  <2> DEFINE row == [status |-> rec[d].status, gid |-> mon[d].gid, task |-> mon[d].task, sized |-> mon[d].sized]
  <2>d. row \in RecRows
    BY DEF OffTypeOK, RecRows, MonRows
  <2>e. rec[d].status # "deleted" => rec' = [rec EXCEPT ![d] = row]
    BY <2>a DEF Saved, OffTypeOK
  <2>f. rec[d].status # "deleted" =>
          /\ row.status \in Underway \cup {"Complete"}
          /\ row.status = "Seeding" => aria[d] \in {"seeding"} \cup Stopped
          /\ row.status = "Complete" => aria[d] \in Stopped
    BY <2>a DEF MonitoredStatus
  <2>g. rec[d].status = "deleted" => rec' = rec
    BY <2>a DEF Saved
  <2>h. row.task = mon[d].task /\ row.sized = mon[d].sized /\ row.status = rec[d].status
    OBVIOUS
  <2> HIDE DEF row
  <2> QED BY <2>a, <2>b, <2>c, <2>d, <2>e, <2>f, <2>g, <2>h, MonitorGoesOn
<1>10. ASSUME NEW d \in Downloads, Complete(d), mon[d].at = "complete" /\ transfers[d][mon[d].task] = "ended" PROVE OffIndInv'
  <2>a. /\ UNCHANGED <<adding, rec, aria, temp, transfers, crashes, twoAdding, gap, disturbed>>
        /\ mon' = [mon EXCEPT ![d] = NoMonitor] /\ recycle' = [recycle EXCEPT ![d] = "queued"]
        /\ mon[d].at = "complete" /\ mon[d].task # 0 /\ transfers[d][mon[d].task] = "ended"
    BY <1>10 DEF Complete
  <2>b. mon[d].task \in Attempts /\ mon' \in [Downloads -> MonRows] /\ NoMonitor.at = "off" /\ NoMonitor.task = 0
    BY <2>a DEF OffTypeOK, MonRows, Tasks, NoMonitor
  <2>c. /\ \A e \in Downloads : e # d => mon'[e] = mon[e] /\ recycle'[e] = recycle[e]
        /\ mon'[d] = NoMonitor /\ recycle'[d] = "queued"
        /\ rec[d].status \notin Underway \cup {"none"}
    BY <2>a DEF OffTypeOK, MonitoredStatus, Fresh
  <2>1. OffTypeOK'
    BY <2>a, <2>b, <2>c DEF OffTypeOK, MonRows
  <2>2. Fresh'
    BY <2>a, <2>b, <2>c DEF Fresh, OffTypeOK, RecRows, MonRows
  <2>3. FolderWatched'
    BY <2>a, <2>b, <2>c DEF FolderWatched, OffTypeOK, RecRows, MonRows, Fresh, RecycledEnded,
      UnderwayIsMonitored
  <2>4. MonitoredStatus'
    BY <2>a, <2>b, <2>c DEF MonitoredStatus, OffTypeOK, RecRows, MonRows, Fresh, Underway, Stopped
  <2>5. UnderwayIsMonitored'
    BY <2>a, <2>b, <2>c DEF UnderwayIsMonitored, OffTypeOK, RecRows, MonRows, MonitoredStatus,
      Fresh, Underway
  <2>6. AttemptLeft'
    BY <2>a, <2>b, <2>c DEF AttemptLeft, OffTypeOK, RecRows, MonRows, Fresh
  <2>7. OneTransfer'
    BY <2>a, <2>b, <2>c DEF OneTransfer, OffTypeOK, RecRows, MonRows, TransferRemembered
  <2>8. TransferRemembered'
    BY <2>a, <2>b, <2>c DEF TransferRemembered, OffTypeOK, RecRows, MonRows, Fresh, MonitoredStatus,
      Underway
  <2>9. RecycledEnded'
    <3>1. d \notin gap => \A n \in Attempts : transfers[d][n] # "queued"
      <4>1. ASSUME d \notin gap, NEW n \in Attempts, transfers[d][n] = "queued" PROVE FALSE
        <5>1. n = mon[d].task
          BY <2>a, <2>b, <4>1 DEF OneTransfer
        <5> QED BY <2>a, <4>1, <5>1
      <4> QED BY <4>1
    <3>2. NoMonitor.at = "off"
      BY <2>b
    <3> QED BY <2>a, <2>c, <3>1, <3>2 DEF RecycledEnded
  <2>10. SourceKept'
    BY <2>a, <2>b, <2>c DEF SourceKept, OffTypeOK, RecRows, MonRows, FolderWatched, RecycledEnded,
      TransferRemembered, MonitoredStatus, Underway
  <2>11. OneAdding'
    BY <2>a, <2>b, <2>c DEF OneAdding, OffTypeOK, RecRows, MonRows, AddingOnes
  <2>12. WithinLimit'
    <3>1. CountedSet' \subseteq CountedSet /\ AddingOnes' \subseteq AddingOnes /\ twoAdding' = twoAdding
      BY <2>a, <2>b, <2>c DEF CountedSet, AddingOnes, Counted, OffTypeOK, MonitoredStatus, Underway,
        Stopped
    <3> QED BY <3>1, FewerCounted
  <2> QED BY <2>1, <2>2, <2>3, <2>4, <2>5, <2>6, <2>7, <2>8, <2>9, <2>10, <2>11, <2>12
<1>11. ASSUME NEW d \in Downloads, Complete(d), ~(mon[d].at = "complete" /\ transfers[d][mon[d].task] = "ended") PROVE OffIndInv'
  <2>a. /\ UNCHANGED <<adding, rec, aria, temp, transfers, recycle, crashes, twoAdding, gap, disturbed>>
        /\ mon' = [mon EXCEPT ![d] = [mon[d] EXCEPT !.at = "poll"]] /\ mon[d].at \in {"complete", "seeding"}
    BY <1>11 DEF Complete, OffTypeOK, MonRows
  <2>b. [mon[d] EXCEPT !.at = "poll"] \in MonRows
    BY RowsTyped DEF MonRows
  <2>c. /\ [mon[d] EXCEPT !.at = "poll"].at = "poll" /\ [mon[d] EXCEPT !.at = "poll"].task = mon[d].task
        /\ [mon[d] EXCEPT !.at = "poll"].sized = mon[d].sized
    BY <2>a DEF OffTypeOK, MonRows
  <2> QED BY <2>a, <2>b, <2>c, MonitorGoesOn
<1>12. ASSUME NEW d \in Downloads, DeleteDownload(d), rec[d].status \notin Underway PROVE OffIndInv'
  <2>a. /\ UNCHANGED <<adding, mon, aria, temp, transfers, recycle, crashes, twoAdding, gap>>
        /\ rec' = [rec EXCEPT ![d].status = "deleted"] /\ disturbed' = disturbed \cup {d} /\ rec[d].status # "none"
    BY <1>12 DEF DeleteDownload, Disturb
  <2>b. rec' \in [Downloads -> RecRows]
    <3>1. [rec[d] EXCEPT !.status = "deleted"] \in RecRows
      BY RowsTyped DEF RecRows, Statuses
    <3> QED BY <2>a, <3>1 DEF OffTypeOK
  <2>c. /\ \A e \in Downloads : e # d => rec'[e] = rec[e]
        /\ rec'[d].status = "deleted" /\ rec'[d].task = rec[d].task /\ rec'[d].sized = rec[d].sized
    BY <2>a DEF OffTypeOK, RecRows
  <2>1. OffTypeOK'
    BY <2>a, <2>b, <2>c DEF OffTypeOK, RecRows
  <2>2. Fresh'
    BY <2>a, <2>b, <2>c DEF Fresh, OffTypeOK, RecRows, MonRows
  <2>3. FolderWatched'
    BY <2>a, <2>b, <2>c DEF FolderWatched, OffTypeOK, RecRows, MonRows, Fresh, RecycledEnded,
      UnderwayIsMonitored
  <2>4. MonitoredStatus'
    BY <2>a, <2>b, <2>c DEF MonitoredStatus, OffTypeOK, RecRows, MonRows, Fresh, Underway, Stopped
  <2>5. UnderwayIsMonitored'
    BY <2>a, <2>b, <2>c DEF UnderwayIsMonitored, OffTypeOK, RecRows, MonRows, MonitoredStatus,
      Fresh, Underway
  <2>6. AttemptLeft'
    BY <2>a, <2>b, <2>c DEF AttemptLeft, OffTypeOK, RecRows, MonRows, Fresh
  <2>7. OneTransfer'
    BY <2>a, <2>b, <2>c DEF OneTransfer, OffTypeOK, RecRows, MonRows, TransferRemembered
  <2>8. TransferRemembered'
    BY <2>a, <2>b, <2>c DEF TransferRemembered, OffTypeOK, RecRows, MonRows, Fresh, MonitoredStatus,
      Underway
  <2>9. RecycledEnded'
    BY <2>a, <2>b, <2>c DEF RecycledEnded, OffTypeOK, RecRows, MonRows, Fresh, MonitoredStatus,
      OneTransfer, UnderwayIsMonitored, Underway
  <2>10. SourceKept'
    BY <2>a, <2>b, <2>c DEF SourceKept, OffTypeOK, RecRows, MonRows, FolderWatched, RecycledEnded,
      TransferRemembered, MonitoredStatus, Underway
  <2>11. OneAdding'
    BY <2>a, <2>b, <2>c DEF OneAdding, OffTypeOK, RecRows, MonRows, AddingOnes
  <2>12. WithinLimit'
    <3>1. CountedSet' \subseteq CountedSet /\ AddingOnes' \subseteq AddingOnes /\ twoAdding' = twoAdding
      BY <2>a, <2>b, <2>c DEF CountedSet, AddingOnes, Counted, OffTypeOK, MonitoredStatus, Underway,
        Stopped
    <3> QED BY <3>1, FewerCounted
  <2> QED BY <2>1, <2>2, <2>3, <2>4, <2>5, <2>6, <2>7, <2>8, <2>9, <2>10, <2>11, <2>12
<1>13. ASSUME NEW d \in Downloads, DeleteDownload(d), rec[d].status \in Underway PROVE OffIndInv'
  <2>a. /\ UNCHANGED <<adding, rec, mon, temp, transfers, recycle, crashes, twoAdding, gap>>
        /\ aria' = [aria EXCEPT ![d] = "removed"] /\ disturbed' = disturbed \cup {d}
    BY <1>13 DEF DeleteDownload, Disturb
  <2>b. aria' \in [Downloads -> {"none", "waiting", "active", "paused", "seeding"} \cup Stopped] /\ "removed" \in Stopped
    BY <2>a DEF OffTypeOK, Stopped
  <2>1. OffTypeOK'
    BY <2>a, <2>b DEF OffTypeOK, Statuses, Tasks, Underway, Stopped, RecRows, MonRows
  <2>2. Fresh'
    BY <2>a, <2>b DEF Fresh, OffTypeOK, RecRows, MonRows
  <2>3. FolderWatched'
    BY <2>a, <2>b DEF FolderWatched, OffTypeOK, RecRows, MonRows, Fresh, RecycledEnded,
      UnderwayIsMonitored
  <2>4. MonitoredStatus'
    BY <2>a, <2>b DEF MonitoredStatus, OffTypeOK, RecRows, MonRows, Fresh, Underway, Stopped
  <2>5. UnderwayIsMonitored'
    BY <2>a, <2>b DEF UnderwayIsMonitored, OffTypeOK, RecRows, MonRows, MonitoredStatus, Fresh,
      Underway
  <2>6. AttemptLeft'
    BY <2>a, <2>b DEF AttemptLeft, OffTypeOK, RecRows, MonRows, Fresh
  <2>7. OneTransfer'
    BY <2>a, <2>b DEF OneTransfer, OffTypeOK, RecRows, MonRows, TransferRemembered
  <2>8. TransferRemembered'
    BY <2>a, <2>b DEF TransferRemembered, OffTypeOK, RecRows, MonRows, Fresh, MonitoredStatus,
      Underway
  <2>9. RecycledEnded'
    BY <2>a, <2>b DEF RecycledEnded, OffTypeOK, RecRows, MonRows, Fresh, MonitoredStatus,
      OneTransfer, UnderwayIsMonitored, Underway
  <2>10. SourceKept'
    BY <2>a, <2>b DEF SourceKept, OffTypeOK, RecRows, MonRows, FolderWatched, RecycledEnded,
      TransferRemembered, MonitoredStatus, Underway
  <2>11. OneAdding'
    BY <2>a, <2>b DEF OneAdding, OffTypeOK, RecRows, MonRows, AddingOnes
  <2>12. WithinLimit'
    <3>1. CountedSet' \subseteq CountedSet /\ AddingOnes' \subseteq AddingOnes /\ twoAdding' = twoAdding
      BY <2>a, <2>b DEF CountedSet, AddingOnes, Counted, OffTypeOK, MonitoredStatus, Underway,
        Stopped
    <3> QED BY <3>1, FewerCounted
  <2> QED BY <2>1, <2>2, <2>3, <2>4, <2>5, <2>6, <2>7, <2>8, <2>9, <2>10, <2>11, <2>12
<1>14. ASSUME NEW d \in Downloads, NEW n \in Attempts, TransferDo(d, n) PROVE OffIndInv'
  <2>1. OffTypeOK'
    BY <1>14 DEF TransferDo, OffTypeOK, Statuses, Tasks, Underway, Stopped, RecRows, MonRows
  <2>2. Fresh'
    BY <1>14 DEF TransferDo, Fresh, OffTypeOK, RecRows, MonRows
  <2>3. FolderWatched'
    BY <1>14 DEF TransferDo, FolderWatched, OffTypeOK, RecRows, MonRows, Fresh, RecycledEnded,
      UnderwayIsMonitored
  <2>4. MonitoredStatus'
    BY <1>14 DEF TransferDo, MonitoredStatus, OffTypeOK, RecRows, MonRows, Fresh, Underway, Stopped
  <2>5. UnderwayIsMonitored'
    BY <1>14 DEF TransferDo, UnderwayIsMonitored, OffTypeOK, RecRows, MonRows, MonitoredStatus,
      Fresh, Underway
  <2>6. AttemptLeft'
    BY <1>14 DEF TransferDo, AttemptLeft, OffTypeOK, RecRows, MonRows, Fresh
  <2>7. OneTransfer'
    BY <1>14 DEF TransferDo, OneTransfer, OffTypeOK, RecRows, MonRows, TransferRemembered
  <2>8. TransferRemembered'
    BY <1>14 DEF TransferDo, TransferRemembered, OffTypeOK, RecRows, MonRows, Fresh,
      MonitoredStatus, Underway
  <2>9. RecycledEnded'
    BY <1>14 DEF TransferDo, RecycledEnded, OffTypeOK, RecRows, MonRows, Fresh, MonitoredStatus,
      OneTransfer, UnderwayIsMonitored, Underway
  <2>10. SourceKept'
    BY <1>14 DEF TransferDo, SourceKept, OffTypeOK, RecRows, MonRows, FolderWatched, RecycledEnded,
      TransferRemembered, MonitoredStatus, Underway
  <2>11. OneAdding'
    BY <1>14 DEF TransferDo, OneAdding, OffTypeOK, RecRows, MonRows, AddingOnes
  <2>12. WithinLimit'
    <3>1. CountedSet' \subseteq CountedSet /\ AddingOnes' \subseteq AddingOnes /\ twoAdding' = twoAdding
      BY <1>14 DEF TransferDo, CountedSet, AddingOnes, Counted, OffTypeOK, MonitoredStatus,
        Underway, Stopped
    <3> QED BY <3>1, FewerCounted
  <2> QED BY <2>1, <2>2, <2>3, <2>4, <2>5, <2>6, <2>7, <2>8, <2>9, <2>10, <2>11, <2>12
<1>15. ASSUME NEW d \in Downloads, RecycleDo(d) PROVE OffIndInv'
  <2>1. OffTypeOK'
    BY <1>15 DEF RecycleDo, DeleteTempFile, SlaveDeleteTempFails, SlaveDeleteTemp,
      rpcDeleteTempFile, OffTypeOK, Statuses, Tasks, Underway, Stopped, RecRows, MonRows
  <2>2. Fresh'
    BY <1>15 DEF RecycleDo, DeleteTempFile, SlaveDeleteTempFails, SlaveDeleteTemp,
      rpcDeleteTempFile, Fresh, OffTypeOK, RecRows, MonRows
  <2>3. FolderWatched'
    BY <1>15 DEF RecycleDo, DeleteTempFile, SlaveDeleteTempFails, SlaveDeleteTemp,
      rpcDeleteTempFile, FolderWatched, OffTypeOK, RecRows, MonRows, Fresh, RecycledEnded,
      UnderwayIsMonitored
  <2>4. MonitoredStatus'
    BY <1>15 DEF RecycleDo, DeleteTempFile, SlaveDeleteTempFails, SlaveDeleteTemp,
      rpcDeleteTempFile, MonitoredStatus, OffTypeOK, RecRows, MonRows, Fresh, Underway, Stopped
  <2>5. UnderwayIsMonitored'
    BY <1>15 DEF RecycleDo, DeleteTempFile, SlaveDeleteTempFails, SlaveDeleteTemp,
      rpcDeleteTempFile, UnderwayIsMonitored, OffTypeOK, RecRows, MonRows, MonitoredStatus, Fresh,
      Underway
  <2>6. AttemptLeft'
    BY <1>15 DEF RecycleDo, DeleteTempFile, SlaveDeleteTempFails, SlaveDeleteTemp,
      rpcDeleteTempFile, AttemptLeft, OffTypeOK, RecRows, MonRows, Fresh
  <2>7. OneTransfer'
    BY <1>15 DEF RecycleDo, DeleteTempFile, SlaveDeleteTempFails, SlaveDeleteTemp,
      rpcDeleteTempFile, OneTransfer, OffTypeOK, RecRows, MonRows, TransferRemembered
  <2>8. TransferRemembered'
    BY <1>15 DEF RecycleDo, DeleteTempFile, SlaveDeleteTempFails, SlaveDeleteTemp,
      rpcDeleteTempFile, TransferRemembered, OffTypeOK, RecRows, MonRows, Fresh, MonitoredStatus,
      Underway
  <2>9. RecycledEnded'
    BY <1>15 DEF RecycleDo, DeleteTempFile, SlaveDeleteTempFails, SlaveDeleteTemp,
      rpcDeleteTempFile, RecycledEnded, OffTypeOK, RecRows, MonRows, Fresh, MonitoredStatus,
      OneTransfer, UnderwayIsMonitored, Underway
  <2>10. SourceKept'
    BY <1>15 DEF RecycleDo, DeleteTempFile, SlaveDeleteTempFails, SlaveDeleteTemp,
      rpcDeleteTempFile, SourceKept, OffTypeOK, RecRows, MonRows, FolderWatched, RecycledEnded,
      TransferRemembered, MonitoredStatus, Underway
  <2>11. OneAdding'
    BY <1>15 DEF RecycleDo, DeleteTempFile, SlaveDeleteTempFails, SlaveDeleteTemp,
      rpcDeleteTempFile, OneAdding, OffTypeOK, RecRows, MonRows, AddingOnes
  <2>12. WithinLimit'
    <3>1. CountedSet' \subseteq CountedSet /\ AddingOnes' \subseteq AddingOnes /\ twoAdding' = twoAdding
      BY <1>15 DEF RecycleDo,DeleteTempFile, SlaveDeleteTempFails, SlaveDeleteTemp,
        rpcDeleteTempFile, CountedSet, AddingOnes, Counted, OffTypeOK, MonitoredStatus, Underway,
        Stopped
    <3> QED BY <3>1, FewerCounted
  <2> QED BY <2>1, <2>2, <2>3, <2>4, <2>5, <2>6, <2>7, <2>8, <2>9, <2>10, <2>11, <2>12
<1>16. ASSUME NEW d \in Downloads, RemoveAll(d) PROVE OffIndInv'
  <2>1. OffTypeOK'
    BY <1>16 DEF RemoveAll, OffTypeOK, Statuses, Tasks, Underway, Stopped, RecRows, MonRows
  <2>2. Fresh'
    BY <1>16 DEF RemoveAll, Fresh, OffTypeOK, RecRows, MonRows
  <2>3. FolderWatched'
    BY <1>16 DEF RemoveAll, FolderWatched, OffTypeOK, RecRows, MonRows, Fresh, RecycledEnded,
      UnderwayIsMonitored
  <2>4. MonitoredStatus'
    BY <1>16 DEF RemoveAll, MonitoredStatus, OffTypeOK, RecRows, MonRows, Fresh, Underway, Stopped
  <2>5. UnderwayIsMonitored'
    BY <1>16 DEF RemoveAll, UnderwayIsMonitored, OffTypeOK, RecRows, MonRows, MonitoredStatus,
      Fresh, Underway
  <2>6. AttemptLeft'
    BY <1>16 DEF RemoveAll, AttemptLeft, OffTypeOK, RecRows, MonRows, Fresh
  <2>7. OneTransfer'
    BY <1>16 DEF RemoveAll, OneTransfer, OffTypeOK, RecRows, MonRows, TransferRemembered
  <2>8. TransferRemembered'
    BY <1>16 DEF RemoveAll, TransferRemembered, OffTypeOK, RecRows, MonRows, Fresh, MonitoredStatus,
      Underway
  <2>9. RecycledEnded'
    BY <1>16 DEF RemoveAll, RecycledEnded, OffTypeOK, RecRows, MonRows, Fresh, MonitoredStatus,
      OneTransfer, UnderwayIsMonitored, Underway
  <2>10. SourceKept'
    BY <1>16 DEF RemoveAll, SourceKept, OffTypeOK, RecRows, MonRows, FolderWatched, RecycledEnded,
      TransferRemembered, MonitoredStatus, Underway
  <2>11. OneAdding'
    BY <1>16 DEF RemoveAll, OneAdding, OffTypeOK, RecRows, MonRows, AddingOnes
  <2>12. WithinLimit'
    <3>1. CountedSet' \subseteq CountedSet /\ AddingOnes' \subseteq AddingOnes /\ twoAdding' = twoAdding
      BY <1>16 DEF RemoveAll, CountedSet, AddingOnes, Counted, OffTypeOK, MonitoredStatus, Underway,
        Stopped
    <3> QED BY <3>1, FewerCounted
  <2> QED BY <2>1, <2>2, <2>3, <2>4, <2>5, <2>6, <2>7, <2>8, <2>9, <2>10, <2>11, <2>12
<1>17. ASSUME NEW d \in Downloads, AriaGoesOn(d) PROVE OffIndInv'
  <2>a. UNCHANGED <<adding, rec, mon, temp, transfers, recycle, crashes, twoAdding, gap, disturbed>>
    BY <1>17 DEF AriaGoesOn
  <2>b. /\ aria' \in [Downloads -> {"none", "waiting", "active", "paused", "seeding"} \cup Stopped]
        /\ \A e \in Downloads : /\ aria[e] \in Stopped => aria'[e] \in Stopped
                                /\ aria[e] = "seeding" => aria'[e] \in {"seeding"} \cup Stopped
    BY <1>17 DEF AriaGoesOn, OffTypeOK, Stopped
  <2>1. OffTypeOK'
    BY <2>a, <2>b DEF OffTypeOK, Statuses, Tasks, Underway, Stopped, RecRows, MonRows
  <2>2. Fresh'
    BY <2>a, <2>b DEF Fresh, OffTypeOK, RecRows, MonRows
  <2>3. FolderWatched'
    BY <2>a, <2>b DEF FolderWatched, OffTypeOK, RecRows, MonRows, Fresh, RecycledEnded,
      UnderwayIsMonitored
  <2>4. MonitoredStatus'
    BY <2>a, <2>b DEF MonitoredStatus, OffTypeOK, RecRows, MonRows, Fresh, Underway, Stopped
  <2>5. UnderwayIsMonitored'
    BY <2>a, <2>b DEF UnderwayIsMonitored, OffTypeOK, RecRows, MonRows, MonitoredStatus, Fresh,
      Underway
  <2>6. AttemptLeft'
    BY <2>a, <2>b DEF AttemptLeft, OffTypeOK, RecRows, MonRows, Fresh
  <2>7. OneTransfer'
    BY <2>a, <2>b DEF OneTransfer, OffTypeOK, RecRows, MonRows, TransferRemembered
  <2>8. TransferRemembered'
    BY <2>a, <2>b DEF TransferRemembered, OffTypeOK, RecRows, MonRows, Fresh, MonitoredStatus,
      Underway
  <2>9. RecycledEnded'
    BY <2>a, <2>b DEF RecycledEnded, OffTypeOK, RecRows, MonRows, Fresh, MonitoredStatus,
      OneTransfer, UnderwayIsMonitored, Underway
  <2>10. SourceKept'
    BY <2>a, <2>b DEF SourceKept, OffTypeOK, RecRows, MonRows, FolderWatched, RecycledEnded,
      TransferRemembered, MonitoredStatus, Underway
  <2>11. OneAdding'
    BY <2>a, <2>b DEF OneAdding, OffTypeOK, RecRows, MonRows, AddingOnes
  <2>12. WithinLimit'
    <3>1. CountedSet' \subseteq CountedSet /\ AddingOnes' \subseteq AddingOnes /\ twoAdding' = twoAdding
      BY <2>a, <2>b DEF CountedSet, AddingOnes, Counted, OffTypeOK, MonitoredStatus, Underway,
        Stopped
    <3> QED BY <3>1, FewerCounted
  <2> QED BY <2>1, <2>2, <2>3, <2>4, <2>5, <2>6, <2>7, <2>8, <2>9, <2>10, <2>11, <2>12
<1>18. ASSUME Outage PROVE OffIndInv'
  <2>1. OffTypeOK'
    BY <1>18 DEF Outage, OffTypeOK, Statuses, Tasks, Underway, Stopped, RecRows, MonRows
  <2>2. Fresh'
    BY <1>18 DEF Outage, Fresh, OffTypeOK, RecRows, MonRows
  <2>3. FolderWatched'
    BY <1>18 DEF Outage, FolderWatched, OffTypeOK, RecRows, MonRows, Fresh, RecycledEnded,
      UnderwayIsMonitored
  <2>4. MonitoredStatus'
    BY <1>18 DEF Outage, MonitoredStatus, OffTypeOK, RecRows, MonRows, Fresh, Underway, Stopped
  <2>5. UnderwayIsMonitored'
    BY <1>18 DEF Outage, UnderwayIsMonitored, OffTypeOK, RecRows, MonRows, MonitoredStatus, Fresh,
      Underway
  <2>6. AttemptLeft'
    BY <1>18 DEF Outage, AttemptLeft, OffTypeOK, RecRows, MonRows, Fresh
  <2>7. OneTransfer'
    BY <1>18 DEF Outage, OneTransfer, OffTypeOK, RecRows, MonRows, TransferRemembered
  <2>8. TransferRemembered'
    BY <1>18 DEF Outage, TransferRemembered, OffTypeOK, RecRows, MonRows, Fresh, MonitoredStatus,
      Underway
  <2>9. RecycledEnded'
    BY <1>18 DEF Outage, RecycledEnded, OffTypeOK, RecRows, MonRows, Fresh, MonitoredStatus,
      OneTransfer, UnderwayIsMonitored, Underway
  <2>10. SourceKept'
    BY <1>18 DEF Outage, SourceKept, OffTypeOK, RecRows, MonRows, FolderWatched, RecycledEnded,
      TransferRemembered, MonitoredStatus, Underway
  <2>11. OneAdding'
    BY <1>18 DEF Outage, OneAdding, OffTypeOK, RecRows, MonRows, AddingOnes
  <2>12. WithinLimit'
    <3>1. CountedSet' \subseteq CountedSet /\ AddingOnes' \subseteq AddingOnes /\ twoAdding' = twoAdding
      BY <1>18 DEF Outage, CountedSet, AddingOnes, Counted, OffTypeOK, MonitoredStatus, Underway,
        Stopped
    <3> QED BY <3>1, FewerCounted
  <2> QED BY <2>1, <2>2, <2>3, <2>4, <2>5, <2>6, <2>7, <2>8, <2>9, <2>10, <2>11, <2>12
<1>19. ASSUME Crash PROVE OffIndInv'
  <2>a. /\ UNCHANGED <<aria, transfers, recycle, twoAdding, disturbed>> /\ crashes' = crashes + 1 /\ crashes' \in 0 .. MaxCrashes
        /\ adding' = [e \in Downloads |-> "no"]
        /\ gap' = gap \cup {e \in Downloads : mon[e].at = "submitted"}
        /\ temp' = [e \in Downloads |-> IF temp[e] = "doomed" /\ nodeOf[e] = "master" THEN "present" ELSE temp[e]]
    BY <1>19, OfflineAssumption DEF Crash, OffTypeOK
  <2>b. /\ mon' \in [Downloads -> MonRows] /\ rec' \in [Downloads -> RecRows]
    <3>1. ASSUME NEW e \in Downloads PROVE mon'[e] \in MonRows /\ rec'[e] \in RecRows
      BY <1>19 DEF Crash, Aria2Init, OffTypeOK, MonRows, RecRows, NoMonitor, Tasks, Statuses
    <3>2. mon' = [e \in Downloads |-> mon'[e]] /\ rec' = [e \in Downloads |-> rec'[e]]
      BY <1>19 DEF Crash, Aria2Init
    <3> QED BY <3>1, <3>2
  <2>c. \A e \in Downloads :
          /\ IF Resumed(e) THEN mon'[e].at = "poll" /\ mon'[e].task = rec[e].task /\ mon'[e].sized = rec[e].sized
                           ELSE mon'[e].at = "off"
          /\ rec'[e].task = rec[e].task /\ rec'[e].sized = rec[e].sized
          /\ rec'[e].status = IF rec[e].status \in Underway /\ ~Resumed(e) THEN "Error" ELSE rec[e].status
          /\ Resumed(e) => rec[e].status \in Underway /\ mon[e].at # "off"
    <3> SUFFICES ASSUME NEW e \in Downloads
                 PROVE  /\ IF Resumed(e) THEN mon'[e].at = "poll" /\ mon'[e].task = rec[e].task /\ mon'[e].sized = rec[e].sized
                                         ELSE mon'[e].at = "off"
                        /\ rec'[e].task = rec[e].task /\ rec'[e].sized = rec[e].sized
                        /\ rec'[e].status = IF rec[e].status \in Underway /\ ~Resumed(e) THEN "Error" ELSE rec[e].status
                        /\ Resumed(e) => rec[e].status \in Underway /\ mon[e].at # "off"
      OBVIOUS
    <3>1. Resumed(e) => rec[e].status \in Underway /\ mon[e].at # "off"
      BY DEF Resumed, UnderwayIsMonitored
    <3>2. CASE Resumed(e)
      BY <1>19, <3>1, <3>2 DEF Crash, Aria2Init
    <3>3. CASE ~Resumed(e)
      <4>1. rec[e] \in RecRows
        BY RowsTyped
      <4> QED BY <1>19, <3>3, <4>1 DEF Crash, Aria2Init, NoMonitor, RecRows
    <3> QED BY <3>1, <3>2, <3>3
  <2> HIDE DEF Resumed
  <2>1. OffTypeOK'
    BY <2>a, <2>b, <2>c DEF OffTypeOK, MonRows, RecRows
  <2>2. Fresh'
    BY <2>a, <2>b, <2>c DEF Fresh, OffTypeOK, RecRows, MonRows
  <2>3. FolderWatched'
    BY <2>a, <2>b, <2>c DEF FolderWatched, OffTypeOK, RecRows, MonRows, Fresh, RecycledEnded,
      UnderwayIsMonitored
  <2>4. MonitoredStatus'
    BY <2>a, <2>b, <2>c DEF MonitoredStatus, OffTypeOK, RecRows, MonRows, Fresh, Underway, Stopped
  <2>5. UnderwayIsMonitored'
    BY <2>a, <2>b, <2>c DEF UnderwayIsMonitored, OffTypeOK, RecRows, MonRows, MonitoredStatus,
      Fresh, Underway
  <2>6. AttemptLeft'
    <3>1. crashes + 2 \in Attempts /\ Attempts \subseteq Nat /\ crashes \in Nat
      BY <2>a, OfflineAssumption DEF OffTypeOK, Attempts
    <3> QED BY <2>a, <2>c, <3>1 DEF AttemptLeft
  <2>7. OneTransfer'
    BY <2>a, <2>b, <2>c DEF OneTransfer, OffTypeOK, RecRows, MonRows, TransferRemembered
  <2>8. TransferRemembered'
    <3> SUFFICES ASSUME NEW e \in Downloads, e \notin gap'
                 PROVE  /\ mon'[e].at \notin {"complete", "seeding", "submitted"}
                        /\ (\E n \in Attempts : transfers[e][n] # "none") =>
                             /\ mon'[e].at = "off" \/ (mon'[e].task # 0 /\ mon'[e].sized)
                             /\ rec'[e].task # 0 \/ rec'[e].status = "deleted"
                             /\ rec'[e].sized \/ rec'[e].status = "deleted"
      BY <2>a DEF TransferRemembered
    <3>1. e \notin gap /\ mon[e].at # "submitted"
      BY <2>a
    <3>2. mon'[e].at \notin {"complete", "seeding", "submitted"}
      BY <2>c
    <3>3. ASSUME \E n \in Attempts : transfers[e][n] # "none" PROVE (rec[e].task # 0 \/ rec[e].status = "deleted") /\ (rec[e].sized \/ rec[e].status = "deleted")
      BY <3>1, <3>3 DEF TransferRemembered
    <3>4. "deleted" \notin Underway
      BY DEF Underway
    <3> QED BY <2>c, <3>2, <3>3, <3>4
  <2>9. RecycledEnded'
    BY <2>a, <2>b, <2>c DEF RecycledEnded, OffTypeOK, RecRows, MonRows, Fresh, MonitoredStatus,
      OneTransfer, UnderwayIsMonitored, Underway
  <2>10. SourceKept'
    BY <2>a, <2>b, <2>c DEF SourceKept, OffTypeOK, RecRows, MonRows, FolderWatched, RecycledEnded,
      TransferRemembered, MonitoredStatus, Underway
  <2>11. OneAdding'
    BY <2>a, <2>b, <2>c DEF OneAdding, OffTypeOK, RecRows, MonRows, AddingOnes
  <2>12. WithinLimit'
    <3>1. CountedSet' \subseteq CountedSet /\ AddingOnes' \subseteq AddingOnes /\ twoAdding' = twoAdding
      BY <2>a, <2>b, <2>c DEF CountedSet, AddingOnes, Counted, OffTypeOK, MonitoredStatus, Underway,
        Stopped
    <3> QED BY <3>1, FewerCounted
  <2> QED BY <2>1, <2>2, <2>3, <2>4, <2>5, <2>6, <2>7, <2>8, <2>9, <2>10, <2>11, <2>12
<1>20. ASSUME SlaveLeavesPool PROVE OffIndInv'
  <2>1. OffTypeOK'
    BY <1>20 DEF SlaveLeavesPool, OffTypeOK, Statuses, Tasks, Underway, Stopped, RecRows, MonRows
  <2>2. Fresh'
    BY <1>20 DEF SlaveLeavesPool, Fresh, OffTypeOK, RecRows, MonRows
  <2>3. FolderWatched'
    BY <1>20 DEF SlaveLeavesPool, FolderWatched, OffTypeOK, RecRows, MonRows, Fresh, RecycledEnded,
      UnderwayIsMonitored
  <2>4. MonitoredStatus'
    BY <1>20 DEF SlaveLeavesPool, MonitoredStatus, OffTypeOK, RecRows, MonRows, Fresh, Underway,
      Stopped
  <2>5. UnderwayIsMonitored'
    BY <1>20 DEF SlaveLeavesPool, UnderwayIsMonitored, OffTypeOK, RecRows, MonRows, MonitoredStatus,
      Fresh, Underway
  <2>6. AttemptLeft'
    BY <1>20 DEF SlaveLeavesPool, AttemptLeft, OffTypeOK, RecRows, MonRows, Fresh
  <2>7. OneTransfer'
    BY <1>20 DEF SlaveLeavesPool, OneTransfer, OffTypeOK, RecRows, MonRows, TransferRemembered
  <2>8. TransferRemembered'
    BY <1>20 DEF SlaveLeavesPool, TransferRemembered, OffTypeOK, RecRows, MonRows, Fresh,
      MonitoredStatus, Underway
  <2>9. RecycledEnded'
    BY <1>20 DEF SlaveLeavesPool, RecycledEnded, OffTypeOK, RecRows, MonRows, Fresh,
      MonitoredStatus, OneTransfer, UnderwayIsMonitored, Underway
  <2>10. SourceKept'
    BY <1>20 DEF SlaveLeavesPool, SourceKept, OffTypeOK, RecRows, MonRows, FolderWatched,
      RecycledEnded, TransferRemembered, MonitoredStatus, Underway
  <2>11. OneAdding'
    BY <1>20 DEF SlaveLeavesPool, OneAdding, OffTypeOK, RecRows, MonRows, AddingOnes
  <2>12. WithinLimit'
    <3>1. CountedSet' \subseteq CountedSet /\ AddingOnes' \subseteq AddingOnes /\ twoAdding' = twoAdding
      BY <1>20 DEF SlaveLeavesPool, CountedSet, AddingOnes, Counted, OffTypeOK, MonitoredStatus,
        Underway, Stopped
    <3> QED BY <3>1, FewerCounted
  <2> QED BY <2>1, <2>2, <2>3, <2>4, <2>5, <2>6, <2>7, <2>8, <2>9, <2>10, <2>11, <2>12
<1>21. ASSUME NEW n \in Nodes, Recovers(n) PROVE OffIndInv'
  <2>1. OffTypeOK'
    BY <1>21 DEF Recovers, OffTypeOK, Statuses, Tasks, Underway, Stopped, RecRows, MonRows
  <2>2. Fresh'
    BY <1>21 DEF Recovers, Fresh, OffTypeOK, RecRows, MonRows
  <2>3. FolderWatched'
    BY <1>21 DEF Recovers, FolderWatched, OffTypeOK, RecRows, MonRows, Fresh, RecycledEnded,
      UnderwayIsMonitored
  <2>4. MonitoredStatus'
    BY <1>21 DEF Recovers, MonitoredStatus, OffTypeOK, RecRows, MonRows, Fresh, Underway, Stopped
  <2>5. UnderwayIsMonitored'
    BY <1>21 DEF Recovers, UnderwayIsMonitored, OffTypeOK, RecRows, MonRows, MonitoredStatus, Fresh,
      Underway
  <2>6. AttemptLeft'
    BY <1>21 DEF Recovers, AttemptLeft, OffTypeOK, RecRows, MonRows, Fresh
  <2>7. OneTransfer'
    BY <1>21 DEF Recovers, OneTransfer, OffTypeOK, RecRows, MonRows, TransferRemembered
  <2>8. TransferRemembered'
    BY <1>21 DEF Recovers, TransferRemembered, OffTypeOK, RecRows, MonRows, Fresh, MonitoredStatus,
      Underway
  <2>9. RecycledEnded'
    BY <1>21 DEF Recovers, RecycledEnded, OffTypeOK, RecRows, MonRows, Fresh, MonitoredStatus,
      OneTransfer, UnderwayIsMonitored, Underway
  <2>10. SourceKept'
    BY <1>21 DEF Recovers, SourceKept, OffTypeOK, RecRows, MonRows, FolderWatched, RecycledEnded,
      TransferRemembered, MonitoredStatus, Underway
  <2>11. OneAdding'
    BY <1>21 DEF Recovers, OneAdding, OffTypeOK, RecRows, MonRows, AddingOnes
  <2>12. WithinLimit'
    <3>1. CountedSet' \subseteq CountedSet /\ AddingOnes' \subseteq AddingOnes /\ twoAdding' = twoAdding
      BY <1>21 DEF Recovers, CountedSet, AddingOnes, Counted, OffTypeOK, MonitoredStatus, Underway,
        Stopped
    <3> QED BY <3>1, FewerCounted
  <2> QED BY <2>1, <2>2, <2>3, <2>4, <2>5, <2>6, <2>7, <2>8, <2>9, <2>10, <2>11, <2>12
<1>22. CASE UNCHANGED offVars
  <2>1. OffTypeOK'
    BY <1>22 DEF offVars, OffTypeOK
  <2>2. Fresh'
    BY <1>22 DEF offVars, Fresh
  <2>3. FolderWatched'
    BY <1>22 DEF offVars, FolderWatched
  <2>4. MonitoredStatus'
    BY <1>22 DEF offVars, MonitoredStatus
  <2>5. UnderwayIsMonitored'
    BY <1>22 DEF offVars, UnderwayIsMonitored
  <2>6. AttemptLeft'
    BY <1>22 DEF offVars, AttemptLeft
  <2>7. OneTransfer'
    BY <1>22 DEF offVars, OneTransfer
  <2>8. TransferRemembered'
    BY <1>22 DEF offVars, TransferRemembered
  <2>9. RecycledEnded'
    BY <1>22 DEF offVars, RecycledEnded
  <2>10. SourceKept'
    BY <1>22 DEF offVars, SourceKept
  <2>11. OneAdding'
    BY <1>22 DEF offVars, OneAdding, AddingOnes
  <2>12. WithinLimit'
    BY <1>22 DEF offVars, WithinLimit, AddingOnes, CountedSet
  <2> QED BY <2>1, <2>2, <2>3, <2>4, <2>5, <2>6, <2>7, <2>8, <2>9, <2>10, <2>11, <2>12
<1> QED BY <1>1, <1>2, <1>3, <1>4, <1>5, <1>6, <1>7, <1>8, <1>9, <1>10, <1>11, <1>12, <1>13, <1>14,
        <1>15, <1>16, <1>17, <1>18, <1>19, <1>20, <1>21, <1>22 DEF OffNext, MonitorStep

\* It holds before the first download.
LEMMA OffInitInv == OffInit => OffIndInv
<1> SUFFICES ASSUME OffInit PROVE OffIndInv
  OBVIOUS
<1>1. OffTypeOK
  <2>1. NoRecord \in RecRows /\ NoMonitor \in MonRows
    BY DEF NoRecord, NoMonitor, RecRows, MonRows, Tasks, Statuses
  <2>2. crashes \in 0 .. MaxCrashes
    BY OfflineAssumption DEF OffInit
  <2> QED BY <2>1, <2>2 DEF OffInit, OffTypeOK
<1>2. /\ \A d \in Downloads : /\ rec[d].status = "none" /\ mon[d].at = "off" /\ adding[d] = "no" /\ recycle[d] = "none"
                              /\ \A n \in Attempts : transfers[d][n] = "none"
  BY DEF OffInit, NoRecord, NoMonitor
<1>3. Fresh /\ FolderWatched /\ MonitoredStatus /\ UnderwayIsMonitored
  BY <1>2 DEF Fresh, FolderWatched, MonitoredStatus, UnderwayIsMonitored, Underway
<1>4. AttemptLeft /\ OneTransfer /\ TransferRemembered /\ RecycledEnded /\ SourceKept
  BY <1>2 DEF AttemptLeft, OneTransfer, TransferRemembered, RecycledEnded, SourceKept
<1>5. CountedSet = {} /\ AddingOnes = {}
  BY <1>2 DEF CountedSet, AddingOnes, Counted
<1>6. OneAdding /\ WithinLimit
  BY <1>5, FS_EmptySet, OfflineAssumption DEF OneAdding, WithinLimit
<1> QED BY <1>1, <1>3, <1>4, <1>6 DEF OffIndInv

\* It implies what the run checks.
LEMMA OffIndInvImplies == OffIndInv => UnderwayIsMonitored /\ DownloadInv
<1> SUFFICES ASSUME OffIndInv PROVE TransferredOnce /\ LimitKept
  BY DEF OffIndInv, DownloadInv
<1>1. ASSUME NEW d \in Downloads, d \notin gap PROVE ~(Cardinality({n \in Attempts : transfers[d][n] # "none"}) > 1)
  <2> DEFINE S == {n \in Attempts : transfers[d][n] # "none"}
  <2>1. CASE S = {}
    BY <2>1, FS_EmptySet
  <2>2. CASE S # {}
    <3>1. PICK n \in S : TRUE
      BY <2>2
    <3>2. S = {n}
      BY <1>1, <3>1 DEF OffIndInv, OneTransfer
    <3> QED BY <3>2, FS_Singleton
  <2> QED BY <2>1, <2>2
<1>2. TransferredOnce
  BY <1>1 DEF TransferredOnce
<1>3. ~twoAdding => Cardinality(CountedSet) <= Limit
  <2>1. Cardinality(CountedSet) \in Nat
    BY FS_CardinalityType DEF OffIndInv, WithinLimit
  <2> QED BY <2>1, OfflineAssumption DEF OffIndInv, WithinLimit
<1>4. LimitKept
  <2>1. Cardinality(CountedSet) \in Nat
    BY FS_CardinalityType DEF OffIndInv, WithinLimit
  <2> QED BY <1>3, <2>1, OfflineAssumption DEF LimitKept, CountedSet
<1> QED BY <1>2, <1>4

\* No download is forgotten: a record that says that it is under way has a
\* monitor, after any number of restarts and whatever ended the monitor before
\* (aria2.Init, NewMonitor, Monitor.Update): for every set of downloads, every
\* limit and every number of restarts.
THEOREM DownloadsMonitored == OffSpec => []UnderwayIsMonitored
<1>1. OffInit => OffIndInv
  BY OffInitInv
<1>2. OffIndInv /\ [OffNext]_offVars => OffIndInv'
  BY OffStep
<1>3. OffIndInv => UnderwayIsMonitored
  BY OffIndInvImplies
<1> QED BY <1>1, <1>2, <1>3, PTL DEF OffSpec

\* The files of a finished download are not removed before their transfer
\* ended, a download is transferred once unless a restart fell into the gap
\* between submission and save, and a group stays within its limit unless two
\* requests overlapped (Complete, RemoveTempFolder, recycle, CreateTask): for
\* every set of downloads, every limit and every number of restarts.
THEOREM DownloadsHold == OffSpec => []DownloadInv
<1>1. OffInit => OffIndInv
  BY OffInitInv
<1>2. OffIndInv /\ [OffNext]_offVars => OffIndInv'
  BY OffStep
<1>3. OffIndInv => DownloadInv
  BY OffIndInvImplies
<1> QED BY <1>1, <1>2, <1>3, PTL DEF OffSpec
=============================================================================
