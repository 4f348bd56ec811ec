------------------------------ MODULE Aria2RPC ------------------------------
(***************************************************************************)
(* The JSON-RPC client of aria2 over a websocket: callers put requests in  *)
(* a bounded channel, one routine sends them, one receives answers and     *)
(* hands each to the callback kept under its ID.                           *)
(***************************************************************************)
EXTENDS Integers, Sequences

CONSTANTS
    Calls,          \* calls of Call, each with its own ID from reqid
    ChanSize        \* size of sendChan

ASSUME RPCAssumption == ChanSize \in Nat \ {0}

VARIABLES
    call,           \* each call: its place or its result
    reply,          \* what was decoded into its reply
    sendChan,
    cbs,            \* IDs that have a callback in the ResponseProcessor
    asked, answers, \* external: requests at aria2, its answers on their way
    conn,           \* the connection is open
    recv, send      \* the routine runs

rpcVars == <<call, reply, sendChan, cbs, asked, answers, conn, recv, send>>

RPCInit ==
    /\ call = [c \in Calls |-> "idle"] /\ reply = [c \in Calls |-> "empty"]
    /\ sendChan = <<>> /\ cbs = {} /\ asked = {} /\ answers = {}
    /\ conn = TRUE /\ recv = TRUE /\ send = TRUE

(* websocketCaller.Call does not wait for room in the channel.             *)
Call(c) ==
    /\ call[c] = "idle"
    /\ IF Len(sendChan) < ChanSize
       THEN sendChan' = Append(sendChan, c) /\ call' = [call EXCEPT ![c] = "waiting"]
       ELSE call' = [call EXCEPT ![c] = "blocked"] /\ UNCHANGED sendChan
    /\ UNCHANGED <<reply, cbs, asked, answers, conn, recv, send>>

CallTimeout(c) ==
    /\ call[c] = "waiting" /\ call' = [call EXCEPT ![c] = "timeout"]
    /\ UNCHANGED <<reply, sendChan, cbs, asked, answers, conn, recv, send>>

(* The sending routine: the callback first, then the request; an error of  *)
(* the write is dropped.  Cancelled, it may still take another request.    *)
MutSend ==
    /\ send /\ sendChan # <<>>
    /\ cbs' = IF conn /\ recv THEN {Head(sendChan)} ELSE cbs
    /\ sendChan' = Tail(sendChan)
    /\ asked' = IF conn THEN asked \cup {Head(sendChan)} ELSE asked
    /\ UNCHANGED <<call, reply, answers, conn, recv, send>>
Send ==
    /\ send /\ sendChan # <<>>
    /\ cbs' = cbs \cup {Head(sendChan)}
    /\ sendChan' = Tail(sendChan)
    /\ asked' = IF conn THEN asked \cup {Head(sendChan)} ELSE asked
    /\ UNCHANGED <<call, reply, answers, conn, recv, send>>
SendEnds ==
    /\ send /\ ~recv /\ send' = FALSE /\ conn' = FALSE
    /\ UNCHANGED <<call, reply, sendChan, cbs, asked, answers, recv>>

Aria2Answers(c, result) ==
    /\ conn /\ c \in asked /\ asked' = asked \ {c}
    /\ answers' = answers \cup {[id |-> c, result |-> result]}
    /\ UNCHANGED <<call, reply, sendChan, cbs, conn, recv, send>>

(* Process: the answer is decoded into the reply and the call is released; *)
(* what decode says of an error goes no further.                           *)
Process(a) ==
    /\ recv /\ conn /\ a \in answers /\ answers' = answers \ {a}
    /\ a.id \in cbs /\ cbs' = cbs \ {a.id}
    /\ reply' = [reply EXCEPT ![a.id] = IF a.result THEN a.id ELSE @]
    /\ call' = [call EXCEPT ![a.id] = IF @ = "waiting" THEN "returned" ELSE @]
    /\ UNCHANGED <<sendChan, asked, conn, recv, send>>

ConnBreaks ==
    /\ conn /\ conn' = FALSE /\ answers' = {} /\ asked' = {}
    /\ UNCHANGED <<call, reply, sendChan, cbs, recv, send>>
RecvEnds ==
    /\ recv /\ ~conn /\ recv' = FALSE
    /\ UNCHANGED <<call, reply, sendChan, cbs, asked, answers, conn, send>>

RPCNext ==
    \/ \E c \in Calls : Call(c) \/ CallTimeout(c) \/ \E result \in BOOLEAN : Aria2Answers(c, result)
    \/ Send \/ SendEnds \/ ConnBreaks \/ RecvEnds
    \/ \E a \in answers : Process(a)

RPCSpec == RPCInit /\ [][RPCNext]_rpcVars

-----------------------------------------------------------------------------
(* A call gets the answer of its own request and no other, in whatever     *)
(* order aria2 answers and however late (ResponseProcessor.Process).       *)
OwnAnswer == \A c \in Calls : reply[c] \in {"empty", c}

(* Whatever aria2 answers finds the callback of its request, so that no    *)
(* caller waits for its time limit while its answer is thrown away: the    *)
(* callback is there before the request leaves, and one call's end does    *)
(* not take another's (routine send, ResponseProcessor.remove).            *)
AnswersClaimed == \A a \in answers : a.id \in cbs

(* What the two routines of the client keep: every answer finds the call   *)
(* that waits for it (websocketCaller, ResponseProcessor).                 *)
RPCInv == OwnAnswer /\ AnswersClaimed
=============================================================================
