---------------------------- MODULE MCBackground ----------------------------
(***************************************************************************)
(* Background tasks and stream uploads, each on its own.  A behaviour is   *)
(* one of the part that its initial state chooses.                         *)
(***************************************************************************)
EXTENDS BackgroundTasks, StreamUpload

VARIABLE part

(* The part that a behaviour is not about starts in one state.             *)
MCInit ==
    /\ part \in {"tasks", "streams"}
    /\ TasksInit /\ StreamInit
    /\ part # "streams" => used = MaxLength

TaskPart(A) == part = "tasks" /\ A /\ UNCHANGED <<part, streamVars>>
StreamPart(A) == part = "streams" /\ A /\ UNCHANGED <<part, taskVars>>

MCNext == TaskPart(TasksNext) \/ StreamPart(StreamNext)

mcVars == <<part, taskVars, streamVars>>

(* The workers run; nothing is asked of the requests of a stream.          *)
MCFairness ==
    \A t \in Tasks : WF_mcVars(TaskPart(JobStep(t)))

MCSpec == MCInit /\ [][MCNext]_mcVars /\ MCFairness
=============================================================================
