---------------------------- MODULE MCCallbacks -----------------------------
(***************************************************************************)
(* Work that outlives the request that began it, each kind on its own:     *)
(* uploads that end with the callback of a vendor or a slave, thumbnails,  *)
(* and mail.  A behaviour is one of the part its initial state chooses.    *)
(***************************************************************************)
EXTENDS CallbackUpload, Thumbnails, MailQueue

VARIABLE part

(* The parts that a behaviour is not about start in one state.             *)
MCInit ==
    /\ part \in {"callbacks", "thumbnails", "mail"}
    /\ CallbackInit /\ ThumbInit /\ MailInit
    /\ part # "callbacks" => Is("oss") /\ object = Nothing

CallbackPart(A) == part = "callbacks" /\ A /\ UNCHANGED <<part, thumbVars, mailVars>>
ThumbPart(A) == part = "thumbnails" /\ A /\ UNCHANGED <<part, callbackVars, mailVars>>
MailPart(A) == part = "mail" /\ A /\ UNCHANGED <<part, callbackVars, thumbVars>>

MCNext == CallbackPart(CallbackNext) \/ ThumbPart(ThumbNext) \/ MailPart(MailNext)

mcVars == <<part, callbackVars, thumbVars, mailVars>>

(* The fairness of the part that the behaviour is one of.                  *)
MCFairness ==
    /\ WF_mcVars(CallbackPart(CacheSession)) /\ WF_mcVars(CallbackPart(SessionExpires))
    /\ WF_mcVars(CallbackPart(uploadSessionCollect)) /\ WF_mcVars(CallbackPart(FindSessions))
    /\ WF_mcVars(CallbackPart(CancelUpload)) /\ WF_mcVars(CallbackPart(DeleteObject))
    /\ WF_mcVars(CallbackPart(DeleteFiles)) /\ WF_mcVars(CallbackPart(VendorExpires))
    /\ WF_mcVars(CallbackPart(MonitorTold \/ MonitorCheck \/ MonitorDeletes))
    /\ WF_mcVars(ThumbPart(\E g \in Makers : MakerStep(g)) \/ MailPart(MailStep))

MCSpec == MCInit /\ [][MCNext]_mcVars /\ MCFairness
=============================================================================
