----------------------------- MODULE MCBrowser -----------------------------
(***************************************************************************)
(* The two parts of the browser in which something must come to an end,    *)
(* for TLC: the popups of a page and the sessions of the tabs have no      *)
(* state in common, so one configuration checks both, and in a behaviour   *)
(* one runs while the other stays where it starts. Fairness is that of the *)
(* part that runs.                                                         *)
(***************************************************************************)
EXTENDS PagePopups, SessionTabs

VARIABLE part

mcVars == <<part, popupVars, vars>>

MCInit ==
  /\ part \in {"popups", "sessions"}
  /\ PopupInit /\ Init

MCNext ==
  /\ UNCHANGED part
  /\ \/ /\ part = "popups" /\ PopupNext
        /\ UNCHANGED vars
     \/ /\ part = "sessions" /\ Next
        /\ UNCHANGED popupVars

MCFairness ==
  /\ WF_popupVars(part = "popups" /\ ImportEnds)
  /\ WF_popupVars(part = "popups" /\ RunCall)
  /\ WF_popupVars(part = "popups" /\ CallRejected)
  /\ \A m \in Modals : SF_popupVars(part = "popups" /\ ModalShown(m)) /\ SF_popupVars(part = "popups" /\ ModalHidden(m))
  /\ \A t \in Tabs :
       /\ WF_vars(part = "sessions" /\ TimerFires(t)) /\ WF_vars(part = "sessions" /\ NoticeEnd(t))
       /\ WF_vars(part = "sessions" /\ NoticeBegin(t)) /\ WF_vars(part = "sessions" /\ LeavesUnasked(t))

MCSpec == MCInit /\ [][MCNext]_mcVars /\ MCFairness
=============================================================================
