-------------------------- MODULE MCShadowFeedback --------------------------
(***************************************************************************)
(* The shadow daemon and the feedback tracker: parts of an installation    *)
(* that share nothing.  A behaviour is of the one or of the other.         *)
(***************************************************************************)
EXTENDS ShadowIngest, FeedbackTracker

MCRows == {[id |-> 1, submit_ts |-> 0], [id |-> 2, submit_ts |-> 1], [id |-> 3, submit_ts |-> 1]}
MCWarning == [num |-> 7, den |-> 10]
MCCritical == [num |-> 5, den |-> 10]

(* The other part, with nothing left to do.                                *)
ShadowOff ==
  /\ source = Rows /\ watermark = Missing /\ datasets = <<>>
  /\ loops = [l \in Loops |-> "ended"] /\ poll = NoPoll
  /\ stop_event = TRUE /\ daemon = "off"
  /\ failures = 0 /\ crashes = 0 /\ torn = FALSE

FeedbackOff ==
  /\ records = <<>> /\ lines = <<>> /\ exported = NoReport
  /\ observed = <<>> /\ saved = <<>> /\ cut = {} /\ made = MaxObserved

Init ==
  \/ ShadowInit /\ FeedbackOff
  \/ ShadowOff /\ FeedbackInit

Next ==
  \/ ShadowNext /\ UNCHANGED feedbackVars
  \/ FeedbackNext /\ UNCHANGED shadowVars

Spec == Init /\ [][Next]_<<shadowVars, feedbackVars>> /\ ShadowFairness
=============================================================================
