----------------------------- MODULE UpdateJobs -----------------------------
(***************************************************************************)
(* What the over-the-air update promises, seen from outside: the device    *)
(* runs an image; a job puts another image on trial; a trial ends with the *)
(* image kept, if it is not older than the one it replaced, or given up; and   *)
(* the outcome the cloud records is the one the device came to.            *)
(* OtaSystem is shown to implement this with the refinement at its end.    *)
(***************************************************************************)
EXTENDS Naturals

CONSTANTS Jobs, ImageVersion, FactoryVersion

VARIABLES
  running,   \* version of the running image
  fallback,  \* version it would be replaced by, were the trial given up
  trial,     \* "none", "open", or "over": given up, back at the next reset
  outcome    \* [Jobs -> {"open", "succeeded", "failed"}]

vars == <<running, fallback, trial, outcome>>

Init ==
  /\ running = FactoryVersion
  /\ fallback = FactoryVersion
  /\ trial = "none"
  /\ outcome = [j \in Jobs |-> "open"]

Try(j) ==
  /\ trial = "none"
  /\ outcome[j] = "open"
  /\ trial' = "open"
  /\ running' = ImageVersion[j]
  /\ fallback' = running
  /\ UNCHANGED outcome

Keep ==
  /\ trial = "open"
  /\ running >= fallback
  /\ trial' = "none"
  /\ UNCHANGED <<running, fallback, outcome>>

GiveUp ==
  /\ trial = "open"
  /\ trial' = "over"
  /\ UNCHANGED <<running, fallback, outcome>>

\* A reset ends a trial, given up or not, with the image it started from.
GoBack ==
  /\ trial \in {"open", "over"}
  /\ trial' = "none"
  /\ running' = fallback
  /\ UNCHANGED <<fallback, outcome>>

Succeed(j) ==
  /\ outcome[j] = "open"
  /\ trial = "none"
  /\ running = ImageVersion[j]
  /\ outcome' = [outcome EXCEPT ![j] = "succeeded"]
  /\ UNCHANGED <<running, fallback, trial>>

Fail(j) ==
  /\ outcome[j] = "open"
  /\ trial # "open"
  /\ outcome' = [outcome EXCEPT ![j] = "failed"]
  /\ UNCHANGED <<running, fallback, trial>>

Next ==
  \/ Keep \/ GiveUp \/ GoBack
  \/ \E j \in Jobs : Try(j) \/ Succeed(j) \/ Fail(j)

Spec == Init /\ [][Next]_vars
=============================================================================
