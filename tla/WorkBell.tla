------------------------------- MODULE WorkBell -------------------------------
(***************************************************************************)
(* What the page promises to whoever puts a job in its queue and rings:    *)
(* the worker does not go to rest over a job it was rung for.  Only a pass *)
(* that is given up, or muting, takes a job off the list of those owed.    *)
(***************************************************************************)
CONSTANT Jobs

VARIABLES
  owed,      \* jobs that were waiting when the bell last rang, still not served
  bell,      \* rung since the last pass began
  resting,   \* the worker is between two passes
  muted      \* paused, or about to stop: nobody rings

vars == <<owed, bell, resting, muted>>

Init ==
  /\ owed = {}
  /\ bell = FALSE
  /\ resting = TRUE
  /\ muted = FALSE

\* Whoever rings asks for every job that waits.
Ring ==
  /\ ~muted
  /\ bell' = TRUE
  /\ owed \subseteq owed'
  /\ owed' \subseteq Jobs
  /\ UNCHANGED <<resting, muted>>

Begin ==
  /\ resting
  /\ bell
  /\ bell' = FALSE
  /\ resting' = FALSE
  /\ UNCHANGED <<owed, muted>>

\* Jobs are taken, or leave the queue.
Serve ==
  /\ \E j \in Jobs : owed' = owed \ {j}
  /\ UNCHANGED <<bell, resting, muted>>

\* A pass fails or finds the queue taken, and nobody has rung since it began.
GiveUp ==
  /\ ~resting
  /\ ~bell
  /\ owed' = {}
  /\ UNCHANGED <<bell, resting, muted>>

Rest ==
  /\ ~resting
  /\ owed = {} \/ bell
  /\ resting' = TRUE
  /\ UNCHANGED <<owed, bell, muted>>

Mute ==
  /\ muted' = TRUE
  /\ owed' = {}
  /\ bell' \in {bell, TRUE}
  /\ UNCHANGED resting

Unmute ==
  /\ muted' = FALSE
  /\ UNCHANGED <<owed, bell, resting>>

\* The process ends; a new one starts with nothing owed.
Reset ==
  /\ owed' = {}
  /\ bell' = FALSE
  /\ resting' = TRUE
  /\ muted' = FALSE

Next ==
  Ring \/ Begin \/ Serve \/ GiveUp \/ Rest \/ Mute \/ Unmute \/ Reset

Spec == Init /\ [][Next]_vars

\* No ring is lost: at rest with a silent bell, nothing is owed.
NoLostRing == resting /\ ~bell => owed = {}
=============================================================================
