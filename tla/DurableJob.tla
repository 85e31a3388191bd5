----------------------------- MODULE DurableJob -----------------------------
(***************************************************************************)
(* What flows.py promises of a run, whoever executes it and however often  *)
(* it is interrupted: work is made durable one step at a time, in order,   *)
(* and is never lost; the outcome the run shows is backed by the durable   *)
(* work and, when it is a failure, by an audit record.                     *)
(***************************************************************************)
EXTENDS Naturals

CONSTANT NumSteps  \* a positive number

VARIABLES
  done,      \* the durable steps
  outcome,   \* what the job shows
  audited    \* has a failure been recorded?

jobVars == <<done, outcome, audited>>
Steps == 1 .. NumSteps

Init == done = {} /\ outcome = "submitted" /\ audited = FALSE

\* The next step becomes durable.
Commit ==
  /\ \E s \in Steps : /\ s \notin done
                      /\ 1 .. (s - 1) \subseteq done
                      /\ done' = done \cup {s}
  /\ UNCHANGED <<outcome, audited>>

Work == outcome' = "active" /\ UNCHANGED <<done, audited>>

\* The budget is compared only after a step that was made durable.
Pause == done # {} /\ outcome' = "paused" /\ UNCHANGED <<done, audited>>

Fail == outcome' = "failed" /\ audited' = TRUE /\ UNCHANGED done

\* The outcome is shown before the last step is durable, never earlier.
Complete ==
  /\ Steps \ {NumSteps} \subseteq done
  /\ outcome' = "completed"
  /\ UNCHANGED <<done, audited>>

Next == Commit \/ Work \/ Pause \/ Fail \/ Complete
Spec == Init /\ [][Next]_jobVars
=============================================================================
