-------------------------------- MODULE Jobs --------------------------------
(* A conversion or a start of the program that is asked for once, with all it  *)
(* depends on, and answered in one step: it shares no state with anything.     *)

VARIABLES
    job,      \* What is asked for.
    answer    \* Its result, once there is one.

jobVars == <<job, answer>>

NoJob == [kind |-> "none"]

Asked(jobs) == job \in jobs /\ answer = << >>

\* Where the code leaves a choice, one of the answers.
Answer(kind, answers) ==
    /\ job.kind = kind /\ answer = << >>
    /\ \E a \in answers : answer' = <<a>>
    /\ UNCHANGED job

Done(kind) == job.kind = kind /\ answer # << >>

=============================================================================
