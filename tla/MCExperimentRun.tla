---------------------------- MODULE MCExperimentRun ----------------------------
(***************************************************************************)
(* Values of ExperimentRun's constants for TLC: two cases at a time, every *)
(* span counted, and one fault; or one case, processes that overlap, every *)
(* kind of count and more faults; under each policy.                       *)
(***************************************************************************)
EXTENDS ExperimentRun

Pair == [cases |-> {1, 2}, policy |-> "fail_case",
         persist |-> TRUE, overlap |-> FALSE, counts |-> {"all"}, faults |-> 1]
Single == [cases |-> {1}, policy |-> "pending",
           persist |-> FALSE, overlap |-> TRUE, counts |-> Count, faults |-> 3]
Stopping == [Single EXCEPT !.policy = "stop", !.persist = TRUE, !.faults = 2]
Instances == {Pair, Single, Stopping}
=============================================================================
