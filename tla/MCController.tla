---------------------------- MODULE MCController ----------------------------
(* Small instance of ControllerReport over Controller: four decisions, one *)
(* of which opens no Suspense item and one has no certificate, two of equal*)
(* value, and budgets from 0 to one past the longest run, with those that  *)
(* run out just before and just after the last item is handed over.        *)
EXTENDS ControllerReport, TLC

MCValue == 1 :> 2 @@ 2 :> 5 @@ 3 :> 3 @@ 4 :> 3

\* Healthy runs over every queue, with residuals under, at and over the
\* threshold and beyond what the queue can cover; and one defect at a time.
Healthy(q, u) == [chain_ok |-> TRUE, root_matches |-> TRUE, trial_ok |-> TRUE,
                  failed_gates |-> {}, unresolved |-> u, threshold |-> 1, queue |-> q]

MCRuns ==
  LET all == Healthy(Decisions, 9)
  IN  {Healthy(q, u) : q \in SUBSET Decisions, u \in {1, 2, 4, 6, 9, 12}}
        \cup {[all EXCEPT !.chain_ok = FALSE], [all EXCEPT !.root_matches = FALSE],
              [all EXCEPT !.trial_ok = FALSE], [all EXCEPT !.failed_gates = {"G2"}],
              [all EXCEPT !.failed_gates = {"G3", "G4"}]}
=============================================================================
