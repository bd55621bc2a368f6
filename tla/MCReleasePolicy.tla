---------------------------- MODULE MCReleasePolicy ----------------------------
(***************************************************************************)
(* The release policy checker at work: on edits of the release workflow,   *)
(* or on edits of the scan lanes, which then run.  A behaviour is about    *)
(* the one or the other.                                                   *)
(***************************************************************************)
EXTENDS ReleasePolicy, ScanLanes

\* The catalogue with one edit, and a short one, of two jobs, with two.
Short ==
  LET publish == [policyJob(newAcceptedReleasePolicy, "release") EXCEPT
                    !.needs = {"verify-tag"},
                    !.steps = <<checkoutStep, WithEnv(Run("Publish", <<"tag=", "gh release create \\", "--verify-tag \\",
                                                                       "release_args">>), "GH_TOKEN" :> <<"token">>)>>]
      verify == [verifyTagJob EXCEPT !.outputs = None, !.steps = <<checkoutStep>>]
  IN [newAcceptedReleasePolicy EXCEPT !.jobs = <<verify, publish>>]

AllKeys == {"name", "id", "if", "needs", "permissions", "outputs", "env", "with", "uses", "run", "shell",
            "continue-on-error", "defaults", "strategy"}
Whole == [policy |-> newAcceptedReleasePolicy, edits |-> 1, added |-> AllKeys]
Catalogues == {Whole, [policy |-> Short, edits |-> 2, added |-> {"if", "permissions"}]}

\* While the lanes are edited and run the release workflow stands still, with no job to look at.
Empty == [newAcceptedReleasePolicy EXCEPT !.jobs = <<>>, !.env = <<>>, !.concurrency = <<>>]
Still == [policy |-> Empty, edits |-> 0, added |-> {}]
MCInstances == Catalogues \cup {Still}
CutInstances == {Whole}

Words == STRING

MCInit == WorkflowInit /\ LaneInit
MCNext ==
  \/ WorkflowNext /\ UNCHANGED lanes
  \/ instance = Still /\ LaneNext /\ UNCHANGED workflowVars
MCSpec == MCInit /\ [][MCNext]_<<workflowVars, lanes>>
=============================================================================
