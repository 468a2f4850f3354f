---------------------------- MODULE DeployStates ----------------------------
(***************************************************************************)
(* The deploy state machine of api/app/models/deploy.py, and the groups of *)
(* states that the services share.                                         *)
(***************************************************************************)

DEPLOY_STATES ==
  {"queued", "building", "artifact_ready", "provisioning", "healthy",
   "active", "stopped", "failed", "rolled_back", "superseded"}

DEPLOY_TRANSITIONS ==
  [ queued         |-> {"building", "failed"},
    building       |-> {"artifact_ready", "failed"},
    artifact_ready |-> {"provisioning", "failed"},
    provisioning   |-> {"healthy", "failed"},
    healthy        |-> {"active", "failed"},
    active         |-> {"superseded", "rolled_back", "stopped"},
    stopped        |-> {"active", "rolled_back"},
    failed         |-> {"queued", "rolled_back"},
    rolled_back    |-> {},
    superseded     |-> {"active", "stopped"} ]

\* Deploy.can_transition_to
CanTransitionTo(s, new) == new \in DEPLOY_TRANSITIONS[s]

\* The states that occupy a concurrency slot of their environment.
in_progress_states == {"building", "artifact_ready", "provisioning", "healthy"}

\* transition_deploy hands the slot on when it writes one of these.
SlotFreeing == {"active", "failed", "rolled_back", "superseded", "stopped"}
=============================================================================
