---------------------------- MODULE MCProjectPage ----------------------------
\* ProjectPage for TLC: deploys are interchangeable, one of them is active when
\* the page is opened and the other one is still to come or was superseded.
EXTENDS ProjectPage

MCOpenings ==
  {f \in [Deploys -> {"active", "absent", "superseded"}] :
     Cardinality({d \in Deploys : f[d] = "active"}) = 1}

\* One deploy is about to become active.
PollOpenings == [Deploys -> {"provisioning"}]

DeploySymmetry == Permutations(Deploys)
=============================================================================
