-------------------------- MODULE MCReleasePipeline --------------------------
(***************************************************************************)
(* ReleasePipeline on small sets of refs, with two of the four gates.      *)
(***************************************************************************)
EXTENDS ReleasePipeline

\* The needs of release.yml for two gates: the four are alike.
MCGates == {"check", "gosec"}
MCNeeds ==
  [job \in Jobs |->
     CASE job \in {"unsupported-ref", "verify-tag"} -> {}
       [] job \in Gates -> {"verify-tag"}
       [] job = "sbom" -> {"verify-tag"} \cup Gates
       [] job = "sbom-attestation" -> {"sbom"}
       [] job = "release" -> {"verify-tag", "sbom", "sbom-attestation"}]

\* They are those of the accepted workflow.
Catalogue == INSTANCE ReleaseCatalogue
ASSUME NeedsOfTheCatalogue ==
  \A job \in Jobs : MCNeeds[job] = Catalogue!policyJob(Catalogue!newAcceptedReleasePolicy, job).needs \cap Jobs

MCKind == [v1 |-> "signed tag", v2 |-> "lightweight tag", x1 |-> "tag without v"]
OneKind == [v1 |-> "signed tag"]
=============================================================================
