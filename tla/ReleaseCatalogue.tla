-------------------------- MODULE ReleaseCatalogue --------------------------
(***************************************************************************)
(* newAcceptedReleasePolicy of tools/releasepolicy/policy.go: what the     *)
(* release workflow has to look like.  A text is a sequence: one string    *)
(* for a plain scalar, one for each line of a script, <<prefix, version>>  *)
(* for a reference to an action; <<>> is the empty text and stands for a   *)
(* field that has to be absent, the empty function for such a mapping.     *)
(* Long texts are named for what they do.  The scripts, files, configs and *)
(* signers that have to be in the tree are left out.                       *)
(***************************************************************************)
EXTENDS Naturals, SequencesExt

None == <<>>

tagGuard == <<"ref is a v* tag">>
unsupportedRefGuard == <<"dispatched, ref is not a v* tag">>
publishGuard == <<"pushed, ref is a v* tag">>

\* The lines of a script that end in a backslash.
Continued == {"gh release create \\", "--repo \\", "--title \\", "--notes-file \\", "--verify-tag \\"}

\* releaseStepPolicy: a step without fields, to be completed.
stepKeys == {"name", "id", "if", "shell", "continue-on-error"}
Plain(name) ==
  [fields |-> [key \in stepKeys |-> IF key = "name" THEN <<name>> ELSE None],
   uses |-> "", run |-> None, with |-> None, env |-> None]

Run(name, lines) == [Plain(name) EXCEPT !.run = lines]
Use(name, prefix, with) == [Plain(name) EXCEPT !.uses = prefix, !.with = with]
With(step, key, text) == [step EXCEPT !.fields[key] = text]

checkoutWith(with) ==
  [Plain("") EXCEPT !.fields["name"] = None, !.uses = "actions/checkout@", !.with = with]
checkoutStep == checkoutWith("persist-credentials" :> <<"false">>)

setupGoStep == Use("Set up Go", "actions/setup-go@", "go-version-file" :> <<"go.mod">> @@ "cache" :> <<"true">>)

reportGoEnvironmentStep == Run("Report Go environment", <<"go version", "go env">>)

goSteps == <<checkoutStep, setupGoStep, reportGoEnvironmentStep>>

InstallTool(tool) == Run("Install " \o tool, <<"scripts/go-tool.sh install " \o tool>>)

\* releaseJobPolicy: scalars every job has, then needs, permissions, outputs, steps.
Job(concept, name, displayName, timeoutMinutes, ifCond, needs, permissions, outputs, steps) ==
  [concept |-> concept, name |-> name,
   scalars |-> "name" :> <<displayName>> @@ "runs-on" :> <<"ubuntu-latest">>
                 @@ "timeout-minutes" :> <<timeoutMinutes>> @@ "if" :> ifCond,
   needs |-> needs, permissions |-> permissions, outputs |-> outputs, steps |-> steps]
-----------------------------------------------------------------------------
unsupportedRefJob ==
  Job("unsupported dispatch ref", "unsupported-ref", "Unsupported Dispatch Ref", "2",
      unsupportedRefGuard, {}, None, None,
      <<Run("Explain unsupported ref", <<"echo tag ref needed", "echo use CI", "exit 1">>)>>)

verifyTagJob ==
  Job("signed tag gate", "verify-tag", "Verify Signed Tag", "5", tagGuard, {}, None,
      "release-tag" :> <<"release-tag.release-tag">> @@ "sbom-file" :> <<"release-tag.sbom-file">>
        @@ "prerelease" :> <<"release-tag.prerelease">> @@ "latest" :> <<"release-tag.latest">>,
      <<checkoutWith("fetch-depth" :> <<"0">> @@ "persist-credentials" :> <<"false">>),
        Run("Verify tag object and signature",
            <<"git fetch tag", "tag_type=", "printf tag_type", "test tag_type = tag",
              "git config allowedSignersFile", "git verify-tag">>),
        With(Run("Validate release tag metadata", <<"scripts/release-tag-metadata.sh">>),
             "id", <<"release-tag">>)>>)

Gate(concept, name, displayName, minutes, permissions, steps) ==
  Job(concept, name, displayName, minutes, tagGuard, {"verify-tag"}, permissions, None, goSteps \o steps)

checkJob == Gate("go test gate", "check", "Check", "5", None, <<Run("Run tests", <<"go test">>)>>)

raceJob == Gate("race test gate", "race", "Race", "10", None, <<Run("Run race tests", <<"go test -race">>)>>)

vulnJob ==
  Gate("vulnerability gate", "vuln", "Govulncheck", "10", None,
       <<InstallTool("task"), InstallTool("govulncheck"), Run("Run vulnerability scan", <<"task vuln">>)>>)

acceptedGosecWorkflowCommand == "task gosec -fmt sarif -out gosec.sarif"
gosecFailed == <<"steps.gosec.outcome == 'failure'">>
alwaysIfReport == <<"always() && hashFiles">>

gosecJob ==
  Gate("sast gate", "gosec", "Gosec", "10", "contents" :> <<"read">> @@ "security-events" :> <<"write">>,
       <<InstallTool("task"), InstallTool("gosec"),
         With(With(Run("Run gosec scan", <<acceptedGosecWorkflowCommand>>), "id", <<"gosec">>),
              "continue-on-error", <<"true">>),
         With(Use("Upload gosec SARIF to code scanning", "github/codeql-action/upload-sarif@",
                  "sarif_file" :> <<"gosec.sarif">> @@ "category" :> <<"gosec-release">>),
              "if", alwaysIfReport),
         With(Run("Report gosec result", <<"exit 1">>), "if", gosecFailed)>>)

\* Expressions ${{ needs.JOB.outputs.KEY }}, which reach a script only through env.
Output(job, key) == <<job \o "." \o key>>

WithEnv(step, env) == [step EXCEPT !.env = env]

sbomJob ==
  Job("sbom artifact", "sbom", "SBOM", "10", tagGuard,
      {"verify-tag", "check", "race", "vuln", "gosec"}, None,
      "sbom-file" :> <<"sbom-metadata.sbom-file">> @@ "sbom-sha256" :> <<"sbom-metadata.sbom-sha256">>,
      <<checkoutStep,
        Use("Generate CycloneDX SBOM", "anchore/sbom-action@",
            "format" :> <<"cyclonedx-json@1.5">> @@ "output-file" :> Output("verify-tag", "sbom-file")
              @@ "syft-version" :> <<"v1.45.1">> @@ "config" :> <<".github/syft-release.yaml">>
              @@ "upload-artifact" :> <<"false">> @@ "upload-release-assets" :> <<"false">>),
        WithEnv(With(Run("Validate SBOM and compute checksum",
                         <<"sbom_file=", "scripts/validate-cyclonedx-sbom.sh", "sbom_sha256=", "{",
                           "echo sbom-file", "echo sbom-sha256", "} >> GITHUB_OUTPUT">>),
                     "id", <<"sbom-metadata">>),
                "SBOM_FILE" :> Output("verify-tag", "sbom-file")),
        Use("Upload SBOM artifact", "actions/upload-artifact@",
            "name" :> <<"release-sbom">> @@ "path" :> Output("verify-tag", "sbom-file")
              @@ "if-no-files-found" :> <<"error">>)>>)

sbomAttestationJob ==
  Job("sbom attestation", "sbom-attestation", "SBOM Attestation", "10", tagGuard, {"sbom"},
      "contents" :> <<"read">> @@ "id-token" :> <<"write">> @@ "attestations" :> <<"write">>, None,
      <<checkoutStep,
        Use("Download SBOM artifact", "actions/download-artifact@",
            "name" :> <<"release-sbom">> @@ "path" :> <<"dist">>),
        WithEnv(Run("Validate downloaded SBOM", <<"scripts/validate-cyclonedx-sbom.sh">>),
                "SBOM_FILE" :> Output("sbom", "sbom-file")),
        With(Use("Attest SBOM", "actions/attest@",
                 "subject-path" :> Output("sbom", "sbom-file") @@ "sbom-path" :> Output("sbom", "sbom-file")),
             "id", <<"attest-sbom">>),
        WithEnv(Run("Prepare Sigstore bundle asset", <<"bundle_dst=", "cp bundle", "test -s bundle">>),
                "ATTESTATION_BUNDLE_PATH" :> <<"attest-sbom.bundle-path">>
                  @@ "SBOM_FILE" :> Output("sbom", "sbom-file")),
        Use("Upload release assets artifact", "actions/upload-artifact@",
            "name" :> <<"release-assets">> @@ "path" :> <<"dist/sbom", "dist/sbom.sigstore.json">>
              @@ "if-no-files-found" :> <<"error">>)>>)

releaseJob ==
  Job("release publication", "release", "Release", "10", tagGuard,
      {"verify-tag", "sbom", "sbom-attestation"}, "contents" :> <<"write">>, None,
      <<checkoutStep,
        Use("Download prepared release assets", "actions/download-artifact@",
            "name" :> <<"release-assets">> @@ "path" :> <<"dist">>),
        WithEnv(Run("Prepare release notes and assets",
                    <<"sbom_path=", "bundle_path=", "test -s sbom", "test -s bundle",
                      "scripts/validate-cyclonedx-sbom.sh", "computed_sha256=", "test computed_sha256",
                      "scripts/extract-release-notes.sh", "run_url=", "{", "cat notes", "printf body",
                      "} > release-body.md", "echo prepared">>),
                "RELEASE_TAG" :> Output("verify-tag", "release-tag") @@ "SBOM_FILE" :> Output("sbom", "sbom-file")
                  @@ "SBOM_SHA256" :> Output("sbom", "sbom-sha256")),
        WithEnv(With(With(Run("Publish GitHub Release",
                    <<"set -euo pipefail", "tag=", "sbom_path=", "bundle_path=", "release_args=",
                      "if prerelease", "--prerelease", "fi", "if not latest", "--latest=false", "fi",
                      "if gh release view", "echo exists", "echo delete it", "exit 1", "fi",
                      "gh release create \\", "--repo \\", "--title \\", "--notes-file \\",
                      "--verify-tag \\", "release_args">>),
                    "if", publishGuard), "shell", <<"bash">>),
                "GH_TOKEN" :> <<"github.token">> @@ "RELEASE_TAG" :> Output("verify-tag", "release-tag")
                  @@ "RELEASE_PRERELEASE" :> Output("verify-tag", "prerelease")
                  @@ "RELEASE_LATEST" :> Output("verify-tag", "latest")
                  @@ "SBOM_FILE" :> Output("sbom", "sbom-file"))>>)
-----------------------------------------------------------------------------
newAcceptedReleasePolicy ==
  [rootKeys |-> {"name", "on", "permissions", "env", "concurrency", "jobs"},
   workflowName |-> <<"Release Validation">>,
   env |-> "GOTOOLCHAIN" :> <<"local">>,
   concurrency |-> "group" :> <<"release-ref">> @@ "cancel-in-progress" :> <<"false">>,
   triggerKeys |-> {"push", "workflow_dispatch"},
   pushKeys |-> {"tags"},
   pushTags |-> {<<"v*">>},
   topPermission |-> "contents" :> <<"read">>,
   jobs |-> <<unsupportedRefJob, verifyTagJob, checkJob, raceJob, vulnJob, gosecJob, sbomJob,
              sbomAttestationJob, releaseJob>>]

\* The job of that name in a policy.
policyJob(policy, name) == CHOOSE job \in Range(policy.jobs) : job.name = name
=============================================================================
