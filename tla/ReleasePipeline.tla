--------------------------- MODULE ReleasePipeline ---------------------------
(***************************************************************************)
(* Runs of .github/workflows/release.yml.  A run is started by the push of *)
(* a v* tag or dispatched on any ref; runs of one ref take turns.  A job   *)
(* waits for the jobs it needs; the gates are a step each, the jobs that   *)
(* make, attest and publish the SBOM go step by step, and every job may    *)
(* fail, time out or be cancelled between two steps.  A run that has ended *)
(* may be run again, from its failed jobs or from any one job on: the      *)
(* artifacts of earlier attempts are still there.  Maintainers create and  *)
(* delete releases by hand.  Tags do not move: the ruleset on refs/tags/v* *)
(* of docs/ci-policy.md sees to that.                                      *)
(***************************************************************************)
EXTENDS Naturals

CONSTANTS MaxRuns,      \* bound on the runs, which are numbered
          Refs,         \* tags and branches
          Kind,         \* what a ref is: see KindOfRef
          Gates,        \* the jobs that test the tree: check, race, vuln and gosec
          Needs,        \* the needs of every job, of release.yml
          MaxReruns,    \* bound on the times runs are run again
          MaxByHand     \* bound on the releases created by hand

Runs == 1 .. MaxRuns
None == [kind |-> "none"]
Kinds == {"signed tag", "unsigned tag", "lightweight tag", "tag without v", "branch"}
vTags == {ref \in Refs : Kind[ref] \in {"signed tag", "unsigned tag", "lightweight tag"}}

Jobs == {"unsupported-ref", "verify-tag", "sbom", "sbom-attestation", "release"} \cup Gates

\* Every job waits for jobs before it: the tag, then the gates, the SBOM, its attestation, the release.
ASSUME NeedsAssumption ==
  /\ DOMAIN Needs = Jobs /\ Needs["unsupported-ref"] = {} /\ Needs["verify-tag"] = {}
  /\ \A gate \in Gates : Needs[gate] = {"verify-tag"}
  /\ Needs["sbom"] = Gates \cup {"verify-tag"}
  /\ "sbom" \in Needs["sbom-attestation"] /\ Needs["sbom-attestation"] \subseteq Needs["sbom"] \cup {"sbom"}
  /\ {"verify-tag", "sbom", "sbom-attestation"} \subseteq Needs["release"]
  /\ Needs["release"] \subseteq Jobs \ {"unsupported-ref", "release"}

ASSUME KindAssumption == Kind \in [Refs -> Kinds] /\ {MaxRuns, MaxReruns, MaxByHand} \subseteq Nat

VARIABLES ref, event,   \* of every run
          phase,        \* of every run: "none", "pending", "running", "ended" or "superseded"
          attempt,      \* of every run, 0 before the first
          status,       \* of every job of every run
          step,         \* of every run: the step its running job is at, 0 without one
          held,         \* of every run: the SBOM and the bundle on the runner of that job
          output,       \* of every run: the SBOM whose checksum its sbom job put out
          artifacts,    \* of every run: everything its attempts uploaded
          attested,     \* the documents with an attestation
          drafts,       \* draft releases, [tag, run, attempt, sbom, bundle]
          published,    \* of every ref: its release, or None
          overlooked,   \* the attempts, <<run, attempt>>, whose lookup failed where a release or draft was:
                        \* a history variable, which no action reads
          reruns,       \* runs run again so far
          created       \* releases created by hand so far

vars == <<ref, event, phase, attempt, status, step, held, output, artifacts, attested, drafts, published, overlooked,
          reruns, created>>

Final == {"success", "failure", "skipped"}
Nothing == [sbom |-> None, bundle |-> None]
waitingJobs == [job \in Jobs |-> "waiting"]

Init ==
  /\ ref \in [Runs -> {CHOOSE r \in Refs : TRUE}] /\ event = [run \in Runs |-> "none"]
  /\ phase = [run \in Runs |-> "none"] /\ attempt = [run \in Runs |-> 0]
  /\ status = [run \in Runs |-> waitingJobs] /\ step = [run \in Runs |-> 0]
  /\ held = [run \in Runs |-> Nothing] /\ output = [run \in Runs |-> None]
  /\ artifacts = [run \in Runs |-> [sboms |-> {}, assets |-> {}]]
  /\ attested = {} /\ drafts = {} /\ published = [r \in Refs |-> None] /\ overlooked = {} /\ reruns = 0 /\ created = 0

job_vars == <<status, step, held>>
output_vars == <<output, artifacts, attested>>
release_vars == <<drafts, published, overlooked, created>>
-----------------------------------------------------------------------------
(* The concurrency group release-REF: one run of a ref at a time, without  *)
(* cancelling it; of the runs behind it only the newest is kept.           *)
Queue(run, r) ==
  phase' = [other \in Runs |-> IF other = run THEN "pending"
                               ELSE IF phase[other] = "pending" /\ ref[other] = r THEN "superseded" ELSE phase[other]]

Begin(run, r, e) ==
  /\ phase[run] = "none" /\ \A earlier \in 1 .. run - 1 : phase[earlier] # "none"
  /\ ref' = [ref EXCEPT ![run] = r] /\ event' = [event EXCEPT ![run] = e]
  /\ attempt' = [attempt EXCEPT ![run] = 1]
  /\ Queue(run, r)
  /\ UNCHANGED <<job_vars, output_vars, release_vars, reruns>>

\* Trigger push.tags v*: a tag is pushed once.
Push(run) == \E tag \in vTags : (\A other \in Runs : ~(event[other] = "push" /\ ref[other] = tag)) /\ Begin(run, tag, "push")
Dispatch(run) == \E r \in Refs : Begin(run, r, "workflow_dispatch")

Start(run) ==
  /\ phase[run] = "pending"
  /\ \A other \in Runs : phase[other] = "running" => ref[other] # ref[run]
  /\ phase' = [phase EXCEPT ![run] = "running"]
  /\ UNCHANGED <<ref, event, attempt, job_vars, output_vars, release_vars, reruns>>

End(run) ==
  /\ phase[run] = "running" /\ \A job \in Jobs : status[run][job] \in Final
  /\ phase' = [phase EXCEPT ![run] = "ended"]
  /\ UNCHANGED <<ref, event, attempt, job_vars, output_vars, release_vars, reruns>>

\* The jobs that wait for one of them, directly or not: five steps reach every job.
NeededBy(S) == S \cup {job \in Jobs : Needs[job] \cap S # {}}
From(S) == NeededBy(NeededBy(NeededBy(NeededBy(NeededBy(S)))))

Rerun(run) ==
  /\ phase[run] = "ended" /\ reruns < MaxReruns
  /\ \E again \in {{job} : job \in Jobs} \cup {Jobs, {job \in Jobs : status[run][job] = "failure"}} :
       /\ again # {}
       /\ status' = [status EXCEPT ![run] = [job \in Jobs |-> IF job \in From(again) THEN "waiting" ELSE @[job]]]
  /\ Queue(run, ref[run])
  /\ attempt' = [attempt EXCEPT ![run] = @ + 1] /\ reruns' = reruns + 1
  /\ UNCHANGED <<ref, event, step, held, output_vars, release_vars>>
-----------------------------------------------------------------------------
tagGuard(run) == ref[run] \in vTags
unsupportedBranchGuard(run) == event[run] = "workflow_dispatch" /\ Kind[ref[run]] = "branch"   \* slip: of tags, all are taken
unsupportedRefGuard(run) == event[run] = "workflow_dispatch" /\ ~tagGuard(run)
publishGuard(run) == event[run] = "push" /\ ref[run] \in vTags

ifCond(run, job) == IF job = "unsupported-ref" THEN unsupportedRefGuard(run) ELSE tagGuard(run)

Ready(run, job) == phase[run] = "running" /\ status[run][job] = "waiting" /\ \A n \in Needs[job] : status[run][n] \in Final
Runnable(run, job) == Ready(run, job) /\ ifCond(run, job) /\ \A n \in Needs[job] : status[run][n] = "success"

SetStatus(run, job, s) == status' = [status EXCEPT ![run][job] = s]
Result(run, job, s) == SetStatus(run, job, s) /\ step' = [step EXCEPT ![run] = 0] /\ held' = [held EXCEPT ![run] = Nothing]
NextStep(run) == step' = [step EXCEPT ![run] = @ + 1] /\ UNCHANGED status

run_vars == <<ref, event, phase, attempt, reruns>>

\* GitHub skips a job as soon as it knows; skipped jobs skip the jobs that need them.
Skipped(run, job) == Ready(run, job) /\ ~Runnable(run, job)

Skip(run) ==
  /\ \E job \in Jobs : Skipped(run, job)
  /\ status' = [status EXCEPT ![run] = [job \in Jobs |-> IF Skipped(run, job) THEN "skipped" ELSE @[job]]]
  /\ UNCHANGED <<run_vars, step, held, output_vars, release_vars>>

\* A job of commands alone: it may fail, verify-tag must on a tag that is not signed, unsupported-ref always.
MaySucceed(run, job) ==
  CASE job = "verify-tag" -> Kind[ref[run]] = "signed tag"
    [] job = "unsupported-ref" -> FALSE
    [] OTHER -> TRUE

Command(run) ==
  /\ \E job \in Gates \cup {"verify-tag", "unsupported-ref"} :
       /\ Runnable(run, job)
       /\ SetStatus(run, job, "failure") \/ (MaySucceed(run, job) /\ SetStatus(run, job, "success"))
  /\ UNCHANGED <<run_vars, step, held, output_vars, release_vars>>

\* A job that goes step by step starts on a fresh runner.
stepped == {"sbom", "sbom-attestation", "release"}

Take(run) ==
  /\ \E job \in stepped : Runnable(run, job) /\ SetStatus(run, job, "running")
  /\ step' = [step EXCEPT ![run] = 1]
  /\ UNCHANGED <<run_vars, output_vars, held, release_vars>>

\* A step fails, or the job is cancelled or runs out of its timeout-minutes: nothing more of it is done.
timedWithoutRelease == {"sbom", "sbom-attestation"}   \* slip: no limit on the release job
timed == stepped

Fail(run) ==
  /\ \E job \in timed : status[run][job] = "running" /\ Result(run, job, "failure")
  /\ UNCHANGED <<run_vars, output_vars, release_vars>>

At(run, job, n) == status[run][job] = "running" /\ step[run] = n

Generate(run) ==
  /\ At(run, "sbom", 1)
  /\ held' = [held EXCEPT ![run].sbom = [kind |-> "sbom", run |-> run, attempt |-> attempt[run]]]
  /\ NextStep(run)
  /\ UNCHANGED <<run_vars, output_vars, release_vars>>

\* The job ends with the upload, and its outputs, the checksum among them, are set; or it is killed after it.
UploadSbom(run) ==
  /\ At(run, "sbom", 2)
  /\ artifacts' = [artifacts EXCEPT ![run].sboms = @ \cup {held[run].sbom}]
  /\ \/ Result(run, "sbom", "success") /\ output' = [output EXCEPT ![run] = held[run].sbom]
     \/ Result(run, "sbom", "failure") /\ UNCHANGED output
  /\ UNCHANGED <<run_vars, attested, release_vars>>

\* A download by name gives what some attempt uploaded: the workflow does not say which.
DownloadSbom(run) ==
  /\ At(run, "sbom-attestation", 1)
  /\ \E sbom \in artifacts[run].sboms : held' = [held EXCEPT ![run].sbom = sbom]
  /\ NextStep(run)
  /\ UNCHANGED <<run_vars, output_vars, release_vars>>

Attest(run) ==
  /\ At(run, "sbom-attestation", 2)
  /\ attested' = attested \cup {held[run].sbom}
  /\ held' = [held EXCEPT ![run].bundle = held[run].sbom]
  /\ NextStep(run)
  /\ UNCHANGED <<run_vars, artifacts, output, release_vars>>

UploadAssets(run) ==
  /\ At(run, "sbom-attestation", 3)
  /\ artifacts' = [artifacts EXCEPT ![run].assets = @ \cup {held[run]}]
  /\ \E s \in {"success", "failure"} : Result(run, "sbom-attestation", s)
  /\ UNCHANGED <<run_vars, attested, output, release_vars>>

DownloadAssets(run) ==
  /\ At(run, "release", 1)
  /\ \E pair \in artifacts[run].assets : held' = [held EXCEPT ![run] = pair]
  /\ NextStep(run)
  /\ UNCHANGED <<run_vars, output_vars, release_vars>>

\* test "$computed_sha256" = "$SBOM_SHA256"
checksumUntested(run) == TRUE   \* slip: only that the file is there
checksumHolds(run) == held[run].sbom = output[run]

Prepare(run) ==
  /\ At(run, "release", 2)
  /\ IF ~checksumHolds(run) THEN Result(run, "release", "failure")
     ELSE IF publishGuard(run) THEN NextStep(run) /\ UNCHANGED held
     ELSE Result(run, "release", "success")
  /\ UNCHANGED <<run_vars, output_vars, release_vars>>

\* gh release view finds a draft as well as a release.
publishedExists(tag) == published[tag] # None   \* slip: drafts overlooked
releaseExists(tag) == published[tag] # None \/ \E draft \in drafts : draft.tag = tag

\* The script asks for no more than that the lookup succeeds, in the condition of an if and with its messages
\* thrown away: one that fails, for whatever reason, goes on as one that finds nothing.
View(run) ==
  /\ At(run, "release", 3)
  /\ \/ releaseExists(ref[run]) /\ Result(run, "release", "failure") /\ UNCHANGED overlooked
     \/ /\ NextStep(run) /\ UNCHANGED held
        /\ overlooked' = IF releaseExists(ref[run]) THEN overlooked \cup {<<run, attempt[run]>>} ELSE overlooked
  /\ UNCHANGED <<run_vars, output_vars, drafts, published, created>>

\* gh release create with assets: a draft, which is published once the assets are up.
ReleaseOf(run) ==
  [tag |-> ref[run], run |-> run, attempt |-> attempt[run], sbom |-> held[run].sbom, bundle |-> held[run].bundle]

CreateDraft(run) ==
  /\ At(run, "release", 4)
  /\ drafts' = drafts \cup {ReleaseOf(run)}
  /\ NextStep(run)
  /\ UNCHANGED <<run_vars, held, output_vars, published, overlooked, created>>

\* GitHub refuses a second release of a tag, and gh then deletes its draft; a late kill does not undo a release.
Publish(run) ==
  /\ At(run, "release", 5)
  /\ drafts' = drafts \ {ReleaseOf(run)}
  /\ IF published[ref[run]] = None /\ ReleaseOf(run) \in drafts
     THEN published' = [published EXCEPT ![ref[run]] = ReleaseOf(run)] /\ \E s \in {"success", "failure"} : Result(run, "release", s)
     ELSE UNCHANGED published /\ Result(run, "release", "failure")
  /\ UNCHANGED <<run_vars, output_vars, overlooked, created>>
-----------------------------------------------------------------------------
(* Maintainers, by hand.                                                   *)
byHand(tag) == [tag |-> tag, run |-> "by hand"]

CreateRelease ==
  /\ created < MaxByHand /\ created' = created + 1
  /\ \E tag \in vTags : published[tag] = None /\ published' = [published EXCEPT ![tag] = byHand(tag)]
  /\ UNCHANGED <<run_vars, job_vars, output_vars, drafts, overlooked>>

DeleteRelease ==
  /\ \E tag \in vTags : published[tag] # None /\ published' = [published EXCEPT ![tag] = None]
  /\ UNCHANGED <<run_vars, job_vars, output_vars, drafts, overlooked, created>>

DeleteDraft ==
  /\ \E draft \in drafts : drafts' = drafts \ {draft}
  /\ UNCHANGED <<run_vars, job_vars, output_vars, published, overlooked, created>>

JobStep(run) ==
  \/ Skip(run) \/ Command(run) \/ Take(run)
  \/ Generate(run) \/ UploadSbom(run)
  \/ DownloadSbom(run) \/ Attest(run) \/ UploadAssets(run)
  \/ DownloadAssets(run) \/ Prepare(run) \/ View(run) \/ CreateDraft(run) \/ Publish(run)
  \/ Fail(run)

Next ==
  \/ \E run \in Runs : Push(run) \/ Dispatch(run) \/ Start(run) \/ JobStep(run) \/ End(run) \/ Rerun(run)
  \/ CreateRelease \/ DeleteRelease \/ DeleteDraft

\* GitHub starts the run whose turn it is, takes its jobs and ends it.  A step may hang, and its job then
\* fails by its timeout-minutes.
Fairness ==
  \A run \in Runs : WF_vars(Start(run)) /\ WF_vars(Skip(run) \/ Command(run) \/ Take(run)) /\ WF_vars(Fail(run)) /\ WF_vars(End(run))
Spec == Init /\ [][Next]_vars /\ Fairness
-----------------------------------------------------------------------------
(* What a run publishes was vetted in that run: it was the push of a tag   *)
(* with an accepted signature, every gate passed, and the SBOM is the one  *)
(* the sbom job vouches for, attested, with its own bundle beside it.      *)
Vetted(run) ==
  /\ event[run] = "push" /\ Kind[ref[run]] = "signed tag"
  /\ \A job \in Gates \cup {"verify-tag", "sbom", "sbom-attestation"} : status[run][job] = "success"
  /\ held[run].sbom = output[run] /\ held[run].bundle = held[run].sbom /\ held[run].sbom \in attested

PublishesOnlyVetted ==
  [][\A tag \in Refs : published'[tag] \notin {published[tag], None, byHand(tag)}
       => published[tag] = None /\ \E run \in Runs : published'[tag] = ReleaseOf(run) /\ Vetted(run)]_vars

\* What the workflow left of a tag behind, drafts and a release.
Left(tag) == {draft \in drafts : draft.tag = tag} \cup ({published[tag]} \ {None, byHand(tag)})

(* However often runs are repeated and killed, and whatever maintainers do *)
(* meanwhile: of two drafts or releases of a tag that the workflow left    *)
(* behind, one was created because a lookup failed where the other, or     *)
(* another one, was.                                                       *)
OneReleaseOrOverlooked ==
  \A tag \in Refs : \A one, other \in Left(tag) :
    one # other => <<one.run, one.attempt>> \in overlooked \/ <<other.run, other.attempt>> \in overlooked



(* A run that ends without a failed job was on a signed v* tag and passed  *)
(* every gate; on a branch it is red and not merely all skipped.           *)
GreenIsVetted ==
  \A run \in Runs :
    phase[run] = "ended" /\ (\A job \in Jobs : status[run][job] # "failure")
      => Kind[ref[run]] = "signed tag" /\ \A job \in Jobs \ {"unsupported-ref"} : status[run][job] = "success"

(* A run in the queue ends, or a newer one takes its place.                *)
RunsEnd == \A run \in Runs : phase[run] = "pending" ~> phase[run] \in {"ended", "superseded"}
=============================================================================
