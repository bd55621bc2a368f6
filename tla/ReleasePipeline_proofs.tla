----------------------- MODULE ReleasePipeline_proofs -----------------------
(***************************************************************************)
(* Proofs about ReleasePipeline, for any number of runs, refs, gates and   *)
(* repetitions.  The argument: a job that runs or has succeeded was        *)
(* allowed to, and everything it needs has succeeded in the same run and   *)
(* has not been taken back (JobInv; a repetition resets with a job all     *)
(* that depends on it).  So of the jobs that go step by step one runs at a *)
(* time, and what is on its runner is what its own steps put there         *)
(* (StepInv).  Two runs of a ref never run at once, so between the lookup  *)
(* of a release job and its draft nothing comes to be of its tag that the  *)
(* lookup did not find: it found nothing, or is one that failed; later     *)
(* steps only take away (ReleaseInv).                                      *)
(***************************************************************************)
EXTENDS ReleasePipeline, TLAPS

Phases == {"none", "pending", "running", "ended", "superseded"}
Events == {"none", "push", "workflow_dispatch"}
Statuses == {"waiting", "running"} \cup Final
Sboms == {None} \cup [kind : {"sbom"}, run : Runs, attempt : Nat]
Pairs == [sbom : Sboms, bundle : Sboms]
Releases == [tag : Refs, run : Runs, attempt : Nat, sbom : Sboms, bundle : Sboms]

\* The variables hold values of their kinds.
TypeOK ==
  /\ ref \in [Runs -> Refs \cup {CHOOSE r \in Refs : TRUE}] /\ event \in [Runs -> Events]
  /\ phase \in [Runs -> Phases] /\ attempt \in [Runs -> Nat]
  /\ status \in [Runs -> [Jobs -> Statuses]] /\ step \in [Runs -> Nat]
  /\ held \in [Runs -> Pairs] /\ output \in [Runs -> Sboms]
  /\ artifacts \in [Runs -> [sboms : SUBSET Sboms, assets : SUBSET Pairs]] /\ attested \subseteq Sboms
  /\ drafts \subseteq Releases /\ DOMAIN published = Refs
  /\ \A tag \in Refs : published[tag] \in {None, byHand(tag)} \cup Releases
  /\ overlooked \subseteq Runs \X Nat

\* What a run has been through by its phase.
RunInv(run) ==
  /\ phase[run] = "none" => event[run] = "none" /\ \A job \in Jobs : status[run][job] = "waiting"
  /\ phase[run] # "none" => /\ ref[run] \in Refs /\ event[run] \in {"push", "workflow_dispatch"}
                            /\ event[run] = "push" => ref[run] \in vTags
  /\ phase[run] = "ended" => \A job \in Jobs : status[run][job] \in Final

\* Why a job has its status.
JobInv(run, job) ==
  /\ status[run][job] = "running" => phase[run] = "running" /\ job \in stepped
  /\ status[run][job] \in {"running", "success"} =>
       ifCond(run, job) /\ \A n \in Needs[job] : status[run][n] = "success"
  /\ status[run][job] = "success" => MaySucceed(run, job)
  /\ status[run][job] = "skipped" =>
       ~ifCond(run, job) \/ \E n \in Needs[job] : status[run][n] \in {"failure", "skipped"}

RunsInv == \A run \in Runs : RunInv(run) /\ \A job \in Jobs : JobInv(run, job)

\* An SBOM that is attested, and its own bundle beside it.
IsAttested(pair) == pair.bundle = pair.sbom /\ pair.sbom \in attested

\* What is on the runner, by the steps the job has taken.
StepInv(run) ==
  /\ \A pair \in artifacts[run].assets : IsAttested(pair)
  /\ At(run, "sbom-attestation", 3) => IsAttested(held[run])
  /\ status[run]["release"] = "running" /\ step[run] >= 2 => IsAttested(held[run])
  /\ status[run]["release"] = "running" /\ step[run] >= 3 => checksumHolds(run) /\ publishGuard(run)

StepsInv == \A run \in Runs : StepInv(run)

\* Runs of a ref take turns.
TurnsInv ==
  \A run, other \in Runs : phase[run] = "running" /\ phase[other] = "running" /\ ref[run] = ref[other] => run = other

\* A release job that is about to create its draft saw that there is none, or overlooked one.
FoundInv(run) == At(run, "release", 4) => Left(ref[run]) = {} \/ <<run, attempt[run]>> \in overlooked

ReleaseInv == TurnsInv /\ OneReleaseOrOverlooked /\ \A run \in Runs : FoundInv(run)

IInv == TypeOK /\ RunsInv /\ StepsInv /\ ReleaseInv
-----------------------------------------------------------------------------
(* Jobs and what they need.                                                *)

\* The gates are jobs of their own.
LEMMA GatesApart ==
  /\ \A gate \in Gates : gate \notin {"unsupported-ref", "verify-tag", "sbom", "sbom-attestation", "release"}
  /\ \A job \in Jobs : Needs[job] \subseteq Jobs
BY NeedsAssumption DEF Jobs

\* A repetition resets with a job every job that depends on it.
LEMMA FromIsClosed ==
  ASSUME NEW S \in SUBSET Jobs
  PROVE  S \subseteq From(S) /\ From(S) \subseteq Jobs /\ NeededBy(From(S)) \subseteq From(S)
<1> DEFINE S1 == NeededBy(S)  S2 == NeededBy(S1)  S3 == NeededBy(S2)  S4 == NeededBy(S3)  S5 == NeededBy(S4)
<1> USE GatesApart, NeedsAssumption
<1>1. S \subseteq S1 /\ S1 \subseteq S2 /\ S2 \subseteq S3 /\ S3 \subseteq S4 /\ S4 \subseteq S5 /\ S5 \subseteq Jobs
  BY DEF NeededBy
<1>2. S5 = From(S)
  BY DEF From
<1>3. \A job \in Jobs, n \in Jobs : n \in Needs[job] =>
        (n \in S => job \in S1) /\ (n \in S1 => job \in S2) /\ (n \in S2 => job \in S3) /\ (n \in S3 => job \in S4)
  BY DEF NeededBy
<1>4. \A job \in S5 : job \in S \/ \E n \in Needs[job] : n \in S5
  BY <1>1 DEF NeededBy
<1> HIDE DEF S1, S2, S3, S4, S5
<1>5. \A job \in {"verify-tag", "unsupported-ref"} : job \in S5 => job \in S
  BY <1>4
<1>6. \A gate \in Gates : gate \in S5 => gate \in S1
  BY <1>1, <1>3, <1>4, <1>5 DEF Jobs
<1>7. "sbom" \in S5 => "sbom" \in S2
  <2>1. \A n \in Needs["sbom"] : n \in S5 => n \in S1
    BY <1>1, <1>5, <1>6
  <2>2. "sbom" \in Jobs /\ Needs["sbom"] \subseteq Jobs
    BY DEF Jobs
  <2> QED BY <1>1, <1>3, <1>4, <2>1, <2>2
<1>8. "sbom-attestation" \in S5 => "sbom-attestation" \in S3
  <2>1. \A n \in Needs["sbom-attestation"] : n \in S5 => n \in S2
    BY <1>1, <1>5, <1>6, <1>7
  <2>2. "sbom-attestation" \in Jobs /\ Needs["sbom-attestation"] \subseteq Jobs
    BY DEF Jobs
  <2> QED BY <1>1, <1>3, <1>4, <2>1, <2>2
<1>9. ASSUME NEW job \in Jobs, Needs[job] \cap S5 # {} PROVE job \in S5
  <2>1. PICK n \in Needs[job] : n \in S5
    BY <1>9
  <2>2. job \notin {"verify-tag", "unsupported-ref"}
    BY <2>1
  <2>3. n # "unsupported-ref" /\ n # "release"
    BY <1>9, <2>1, <2>2 DEF Jobs
  <2>4. n \in S3
    BY <1>1, <1>5, <1>6, <1>7, <1>8, <2>1, <2>3 DEF Jobs
  <2> QED BY <1>1, <1>3, <2>1, <2>4
<1> QED BY <1>1, <1>2, <1>9 DEF NeededBy

\* While a job that goes step by step runs, no other one of its run does.
LEMMA OneStepped ==
  ASSUME NEW run \in Runs, \A job \in Jobs : JobInv(run, job),
         NEW job \in stepped, status[run][job] = "running",
         NEW other \in stepped, status[run][other] = "running"
  PROVE  job = other
<1>1. /\ status[run]["sbom-attestation"] = "running" => status[run]["sbom"] = "success"
      /\ status[run]["release"] = "running" => status[run]["sbom"] = "success" /\ status[run]["sbom-attestation"] = "success"
  BY NeedsAssumption DEF JobInv, Jobs
<1> QED BY <1>1 DEF stepped

-----------------------------------------------------------------------------
(* Types.                                                                  *)

\* The types hold at first.
LEMMA InitTypes == Init => TypeOK
<1> SUFFICES ASSUME Init PROVE TypeOK
  OBVIOUS
<1> USE DEF Init
<1>1. ref \in [Runs -> Refs \cup {CHOOSE r \in Refs : TRUE}] /\ event \in [Runs -> Events]
  BY DEF Events
<1>2. phase \in [Runs -> Phases] /\ attempt \in [Runs -> Nat] /\ status \in [Runs -> [Jobs -> Statuses]] /\ step \in [Runs -> Nat]
  BY DEF Phases, waitingJobs, Statuses
<1>3. held \in [Runs -> Pairs] /\ output \in [Runs -> Sboms]
  BY DEF Nothing, Pairs, Sboms
<1>4. artifacts \in [Runs -> [sboms : SUBSET Sboms, assets : SUBSET Pairs]] /\ attested \subseteq Sboms
  OBVIOUS
<1>5. /\ drafts \subseteq Releases /\ DOMAIN published = Refs
      /\ \A tag \in Refs : published[tag] \in {None, byHand(tag)} \cup Releases
      /\ overlooked \subseteq Runs \X Nat
  OBVIOUS
<1> QED BY <1>1, <1>2, <1>3, <1>4, <1>5 DEF TypeOK

\* A running job runs in a running run, whose ref is known.
LEMMA RefKnown ==
  ASSUME RunsInv, NEW run \in Runs, NEW job \in Jobs, status[run][job] = "running"
  PROVE  phase[run] = "running" /\ ref[run] \in Refs
BY DEF RunsInv, RunInv, JobInv

\* A push or a dispatch keeps the types, whatever it queues.
LEMMA BeginTypes ==
  ASSUME TypeOK, NEW run \in Runs, NEW r \in Refs, NEW e \in {"push", "workflow_dispatch"}, Begin(run, r, e)
  PROVE  TypeOK'
<1> USE DEF TypeOK, Begin, job_vars, output_vars, release_vars
<1>1. ref' \in [Runs -> Refs \cup {CHOOSE s \in Refs : TRUE}] /\ event' \in [Runs -> Events] /\ attempt' \in [Runs -> Nat]
  BY DEF Events
<1>2. phase' \in [Runs -> Phases]
  BY DEF Queue, Phases
<1> QED BY <1>1, <1>2 DEF byHand

\* A step of a job keeps the types.
LEMMA JobStepTypes ==
  ASSUME TypeOK, RunsInv, NEW run \in Runs, JobStep(run)
  PROVE  TypeOK'
<1> DEFINE JobTypes == status' \in [Runs -> [Jobs -> Statuses]] /\ step' \in [Runs -> Nat] /\ held' \in [Runs -> Pairs]
<1>1. \A job \in Jobs, s \in Statuses : SetStatus(run, job, s) => status' \in [Runs -> [Jobs -> Statuses]]
  BY DEF SetStatus, TypeOK
<1>2. \A job \in Jobs, s \in Statuses : Result(run, job, s) => JobTypes
  <2>1. Nothing \in Pairs
    BY DEF Nothing, Pairs, Sboms
  <2>2. held \in [Runs -> Pairs] /\ step \in [Runs -> Nat]
    BY DEF TypeOK
  <2> QED BY <1>1, <2>1, <2>2 DEF Result
<1>3. NextStep(run) => status' \in [Runs -> [Jobs -> Statuses]] /\ step' \in [Runs -> Nat]
  <2>1. step \in [Runs -> Nat] /\ status \in [Runs -> [Jobs -> Statuses]]
    BY DEF TypeOK
  <2> QED BY <2>1 DEF NextStep
<1> USE DEF TypeOK, run_vars, job_vars, output_vars, release_vars, byHand
<1>4. stepped \subseteq Jobs /\ {"success", "failure"} \subseteq Statuses
  BY DEF stepped, Jobs, Statuses, Final
<1>5. CASE Skip(run)
  <2>1. status' \in [Runs -> [Jobs -> Statuses]]
    BY <1>5 DEF Skip, Statuses, Final
  <2> QED BY <1>5, <2>1 DEF Skip
<1>6. CASE Command(run)
  <2>1. Gates \cup {"verify-tag", "unsupported-ref"} \subseteq Jobs
    BY DEF Jobs
  <2>2. status' \in [Runs -> [Jobs -> Statuses]]
    BY <1>6, <1>1, <1>4, <2>1 DEF Command
  <2> QED BY <1>6, <2>2 DEF Command
<1>7. CASE Take(run)
  <2>1. status' \in [Runs -> [Jobs -> Statuses]] /\ step' \in [Runs -> Nat]
    BY <1>7, <1>1, <1>4 DEF Take, Statuses
  <2> QED BY <1>7, <2>1 DEF Take
<1>8. CASE Fail(run)
  <2>1. JobTypes
    BY <1>8, <1>2, <1>4 DEF Fail, timed
  <2> QED BY <1>8, <2>1 DEF Fail
<1>9. CASE Generate(run)
  <2>1. [kind |-> "sbom", run |-> run, attempt |-> attempt[run]] \in Sboms
    BY DEF Sboms
  <2>2. held' \in [Runs -> Pairs]
    BY <1>9, <2>1 DEF Generate, Pairs
  <2> QED BY <1>9, <1>3, <2>2 DEF Generate
<1>10. held[run] \in Pairs /\ held[run].sbom \in Sboms /\ held[run].bundle \in Sboms
  BY DEF Pairs
<1>11. CASE UploadSbom(run)
  <2>1. artifacts' \in [Runs -> [sboms : SUBSET Sboms, assets : SUBSET Pairs]]
    BY <1>11, <1>10 DEF UploadSbom
  <2>2. JobTypes /\ output' \in [Runs -> Sboms]
    BY <1>11, <1>2, <1>4, <1>10 DEF UploadSbom, stepped
  <2> QED BY <1>11, <2>1, <2>2 DEF UploadSbom
<1>12. CASE DownloadSbom(run)
  <2>1. PICK sbom \in artifacts[run].sboms : held' = [held EXCEPT ![run].sbom = sbom]
    BY <1>12 DEF DownloadSbom
  <2>2. sbom \in Sboms
    OBVIOUS
  <2>3. held' \in [Runs -> Pairs]
    BY <1>10, <2>1, <2>2 DEF Pairs
  <2> QED BY <1>12, <1>3, <2>3 DEF DownloadSbom
<1>13. CASE Attest(run)
  <2>1. held' \in [Runs -> Pairs] /\ attested' \subseteq Sboms
    BY <1>13, <1>10 DEF Attest, Pairs
  <2> QED BY <1>13, <1>3, <2>1 DEF Attest
<1>14. CASE UploadAssets(run)
  <2>1. artifacts' \in [Runs -> [sboms : SUBSET Sboms, assets : SUBSET Pairs]]
    BY <1>14, <1>10 DEF UploadAssets
  <2>2. JobTypes
    BY <1>14, <1>2, <1>4 DEF UploadAssets, stepped
  <2> QED BY <1>14, <2>1, <2>2 DEF UploadAssets
<1>15. CASE DownloadAssets(run)
  <2>1. held' \in [Runs -> Pairs]
    BY <1>15 DEF DownloadAssets
  <2> QED BY <1>15, <1>3, <2>1 DEF DownloadAssets
<1>16. CASE Prepare(run)
  <2>1. JobTypes
    BY <1>16, <1>2, <1>3, <1>4 DEF Prepare, stepped
  <2> QED BY <1>16, <2>1 DEF Prepare
<1>17. CASE View(run)
  <2>1. JobTypes
    BY <1>17, <1>2, <1>3, <1>4 DEF View, stepped
  <2>2. <<run, attempt[run]>> \in Runs \X Nat
    OBVIOUS
  <2>3. overlooked' \subseteq Runs \X Nat
    BY <1>17, <2>2 DEF View
  <2> QED BY <1>17, <2>1, <2>3 DEF View
<1>18. ASSUME At(run, "release", 4) \/ At(run, "release", 5)
       PROVE  ref[run] \in Refs /\ ReleaseOf(run) \in Releases
  BY <1>4, <1>10, <1>18, RefKnown DEF At, stepped, ReleaseOf, Releases
<1>19. CASE CreateDraft(run)
  <2>1. drafts' \subseteq Releases
    BY <1>18, <1>19 DEF CreateDraft
  <2> QED BY <1>3, <1>19, <2>1 DEF CreateDraft
<1>20. CASE Publish(run)
  <2>1. JobTypes
    BY <1>2, <1>4, <1>20 DEF Publish, stepped
  <2>2. DOMAIN published' = Refs /\ \A tag \in Refs : published'[tag] \in {None, byHand(tag)} \cup Releases
    BY <1>18, <1>20 DEF Publish
  <2> QED BY <1>20, <2>1, <2>2 DEF Publish
<1> QED BY <1>5, <1>6, <1>7, <1>8, <1>9, <1>11, <1>12, <1>13, <1>14, <1>15, <1>16, <1>17, <1>19, <1>20 DEF JobStep

\* Every step keeps the types.
LEMMA NextTypes ==
  ASSUME TypeOK, RunsInv, [Next]_vars
  PROVE  TypeOK'
<1> USE DEF TypeOK
<1>1. CASE UNCHANGED vars
  BY <1>1 DEF vars, byHand
<1>2. ASSUME NEW run \in Runs, Push(run) \/ Dispatch(run) PROVE TypeOK'
  BY <1>2, BeginTypes DEF Push, Dispatch, vTags
<1>3. ASSUME NEW run \in Runs, Start(run) \/ End(run) PROVE TypeOK'
  BY <1>3 DEF Start, End, job_vars, output_vars, release_vars, Phases, byHand
<1>4. ASSUME NEW run \in Runs, Rerun(run) PROVE TypeOK'
  <2>1. phase' \in [Runs -> Phases]
    BY <1>4 DEF Rerun, Queue, Phases
  <2>2. status' \in [Runs -> [Jobs -> Statuses]] /\ attempt' \in [Runs -> Nat]
    BY <1>4 DEF Rerun, Statuses
  <2> QED BY <1>4, <2>1, <2>2 DEF Rerun, output_vars, release_vars, byHand
<1>5. CASE CreateRelease \/ DeleteRelease
  BY <1>5 DEF CreateRelease, DeleteRelease, run_vars, job_vars, output_vars, vTags, byHand
<1>6. CASE DeleteDraft
  BY <1>6 DEF DeleteDraft, run_vars, job_vars, output_vars, byHand
<1> QED BY <1>1, <1>2, <1>3, <1>4, <1>5, <1>6, JobStepTypes DEF Next

-----------------------------------------------------------------------------
(* The statuses of jobs.                                                   *)

\* A job that may run starts or has its result; a running one has its result.
Moves(run) ==
  \E job \in Jobs, s \in {"running", "success", "failure"} :
    /\ SetStatus(run, job, s)
    /\ Runnable(run, job) \/ status[run][job] = "running"
    /\ s = "running" => job \in stepped
    /\ s = "success" => MaySucceed(run, job)

\* A step of a job moves one status of its run, or skips jobs.
LEMMA JobStepMoves ==
  ASSUME TypeOK, NEW run \in Runs, JobStep(run)
  PROVE  UNCHANGED run_vars /\ (UNCHANGED status \/ Skip(run) \/ Moves(run))
<1>1. stepped \subseteq Jobs /\ Gates \cup {"verify-tag", "unsupported-ref"} \subseteq Jobs
  BY DEF stepped, Jobs
<1>2. \A job \in stepped : MaySucceed(run, job)
  BY DEF MaySucceed, stepped
<1>3. ASSUME NEW job \in stepped, NEW s \in {"success", "failure"}, status[run][job] = "running", Result(run, job, s)
      PROVE  Moves(run)
  BY <1>1, <1>2, <1>3 DEF Result, Moves
<1>4. CASE Skip(run)
  BY <1>4 DEF Skip
<1>5. CASE Command(run)
  <2>1. Moves(run)
    BY <1>1, <1>5 DEF Command, Moves
  <2> QED BY <1>5, <2>1 DEF Command
<1>6. CASE Take(run)
  <2>1. Moves(run)
    BY <1>1, <1>6 DEF Take, Moves
  <2> QED BY <1>6, <2>1 DEF Take
<1>7. CASE Fail(run)
  BY <1>3, <1>7 DEF Fail, timed
<1>8. CASE Generate(run) \/ DownloadSbom(run) \/ Attest(run) \/ DownloadAssets(run) \/ CreateDraft(run)
  BY <1>8 DEF Generate, DownloadSbom, Attest, DownloadAssets, CreateDraft, NextStep
<1>9. CASE UploadSbom(run)
  BY <1>3, <1>9 DEF UploadSbom, At, stepped
<1>10. CASE UploadAssets(run)
  BY <1>3, <1>10 DEF UploadAssets, At, stepped
<1>11. CASE Prepare(run)
  BY <1>3, <1>11 DEF Prepare, At, stepped, NextStep
<1>12. CASE View(run)
  BY <1>3, <1>12 DEF View, At, stepped, NextStep
<1>13. CASE Publish(run)
  BY <1>3, <1>13 DEF Publish, At, stepped
<1> QED BY <1>4, <1>5, <1>6, <1>7, <1>8, <1>9, <1>10, <1>11, <1>12, <1>13 DEF JobStep

\* The job a step moves was not done.
LEMMA MovesJobs ==
  ASSUME TypeOK, NEW run \in Runs, RunInv(run), \A job \in Jobs : JobInv(run, job),
         UNCHANGED run_vars, Moves(run)
  PROVE  RunInv(run)' /\ \A job \in Jobs : JobInv(run, job)'
<1>1. PICK job \in Jobs, s \in {"running", "success", "failure"} :
        /\ SetStatus(run, job, s)
        /\ Runnable(run, job) \/ status[run][job] = "running"
        /\ s = "running" => job \in stepped
        /\ s = "success" => MaySucceed(run, job)
  BY DEF Moves
<1>2. phase[run] = "running" /\ status[run][job] \in {"waiting", "running"}
  BY <1>1 DEF Runnable, Ready, JobInv
<1>3. ifCond(run, job) /\ \A n \in Needs[job] : status[run][n] = "success"
  BY <1>1 DEF Runnable, JobInv
<1>4. /\ status'[run][job] = s /\ \A other \in Jobs \ {job} : status'[run][other] = status[run][other]
      /\ status[run][job] \notin Final
  BY <1>1, <1>2 DEF SetStatus, TypeOK, Final
<1>5. UNCHANGED <<ref[run], event[run], phase[run]>>
  BY DEF run_vars
<1>6. RunInv(run)'
  BY <1>2, <1>5 DEF RunInv
<1>7. \A other \in Jobs : ifCond(run, other)' = ifCond(run, other) /\ MaySucceed(run, other)' = MaySucceed(run, other)
  BY <1>5 DEF ifCond, unsupportedRefGuard, tagGuard, MaySucceed
<1>8. ASSUME NEW other \in Jobs PROVE JobInv(run, other)'
  <2>1. \A n \in Needs[other] : n \in Jobs /\ (status[run][n] \in Final => status'[run][n] = status[run][n])
    BY <1>4, GatesApart
  <2>2. CASE other = job
    <3>1. \A n \in Needs[other] : status'[run][n] = "success"
      BY <1>3, <2>1, <2>2 DEF Final
    <3> QED BY <1>1, <1>2, <1>3, <1>4, <1>5, <1>7, <2>2, <3>1 DEF JobInv
  <2>3. CASE other # job
    <3>1. status'[run][other] = status[run][other]
      BY <1>4, <2>3
    <3>2. JobInv(run, other)
      OBVIOUS
    <3> QED BY <1>5, <1>7, <2>1, <3>1, <3>2 DEF JobInv, Final
  <2> QED BY <2>2, <2>3
<1> QED BY <1>6, <1>8

\* A skipped job gives those that depend on it no reason to have run.
LEMMA SkipJobs ==
  ASSUME TypeOK, NEW run \in Runs, RunInv(run), \A job \in Jobs : JobInv(run, job),
         UNCHANGED run_vars, Skip(run)
  PROVE  RunInv(run)' /\ \A job \in Jobs : JobInv(run, job)'
<1>1. \A job \in Jobs : status'[run][job] = IF Skipped(run, job) THEN "skipped" ELSE status[run][job]
  BY DEF Skip, TypeOK
<1>2. UNCHANGED <<ref[run], event[run], phase[run]>> /\ phase[run] = "running"
  BY DEF run_vars, Skip, Skipped, Ready
<1>3. RunInv(run)'
  BY <1>2 DEF RunInv
<1>4. \A job \in Jobs : ifCond(run, job)' = ifCond(run, job) /\ MaySucceed(run, job)' = MaySucceed(run, job)
  BY <1>2 DEF ifCond, unsupportedRefGuard, tagGuard, MaySucceed
<1>5. ASSUME NEW job \in Jobs PROVE JobInv(run, job)'
  <2>1. \A n \in Needs[job] : n \in Jobs /\ (status[run][n] \in Final => status'[run][n] = status[run][n])
    BY <1>1, GatesApart DEF Skipped, Ready, Final
  <2>2. CASE Skipped(run, job)
    <3>1. /\ status'[run][job] = "skipped" /\ \A n \in Needs[job] : status[run][n] \in Final
          /\ ~ifCond(run, job) \/ \E n \in Needs[job] : status[run][n] # "success"
      BY <1>1, <2>2 DEF Skipped, Ready, Runnable
    <3> QED BY <1>4, <2>1, <3>1 DEF JobInv, Final
  <2>3. CASE ~Skipped(run, job)
    <3>1. status'[run][job] = status[run][job] /\ JobInv(run, job)
      BY <1>1, <2>3
    <3> QED BY <1>2, <1>4, <2>1, <3>1 DEF JobInv, Final
  <2> QED BY <2>2, <2>3
<1> QED BY <1>3, <1>5

\* What a repetition keeps does not depend on what it resets.
LEMMA RerunJobs ==
  ASSUME TypeOK, NEW run \in Runs, RunInv(run), \A job \in Jobs : JobInv(run, job), Rerun(run)
  PROVE  RunInv(run)' /\ \A job \in Jobs : JobInv(run, job)'
<1>1. PICK again \in {{job} : job \in Jobs} \cup {Jobs, {job \in Jobs : status[run][job] = "failure"}} :
        status' = [status EXCEPT ![run] = [job \in Jobs |-> IF job \in From(again) THEN "waiting" ELSE @[job]]]
  BY DEF Rerun
<1>2. again \in SUBSET Jobs
  OBVIOUS
<1>3. \A job \in Jobs : status'[run][job] = IF job \in From(again) THEN "waiting" ELSE status[run][job]
  BY <1>1 DEF TypeOK
<1>4. phase[run] = "ended" /\ phase'[run] = "pending" /\ UNCHANGED <<ref[run], event[run]>>
  BY DEF Rerun, Queue, TypeOK
<1>5. RunInv(run)'
  BY <1>4 DEF RunInv
<1>6. \A job \in Jobs : ifCond(run, job)' = ifCond(run, job) /\ MaySucceed(run, job)' = MaySucceed(run, job)
  BY <1>4 DEF ifCond, unsupportedRefGuard, tagGuard, MaySucceed
<1>7. ASSUME NEW job \in Jobs PROVE JobInv(run, job)'
  <2>1. CASE job \in From(again)
    BY <1>3, <2>1 DEF JobInv
  <2>2. CASE job \notin From(again)
    <3>1. \A n \in Needs[job] : n \in Jobs /\ n \notin From(again)
      BY <1>2, <2>2, FromIsClosed, GatesApart DEF NeededBy
    <3>2. status'[run][job] = status[run][job] /\ \A n \in Needs[job] : status'[run][n] = status[run][n]
      BY <1>3, <2>2, <3>1
    <3>3. status[run][job] # "running" /\ JobInv(run, job)
      BY <1>4 DEF RunInv, Final
    <3> QED BY <1>6, <3>2, <3>3 DEF JobInv
  <2> QED BY <2>1, <2>2
<1> QED BY <1>5, <1>7

-----------------------------------------------------------------------------
(* Runs.                                                                   *)

Acts(run) == Push(run) \/ Dispatch(run) \/ Start(run) \/ JobStep(run) \/ End(run) \/ Rerun(run)
ByHand == CreateRelease \/ DeleteRelease \/ DeleteDraft

\* All that a run may do to another is to take its place in the queue.
LEMMA OtherRuns ==
  ASSUME TypeOK, NEW run \in Runs, Acts(run), NEW other \in Runs, other # run
  PROVE  /\ UNCHANGED <<ref[other], event[other], attempt[other], status[other], step[other]>>
         /\ UNCHANGED <<held[other], output[other], artifacts[other]>>
         /\ phase'[other] = phase[other] \/ (phase[other] = "pending" /\ phase'[other] = "superseded")
<1> USE DEF TypeOK, run_vars, job_vars, output_vars, release_vars
<1>1. CASE Push(run) \/ Dispatch(run)
  BY <1>1 DEF Push, Dispatch, Begin, Queue
<1>2. CASE Start(run) \/ End(run)
  BY <1>2 DEF Start, End
<1>3. CASE Rerun(run)
  BY <1>3 DEF Rerun, Queue
<1>4. \A job \in Jobs, s \in {"running", "success", "failure"} : SetStatus(run, job, s) => UNCHANGED status[other]
  BY DEF SetStatus
<1>5. \A job \in Jobs, s \in {"success", "failure"} :
        Result(run, job, s) => UNCHANGED <<status[other], step[other], held[other]>>
  BY <1>4 DEF Result
<1>6. NextStep(run) => UNCHANGED <<status[other], step[other]>>
  BY DEF NextStep
<1>7. stepped \subseteq Jobs /\ Gates \cup {"verify-tag", "unsupported-ref"} \subseteq Jobs
  BY DEF stepped, Jobs
<1>8. CASE Skip(run) \/ Command(run) \/ Take(run)
  BY <1>4, <1>7, <1>8 DEF Skip, Command, Take
<1>9. CASE Fail(run)
  BY <1>5, <1>7, <1>9 DEF Fail, timed
<1>10. CASE Generate(run) \/ UploadSbom(run)
  BY <1>5, <1>6, <1>7, <1>10 DEF Generate, UploadSbom, stepped
<1>11. CASE DownloadSbom(run) \/ Attest(run) \/ UploadAssets(run)
  BY <1>5, <1>6, <1>7, <1>11 DEF DownloadSbom, Attest, UploadAssets, stepped
<1>12. CASE DownloadAssets(run) \/ Prepare(run) \/ View(run)
  BY <1>5, <1>6, <1>7, <1>12 DEF DownloadAssets, Prepare, View, stepped
<1>13. CASE CreateDraft(run) \/ Publish(run)
  BY <1>5, <1>6, <1>7, <1>13 DEF CreateDraft, Publish, stepped
<1> QED BY <1>1, <1>2, <1>3, <1>8, <1>9, <1>10, <1>11, <1>12, <1>13 DEF Acts, JobStep

\* By hand nothing of a run is touched.
LEMMA ByHandKeepsRuns ==
  ASSUME ByHand
  PROVE  UNCHANGED <<ref, event, phase, attempt, reruns, status, step, held, output, artifacts, attested>>
BY DEF ByHand, CreateRelease, DeleteRelease, DeleteDraft, run_vars, job_vars, output_vars

\* A step is one of a run or of a maintainer by hand.
LEMMA NextActs ==
  ASSUME [Next]_vars
  PROVE  (\E run \in Runs : Acts(run)) \/ ByHand \/ UNCHANGED vars
BY DEF Next, Acts, ByHand

\* The jobs of a run that begins, or that changes its phase alone.
LEMMA PhaseJobs ==
  ASSUME TypeOK, NEW run \in Runs, RunInv(run), \A job \in Jobs : JobInv(run, job),
         Push(run) \/ Dispatch(run) \/ Start(run) \/ End(run)
  PROVE  RunInv(run)' /\ \A job \in Jobs : JobInv(run, job)'
<1> USE DEF TypeOK
<1>1. UNCHANGED status
  BY DEF Push, Dispatch, Begin, Start, End, job_vars
<1>2. CASE Push(run) \/ Dispatch(run)
  <2>1. PICK r \in Refs, e \in {"push", "workflow_dispatch"} : Begin(run, r, e) /\ (e = "push" => r \in vTags)
    BY <1>2 DEF Push, Dispatch, vTags
  <2>2. ref'[run] = r /\ event'[run] = e /\ phase'[run] = "pending" /\ phase[run] = "none"
    BY <2>1 DEF Begin, Queue
  <2>3. \A job \in Jobs : status[run][job] = "waiting"
    BY <2>2 DEF RunInv
  <2> QED BY <1>1, <2>1, <2>2, <2>3 DEF RunInv, JobInv
<1>3. CASE Start(run) \/ End(run)
  <2>1. UNCHANGED <<ref, event>> /\ phase[run] # "none"
    BY <1>3 DEF Start, End
  <2>2. phase'[run] = "running" \/ (phase'[run] = "ended" /\ \A job \in Jobs : status[run][job] \in Final)
    BY <1>3 DEF Start, End
  <2>3. \A job \in Jobs : ifCond(run, job)' = ifCond(run, job) /\ MaySucceed(run, job)' = MaySucceed(run, job)
    BY <2>1 DEF ifCond, unsupportedRefGuard, tagGuard, MaySucceed
  <2> HIDE DEF TypeOK
  <2>4. RunInv(run)'
    BY <1>1, <2>1, <2>2 DEF RunInv
  <2>5. ASSUME NEW job \in Jobs PROVE JobInv(run, job)'
    <3>1. status[run][job] = "running" => phase'[run] = "running"
      BY <2>2 DEF Final
    <3>2. JobInv(run, job)
      OBVIOUS
    <3> QED BY <1>1, <2>3, <3>1, <3>2 DEF JobInv
  <2> QED BY <2>4, <2>5
<1> QED BY <1>2, <1>3

\* Every step keeps what is known of the jobs.
LEMMA NextRuns ==
  ASSUME TypeOK, RunsInv, [Next]_vars
  PROVE  RunsInv'
<1>1. Runs' = Runs /\ Jobs' = Jobs
  OBVIOUS
<1>2. ASSUME NEW run \in Runs, UNCHANGED <<ref[run], event[run], status[run]>>,
             phase'[run] = phase[run] \/ (phase[run] = "pending" /\ phase'[run] = "superseded")
      PROVE  RunInv(run)' /\ \A job \in Jobs : JobInv(run, job)'
  <2>1. RunInv(run) /\ \A job \in Jobs : JobInv(run, job)
    BY DEF RunsInv
  <2>2. \A job \in Jobs : ifCond(run, job)' = ifCond(run, job) /\ MaySucceed(run, job)' = MaySucceed(run, job)
    BY <1>2 DEF ifCond, unsupportedRefGuard, tagGuard, MaySucceed
  <2>3. RunInv(run)'
    BY <1>2, <2>1 DEF RunInv
  <2>4. ASSUME NEW job \in Jobs PROVE JobInv(run, job)'
    BY <1>2, <2>1, <2>2 DEF JobInv
  <2> QED BY <2>3, <2>4
<1>3. ASSUME NEW run \in Runs, Acts(run) PROVE RunInv(run)' /\ \A job \in Jobs : JobInv(run, job)'
  <2>1. RunInv(run) /\ \A job \in Jobs : JobInv(run, job)
    BY DEF RunsInv
  <2>2. CASE JobStep(run)
    <3>1. UNCHANGED status => UNCHANGED status[run]
      OBVIOUS
    <3>2. UNCHANGED run_vars => UNCHANGED <<ref[run], event[run], phase[run]>>
      BY DEF run_vars
    <3> QED BY <1>2, <2>1, <2>2, <3>1, <3>2, JobStepMoves, MovesJobs, SkipJobs
  <2> QED BY <1>3, <2>1, <2>2, PhaseJobs, RerunJobs DEF Acts
<1>4. CASE \E run \in Runs : Acts(run)
  <2>1. PICK run \in Runs : Acts(run)
    BY <1>4
  <2>2. \A other \in Runs : RunInv(other)' /\ \A job \in Jobs : JobInv(other, job)'
    BY <1>2, <1>3, <2>1, OtherRuns
  <2> QED BY <2>2 DEF RunsInv
<1>5. CASE ByHand \/ UNCHANGED vars
  <2>1. UNCHANGED <<ref, event, phase, status>>
    BY <1>5, ByHandKeepsRuns DEF vars
  <2> QED BY <1>2, <2>1 DEF RunsInv
<1> QED BY <1>4, <1>5, NextActs

-----------------------------------------------------------------------------
(* What is on the runner.                                                  *)

\* An attestation is not taken back.
LEMMA AttestedStays ==
  ASSUME [Next]_vars
  PROVE  attested \subseteq attested' /\ \A pair : IsAttested(pair) => IsAttested(pair)'
<1>1. ASSUME NEW run \in Runs, JobStep(run) PROVE attested \subseteq attested'
  BY <1>1 DEF JobStep, Skip, Command, Take, Fail, Generate, UploadSbom, DownloadSbom, Attest, UploadAssets,
              DownloadAssets, Prepare, View, CreateDraft, Publish, output_vars
<1>2. ASSUME NEW run \in Runs, Push(run) \/ Dispatch(run) \/ Start(run) \/ End(run) \/ Rerun(run) PROVE UNCHANGED attested
  BY <1>2 DEF Push, Dispatch, Begin, Start, End, Rerun, output_vars
<1>3. attested \subseteq attested'
  BY <1>1, <1>2, ByHandKeepsRuns DEF Next, ByHand, vars
<1> QED BY <1>3 DEF IsAttested

\* The jobs that may run beside the one at work are not the other stepped ones.
LEMMA AtIsAlone ==
  ASSUME RunsInv, NEW run \in Runs, NEW job \in stepped, status[run][job] = "running"
  PROVE  \A other \in stepped \ {job} : status[run][other] # "running"
<1>1. \A j \in Jobs : JobInv(run, j)
  BY DEF RunsInv
<1> QED BY <1>1, OneStepped

\* A step of a job keeps what is known of its runner, artifacts and attestations.
LEMMA JobStepSteps ==
  ASSUME TypeOK, RunsInv, NEW run \in Runs, StepInv(run), JobStep(run), [Next]_vars
  PROVE  StepInv(run)'
<1> DEFINE Job(job) == status[run][job]
           Now(job) == status'[run][job]
           Attesting == At(run, "sbom-attestation", 3)
           Releasing == Job("release") = "running"
<1>1. stepped \subseteq Jobs /\ stepped = {"sbom", "sbom-attestation", "release"}
  BY DEF stepped, Jobs
<1>2. UNCHANGED publishGuard(run)
  <2>1. UNCHANGED <<ref, event>>
    BY JobStepMoves DEF run_vars
  <2> QED BY <2>1 DEF publishGuard
<1>3. \A pair : IsAttested(pair) => IsAttested(pair)'
  BY AttestedStays
<1>4. ASSUME UNCHANGED <<artifacts[run], output[run]>>,
             Now("sbom-attestation") # "running",
             Now("release") # "running"
      PROVE  StepInv(run)'
  BY <1>3, <1>4 DEF StepInv, At
<1>5. \A job \in stepped, s \in {"success", "failure"} :
        Result(run, job, s) => Now(job) = s /\ \A other \in stepped \ {job} : Now(other) = Job(other)
  BY <1>1 DEF Result, SetStatus, TypeOK
<1>6. NextStep(run) => step'[run] = step[run] + 1 /\ UNCHANGED status
  BY DEF NextStep, TypeOK
<1>7. step[run] \in Nat /\ held[run] \in Pairs
  BY DEF TypeOK
<1>8. CASE Skip(run) \/ Command(run)
  <2>1. UNCHANGED <<step, held, output, artifacts>>
    BY <1>8 DEF Skip, Command, output_vars
  <2>2. \A job \in stepped : Now(job) = "running" => Job(job) = "running"
    BY <1>1, <1>8 DEF Skip, Command, SetStatus, TypeOK
  <2> QED BY <1>1, <1>2, <1>3, <2>1, <2>2 DEF StepInv, At, checksumHolds
<1>9. CASE Take(run)
  <2>1. UNCHANGED <<output, artifacts>> /\ step'[run] = 1
    BY <1>9 DEF Take, output_vars, TypeOK
  <2> QED BY <1>3, <2>1 DEF StepInv, At
<1>10. CASE Fail(run)
  <2>1. PICK job \in stepped : Job(job) = "running" /\ Result(run, job, "failure")
    BY <1>10 DEF Fail, timed
  <2>2. \A other \in stepped : Now(other) # "running"
    BY <1>5, <2>1, AtIsAlone
  <2> QED BY <1>1, <1>4, <1>10, <2>2 DEF Fail, output_vars
<1>11. CASE Generate(run)
  <2>1. Job("sbom-attestation") # "running" /\ Job("release") # "running"
    BY <1>1, <1>11, AtIsAlone DEF Generate, At
  <2> QED BY <1>4, <1>6, <1>11, <2>1 DEF Generate, output_vars
<1>12. CASE UploadSbom(run)
  <2>1. Now("sbom-attestation") # "running" /\ Now("release") # "running"
    BY <1>1, <1>5, <1>12, AtIsAlone DEF UploadSbom, At
  <2>2. artifacts'[run].assets = artifacts[run].assets
    BY <1>12 DEF UploadSbom, TypeOK
  <2> QED BY <1>3, <2>1, <2>2 DEF StepInv, At
<1>13. CASE DownloadSbom(run)
  <2>1. Job("release") # "running" /\ step'[run] = 2 /\ UNCHANGED <<status, artifacts>>
    BY <1>1, <1>6, <1>13, AtIsAlone DEF DownloadSbom, At, output_vars
  <2> QED BY <1>3, <2>1 DEF StepInv, At
<1>14. CASE Attest(run)
  <2>1. Job("release") # "running" /\ UNCHANGED <<status, artifacts>>
    BY <1>1, <1>6, <1>14, AtIsAlone DEF Attest, At
  <2>2. held'[run] = [held[run] EXCEPT !.bundle = held[run].sbom] /\ held[run].sbom \in attested'
    BY <1>14 DEF Attest, TypeOK
  <2>3. IsAttested(held[run])'
    BY <1>7, <2>2 DEF IsAttested, Pairs
  <2> QED BY <1>3, <2>1, <2>3 DEF StepInv, At
<1>15. CASE UploadAssets(run)
  <2>1. IsAttested(held[run])
    BY <1>15 DEF UploadAssets, StepInv
  <2>2. artifacts'[run].assets = artifacts[run].assets \cup {held[run]}
    BY <1>15 DEF UploadAssets, TypeOK
  <2>3. Now("sbom-attestation") # "running" /\ Now("release") # "running"
    BY <1>1, <1>5, <1>15, AtIsAlone DEF UploadAssets, At
  <2> QED BY <1>3, <2>1, <2>2, <2>3 DEF StepInv, At
<1>16. CASE DownloadAssets(run)
  <2>1. Job("sbom-attestation") # "running" /\ step'[run] = 2 /\ UNCHANGED <<status, artifacts>>
    BY <1>1, <1>6, <1>16, AtIsAlone DEF DownloadAssets, At, output_vars
  <2>2. held'[run] \in artifacts[run].assets
    BY <1>16 DEF DownloadAssets, TypeOK
  <2>3. IsAttested(held[run])'
    BY <1>3, <2>2 DEF StepInv, IsAttested
  <2> QED BY <1>3, <2>1, <2>3 DEF StepInv, At
<1>17. ASSUME UNCHANGED <<artifacts, output, held>>, NextStep(run), Releasing, step[run] >= 2,
              step[run] = 2 => checksumHolds(run) /\ publishGuard(run)
       PROVE  StepInv(run)'
  <2>1. Job("sbom-attestation") # "running"
    BY <1>1, <1>17, AtIsAlone
  <2>2. checksumHolds(run) /\ publishGuard(run) /\ IsAttested(held[run])
    BY <1>7, <1>17 DEF StepInv
  <2> QED BY <1>2, <1>3, <1>6, <1>17, <2>1, <2>2 DEF StepInv, At, checksumHolds
<1>18. ASSUME NEW s \in {"success", "failure"}, Result(run, "release", s), Releasing, UNCHANGED <<artifacts, output>>
       PROVE  StepInv(run)'
  <2>1. Now("sbom-attestation") # "running" /\ Now("release") # "running"
    BY <1>1, <1>5, <1>18, AtIsAlone
  <2> QED BY <1>4, <1>18, <2>1
<1>19. CASE Prepare(run)
  BY <1>17, <1>18, <1>19 DEF Prepare, At, output_vars
<1>20. CASE View(run) \/ CreateDraft(run)
  BY <1>17, <1>18, <1>20 DEF View, CreateDraft, At, output_vars
<1>21. CASE Publish(run)
  BY <1>18, <1>21 DEF Publish, At, output_vars
<1> QED BY <1>8, <1>9, <1>10, <1>11, <1>12, <1>13, <1>14, <1>15, <1>16, <1>19, <1>20, <1>21 DEF JobStep

\* Every step keeps it, those of other runs included.
LEMMA NextSteps ==
  ASSUME TypeOK, RunsInv, StepsInv, [Next]_vars
  PROVE  StepsInv'
<1>1. ASSUME NEW run \in Runs, UNCHANGED <<ref[run], event[run], status[run], step[run], held[run], output[run], artifacts[run]>>
      PROVE  StepInv(run)'
  <2>1. StepInv(run) /\ \A pair : IsAttested(pair) => IsAttested(pair)'
    BY AttestedStays DEF StepsInv
  <2> QED BY <1>1, <2>1 DEF StepInv, At, checksumHolds, publishGuard, IsAttested
<1>2. ASSUME NEW run \in Runs, Acts(run) PROVE StepInv(run)'
  <2>1. CASE JobStep(run)
    BY <2>1, JobStepSteps DEF StepsInv
  <2>2. ASSUME \A job \in Jobs : status'[run][job] # "running", UNCHANGED <<artifacts, attested>> PROVE StepInv(run)'
    <3>1. status'[run]["release"] # "running" /\ status'[run]["sbom-attestation"] # "running" /\ StepInv(run)
      BY <2>2 DEF StepsInv, Jobs
    <3> QED BY <2>2, <3>1 DEF StepInv, At, IsAttested
  <2>3. CASE Push(run) \/ Dispatch(run)
    <3>1. UNCHANGED <<status, artifacts, attested>> /\ phase[run] = "none"
      BY <2>3 DEF Push, Dispatch, Begin, job_vars, output_vars
    <3> QED BY <2>2, <3>1 DEF RunsInv, RunInv
  <2>4. CASE Start(run) \/ End(run)
    <3>1. UNCHANGED <<ref, event, status, step, held, output, artifacts>>
      BY <2>4 DEF Start, End, job_vars, output_vars
    <3> QED BY <1>1, <3>1
  <2>5. CASE Rerun(run)
    <3>1. UNCHANGED <<artifacts, attested>> /\ phase[run] = "ended"
      BY <2>5 DEF Rerun, output_vars
    <3>2. \A job \in Jobs : status'[run][job] \in {"waiting", status[run][job]} /\ status[run][job] \in Final
      BY <2>5, <3>1 DEF Rerun, RunsInv, RunInv, TypeOK
    <3> QED BY <2>2, <3>1, <3>2 DEF Final
  <2> QED BY <1>2, <2>1, <2>3, <2>4, <2>5 DEF Acts
<1>3. CASE \E run \in Runs : Acts(run)
  <2>1. PICK run \in Runs : Acts(run)
    BY <1>3
  <2> QED BY <1>1, <1>2, <2>1, OtherRuns DEF StepsInv
<1>4. CASE ByHand \/ UNCHANGED vars
  <2>1. UNCHANGED <<ref, event, status, step, held, output, artifacts>>
    BY <1>4, ByHandKeepsRuns DEF vars
  <2> QED BY <1>1, <2>1 DEF StepsInv
<1> QED BY <1>3, <1>4, NextActs

-----------------------------------------------------------------------------
(* Releases and drafts.                                                    *)

\* Every step keeps it that runs of a ref take turns.
LEMMA NextTurns ==
  ASSUME TypeOK, TurnsInv, [Next]_vars
  PROVE  TurnsInv'
<1>1. CASE \E run \in Runs : Acts(run)
  <2>1. PICK run \in Runs : Acts(run)
    BY <1>1
  <2>2. \A other \in Runs \ {run} : UNCHANGED ref[other] /\ (phase'[other] = "running" => phase[other] = "running")
    BY <2>1, OtherRuns
  <2>3. CASE Start(run)
    <3>1. UNCHANGED ref /\ \A other \in Runs : phase[other] = "running" => ref[other] # ref[run]
      BY <2>3 DEF Start
    <3> QED BY <2>2, <3>1 DEF TurnsInv
  <2>4. CASE ~Start(run)
    <3>1. phase'[run] = "running" => phase[run] = "running" /\ UNCHANGED ref[run]
      <4>1. CASE JobStep(run)
        BY <4>1, JobStepMoves DEF run_vars
      <4>2. CASE Push(run) \/ Dispatch(run) \/ Rerun(run) \/ End(run)
        BY <4>2 DEF Push, Dispatch, Begin, Rerun, End, Queue, TypeOK
      <4> QED BY <2>1, <2>4, <4>1, <4>2 DEF Acts
    <3> QED BY <2>2, <3>1 DEF TurnsInv
  <2> QED BY <2>3, <2>4
<1>2. CASE ByHand \/ UNCHANGED vars
  BY <1>2, ByHandKeepsRuns DEF vars, TurnsInv
<1> QED BY <1>1, <1>2, NextActs

\* Of the steps of a run two touch releases and drafts, and none forgets a lookup that failed.
LEMMA ReleasesStay ==
  ASSUME NEW run \in Runs, Acts(run)
  PROVE  /\ overlooked \subseteq overlooked'
         /\ CreateDraft(run) \/ Publish(run) \/ UNCHANGED <<drafts, published>>
<1>1. CASE View(run)
  BY <1>1 DEF View
<1>2. CASE JobStep(run) /\ ~View(run)
  BY <1>2 DEF JobStep, Skip, Command, Take, Fail, Generate, UploadSbom, DownloadSbom, Attest, UploadAssets,
              DownloadAssets, Prepare, CreateDraft, Publish, release_vars
<1>3. CASE Push(run) \/ Dispatch(run) \/ Start(run) \/ End(run) \/ Rerun(run)
  BY <1>3 DEF Push, Dispatch, Begin, Start, End, Rerun, release_vars
<1> QED BY <1>1, <1>2, <1>3 DEF Acts

\* What maintainers do leaves no more of a tag behind.
LEMMA ByHandReleases ==
  ASSUME TypeOK, ByHand
  PROVE  UNCHANGED overlooked /\ \A tag \in Refs : Left(tag)' \subseteq Left(tag)
BY DEF ByHand, CreateRelease, DeleteRelease, DeleteDraft, Left, TypeOK, vTags, byHand

\* Nor does a publication: what it publishes was a draft of the tag.
LEMMA PublishReleases ==
  ASSUME TypeOK, NEW run \in Runs, Publish(run), NEW tag \in Refs
  PROVE  Left(tag)' \subseteq Left(tag)
<1>1. drafts' \subseteq drafts /\ ReleaseOf(run).tag = ref[run]
  BY DEF Publish, ReleaseOf
<1>2. published'[tag] = published[tag] \/ (tag = ref[run] /\ published'[tag] = ReleaseOf(run) /\ ReleaseOf(run) \in drafts)
  BY DEF Publish, TypeOK
<1> QED BY <1>1, <1>2 DEF Left, byHand

\* A draft is the one thing that a creation adds to what is left of its tag.
LEMMA CreateReleases ==
  ASSUME NEW run \in Runs, CreateDraft(run), NEW tag \in Refs
  PROVE  Left(tag)' = IF tag = ref[run] THEN Left(tag) \cup {ReleaseOf(run)} ELSE Left(tag)
<1>1. drafts' = drafts \cup {ReleaseOf(run)} /\ UNCHANGED published /\ ReleaseOf(run).tag = ref[run]
  BY DEF CreateDraft, ReleaseOf
<1>2. {draft \in drafts' : draft.tag = tag} =
        IF tag = ref[run] THEN {draft \in drafts : draft.tag = tag} \cup {ReleaseOf(run)} ELSE {draft \in drafts : draft.tag = tag}
  BY <1>1
<1> QED BY <1>1, <1>2 DEF Left, byHand

\* Every step but a creation leaves no more of a tag behind.
LEMMA LeftShrinks ==
  ASSUME TypeOK, [Next]_vars, \A run \in Runs : ~CreateDraft(run)
  PROVE  overlooked \subseteq overlooked' /\ \A tag \in Refs : Left(tag)' \subseteq Left(tag)
<1>1. CASE \E run \in Runs : Acts(run)
  BY <1>1, ReleasesStay, PublishReleases DEF Left, byHand
<1>2. CASE UNCHANGED vars
  BY <1>2 DEF vars, Left, byHand
<1> QED BY <1>1, <1>2, ByHandReleases, NextActs

\* Every step keeps it that a second draft or release of a tag comes of a lookup that failed.
LEMMA NextLeft ==
  ASSUME TypeOK, OneReleaseOrOverlooked, \A run \in Runs : FoundInv(run), [Next]_vars
  PROVE  OneReleaseOrOverlooked'
<1>1. CASE \A run \in Runs : ~CreateDraft(run)
  BY <1>1, LeftShrinks DEF OneReleaseOrOverlooked
<1>2. ASSUME NEW run \in Runs, CreateDraft(run) PROVE OneReleaseOrOverlooked'
  <2>1. UNCHANGED overlooked
    BY <1>2 DEF CreateDraft
  <2>2. Left(ref[run]) = {} \/ <<run, attempt[run]>> \in overlooked
    BY <1>2 DEF FoundInv, CreateDraft
  <2>3. ReleaseOf(run).run = run /\ ReleaseOf(run).attempt = attempt[run]
    BY DEF ReleaseOf
  <2>4. SUFFICES ASSUME NEW tag \in Refs, NEW one \in Left(tag)', NEW other \in Left(tag)', one # other
                 PROVE  <<one.run, one.attempt>> \in overlooked \/ <<other.run, other.attempt>> \in overlooked
    BY <2>1 DEF OneReleaseOrOverlooked
  <2>5. CASE one \in Left(tag) /\ other \in Left(tag)
    BY <2>4, <2>5 DEF OneReleaseOrOverlooked
  <2>6. CASE ~(one \in Left(tag) /\ other \in Left(tag))
    BY <1>2, <2>2, <2>3, <2>4, <2>6, CreateReleases
  <2> QED BY <2>5, <2>6
<1> QED BY <1>1, <1>2

\* A step of a run and what its own release job found.
LEMMA OwnFound ==
  ASSUME TypeOK, RunsInv, NEW run \in Runs, FoundInv(run), [Next]_vars, Acts(run)
  PROVE  FoundInv(run)'
<1>1. ASSUME status'[run]["release"] # "running" \/ step'[run] # 4 PROVE FoundInv(run)'
  BY <1>1 DEF FoundInv, At
<1>2. ASSUME UNCHANGED <<ref, attempt, step, drafts, published, overlooked>>,
             status'[run]["release"] = "running" => status[run]["release"] = "running"
      PROVE  FoundInv(run)'
  BY <1>2 DEF FoundInv, At, Left, byHand
<1>3. CASE Push(run) \/ Dispatch(run)
  <2>1. UNCHANGED status /\ phase[run] = "none"
    BY <1>3 DEF Push, Dispatch, Begin, job_vars
  <2> QED BY <1>1, <2>1 DEF RunsInv, RunInv, Jobs
<1>4. CASE Start(run) \/ End(run)
  <2>1. UNCHANGED <<ref, attempt, status, step, drafts, published, overlooked>>
    BY <1>4 DEF Start, End, job_vars, release_vars
  <2> QED BY <1>2, <2>1
<1>5. CASE Rerun(run)
  <2>1. "release" \in Jobs /\ phase[run] = "ended"
    BY <1>5 DEF Rerun, Jobs
  <2>2. status'[run]["release"] \in {"waiting", status[run]["release"]} /\ status[run]["release"] \in Final
    BY <1>5, <2>1 DEF Rerun, RunsInv, RunInv, TypeOK
  <2> QED BY <1>1, <2>2 DEF Final
<1>6. UNCHANGED <<ref, attempt>> \/ ~JobStep(run)
  BY JobStepMoves DEF run_vars
<1>7. "release" \in stepped /\ stepped \subseteq Jobs
  BY DEF stepped, Jobs
<1>8. CASE Skip(run) \/ Command(run)
  <2>1. UNCHANGED <<step, drafts, published, overlooked>> /\ JobStep(run)
    BY <1>8 DEF Skip, Command, release_vars, JobStep
  <2>2. status'[run]["release"] = "running" => status[run]["release"] = "running"
    BY <1>7, <1>8 DEF Skip, Command, SetStatus, TypeOK
  <2> QED BY <1>2, <1>6, <2>1, <2>2
<1>9. CASE Take(run)
  <2>1. step'[run] = 1
    BY <1>9 DEF Take, TypeOK
  <2> QED BY <1>1, <2>1
<1>10. ASSUME NEW job \in stepped, NEW s \in {"success", "failure"}, Result(run, job, s) PROVE FoundInv(run)'
  <2>1. step'[run] = 0
    BY <1>10 DEF Result, TypeOK
  <2> QED BY <1>1, <2>1
<1>11. ASSUME NextStep(run), step[run] # 3 PROVE FoundInv(run)'
  <2>1. step'[run] # 4
    BY <1>11 DEF NextStep, TypeOK
  <2> QED BY <1>1, <2>1
<1>12. CASE Fail(run)
  BY <1>10, <1>12 DEF Fail, timed
<1>13. CASE Generate(run) \/ DownloadSbom(run) \/ Attest(run) \/ DownloadAssets(run) \/ CreateDraft(run)
  BY <1>11, <1>13 DEF Generate, DownloadSbom, Attest, DownloadAssets, CreateDraft, At
<1>14. CASE UploadSbom(run) \/ UploadAssets(run) \/ Publish(run)
  BY <1>10, <1>14 DEF UploadSbom, UploadAssets, Publish, stepped
<1>15. CASE Prepare(run)
  BY <1>7, <1>10, <1>11, <1>15 DEF Prepare, At
<1>16. CASE View(run)
  <2>1. CASE Result(run, "release", "failure")
    BY <1>7, <1>10, <2>1
  <2>2. CASE overlooked' = IF releaseExists(ref[run]) THEN overlooked \cup {<<run, attempt[run]>>} ELSE overlooked
    <3>1. UNCHANGED <<ref, attempt, drafts, published>>
      BY <1>6, <1>16 DEF View, JobStep
    <3>2. releaseExists(ref[run]) \/ Left(ref[run]) = {}
      BY DEF releaseExists, Left
    <3>3. <<run, attempt[run]>> \in overlooked' \/ Left(ref[run]) = {}
      BY <2>2, <3>2
    <3>4. Left(ref[run])' = Left(ref[run])
      BY <3>1 DEF Left, byHand
    <3> QED BY <3>1, <3>3, <3>4 DEF FoundInv
  <2> QED BY <1>16, <2>1, <2>2 DEF View
<1> QED BY <1>3, <1>4, <1>5, <1>8, <1>9, <1>12, <1>13, <1>14, <1>15, <1>16 DEF Acts, JobStep

\* Runs that are at work on other tags do not disturb it.
LEMMA OthersFound ==
  ASSUME TypeOK, RunsInv, TurnsInv, NEW run \in Runs, Acts(run),
         NEW other \in Runs, other # run, FoundInv(other)
  PROVE  FoundInv(other)'
<1>1. UNCHANGED <<ref[other], attempt[other], status[other], step[other]>>
  BY OtherRuns
<1>2. CASE status[other]["release"] # "running"
  BY <1>1, <1>2 DEF FoundInv, At
<1>3. CASE status[other]["release"] = "running"
  <2>1. overlooked \subseteq overlooked'
    BY ReleasesStay
  <2>2. "release" \in Jobs /\ phase[other] = "running"
    BY <1>3, RefKnown DEF Jobs
  <2>3. PICK tag \in Refs : ref[other] = tag
    BY <1>3, <2>2, RefKnown
  <2>4. CreateDraft(run) => ref[run] # tag
    BY <2>2, <2>3, RefKnown DEF CreateDraft, At, TurnsInv
  <2>5. Left(tag)' \subseteq Left(tag)
    <3>1. CASE CreateDraft(run)
      BY <2>4, <3>1, CreateReleases
    <3>2. CASE Publish(run)
      BY <3>2, PublishReleases
    <3>3. CASE UNCHANGED <<drafts, published>>
      BY <3>3 DEF Left, byHand
    <3> QED BY <3>1, <3>2, <3>3, ReleasesStay
  <2>6. At(other, "release", 4)' => At(other, "release", 4)
    BY <1>1 DEF At
  <2> QED BY <1>1, <2>1, <2>3, <2>5, <2>6 DEF FoundInv
<1> QED BY <1>2, <1>3

\* Every step keeps what the release jobs have found.
LEMMA NextReleases ==
  ASSUME TypeOK, RunsInv, ReleaseInv, [Next]_vars
  PROVE  ReleaseInv'
<1>1. TurnsInv' /\ OneReleaseOrOverlooked'
  BY NextTurns, NextLeft DEF ReleaseInv
<1>2. CASE \E run \in Runs : Acts(run)
  BY <1>1, <1>2, OwnFound, OthersFound DEF ReleaseInv
<1>3. ASSUME ByHand, NEW run \in Runs PROVE FoundInv(run)'
  <2>1. UNCHANGED <<ref, attempt, status, step>>
    BY <1>3, ByHandKeepsRuns
  <2>2. UNCHANGED overlooked /\ \A tag \in Refs : Left(tag)' \subseteq Left(tag)
    BY <1>3, ByHandReleases
  <2>3. "release" \in Jobs /\ FoundInv(run)
    BY DEF Jobs, ReleaseInv
  <2>4. CASE status[run]["release"] # "running"
    BY <2>1, <2>4 DEF FoundInv, At
  <2>5. CASE status[run]["release"] = "running"
    <3>1. ref[run] \in Refs
      BY <2>3, <2>5, RefKnown
    <3> QED BY <2>1, <2>2, <2>3, <3>1 DEF FoundInv, At
  <2> QED BY <2>4, <2>5
<1>4. CASE UNCHANGED vars
  BY <1>1, <1>4 DEF vars, ReleaseInv, FoundInv, At, Left, byHand
<1> QED BY <1>1, <1>2, <1>3, <1>4, NextActs DEF ReleaseInv

-----------------------------------------------------------------------------
(* The theorems.                                                           *)

\* The invariant holds before the first run.
LEMMA InitInv == Init => IInv
<1> SUFFICES ASSUME Init PROVE IInv
  OBVIOUS
<1>1. RunsInv
  BY DEF Init, RunsInv, RunInv, JobInv, waitingJobs
<1>2. StepsInv
  BY DEF Init, StepsInv, StepInv, At, waitingJobs, Jobs
<1>3. ReleaseInv
  BY DEF Init, ReleaseInv, TurnsInv, OneReleaseOrOverlooked, Left, FoundInv, At, waitingJobs, Jobs
<1> QED BY <1>1, <1>2, <1>3, InitTypes DEF IInv

\* IInv is inductive.
THEOREM Invariance == Spec => []IInv
<1>1. IInv /\ [Next]_vars => IInv'
  BY NextTypes, NextRuns, NextSteps, NextReleases DEF IInv
<1> QED BY <1>1, InitInv, PTL DEF Spec

\* However often runs are repeated, killed and overlapped by what maintainers do, the workflow leaves a
\* second draft or release of a tag only where one of its lookups failed.
THEOREM SecondReleaseIsOverlooked == Spec => []OneReleaseOrOverlooked
<1>1. IInv => OneReleaseOrOverlooked
  BY DEF IInv, ReleaseInv
<1> QED BY <1>1, Invariance, PTL

\* A run that ended without a failed job was on a signed tag, and none of its jobs was skipped.
LEMMA GreenJobs ==
  ASSUME RunsInv, NEW run \in Runs, phase[run] = "ended", \A job \in Jobs : status[run][job] # "failure"
  PROVE  Kind[ref[run]] = "signed tag" /\ \A job \in Jobs \ {"unsupported-ref"} : status[run][job] = "success"
<1>1. RunInv(run) /\ \A job \in Jobs : JobInv(run, job)
  BY DEF RunsInv
<1>2. \A job \in Jobs : status[run][job] \in {"success", "skipped"}
  BY <1>1 DEF RunInv, Final
<1>3. {"unsupported-ref", "verify-tag", "sbom", "sbom-attestation", "release"} \subseteq Jobs /\ Gates \subseteq Jobs
  BY DEF Jobs
<1>4. \A job \in Jobs : (\A n \in Needs[job] : status[run][n] = "success") /\ ifCond(run, job) => status[run][job] = "success"
  BY <1>1, <1>2, GatesApart DEF JobInv
<1>5. ref[run] \in vTags
  <2>1. status[run]["unsupported-ref"] # "success"
    BY <1>1, <1>3 DEF JobInv, MaySucceed
  <2>2. ~ifCond(run, "unsupported-ref")
    BY <1>3, <1>4, <2>1, NeedsAssumption
  <2> QED BY <1>1, <2>2 DEF RunInv, ifCond, unsupportedRefGuard, tagGuard
<1>6. \A job \in Jobs \ {"unsupported-ref"} : ifCond(run, job)
  BY <1>5 DEF ifCond, tagGuard
<1>7. status[run]["verify-tag"] = "success"
  BY <1>3, <1>4, <1>6, NeedsAssumption
<1>8. \A gate \in Gates : status[run][gate] = "success"
  BY <1>3, <1>4, <1>6, <1>7, GatesApart, NeedsAssumption
<1>9. status[run]["sbom"] = "success"
  BY <1>3, <1>4, <1>6, <1>7, <1>8, NeedsAssumption
<1>10. status[run]["sbom-attestation"] = "success"
  BY <1>3, <1>4, <1>6, <1>7, <1>8, <1>9, NeedsAssumption
<1>11. status[run]["release"] = "success"
  <2>1. \A n \in Needs["release"] : status[run][n] = "success"
    BY <1>7, <1>8, <1>9, <1>10, NeedsAssumption DEF Jobs
  <2> QED BY <1>3, <1>4, <1>6, <2>1
<1>12. Kind[ref[run]] = "signed tag"
  BY <1>1, <1>3, <1>7 DEF JobInv, MaySucceed
<1> QED BY <1>7, <1>8, <1>9, <1>10, <1>11, <1>12 DEF Jobs

\* A run that is green was on a signed v* tag and passed every gate; none is green with its jobs skipped.
THEOREM GreenRunsAreVetted == Spec => []GreenIsVetted
<1>1. IInv => GreenIsVetted
  BY GreenJobs DEF IInv, GreenIsVetted
<1> QED BY <1>1, Invariance, PTL

\* The release job publishes what its run has vetted.
LEMMA PublishIsVetted ==
  ASSUME TypeOK, RunsInv, NEW run \in Runs, StepInv(run), Publish(run)
  PROVE  Vetted(run)
<1>1. status[run]["release"] = "running" /\ step[run] = 5
  BY DEF Publish, At
<1>2. {"release", "sbom-attestation", "sbom", "verify-tag"} \subseteq Jobs /\ \A job \in Jobs : JobInv(run, job)
  BY DEF RunsInv, Jobs
<1>3. \A n \in {"verify-tag", "sbom", "sbom-attestation"} : status[run][n] = "success"
  BY <1>1, <1>2, NeedsAssumption DEF JobInv
<1>4. \A gate \in Gates : status[run][gate] = "success"
  BY <1>2, <1>3, NeedsAssumption DEF JobInv
<1>5. Kind[ref[run]] = "signed tag"
  BY <1>2, <1>3 DEF JobInv, MaySucceed
<1>6. event[run] = "push" /\ held[run].sbom = output[run] /\ IsAttested(held[run])
  BY <1>1 DEF StepInv, checksumHolds, publishGuard
<1> QED BY <1>3, <1>4, <1>5, <1>6 DEF Vetted, IsAttested

\* No step but that of a release job publishes anything a maintainer did not; and that job publishes
\* only what its own run vetted, on a tag that had no release.
THEOREM OnlyVettedIsPublished == Spec => PublishesOnlyVetted
<1> DEFINE Vets == \A tag \in Refs : published'[tag] \notin {published[tag], None, byHand(tag)}
                     => published[tag] = None /\ \E run \in Runs : published'[tag] = ReleaseOf(run) /\ Vetted(run)
<1>1. ASSUME IInv, [Next]_vars PROVE Vets
  <2> SUFFICES ASSUME NEW tag \in Refs, published'[tag] \notin {published[tag], None, byHand(tag)}
               PROVE  published[tag] = None /\ \E run \in Runs : published'[tag] = ReleaseOf(run) /\ Vetted(run)
    OBVIOUS
  <2>1. TypeOK /\ RunsInv /\ \A run \in Runs : StepInv(run)
    BY <1>1 DEF IInv, StepsInv
  <2>2. ~ByHand /\ ~UNCHANGED vars
    BY <2>1 DEF ByHand, CreateRelease, DeleteRelease, DeleteDraft, vars, TypeOK
  <2>3. PICK run \in Runs : Acts(run)
    BY <1>1, <2>2, NextActs
  <2>4. Publish(run)
    BY <2>3, ReleasesStay DEF CreateDraft
  <2>5. tag = ref[run] /\ published[tag] = None /\ published'[tag] = ReleaseOf(run)
    BY <2>1, <2>4 DEF Publish, TypeOK
  <2> QED BY <2>1, <2>4, <2>5, PublishIsVetted
<1>2. IInv /\ [Next]_vars => [Vets]_vars
  BY <1>1
<1> QED BY <1>2, Invariance, PTL DEF Spec, PublishesOnlyVetted

=============================================================================
