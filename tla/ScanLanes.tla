------------------------------ MODULE ScanLanes ------------------------------
(***************************************************************************)
(* The two scan lanes and the policy over them, tools/releasepolicy/       *)
(* gosec_policy.go.  A lane runs a scan step that may fail without failing *)
(* the job and a report step that then fails it; the scan goes through a   *)
(* task of Taskfile.yml.  Maintainers edit the job of sast-gate.yml and    *)
(* the tasks; once the checker accepts the files a lane runs, step by      *)
(* step, as GitHub runs a job.  The gosec job of release.yml is the one of *)
(* the catalogue: ReleasePolicy shows that its edits are not accepted.     *)
(* Of a step's fields the model keeps id, name, if, continue-on-error and  *)
(* run, of a task ignore_error and cmds, whose commands are words.         *)
(***************************************************************************)
EXTENDS ReleaseCatalogue, FiniteSets

CONSTANT MaxLaneEdits   \* edits before a lane runs

VARIABLES job,      \* the sast-gate job: if, continue-on-error, steps
          task,     \* the two tasks: ignore_error and cmds
          laneEdits, \* edits made so far
          run       \* the run of a lane, or Idle

lanes == <<job, task, laneEdits, run>>

absent == "absent"
acceptedSASTWorkflowCommand == "task lint:golangci GOLANGCI_LINT GOLANGCI_ARGS"
acceptedTaskInstallCommand == "scripts/go-tool.sh install task"
sastFailed == "steps.sast.outcome == 'failure'"
alwaysIfSarif == "always() && hashFiles"
reportName == "Report golangci-lint result"

step(name, id, ifCond, continueOnError, command) ==
  [name |-> name, id |-> id, if |-> ifCond, coe |-> continueOnError, run |-> command]
plain(name, command) == step(name, absent, absent, absent, command)

sastGateJob ==
  [if |-> absent, coe |-> absent,
   steps |-> <<plain("Check out and set up", absent),
               plain("Install task", acceptedTaskInstallCommand),
               plain("Install golangci-lint", "scripts/go-tool.sh install golangci-lint"),
               step("Run golangci-lint", "sast", absent, "true", acceptedSASTWorkflowCommand),
               step("Upload golangci-lint SARIF", absent, alwaysIfSarif, absent, absent),
               step(reportName, absent, sastFailed, absent, "exit 1"),
               plain("Run ast-grep structural rules", "ast-grep scan --error")>>]

\* A step of the gosec job of the catalogue, in the same form; a field of several lines by its first.
text(field) == IF field = None THEN absent ELSE field[1]
catalogueStep(s) ==
  step(text(s.fields["name"]), text(s.fields["id"]), text(s.fields["if"]), text(s.fields["continue-on-error"]), text(s.run))
gosecGateJob ==
  [if |-> absent, coe |-> absent, steps |-> [i \in DOMAIN gosecJob.steps |-> catalogueStep(gosecJob.steps[i])]]

taskNames == {"gosec", "lint:golangci"}
tasks ==
  [t \in taskNames |->
     [ignore |-> absent,
      cmds |-> IF t = "gosec" THEN <<<<"{{.GOSEC}}", "-tests", "./...">>>>
               ELSE <<<<"task: lint:config-check">>,
                      <<"{{.GOLANGCI_LINT}} run {{.GOLANGCI_ARGS}}", "{{else}}", "go-tool run golangci-lint run {{.GOLANGCI_ARGS}}">>>>]]
-----------------------------------------------------------------------------
(* The policy: TRUE where the source reports nothing.                      *)
checkGosecTaskPolicy(gosec) ==
  /\ gosec.ignore \in {absent, "false"}
  /\ Len(gosec.cmds) = 1
  /\ LET command == gosec.cmds[1]
     IN /\ Len(command) >= 2 /\ Head(command) = "{{.GOSEC}}" /\ Last(command) = "./..."
        /\ "-no-fail" \notin Range(command)

checkGolangciTaskPolicy(golangci) ==
  /\ Len(golangci.cmds) = 2
  /\ {"{{.GOLANGCI_LINT}} run {{.GOLANGCI_ARGS}}", "go-tool run golangci-lint run {{.GOLANGCI_ARGS}}"}
       \subseteq Range(golangci.cmds[2])

\* checkScanWorkflowTaskRouting for sast-gate.yml: one scan step, the accepted command, task installed before.
checkScanWorkflowTaskRouting(steps) ==
  LET scans == {i \in DOMAIN steps : steps[i].id = "sast"}
      installs == {i \in DOMAIN steps : steps[i].run = acceptedTaskInstallCommand}
  IN \E scan \in scans, install \in installs :
       /\ scans = {scan} /\ installs = {install} /\ install < scan
       /\ steps[scan].run = acceptedSASTWorkflowCommand

blocking(continueOnError) == continueOnError \in {absent, "false"}

\* The place of the last step that satisfies a test, 0 for none.
lastPlace(places) == IF places = {} THEN 0 ELSE CHOOSE i \in places : \A j \in places : j <= i

sastReport(steps) == lastPlace({i \in DOMAIN steps : steps[i].name = reportName})
sastScans(steps) == {i \in DOMAIN steps : steps[i].id = "sast"}

sastReportBlocks(steps) ==
  LET report == sastReport(steps)
  IN report # 0 /\ steps[report].if = sastFailed /\ steps[report].run = "exit 1" /\ blocking(steps[report].coe)

checkSASTFailurePolicyUnordered(j) ==   \* slip: the report may stand anywhere
  /\ j.if = absent /\ blocking(j.coe)
  /\ \A i \in sastScans(j.steps) : j.steps[i].if = absent
  /\ sastReportBlocks(j.steps)

checkSASTFailurePolicy(j) ==
  /\ j.if = absent /\ blocking(j.coe)
  /\ \A i \in sastScans(j.steps) : j.steps[i].if = absent
  /\ sastReportBlocks(j.steps)
  /\ sastScans(j.steps) # {} /\ sastReport(j.steps) > lastPlace(sastScans(j.steps))

LaneAccepted ==
  /\ checkGosecTaskPolicy(task["gosec"]) /\ checkGolangciTaskPolicy(task["lint:golangci"])
  /\ checkScanWorkflowTaskRouting(job.steps) /\ checkSASTFailurePolicy(job)
-----------------------------------------------------------------------------
Idle == [lane |-> "none"]

LaneInit ==
  /\ job = sastGateJob
  /\ task = tasks
  /\ laneEdits = 0
  /\ run = Idle

Editing == run = Idle /\ laneEdits < MaxLaneEdits /\ laneEdits' = laneEdits + 1 /\ UNCHANGED run

FieldValues ==
  [id |-> {absent, "sast"}, name |-> {reportName},
   if |-> {absent, "false", alwaysIfSarif, sastFailed}, coe |-> {absent, "true", "false"},
   run |-> {"exit 1", "golangci-lint run", acceptedTaskInstallCommand, acceptedSASTWorkflowCommand}]

Moved(s, i, j) == InsertAt(RemoveAt(s, i), j, s[i])

EditSteps ==
  /\ Editing
  /\ \E i \in DOMAIN job.steps :
       \/ \E field \in DOMAIN FieldValues : \E value \in FieldValues[field] : job' = [job EXCEPT !.steps[i][field] = value]
       \/ job' = [job EXCEPT !.steps = RemoveAt(@, i)]
       \/ \E j \in DOMAIN job.steps : job' = [job EXCEPT !.steps = Moved(@, i, j)]
       \/ \E j \in DOMAIN job.steps : job' = [job EXCEPT !.steps = InsertAt(@, j, job.steps[i])]
  /\ UNCHANGED task

EditJob ==
  /\ Editing
  /\ \E value \in {absent, "true", "false"} : job' = [job EXCEPT !.if = value] \/ job' = [job EXCEPT !.coe = value]
  /\ UNCHANGED task

\* ignore_error also as a text, "'false'", and as an alias.
EditTask ==
  /\ Editing
  /\ \/ \E t \in DOMAIN task, value \in {absent, "true", "false", "'false'", "alias"} : task' = [task EXCEPT ![t].ignore = value]
     \/ \E t \in DOMAIN task : \E i \in DOMAIN task[t].cmds :
          \/ task' = [task EXCEPT ![t].cmds = RemoveAt(@, i)]
          \/ task' = [task EXCEPT ![t].cmds = Append(@, @[i])]
          \/ \E k \in DOMAIN task[t].cmds[i] : task' = [task EXCEPT ![t].cmds[i] = RemoveAt(@, k)]
     \/ \E i \in DOMAIN task["gosec"].cmds : \E k \in DOMAIN task["gosec"].cmds[i] :
          task' = [task EXCEPT !["gosec"].cmds[i] = InsertAt(@, k + 1, "-no-fail")]
  /\ UNCHANGED job
-----------------------------------------------------------------------------
(* A run of a lane on a tree with or without findings.                     *)
laneSteps(lane) == IF lane = "gosec" THEN gosecGateJob.steps ELSE job.steps
laneScan(lane) == IF lane = "gosec" THEN "gosec" ELSE "sast"

StartRun ==
  /\ run = Idle
  /\ LaneAccepted
  /\ \E lane \in {"gosec", "sast-gate"}, dirty \in BOOLEAN :
       run' = [lane |-> lane, dirty |-> dirty, next |-> 1, failed |-> FALSE, outcome |-> "", installed |-> {}, scanned |-> FALSE]
  /\ UNCHANGED <<job, task, laneEdits>>

\* An if without a status function asks for success() as well; an outcome is "" before its step.
Holds(condition) ==
  \/ condition = absent /\ ~run.failed
  \/ condition \in {sastFailed, gosecFailed[1]} /\ ~run.failed /\ run.outcome = "failure"
  \/ condition \in {alwaysIfSarif, alwaysIfReport[1]}   \* if the scan wrote a report, so SkipStep may take it too

\* Task stops at the first command that fails, and with ignore_error says nothing of it.
scanners == {"{{.GOSEC}}", "{{.GOLANGCI_LINT}} run {{.GOLANGCI_ARGS}}"}
FailsOnFindings(t) ==
  /\ task[t].ignore \in {absent, "false"}
  /\ \E i \in DOMAIN task[t].cmds : Range(task[t].cmds[i]) \cap scanners # {} /\ "-no-fail" \notin Range(task[t].cmds[i])

InstallsOf(command) ==
  CASE command = acceptedTaskInstallCommand -> {"task"}
    [] command = "scripts/go-tool.sh install golangci-lint" -> {"golangci-lint"}
    [] command = "scripts/go-tool.sh install gosec" -> {"gosec"}
    [] OTHER -> {}

ScanOf(command) ==
  CASE command = acceptedGosecWorkflowCommand -> [task |-> "gosec", tool |-> "gosec"]
    [] command = acceptedSASTWorkflowCommand -> [task |-> "lint:golangci", tool |-> "golangci-lint"]
    [] OTHER -> [task |-> absent, tool |-> absent]

\* Whether a command may succeed; any may fail, for a reason of its own.
MaySucceed(command) ==
  LET scan == ScanOf(command)
  IN IF scan.task = absent THEN command # "exit 1"
     ELSE {"task", scan.tool} \subseteq run.installed /\ (run.dirty => ~FailsOnFindings(scan.task))

Advance(ran, ok, s) ==
  run' = [run EXCEPT !.next = @ + 1,
                     !.failed = @ \/ (ran /\ ~ok /\ s.coe # "true"),
                     !.outcome = IF s.id # laneScan(run.lane) THEN @ ELSE IF ~ran THEN "skipped"
                                 ELSE IF ok THEN "success" ELSE "failure",
                     !.installed = IF ran /\ ok THEN @ \cup InstallsOf(s.run) ELSE @,
                     !.scanned = @ \/ (ran /\ ok /\ ScanOf(s.run).task # absent)]

Running == run # Idle /\ run.next <= Len(laneSteps(run.lane))

RunStep ==
  /\ Running
  /\ LET s == laneSteps(run.lane)[run.next]
     IN Holds(s.if) /\ \E ok \in BOOLEAN : (ok => MaySucceed(s.run)) /\ Advance(TRUE, ok, s)
  /\ UNCHANGED <<job, task, laneEdits>>

SkipStep ==
  /\ Running
  /\ LET s == laneSteps(run.lane)[run.next]
     IN (~Holds(s.if) \/ s.if \in {alwaysIfSarif, alwaysIfReport[1]}) /\ Advance(FALSE, FALSE, s)
  /\ UNCHANGED <<job, task, laneEdits>>

LaneNext == EditSteps \/ EditJob \/ EditTask \/ StartRun \/ RunStep \/ SkipStep
LaneSpec == LaneInit /\ [][LaneNext]_lanes
-----------------------------------------------------------------------------
\* A job passes when no step failed it, when it may fail, and when its condition keeps it from running.
Green ==
  /\ run # Idle /\ run.next > Len(laneSteps(run.lane))
  /\ \/ ~run.failed
     \/ run.lane = "sast-gate" /\ (job.coe = "true" \/ job.if # absent)

\* checkGolangciTaskPolicy does not look at ignore_error.
LintIgnoresErrors == run.lane = "sast-gate" /\ task["lint:golangci"].ignore \notin {absent, "false"}

(* However the lane and its tasks were edited, once the checker accepts    *)
(* them a lane that passes has run its scan through the task, and the scan *)
(* found nothing.  The one thing left aside is a lint task that ignores    *)
(* its errors.                                                             *)
GreenMeansClean == Green => run.scanned /\ (~run.dirty \/ LintIgnoresErrors)
=============================================================================
