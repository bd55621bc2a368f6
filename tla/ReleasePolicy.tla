---------------------------- MODULE ReleasePolicy ----------------------------
(***************************************************************************)
(* The release policy checker, checkWorkflowAgainstPolicy of tools/        *)
(* releasepolicy/main.go, on the release workflow as its maintainers edit  *)
(* it.  The workflow starts as the one the catalogue describes and is      *)
(* edited a step at a time, node by node of its YAML; after every edit the *)
(* checker accepts it or not.  Every check of the source is a predicate:   *)
(* TRUE where it appends no finding.  What GitHub and the shell make of    *)
(* the same nodes is defined apart, by Meaning.                            *)
(***************************************************************************)
EXTENDS ReleaseCatalogue, FiniteSets

CONSTANTS
  Instances,   \* records [policy, edits, added]: a catalogue, how often its workflow may
               \* be edited, and the keys an edit may add
  MaxDepth,    \* how many levels an edited workflow may have below its root
  Word         \* the strings that keys and lines are

\* A step of a job has its "with" five levels below the root.
ASSUME DepthAssumption == MaxDepth \in Nat /\ MaxDepth >= 6

VARIABLES instance,  \* the catalogue in force
          root,      \* the workflow, a YAML node
          edits      \* edits made so far

workflowVars == <<instance, root, edits>>
-----------------------------------------------------------------------------
(* yaml.Node.  Nil is Go's nil; an alias is a node of a kind of its own,   *)
(* which no function of the checker follows.                               *)
Nil == [kind |-> "nil"]
Alias == [kind |-> "alias"]
Scalar(text) == [kind |-> "scalar", value |-> text]
Sequence(items) == [kind |-> "sequence", items |-> items]
Mapping(entries) == [kind |-> "mapping", entries |-> entries]
Entry(key, node) == [key |-> key, node |-> node]

\* A text is a sequence of lines, or of parts.
Text == Seq(Word)

\* The nodes with at most so many levels below them.
Trees[d \in Nat] ==
  LET Lower == IF d = 0 THEN {} ELSE Trees[d - 1]
  IN {Alias} \cup [kind : {"scalar"}, value : Text]
       \cup [kind : {"mapping"}, entries : Seq([key : Word, node : Lower])]
       \cup [kind : {"sequence"}, items : Seq(Lower)]

Children(n) ==
  CASE n.kind = "mapping" -> [i \in DOMAIN n.entries |-> n.entries[i].node]
    [] n.kind = "sequence" -> n.items
    [] OTHER -> <<>>

\* The key that a child stands under, empty in a sequence.
ChildKey(n, i) == IF n.kind = "mapping" THEN n.entries[i].key ELSE ""

mapping(n, key) ==
  LET first == IF n.kind = "mapping" THEN SelectInSeq(n.entries, LAMBDA e : e.key = key) ELSE 0
  IN IF first = 0 THEN Nil ELSE n.entries[first].node

mapKeys(n) == IF n.kind = "mapping" THEN [i \in DOMAIN n.entries |-> n.entries[i].key] ELSE <<>>
keysOf(n) == Range(mapKeys(n))
scalar(n) == IF n.kind = "scalar" THEN n.value ELSE None
seqStrings(n) == IF n.kind = "sequence" THEN [i \in DOMAIN n.items |-> scalar(n.items[i])] ELSE <<>>
steps(job) == LET n == mapping(job, "steps") IN IF n.kind = "sequence" THEN n.items ELSE <<>>
needs(job) == LET n == mapping(job, "needs") IN IF n.kind = "scalar" THEN <<n.value>> ELSE seqStrings(n)

sameStringSet(got, want) == Len(got) = Cardinality(want) /\ Range(got) = want

\* Recursion goes down a tree, in this and in the functions on Trees below.
uniqueKeys[d \in Nat] ==
  [n \in Trees[d] |-> IsInjective(mapKeys(n)) /\ \A i \in DOMAIN Children(n) : uniqueKeys[d - 1][Children(n)[i]]]
checkDuplicateKeys(n) == uniqueKeys[MaxDepth][n]

expectExactScalar(n, want) == n.kind \in {"nil", "scalar"} /\ scalar(n) = want

expectOptionalExactScalar(n, want) == IF want = None THEN n.kind = "nil" ELSE expectExactScalar(n, want)

expectExactScalars(n, want) ==
  /\ n.kind = "mapping"
  /\ \A key \in DOMAIN want : expectExactScalar(mapping(n, key), want[key])
  /\ keysOf(n) \subseteq DOMAIN want

expectOptionalExactScalars(n, want) == IF DOMAIN want = {} THEN n.kind = "nil" ELSE expectExactScalars(n, want)

expectOnlyKeys(n, want) == n.kind = "mapping" /\ keysOf(n) \subseteq want
-----------------------------------------------------------------------------
(* Lines of a script that are not commands.  GitHub expands an expression  *)
(* wherever it stands in a script, in a comment too.                       *)
blank == ""
comment == "# comment"
expressionComment == "# ${{ expression }}"
Comments == {comment, expressionComment}

\* A continued line with a space after its backslash, and strings.TrimSpace of a line.
Spaced(line) == line \o " "
TrimSpace(line) == IF \E c \in Continued : line = Spaced(c) THEN CHOOSE c \in Continued : line = Spaced(c) ELSE line

\* The lines that stay, trimmed.
LinesKept(run, dropped) ==
  LET kept[i \in 0 .. Len(run)] ==
        IF i = 0 THEN <<>>
        ELSE LET line == TrimSpace(run[i]) IN IF line \in dropped THEN kept[i - 1] ELSE Append(kept[i - 1], line)
  IN kept[Len(run)]

scriptLinesCommentsKept(run) == LinesKept(run, {blank})   \* slip: only blank lines dropped

scriptLines(run) == LinesKept(run, {blank} \cup Comments)

requireExactScriptLines(n, want) == n.kind = "scalar" /\ scriptLines(n.value) = want

\* strings.HasPrefix; a reference to an action is <<prefix up to the @, version>>.
hasPrefix(uses, prefix) == uses # None /\ uses[1] = prefix
shaRef == {"one SHA", "another SHA"}

checkAcceptedStep(step, policy) ==
  /\ expectOnlyKeys(step, {"name", "id", "if", "uses", "run", "with", "env", "shell", "continue-on-error"})
  /\ \A key \in DOMAIN policy.fields : expectOptionalExactScalar(mapping(step, key), policy.fields[key])
  /\ LET uses == mapping(step, "uses")
     IN IF policy.uses = "" THEN uses.kind = "nil" ELSE hasPrefix(scalar(uses), policy.uses)
  /\ LET run == mapping(step, "run")
     IN IF policy.run = None THEN run.kind = "nil" ELSE requireExactScriptLines(run, policy.run)
  /\ expectOptionalExactScalars(mapping(step, "with"), policy.with)
  /\ expectOptionalExactScalars(mapping(step, "env"), policy.env)

\* The name of a step, or else its action, or else nothing: "unnamed".
stepIdentity(step) ==
  LET name == scalar(mapping(step, "name"))
      uses == scalar(mapping(step, "uses"))
  IN IF name # None THEN name ELSE IF uses # None THEN <<"uses:", uses[1]>> ELSE <<"unnamed">>

policyIdentity(step) == IF step.fields["name"] # None THEN step.fields["name"] ELSE <<"uses:", step.uses>>

checkAcceptedJobSteps(job, policy) ==
  /\ [i \in DOMAIN steps(job) |-> stepIdentity(steps(job)[i])]
       = [i \in DOMAIN policy.steps |-> policyIdentity(policy.steps[i])]
  /\ \A i \in DOMAIN policy.steps : checkAcceptedStep(steps(job)[i], policy.steps[i])

checkAcceptedJobEnvelope(job, policy) ==
  /\ expectOnlyKeys(job, {"name", "if", "needs", "runs-on", "timeout-minutes", "permissions", "outputs", "steps"})
  /\ \A key \in DOMAIN policy.scalars : expectExactScalar(mapping(job, key), policy.scalars[key])

checkAcceptedJobNeeds(job, policy) ==
  IF policy.needs = {} THEN mapping(job, "needs").kind = "nil"
  ELSE sameStringSet(needs(job), {<<name>> : name \in policy.needs})

checkAcceptedJob(job, policy) ==
  /\ checkAcceptedJobEnvelope(job, policy)
  /\ checkAcceptedJobNeeds(job, policy)
  /\ expectOptionalExactScalars(mapping(job, "permissions"), policy.permissions)
  /\ expectOptionalExactScalars(mapping(job, "outputs"), policy.outputs)
  /\ checkAcceptedJobSteps(job, policy)
-----------------------------------------------------------------------------
checkRoot(r, policy) ==
  /\ sameStringSet(mapKeys(r), policy.rootKeys)
  /\ expectExactScalar(mapping(r, "name"), policy.workflowName)
  /\ expectExactScalars(mapping(r, "env"), policy.env)
  /\ expectExactScalars(mapping(r, "concurrency"), policy.concurrency)

\* What workflow_dispatch holds is not looked at.
checkTriggers(r, policy) ==
  LET on == mapping(r, "on")
      push == mapping(on, "push")
  IN /\ sameStringSet(mapKeys(on), policy.triggerKeys)
     /\ sameStringSet(mapKeys(push), policy.pushKeys)
     /\ sameStringSet(seqStrings(mapping(push, "tags")), policy.pushTags)

checkTopPermissions(r, policy) ==
  LET permissions == mapping(r, "permissions")
  IN /\ permissions.kind # "nil"
     /\ expectExactScalar(mapping(permissions, "contents"), policy.topPermission["contents"])
     /\ keysOf(permissions) \subseteq DOMAIN policy.topPermission

policyJobNames(policy) == {policy.jobs[i].name : i \in DOMAIN policy.jobs}

checkJobSet(jobs, policy) == keysOf(jobs) = policyJobNames(policy)

allSteps(jobs) == UNION {Range(steps(mapping(jobs, name))) : name \in keysOf(jobs)}

checkActionPins(jobs) ==
  \A step \in allSteps(jobs) :
    LET uses == scalar(mapping(step, "uses")) IN uses # None => Len(uses) = 2 /\ uses[2] \in shaRef

checkNoRunExpressionsInLines(jobs) == TRUE   \* slip: left to the comparison of the lines

checkNoRunExpressions(jobs) ==
  \A step \in allSteps(jobs) : expressionComment \notin Range(scalar(mapping(step, "run")))

\* Jobs outside the catalogue only, which checkJobSet reports as well.
checkCheckoutCredentials(jobs, policy) ==
  \A name \in keysOf(jobs) \ policyJobNames(policy) : \A step \in Range(steps(mapping(jobs, name))) :
    hasPrefix(scalar(mapping(step, "uses")), "actions/checkout@")
      => expectExactScalars(mapping(step, "with"), "persist-credentials" :> <<"false">>)

\* Concepts are there and distinct; the loop over requiredConfigs is left out.
checkAcceptedReleasePolicyCatalogue(policy) ==
  LET concepts == [i \in DOMAIN policy.jobs |-> policy.jobs[i].concept]
  IN "" \notin Range(concepts) /\ IsInjective(concepts)

checkWorkflowAgainstPolicy(r, policy) ==
  /\ checkAcceptedReleasePolicyCatalogue(policy)
  /\ checkDuplicateKeys(r)
  /\ checkRoot(r, policy) /\ checkTriggers(r, policy) /\ checkTopPermissions(r, policy)
  /\ LET jobs == mapping(r, "jobs")
     IN /\ jobs.kind # "nil"
        /\ checkJobSet(jobs, policy)
        /\ \A i \in DOMAIN policy.jobs : checkAcceptedJob(mapping(jobs, policy.jobs[i].name), policy.jobs[i])
        /\ checkActionPins(jobs) /\ checkCheckoutCredentials(jobs, policy) /\ checkNoRunExpressions(jobs)
-----------------------------------------------------------------------------
(* .github/workflows/release.yml, written out from a catalogue.            *)
Listed(S) ==
  LET listed[k \in 0 .. Cardinality(S)] ==
        IF k = 0 THEN <<>> ELSE Append(listed[k - 1], CHOOSE x \in S : x \notin Range(listed[k - 1]))
  IN listed[Cardinality(S)]

Scalars(f) ==
  LET keys == Listed({key \in DOMAIN f : f[key] # None})
  IN [i \in DOMAIN keys |-> Entry(keys[i], Scalar(f[keys[i]]))]

Given(condition, key, node) == IF condition THEN <<Entry(key, node)>> ELSE <<>>

StepNode(step) ==
  Mapping(Scalars(step.fields)
          \o Given(step.uses # "", "uses", Scalar(<<step.uses, "one SHA">>))
          \o Given(DOMAIN step.with # {}, "with", Mapping(Scalars(step.with)))
          \o Given(DOMAIN step.env # {}, "env", Mapping(Scalars(step.env)))
          \o Given(step.run # None, "run", Scalar(step.run)))

JobNode(job) ==
  LET wanted == Listed(job.needs)
  IN Mapping(Scalars(job.scalars)
             \o Given(job.needs # {}, "needs", Sequence([i \in DOMAIN wanted |-> Scalar(<<wanted[i]>>)]))
             \o Given(DOMAIN job.permissions # {}, "permissions", Mapping(Scalars(job.permissions)))
             \o Given(DOMAIN job.outputs # {}, "outputs", Mapping(Scalars(job.outputs)))
             \o <<Entry("steps", Sequence([i \in DOMAIN job.steps |-> StepNode(job.steps[i])]))>>)

Workflow(policy) ==
  Mapping(<<Entry("name", Scalar(policy.workflowName)),
            Entry("on", Mapping(<<Entry("push", Mapping(<<Entry("tags", Sequence(<<Scalar(<<"v*">>)>>))>>)),
                                  Entry("workflow_dispatch", Scalar(None))>>)),
            Entry("permissions", Mapping(Scalars(policy.topPermission))),
            Entry("env", Mapping(Scalars(policy.env))),
            Entry("concurrency", Mapping(Scalars(policy.concurrency))),
            Entry("jobs", Mapping([i \in DOMAIN policy.jobs |-> Entry(policy.jobs[i].name, JobNode(policy.jobs[i]))]))>>)
-----------------------------------------------------------------------------
(* What newAcceptedReleasePolicy makes sure of, and the comparison of a     *)
(* workflow with it relies on.                                             *)
ASSUME WordAssumption ==
  {"", "name", "on", "permissions", "env", "concurrency", "jobs", "push", "workflow_dispatch", "tags", "v*", "needs",
   "outputs", "steps", "uses", "with", "run", "one SHA"} \subseteq Word

\* Keys under which a scalar is not just a text, or a node not looked at.
SpecialKeys == {"run", "uses", "needs", "tags", "workflow_dispatch"}

\* A mapping of which every entry has to be there.
GivenTexts(f) ==
  /\ IsFiniteSet(DOMAIN f) /\ DOMAIN f \subseteq Word \ SpecialKeys
  /\ \A key \in DOMAIN f : f[key] \in Text /\ f[key] # None

WellMadeStep(step) ==
  /\ DOMAIN step.fields = stepKeys /\ stepKeys \subseteq Word /\ \A key \in stepKeys : step.fields[key] \in Text
  /\ step.uses \in Word /\ (step.fields["name"] = None => step.uses # "")
  /\ GivenTexts(step.with) /\ GivenTexts(step.env)
  /\ step.run \in Text
  /\ \A line \in Range(step.run) : line \notin {blank} \cup Comments /\ \A c \in Continued : line # Spaced(c)

WellMadeJob(job) ==
  /\ DOMAIN job.scalars = {"name", "if", "runs-on", "timeout-minutes"}
  /\ GivenTexts(job.scalars) /\ GivenTexts(job.permissions) /\ GivenTexts(job.outputs)
  /\ IsFiniteSet(job.needs) /\ job.needs \subseteq Word
  /\ job.steps \in Seq(Range(job.steps)) /\ job.steps # <<>> /\ \A step \in Range(job.steps) : WellMadeStep(step)

WellMade(policy) ==
  /\ policy.rootKeys = {"name", "on", "permissions", "env", "concurrency", "jobs"}
  /\ policy.workflowName \in Text /\ policy.workflowName # None
  /\ policy.triggerKeys = {"push", "workflow_dispatch"} /\ policy.pushKeys = {"tags"} /\ policy.pushTags = {<<"v*">>}
  /\ DOMAIN policy.topPermission = {"contents"} /\ GivenTexts(policy.topPermission)
  /\ GivenTexts(policy.env) /\ GivenTexts(policy.concurrency)
  /\ policy.jobs \in Seq(Range(policy.jobs)) /\ policy.jobs # <<>>
  /\ \A job \in Range(policy.jobs) : WellMadeJob(job)
  /\ policyJobNames(policy) \subseteq Word \ SpecialKeys
  /\ IsInjective([i \in DOMAIN policy.jobs |-> policy.jobs[i].name])
  /\ checkAcceptedReleasePolicyCatalogue(policy)

ASSUME PolicyAssumption == \A i \in Instances : i.edits \in Nat /\ (i.edits > 0 => WellMade(i.policy))
ASSUME SpacedAssumption == \A c \in Continued : Spaced(c) \notin {blank} \cup Comments
-----------------------------------------------------------------------------
(* Edits of a node that stands under key are all that one change can make  *)
(* of it.                                                                  *)
other == Scalar(<<"other">>)
Replacements == {other, Scalar(None), Mapping(<<>>), Sequence(<<>>), Alias}

Swapped(s, i) == [s EXCEPT ![i] = s[i + 1], ![i + 1] = s[i]]
Reordered(s) == {RemoveAt(s, i) : i \in DOMAIN s} \cup {Swapped(s, i) : i \in 1 .. Len(s) - 1}

LineEdits(run) ==
  Reordered(run)
    \cup {InsertAt(run, i, line) : i \in 1 .. Len(run) + 1, line \in {blank, comment, expressionComment, "other"}}
    \cup {[run EXCEPT ![i] = Spaced(run[i])] : i \in {j \in DOMAIN run : run[j] \in Continued}}

ScalarEdits(key, text) ==
  CASE key = "run" -> LineEdits(text)
    [] key = "uses" /\ Len(text) = 2 -> {[text EXCEPT ![2] = version] : version \in {"a tag", "another SHA"}}
    [] OTHER -> {}

NodeEdits(key, n, added) ==
  Replacements \cup
  CASE n.kind = "mapping" ->
         {Mapping(entries) : entries \in
            Reordered(n.entries) \cup {Append(n.entries, Entry(k, other)) : k \in added \cup keysOf(n)}}
    [] n.kind = "sequence" ->
         {Sequence(items) : items \in Reordered(n.items) \cup {InsertAt(n.items, i, n.items[i]) : i \in DOMAIN n.items}}
           \cup (IF Len(n.items) = 1 THEN {n.items[1]} ELSE {})
    [] n.kind = "scalar" -> {Scalar(text) : text \in ScalarEdits(key, n.value)}
    [] OTHER -> {}

WithChild(n, i, child) ==
  IF n.kind = "mapping" THEN [n EXCEPT !.entries[i].node = child] ELSE [n EXCEPT !.items[i] = child]

\* Every edit in a tree: the way down to a node, child by child, and what takes its place.
EditsIn(tree, added) ==
  LET editsIn[d \in Nat] == [place \in Word \X Trees[d] |->
        LET n == place[2]
        IN {<<<<>>, m>> : m \in NodeEdits(place[1], n, added)} \cup
           UNION {{<<<<i>> \o e[1], e[2]>> : e \in editsIn[d - 1][ChildKey(n, i), Children(n)[i]]} : i \in DOMAIN Children(n)}]
  IN editsIn[MaxDepth]["", tree]

\* A tree with m at the end of the way.
Put(tree, way, m) ==
  LET put[d \in Nat] == [place \in Trees[d] \X Seq(Nat) |->
        LET n == place[1]
            i == Head(place[2])
        IN IF place[2] = <<>> THEN m ELSE WithChild(n, i, put[d - 1][Children(n)[i], Tail(place[2])])]
  IN put[MaxDepth][tree, way]

WorkflowInit ==
  /\ instance \in Instances
  /\ root = Workflow(instance.policy)
  /\ edits = 0

EditWorkflow ==
  /\ edits < instance.edits
  /\ \E e \in EditsIn(root, instance.added) : root' = Put(root, e[1], e[2])
  /\ root' \in Trees[MaxDepth]
  /\ edits' = edits + 1
  /\ UNCHANGED instance

WorkflowNext == EditWorkflow
WorkflowSpec == WorkflowInit /\ [][WorkflowNext]_workflowVars
-----------------------------------------------------------------------------
(* What the nodes mean to those that run them.  A shell joins a line that  *)
(* ends in a backslash to the line below it, whatever that line is: a      *)
(* blank line or a comment below it ends the command, and the line after   *)
(* that starts one.                                                        *)
ReadLine(s, line) ==
  CASE line \in {blank, comment} -> [s EXCEPT !.open = FALSE]
    [] line \notin {blank, comment} /\ s.open ->
         [done |-> [s.done EXCEPT ![Len(s.done)] = Append(@, line)], open |-> line \in Continued]
    [] line \notin {blank, comment} /\ ~s.open -> [done |-> Append(s.done, <<line>>), open |-> line \in Continued]

Read(run) ==
  LET read[i \in 0 .. Len(run)] == IF i = 0 THEN [done |-> <<>>, open |-> FALSE] ELSE ReadLine(read[i - 1], run[i])
  IN read[Len(run)]
Commands(run) == Read(run).done

Bag(items) == [item \in Range(items) |-> Cardinality({i \in DOMAIN items : items[i] = item})]

\* The commit that an action is pinned to is a matter of the pin in use.
ScalarMeaning(key, text) ==
  CASE key = "run" -> <<"commands", Commands(text)>>
    [] key = "uses" /\ Len(text) = 2 /\ text[2] \in shaRef -> <<"pinned action", text[1]>>
    [] key = "needs" -> <<"bag", Bag(<<<<"text", text>>>>)>>
    [] OTHER -> <<"text", text>>

\* What a node means under key, given what its children mean.  A mapping is a function, and none
\* with a key twice; the order of needs and tags is nothing, and so are the inputs of a dispatch.
NodeMeaning(key, n, below) ==
  CASE key = "workflow_dispatch" -> IF checkDuplicateKeys(n) THEN <<"trigger">> ELSE <<"invalid">>
    [] key # "workflow_dispatch" /\ n.kind = "mapping" ->
         IF IsInjective(mapKeys(n))
         THEN <<"mapping", [k \in keysOf(n) |-> below[CHOOSE i \in DOMAIN n.entries : n.entries[i].key = k]]>>
         ELSE <<"invalid">>
    [] key # "workflow_dispatch" /\ n.kind = "sequence" -> IF key \in {"needs", "tags"} THEN <<"bag", Bag(below)>> ELSE <<"sequence", below>>
    [] key # "workflow_dispatch" /\ n.kind = "scalar" -> ScalarMeaning(key, n.value)
    [] key # "workflow_dispatch" /\ n.kind = "alias" -> <<"alias">>

meaning[d \in Nat] == [place \in Word \X Trees[d] |->
  LET n == place[2]
  IN NodeMeaning(place[1], n, [i \in DOMAIN Children(n) |-> meaning[d - 1][ChildKey(n, i), Children(n)[i]]])]
Meaning(key, n) == meaning[MaxDepth][key, n]

MeansTheSame == Meaning("", root) = Meaning("", Workflow(instance.policy))
PolicyAccepted == checkWorkflowAgainstPolicy(root, instance.policy)

\* Some script has a blank line, a comment or a space right behind the backslash of a continued line.
Runs(jobs) == {scalar(mapping(step, "run")) : step \in allSteps(jobs)}
ContinuationCut ==
  \E run \in Runs(mapping(root, "jobs")) :
    \/ \E i \in 1 .. Len(run) - 1 : run[i] \in Continued /\ run[i + 1] \in {blank, comment}
    \/ \E i \in DOMAIN run : run[i] # TrimSpace(run[i])
-----------------------------------------------------------------------------
\* A workflow that no edit is in store for is not looked at.
Examined == instance.edits > 0

(* What the checker accepts is the accepted workflow: the same triggers,   *)
(* guards, permissions, needs, actions and commands, up to the order of    *)
(* keys, the pins in use and comments.  The one thing left aside is a      *)
(* continuation cut in two.                                                *)
AcceptedMeansSame == Examined /\ PolicyAccepted => MeansTheSame \/ ContinuationCut

(* And it is no stricter: a workflow that means the same passes.           *)
SameIsAccepted == Examined /\ MeansTheSame => PolicyAccepted

(* Without the exception: scripts that pass run the accepted commands.     *)
AcceptedRunsTheSame == Examined /\ PolicyAccepted => MeansTheSame
=============================================================================
