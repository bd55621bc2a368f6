# A verification of the-sarge/cpace

cpace is a Go library for CPace, a password-authenticated key exchange. An
initiator calls `Start`, a responder `Respond`, both call `Finish`; three
messages (A, B, C) go over whatever transport the applications have, and both
sides end with a `Session` from which they `Export` keys, or with an error. The
repository also holds the tools and workflows that check and publish the library.

This directory models the library and these tools in TLA+, checks the models with TLC on small
instances, and proves the main safety properties with TLAPS for instances of any
size. `PROJECT.json` is the index: components, runs, the mutated definitions that
show each property has teeth, the map from definitions to source lines, hazards,
theorems.

    tlc -config Session.cfg MCSessionState.tla           # a run: cfg and module
    tlapm SessionState_proofs.tla                        # a module of proofs

## Inventory

The library. It starts no goroutine and keeps no global state; its concurrency
is that of the goroutines which share an Initiator, Responder or Session.

| component | state | operations | interacts by | what is hard | what makes it correct |
|---|---|---|---|---|---|
| terminal state (`terminal_state.go`) | mutex, `used`, pointer to the core | `claimFinish`, `claimClose`, `closeCore` | shared pointer in every copy of an Initiator or Responder | the core is used and cleared outside the mutex | one call wins, it alone touches the core, the core is wiped when it returns |
| shells (`api.go`) | none of their own | `Start`, `Respond`, `Finish`, `Close` | call the core, exchange messages | every error path has to clear and to consume | verdict order; nothing survives an error |
| core (`core.go`, `transcript.go`, `peer_share.go`) | scalar; or ISK and transcript; ids | constructors, `finish`, `clear` | holds copies of its Input | messages lost, repeated, mixed; the own tag coming back | a Session has a peer with a matching Input and the same key |
| Session (`session.go`) | mutex, `closed`, ISK; immutable metadata | `Export`, `Close`, three accessors | shared pointer in every copy | an Export racing a Close | linearizable; no key material from a wiped key |
| input (`input.go`, `bytes.go`) | `callerInput`, `normalizedInput`, each for one call | `acceptInput`, `handoff`, `wipe` | slices handed from owner to owner, deferred wipes | aliasing, order of deferred clears, panics | everything secret is zeroed, everything handed out is not |
| framing (`framing.go`, `length_value.go`, `caps.go`) | position in the buffer | encode, decode | between the wire and the shells | lengths stated by a peer | decoder accepts exactly the encoder's image and stays in bounds |
| primitives (`crypto.go`) | none | generator, scalar, ISK, tags | called by core and Session | concatenations without lengths, zero padding | hash inputs determine their parts |

Around the library:

| component | state | operations | interacts by | what is hard | what makes it correct |
|---|---|---|---|---|---|
| `tools/evidencebaseline` | the summary-doc manifest on disk, the evidence bundles, the baseline index | check the repository; write the manifest through a temporary file | files, which other runs read or replace | kills and failures between file operations; symlinks | a manifest is whole; a bundle that passes is pinned; a run reports success only for what it installed |
| `tools/releasepolicy` | none | compare `release.yml`, `sast-gate.yml` and `Taskfile.yml` with a catalogue | reads what maintainers edit, decides what runs | many shapes of YAML say one thing, or nearly | what is accepted means what the catalogue says |
| `release.yml` and the release scripts | runs, attempts, jobs, artifacts, releases | push, dispatch, run again; verify, attest, publish | needs, outputs, artifacts, a queue by ref, GitHub releases | jobs die between two steps; artifacts of earlier attempts; view, then create; a lookup that fails | only what was vetted is published, and once unless a lookup failed |
| `scripts/classify-check-changes.sh`, the Check job of `ci.yml` | none | decide which checks a change needs | reads the manifest of the tree under test | a change that edits what classifies it; main moves on | main always passes the evidence baseline checker |
| the SAST lane (`sast-gate.yml`, the scan tasks) | the run of a job | scan, upload, report | outcome of the scan step | a scan that may fail and a later step that must | a green lane has scanned and found nothing |

Read and not modelled, since they keep no state that outlives a job and do not
interact: other workflows, scripts and tasks; OSS-Fuzz packaging, lint rules; tests,
fuzz targets, vectors, documents.

## The modules

    TerminalClaim      <-- implements --  SingleUseState   (mutex level)
    ConfirmedSession   <-- implements --  SessionState     (mutex level)
    KeyConfirmation    <-- implements --  Exchange  -- extends -->  CPaceCore
    ManifestRegister   <-- implements --  ManifestWrite    (file operations)
    Preimages, MessageReader  -- extend -->  LengthValue
    ReleasePolicy, ScanLanes  -- extend -->  ReleaseCatalogue
    ChangeGate                -- extends --> EvidenceIndex
    Lifetimes, SampleScalar, EvidenceBundle, ReleasePipeline

Modules that begin with `MC` give the constants their values. Three of them put
machines side by side that do not interact, so that one run checks them all:
`MCByteLevel` (MessageReader, Preimages, SampleScalar), `MCEvidenceBaseline`
(ManifestWrite, EvidenceBundle) and `MCReleasePolicy` (ReleasePolicy, ScanLanes). A
behaviour of theirs is one of a single machine, the others standing still. They extend
the modules of these machines, as do the modules of proofs, so that a run and a theorem speak of one
definition; this is why the names of
machines that share a run keep clear of each other (`BundleNext`, `pass` beside
ManifestWrite; `HashInit`, `SampleNext`, `scratch` beside MessageReader; `WorkflowNext`,
`LaneNext`).

**SingleUseState** is one Initiator or Responder in the hands of several
goroutines. `Lock`, `CheckUsed`, `SetUsed` and the unlock are steps of their own;
after `UnlockWon` the winner decodes, verifies, builds the Session and wipes the
core field by field without the lock, as `Finish` does with its deferred
`core.clear()`. `NFields` is 1 for the initiator (scalar) and 2 for the responder
(ISK, transcript); `CoreErrors` is what the role's `finish` may return. Calls on
nil and on zero values are actions too. The branch `s.core == nil` is left out:
the constructors always store a core and nothing replaces it. **TerminalClaim**
is what callers are promised (ADR-0008): win, lose, decide, return.

**SessionState** is one Session in the hands of several goroutines, with the same
granularity: `Close` zeroes the key, drops it and sets the flag in three steps.
**ConfirmedSession** is the promise: each call takes effect at one instant.

**CPaceCore** holds the pure part of the protocol as symbolic terms: a hash, a
MAC and the map to the group are injective constructors (records), and a shared
secret is the base with the *set* of the two exponents, which is the commutativity
that Diffie-Hellman rests on. **Exchange** runs any number of initiator and
responder runs over a network that is a set of sent messages. A delivered message
is any combination of sent session ids, shares, associated data and tags, or of
garbled ones, or a message that does not decode; so messages are lost, repeated,
reordered, misdelivered and taken apart. A call is one step, which SingleUseState
justifies for calls on one run; distinct runs share no state. Two runs may sample
the same scalar, which is how the equal-tag case of
`docs/key-confirmation-reflection.md` arises. **KeyConfirmation** is the
promise: offer, accept, confirm.

**LengthValue** is `length_value.go` with recursive functions over a `Radix` (128
in the code). **MessageReader** is the decoder as a state machine over a buffer:
header, prefix byte by byte, field, end. The compile-time checks of `framing.go`
are its assumptions `PrefixCoversCaps` and `AggregateCapCoversFields`, the latter over
`maxValidMessageLength`; `WireConstants` says what the constants are.
**Preimages** forms every string the package hashes or MACs; it justifies that
CPaceCore takes those hashes as injective. Constant labels are left out. Its
assumptions: shares, keys and the ISK have one length each (`OneLength`), and the length of
the zero padding is one digit (`PaddingIsShort`, the comment at `crypto.go:24`).

**SampleScalar** is the rejection loop of `sampleScalar`, byte by byte: `io.ReadFull`
may fail after any byte, the draw is masked and read as a number, and taken if it is
canonical and not zero, up to a limit of tries. The group, the buffer and the limit
are small; `ConstantsFit` keeps their order as it is in the code (mask below group
order below buffer, the mask a divisor of a byte's range).

**Lifetimes** follows the byte slices through Start or Respond and the Finish
or Close after it. A heap maps buffers to live or zeroed; slices are references;
deferred clears are steps that run on every path out, the panic of the random
source included. The scratch strings inside one crypto call (`genStr`,
`keyInput`, `material`), which are cleared before the call returns and which
cannot fail in between, are not buffers of the model, nor are public transcripts
of the initiator's `finish`. The responder's return after a failing shared secret
(`core.go:103-105`) is left out: it cannot be reached, since the share was accepted before.

**ManifestWrite** is the summary-doc manifest on disk. A writer is a run of
`--write-summary-docs`: read the baseline, look at the manifest's path, create a
temporary file, write it in one part or two, chmod, close, rename; every operation
may fail, which leads to the deferred removal (which may fail too), and a run may be
killed anywhere. A reader is a run of the checker: read the baseline, look at the
path, open, read in two parts, compare. A rename replaces the directory entry and
leaves an opened file as it is. A torn text is a value of its own, "torn".
**ManifestRegister** is the promise: one register of lists. Power failures, for
which the code does not sync, and changes of the manifest by anything but the tool
(an editor, `git checkout`) are outside the model.

**EvidenceBundle** is `checkBundle` on a tree and a list of lines, both chosen at the
start; `pass` is where the check is: root, control files, parse, verify, walk. Nodes behind a symlink exist in the tree, since opening
a path follows symlinks; only `lstatChecksumEntry` and the walk do not. The files do
not change during a check. `Evidence`, in its properties, is what a reader can open
below the root; it leaves out what lies behind a symlink named `.DS_Store`, which
the checker ignores with its name.

**EvidenceIndex** is `checkRepo` as a predicate on a tree: the table of the baseline,
its rows, the manifest, every bundle. A tree maps the paths of its files to regular
files or symlinks; directories are the prefixes. **ChangeGate** is what stands
between a change and main: pull requests change files, Check runs on the merge with
the main of the moment, classifies the changed paths with the manifest *of that
merge*, and leaves the evidence baseline unchecked for other documents. A pull request
is merged on a Check of the present main only, which the strict protection of
`docs/ci-policy.md` asks for.

**ReleaseCatalogue** is `newAcceptedReleasePolicy`. **ReleasePolicy** writes the
release workflow out from it as a YAML tree and lets maintainers edit it node by node:
replace a node by a scalar, a null, an empty mapping or sequence or an alias, remove,
repeat or swap entries, add keys, edit lines of scripts, change pins. `Trees[d]` are the
nodes with at most `d` levels below them, and what the code does by recursion over nodes
is a function over `d` here; an edited workflow has at most `MaxDepth` levels, and its
keys and lines are in `Word`. An edit is the way down to a node and what takes
its place. Every check of
`checkWorkflowAgainstPolicy` is a predicate. What the nodes *mean* is defined apart:
`Meaning` reads a mapping as a function, needs as a bag, and a script as the commands a
shell makes of its lines, continued lines joined. So the two can disagree, and
they do in one place: see Findings. `WellMade` is what the comparison relies on in a
catalogue; TLC evaluates it on the catalogues of the runs, `newAcceptedReleasePolicy` among
them. **ScanLanes** has the policy over the scan lanes
and then runs a lane as GitHub does, with `continue-on-error`, outcomes and
conditions. Of a step it keeps id, name, `if`, `continue-on-error` and `run`; of a task
`ignore_error` and its commands. The gosec job it runs is the one of the catalogue,
since ReleasePolicy shows that no other is accepted.

**ReleasePipeline** is runs of `release.yml`: started by the push of a tag or
dispatched on any ref, queued by ref, run again from the failed jobs or from any one.
The gates are a step each; the jobs that make, attest and publish the document go step
by step and may die between two steps: fail, time out or be cancelled. A download
gives an artifact of any attempt. `gh release view` may find the release or draft that is
there; or it fails, and the script goes on as if it had found none, since its condition
looks at no more than success. `overlooked` keeps the attempts whose lookup failed where
there was one; no action reads it. `gh release create` makes a draft and then publishes
it. Maintainers create and delete releases by hand. Tags do not move (the ruleset of
`docs/ci-policy.md`), and GitHub refuses a second published release of a tag, though not a
second draft. That `gh release create` looks for a published release itself, before it
makes its draft, is not counted on.

Operators whose comment begins with "Slip" are not part of the model: each is a
definition as a plausible mistake would leave it, and is used to show that a
property notices.

## Runs

| run | instance | shows |
|---|---|---|
| `single_use` | 3 goroutines, 2 fields, every error of a core, any number of calls, fairness | exclusive core, wipe at return, whole key in the Session, TerminalClaim; every call returns, a claim leads to a wipe |
| `session` | 3 goroutines, fairness | no torn Export, ConfirmedSession; every call returns |
| `exchange` | 3 runs: 2 initiators with 2 passwords and a responder with 2 expected peers, or an initiator and 2 responders in 2 sessions with different data; 2 scalars | confirmation both ways, tags name their role, KeyConfirmation |
| `exchange_faithful` | 1 run of each role, 4 scalars, fairness | matching Inputs complete with one key |
| `byte_level` | decoder: radix 2, an exact and a capped field, all bodies up to 7 bytes; hash inputs: radix 2, 8 strings of length 0 to 4; scalars: 16 draws, group of 11, 3 tries | decoder = inverse of encoder, in bounds; no collision, padding ends at the block; even odds, no scalar refused but zero |
| `lifetimes` | both roles, nil and aliased inputs, every path | what is zeroed and what is not |
| `evidence_baseline` | 2 writers, 1 reader, 2 lists, 1 edit; 208 trees over 13 paths, lists of up to 2 lines out of 13 | whole manifest, no stray file, success means installed, ManifestRegister; a passing bundle is pinned, nothing outside is read, a well-made bundle passes |
| `change_gate` | 2 pull requests, 3 edits in all out of 24, 1 merge before the other | main passes the evidence baseline checker |
| `release_policy` | every edit of the release workflow, every 2 edits of one with 2 jobs; every 2 edits of the SAST job and the tasks, then a run of a lane | accepted means the same and the converse; green means scanned and clean |
| `script_drift` | every edit of the release workflow | a violation: see Findings |
| `release_pipeline` | 2 runs, 3 refs (signed tag, lightweight tag, tag without v), 1 run again, 1 release by hand | only what was vetted is published, a second draft or release of a tag only past a failed lookup, a green run was vetted |
| `release_runs_end` | 2 runs on one tag, 1 run again, fairness | a queued run ends or is superseded |

Why the bounds are enough. The terminal state and the Session have one lock, one
flag and one key, so a fault is an interference of two calls; the third goroutine
observes, and calls repeat without bound. Two fields and both kinds of error include
what either role does. In the exchange a fault needs at most
one run that is recombined into the conversation of two others (`ThreeRuns`), and the
theorems remove this bound. Four scalars in `exchange_faithful` let the runs agree or
differ in their shares. In `byte_level` the decoder's second field has the largest
length a two-byte prefix can state as its cap, and the body may exceed the longest valid message (a
7-byte body holds 2 + 5); the aggregate cap is met by two further buffers; the theorems
remove these bounds. The
strings have lengths on both sides of the radix and contents that
look like encodings of each other. Three of the sixteen numbers that a scalar's buffer
can hold are in the group and beyond the mask, five are beyond the group, so masking,
reducing and rejecting differ. Two writers and a reader are enough to see a
torn, shared or lost file, and the theorems remove the bound; one edit makes the
writers disagree. The trees of `evidence_baseline` vary the root, the control files and
the evidence in turn (a fault in one of them is a finding of its own), and two lines
show every relation between entries: repeated, missing, superfluous. In `change_gate`
two pull requests can pass alone and break main together, and three edits let one of
them change the baseline, the manifest or a document along with something else; a
theorem removes these bounds. One edit of the full workflow reaches every check on
every node; pairs, on the short one, show edits that hide each other. `MaxDepth` is 7: a workflow
has six levels below its root, which `DepthAssumption` asks for, and an edit may add one. The
theorems remove the bounds on catalogues, edits and depth, and that on edits of the lanes. In
`release_pipeline` two runs compete for one tag or do not, and a run again meets the
artifacts, drafts and releases of the first attempt; two of the four gates, which are
alike, show one passing and one failing.

Deadlock checking is off where the system really stops: runs of the exchange and of
the workflow end, a call at the level of bytes returns, a state is finished, a tool
exits, edits run out. In the concurrent
modules a caller may always call again, and deadlock is checked.

Fairness. In SingleUseState and SessionState each goroutine inside a call is
weakly fair (the Go scheduler runs a runnable goroutine, and a call has no blocking
step but the lock), and the acquisition of the mutex is strongly fair: a
`sync.Mutex` in starvation mode hands over to the longest waiter. No caller
is obliged to call. In Exchange only the faithful specification has fairness:
both applications call on, and messages arrive; the step is weakly fair as a whole,
which suffices since each run ends. In ReleasePipeline GitHub starts the run whose turn
it is, takes or skips its jobs, kills a job that exceeds its `timeout-minutes`, and ends the
run; no step of a job is fair, since a step may hang, and nobody has to push, to run
again or to tidy up. (A job without `timeout-minutes` would still meet GitHub's default limit,
six hours, which the slip `timedWithoutRelease` leaves aside.)

`MatchingRunsComplete` has two excuses: failing randomness, and equal shares with
equal associated data, which both roles refuse by design.

## Findings

`script_drift`: the policy checker compares a script after dropping blank lines,
comment lines and spaces around lines (`main.go:621`), also where a line continues the
one above it. With a comment after `gh release create ... \` the workflow is accepted,
and its shell runs the command without the arguments that follow, `--verify-tag` among
them. `policy.go:7-9` says that the snapshot is there so that "release-critical shell
and permission controls do not silently drift". `AcceptedMeansSame` holds with this one
exception, `ContinuationCut`.

Three further places where text and code part, without a run. ADR-0007, line 190,
describes an "idempotent create-or-edit flow"; `release.yml:369-373` refuses to touch a
release that exists. `docs/release-checklist.md:180` says that publishing "fails closed if a
release for that tag already exists"; but `if gh release view ... >/dev/null 2>&1` takes
every failure of the lookup for its answer no, so publishing fails open on it: after an
attempt that was killed between draft and publication, a repetition whose lookup fails makes
a second draft and publishes it, beside the first. `OneReleaseOrOverlooked` says that this
is the only way to two of a tag. And the policy rejects
`ignore_error` in the gosec task but not in `lint:golangci`, whose exit decides the SAST
lane; no document says it does, so `GreenMeansClean` names it as its exception,
`LintIgnoresErrors`.

## Proofs

All in modules of their own, `*_proofs`, that extend the modules they are about.

**SingleUseState_proofs** (any set of goroutines, any positive number of fields;
assumptions `NobodyIsNoThread`, `NFieldsPositive`, `CoreErrorsKnown`). The
invariant that the runs check is not inductive: it does not say who may be at which
point. The strengthening ties the mutex to the one thread at a locked point, the
flag to the existence of a past or present winner, uniqueness of the winner, and
the core to the winner's progress in the wipe (fields below `wipe[t]` are nil,
those above are live). From it: `ExclusiveCore`, `WipeMatchesClaim`,
`IntactSessionKey`, and `Refinement` to TerminalClaim.

**SessionState_proofs** (any set of goroutines). `IInv` = `MutexInv` (a thread is
at a locked point exactly when it holds the mutex), `KeyInv` (the key as a function
of flag and holder's point), `CallInv` (what is known of a call in flight). From it:
`FlagAndKeyAgree`, `ExportsWholeKeys`, and `Refinement` to ConfirmedSession.

**Exchange_proofs** (any sets of runs, Inputs and scalars, messages without bound).
The argument follows the key inside a tag. `NetInv`: a message B is an offer
derived from its sender's generator, a message C comes from an initiator that has a
Session with that key and whose tag differs from the responder's. `OfferInv`: a
responder offers one key. `CoreInv`, `SessionInv`: what waiting and finished runs
hold. `OneKeyMatches` then says that a key derived on both sides implies matching
Inputs: the two generators are equal, so the passwords, ids and crossed identities
are. From it: `InitiatorIsConfirmed`, `ResponderIsConfirmed`, `TagsAreOfOneRole`,
and `Refinement` to KeyConfirmation. The theorems are about the symbolic core:
injective hashes and MACs, no algebra but commutativity.

**EvidenceBaseline_proofs** is about both machines of `MCEvidenceBaseline`. One part is
ManifestWrite (any sets of writers, readers, lists and files; assumptions
`CommittedIsAnInode`, `EditsAreCounted`, `NoFileIsNoInode`, `MarksAreNoLists`). A
temporary file has one owner (`OwnerInv`), whose point in the program says what is in
it (`FillInv`); a file that has been at the manifest's path, `Final`, is never written
again (`FinalStays`), so that what a reader holds open does not change under it
(`ReaderInv`). From it all safety properties of the run and `Refinement` to
ManifestRegister: a reader's list is that of the moment it opened the file.

The other part is EvidenceBundle (any trees and any SHA256SUMS files, of any depth and
length; assumption `ConstantsAgree`: a content is no special node, a path has its parents, and what
is there is in directories or behind links). `BundleInv` says what each pass has established of
what it has looked at so far: the entries are those of the lines parsed (`ParsedInv`), the
entries before the next one have the content they state (`VerifiedInv`), everything the walk
met is regular and listed (`WalkedInv`). The argument for `PassedBundlesArePinned` is
`EvidenceIsWalked`: the walk does not follow symlinks and a reader does, but on the way to
a file that the walk does not meet there is a first symlink, and that one is a finding.
`WellMadeBundlesPass` needs the converse, that no step complains of a well-made bundle
(`CleanSteps`); `OpensOnlyInside` follows from `BundleInv` step by step.

**Gates_proofs** is about the gates that a change and a release go through. One part is
ChangeGate (any trees, edits, pull requests and bounds; assumptions
`MainAssumption`, that main passes the checker at the start, and `EditsAssumption`, that
edits are of files). `MainPasses` alone is not inductive: a merge moves main to a tree that was
checked a while ago. The invariant adds `ChangeInv` (what a pull request may hold) and
`CheckInv` (a pull request whose Check passed on the present main has a merge that
passes the checker). The core of it is `SameVerdict`: if no changed path counts as
evidence in the merge, then the baseline, the manifest, the bundles and every document
the baseline names are as in main, and `checkRepo` says of both trees the same. It rests
on the manifest, which the checker holds equal to the documents the rows name. From it
`Invariance` and `MainAlwaysPasses`.

Another is ScanLanes (any number of edits of its files). `GreenMeansClean` is about a run that
has ended, so `LaneInv` says what each step has made of it: `FilesInv`, that edits leave the
files in form and bring the flag of gosec into no other task; and for a lane that the checker
accepts, that there is one scan step, which runs without a condition and its task, and a later
report that fails the job when the scan has failed (`LaneHolds`); and that a run which has not
failed has, past its scan, the outcome of it, and past its report no failed scan
(`ProgressInv`). From it:
`LaneInvariance` and `GreenIsClean`.

The third is ReleasePolicy (any number of edits, any depth and any words; assumptions
`DepthAssumption`, `WordAssumption`, `SpacedAssumption` and `PolicyAssumption`, that a
catalogue whose workflow is edited is `WellMade`). The state says little (`TreeInv`: an edit
makes a tree of a tree); the two theorems are about any tree at all, in whatever way it came
about. A tree is taken down to its children by induction on its depth, on
which what the checker and the runner make of it does not depend (`NodeOf`, `MeaningUnfold`,
`UniqueKeysUnfold`, `SameBelow`); a script by induction over its lines
(`CommandsSettleLines`, `SameCommands`): where nothing follows a continued line but its
continuation, the commands are determined by the lines that are kept, and the other way
round. A node that passes then means what the node written for it means, and whatever means
the same passes, part by part: `AlikeStep` and `StepsAlike`, `AlikeJob` and `JobsAlike`,
`OnAlike`, `JobsNodeAlike`, up to `PassesAlike` and `AlikePasses`. The written workflow
passes by itself (`WrittenRoot`), and a tree that means what a tree without repeated keys
means repeats none (`SameIsUnique`). From it: `AcceptedIsSame` and `SameAlwaysAccepted`.
`AcceptedRunsTheSame`, which has no exception for cut continuations, is false: see Findings.

**Lifetimes_proofs** (any shape of the input; assumption `NilIsNoBuffer`: nil refers to no
buffer). None of the three properties is inductive: whether a buffer is zeroed at the end
depends on who was bound to clear it. `IInv` says, by the step the call is at, which
buffers may be live and who holds them (`HoldersInv`, `ClonesInv`, `ScratchInv`: the caller
input, the normalized input, a deferred clear), which ones must be live because the core,
the message or the Session is still to be copied from them (`ClonesInv`, `CoreInv`,
`SessionInv`), and what the call may return by then (`OutcomeInv`). `Owners` keeps the
buffers of different owners apart, so that a clear of one spares the others. From it:
`SecretsAreWiped`, `OutputsSurvive`, `InputIsTheCallers`.

**ReleasePipeline_proofs** (any sets of runs, refs and gates, any number of repetitions;
assumptions `KindAssumption` and `NeedsAssumption`, the latter the `needs` of
`release.yml` as far as they matter). `IInv` has four parts. `RunsInv` says why a job has
its status: what ran was allowed to, and what it needs has succeeded and has not been taken
back. That a repetition keeps this is `FromIsClosed`: it resets with a job all that depends
on it. `StepsInv` says what is on the runner of a job at a step, so what is held at the last
step of the release job is the attested document of its own run. `ReleaseInv`: two runs of a
ref never run at once (`TurnsInv`), so when a release job makes its draft there is none of
its tag, or the job overlooked it (`FoundInv`); a draft is all that is ever added to what is
left of a tag, whatever maintainers do in between. From it: `OnlyVettedIsPublished`,
`SecondReleaseIsOverlooked`, `GreenRunsAreVetted`.

**ByteLevel_proofs** is about the three machines of `MCByteLevel`. Induction is a fact about
sets of numbers here (`NumbersByInduction`, `NumbersByDescent`, from the well-foundedness of
`<`), from which follow existence and uniqueness of the functions that `leb128`, `lvCat`,
`capacity` and `Value` define by recursion (`Leb128`, `LvCatGrows`, `CapacityIsLength`,
`ValueLoops`). The provers know nothing of `^`, so `PowersOfRadix` and `PowersOfBase` say
what a power is.

One part is MessageReader (any radix from 2, any header, specification, caps and buffers
that satisfy the compile-time checks). `StaysInBounds` and `AcceptsOnlyEncodings` are not
inductive: they do not relate the prefix half read, or the fields so far, to the buffer.
`IInv` reads the decoder as an encoder: what has been consumed is what `encode` writes of
the fields decoded, and the digits read of a prefix are those that every number beginning
with them has (`AtPrefix`), so that a last digit that is not superfluous makes it the
`leb128` of the number (`LastDigit`). For `AcceptsEveryEncoding`, `OnTrack` follows the
decoder through the encoding of given values: each prefix ends within `MaxPrefix` digits
(`DigitsNeeded`, from `PrefixCoversCaps`), each value is where the one before it ends, and
the whole is below the aggregate cap (`FitsAggregateCap`). From it: `ReaderStaysInBounds`,
`ReaderAcceptsOnlyEncodings`, `ReaderAcceptsEveryEncoding`.

Another is Preimages (any strings, any shares and keys of one length, any block size). No
`leb128` begins another one (`PrefixesEnd`), so two equal texts that each begin with a field
begin with the same field and go on alike (`FieldsEnd`, `LastField`); by induction over the
number of fields `lvCat` determines them (`LvCatEnds`, `LvCatTellsApart`). What `iskMaterial`
and `macKeyInput` append without a length stands after parts that end by themselves, or has
a known length. The padding of the generator string depends on the password, which stands
before it (`GeneratorTellsApart`), and fills the block that the password leaves unfinished
(`BlockIsFilled`). From it: `HashInputsAreSound` and
`ISKMaterialTellsApart`, on which CPaceCore's injective constructors rest.

The third is SampleScalar (any base, buffer, mask, order and number of tries that
`ConstantsFit` admits). What a masked buffer is worth is below the order
(`MaskedIsBelowOrder`: byte by byte from the top, it is below the mask times a power of the
base), so `SetCanonicalBytes` refuses nothing but zero; a value determines its buffer
(`DrawsAreNumbers`), so the buffers that mask to one value are as many as the masked bits
have values (`OddsAreEven`, by a bijection). `LoopInv` adds to this that every buffer
turned away so far was zero. From it: `SamplingGivesUpOnlyOnZeros` and
`ScalarsAreEvenlyDrawn`.

Model-checked only: liveness (`EveryCallReturns`, `ClaimLeadsToWipe`,
`MatchingRunsComplete`, `RunsEnd`), because the provers do not handle fairness. Every
invariant and every action property of the passing runs is proved. That
`newAcceptedReleasePolicy` is `WellMade` is an assumption of the proofs, and TLC
evaluates it.

## Not modelled

* The arithmetic of SHA-512, HMAC, HKDF and ristretto255, and probabilities:
  that a tag cannot be guessed is the symbolic assumption, not a result. That
  `hkdf.Key` panics on a negative length: `session.go:105` turns those away before it.
* Which check of `acceptInput` refuses an Input, and error texts.
* Copies the Go runtime or compiler may make of secrets, and constant-time
  comparison.
* The accessors of a Session, which copy fields that nothing writes.
* In the evidence baseline checker: the splitting of Markdown lines into cells (rows
  come as records), and texts of findings.
* In the policy checker: allowed signers, the Syft configuration and the presence of
  scripts, each of which compares one file with one text; checks of `sast-gate.yml` and
  `Taskfile.yml` that look at other fields than ScanLanes keeps; changes of the checker
  itself, which the same pull request may bring.
* In the release workflow: the texts that the release scripts compute (metadata, notes,
  validation of the document); they are steps that may fail. GitHub's own guarantees (a
  queue by ref, one published release of a tag, the ruleset) are assumed as documented.
* In the classifier: `evidence_checker_changed` and `release_policy_changed`, which only
  choose further lint steps.
* Workflows, scripts and tasks outside those; fuzzing; lint rules; tests; documents.

## Plan

1. *Done*: terminal state, Session, exchange, framing, preimages, scalars, lifetimes;
   evidence baseline (manifest, bundles, index) and the gate before main; release policy,
   scan lanes and the release workflow. Proofs about SingleUseState, SessionState,
   Exchange, Lifetimes, MessageReader, Preimages, SampleScalar, ManifestWrite,
   EvidenceBundle, ChangeGate, ScanLanes, ReleasePolicy and ReleasePipeline: every invariant
   and action property of the runs.
2. *To do*: the files that the policy checker compares with one text, and the other fields
   of the two workflows beside the release (see Not modelled).
