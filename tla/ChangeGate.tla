----------------------------- MODULE ChangeGate ------------------------------
(***************************************************************************)
(* What reaches main: pull requests, the Check job of .github/workflows/   *)
(* ci.yml and scripts/classify-check-changes.sh, which decides from the    *)
(* changed paths whether the evidence baseline is checked.  A pull request *)
(* changes a few files; Check runs on its merge with main as it is then;   *)
(* a pull request is merged only on a Check of that very main, which the   *)
(* strict protection of docs/ci-policy.md requires.  Everything else Check *)
(* does may fail for reasons of its own.                                   *)
(***************************************************************************)
EXTENDS EvidenceIndex

CONSTANTS PullRequests,
          FirstMain,     \* main at the start
          Edits,         \* what a pull request may do to one file: records [path, file]
          MaxFiles,      \* bound on the files a pull request changes
          MaxOpen        \* bound on the files all open pull requests change

ASSUME MainAssumption ==
  /\ DOMAIN FirstMain \subseteq Paths /\ \A p \in DOMAIN FirstMain : IsEntry(FirstMain[p])
  /\ checkRepo(FirstMain)
ASSUME EditsAssumption == \A e \in Edits : e.path \in Paths /\ (e.file = deleted \/ IsEntry(e.file))
ASSUME BoundsAssumption == {MaxFiles, MaxOpen} \subseteq Nat \ {0}

VARIABLES main,          \* the tree of main
          merges,        \* how often main has moved
          change,        \* of every pull request: its edits, {} before it is opened
          checked        \* of every pull request: the main its last Check passed with, Unchecked if it did not

vars == <<main, merges, change, checked>>

Unchecked == [merges |-> 0, passed |-> FALSE]

Init ==
  /\ main = FirstMain
  /\ merges = 0
  /\ change = [pr \in PullRequests |-> {}]
  /\ checked = [pr \in PullRequests |-> Unchecked]

\* The files the merge of main and a change holds, and the paths in which it differs from main.
MergeTree(pr) ==
  LET touched == {e.path : e \in change[pr]}
      kept == {p \in DOMAIN main : p \notin touched}
      put == {e \in change[pr] : e.file # deleted}
  IN [p \in kept \cup {e.path : e \in put} |-> IF p \in kept THEN main[p] ELSE (CHOOSE e \in put : e.path = p).file]

changedFiles(pr) ==
  LET head == MergeTree(pr)
  IN {p \in DOMAIN main \cup DOMAIN head : ~(p \in DOMAIN main /\ p \in DOMAIN head /\ main[p] = head[p])}
-----------------------------------------------------------------------------
(* scripts/classify-check-changes.sh, run from the tree under test.        *)
summary_doc_refs(repo) == IF Kind(repo, summaryDocsManifestRef) = "file" THEN repo[summaryDocsManifestRef].text.refs ELSE {}

evidenceFilesOnly(repo, path) ==   \* slip: summary docs forgotten
  path \in {baselineRef, summaryDocsManifestRef} \/ IsStrictPrefix(evidenceRoot, path)

evidenceFile(repo, path) ==
  \/ path \in {baselineRef, summaryDocsManifestRef} \/ IsStrictPrefix(evidenceRoot, path)
  \/ path \in summary_doc_refs(repo)

docs_only(files) == files # {} /\ \A path \in files : path[1] = "docs" \/ Last(path) \in Markdown
evidence_changed(repo, files) == \E path \in files : evidenceFile(repo, path)

\* Check of a pull request; without the manifest the classifier fails, and Check with it.
checkPasses(repo, files) ==
  /\ Kind(repo, summaryDocsManifestRef) \in {"file", "symlink"}
  /\ ~docs_only(files) \/ evidence_changed(repo, files) => checkRepo(repo)
-----------------------------------------------------------------------------
Open(pr) ==
  /\ change[pr] = {}
  /\ \E edits \in {Range(e) : e \in [1 .. MaxFiles -> Edits]} :
       /\ Cardinality({e.path : e \in edits}) = Cardinality(edits)
       /\ \A e, f \in edits : ~IsStrictPrefix(e.path, f.path)
       /\ change' = [change EXCEPT ![pr] = edits]
       /\ FoldFunction(LAMBDA es, n : n + Cardinality(es), 0, change') <= MaxOpen
  /\ UNCHANGED <<main, merges, checked>>

\* A tree has no file where it has a directory.
Mergeable(pr) == \A p, q \in DOMAIN MergeTree(pr) : ~IsStrictPrefix(p, q)

Check(pr) ==
  /\ change[pr] # {} /\ Mergeable(pr)
  /\ \E passed \in BOOLEAN :
       /\ passed => checkPasses(MergeTree(pr), changedFiles(pr))
       /\ checked' = [checked EXCEPT ![pr] = IF passed THEN [merges |-> merges, passed |-> TRUE] ELSE Unchecked]
  /\ UNCHANGED <<main, merges, change>>

Merge(pr) ==
  /\ change[pr] # {} /\ checked[pr] = [merges |-> merges, passed |-> TRUE]
  /\ main' = MergeTree(pr) /\ merges' = merges + 1
  /\ change' = [change EXCEPT ![pr] = {}] /\ checked' = [checked EXCEPT ![pr] = Unchecked]

Next == \E pr \in PullRequests : Open(pr) \/ Check(pr) \/ Merge(pr)
Spec == Init /\ [][Next]_vars
-----------------------------------------------------------------------------
(* Check leaves the evidence baseline unchecked for most changes of        *)
(* documents, and reads what counts as evidence from the tree it judges;   *)
(* main still always passes the checker.                                   *)
MainPasses == checkRepo(main)
=============================================================================
