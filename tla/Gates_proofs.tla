---------------------------- MODULE Gates_proofs ----------------------------
(***************************************************************************)
(* Proofs about the gates a change and a release go through: ChangeGate,   *)
(* for any trees, any edits and any number of pull requests and merges,    *)
(* ScanLanes, for any edits of its files, and ReleasePolicy, for any well  *)
(* made catalogue and any edits of the workflow it writes.                 *)
(* ChangeGate: what checkRepo looks at is the baseline, the manifest, what *)
(* lies under docs/evidence and the documents in the manifest, and whether *)
(* their parents are directories.  A change whose evidence_changed is      *)
(* false leaves all of it as it was (SameEvidence), so that the verdict on *)
(* main is the verdict on the merge.                                       *)
(* ScanLanes: in what the checker accepts a lane has one scan step, which  *)
(* runs without a condition, and a later report that fails the job if the  *)
(* scan failed; and a run that has not failed has the outcome of its scan  *)
(* (LaneInv).                                                              *)
(* ReleasePolicy: a tree is taken down to its children by induction on the *)
(* depth of trees (NodeOf, SameBelow) and a script by induction over its   *)
(* lines (CommandsSettleLines).  What the checker accepts of a step, a job *)
(* and a workflow is settled by what they mean (AlikeStep, AlikeJob,       *)
(* AlikePasses), and the workflow as it is written passes and repeats no   *)
(* key (WrittenRoot, SameIsUnique): what is accepted means what is written *)
(* (AcceptedIsSame), and what means it is accepted (SameAlwaysAccepted).   *)
(***************************************************************************)
EXTENDS ChangeGate, ScanLanes, ReleasePolicy, FiniteSetTheorems, SequenceTheorems, WellFoundedInduction, TLAPS

\* Two trees have the same at a path.
Same(m, t, p) == (p \in DOMAIN m <=> p \in DOMAIN t) /\ (p \in DOMAIN m => m[p] = t[p])

Below(p) == IsStrictPrefix(evidenceRoot, p)

\* No file stands where a directory is needed.
IsTree(t) == \A p, q \in DOMAIN t : ~IsStrictPrefix(p, q)

SameEvidence(m, t) ==
  /\ Same(m, t, baselineRef)
  /\ Same(m, t, summaryDocsManifestRef)
  /\ \A p \in Paths : Below(p) => Same(m, t, p)
  /\ \A p \in summary_doc_refs(t) : Same(m, t, p)

-----------------------------------------------------------------------------
(* Paths.                                                                  *)

\* A prefix agrees with the whole part by part.
LEMMA PrefixParts ==
  ASSUME NEW p \in Paths, NEW q \in Paths
  PROVE  IsPrefix(p, q) <=> Len(p) <= Len(q) /\ \A i \in 1 .. Len(p) : p[i] = q[i]
<1>1. SubSeq(p, 1, Len(p)) = p
  BY DEF Paths
<1>2. ASSUME Len(p) <= Len(q)
      PROVE  /\ SubSeq(q, 1, Len(p)) \in Seq(STRING)
             /\ Len(SubSeq(q, 1, Len(p))) = Len(p)
             /\ \A i \in 1 .. Len(p) : SubSeq(q, 1, Len(p))[i] = q[i]
  BY <1>2 DEF Paths
<1>3. ASSUME Len(p) <= Len(q), \A i \in 1 .. Len(p) : p[i] = q[i]
      PROVE  p = SubSeq(q, 1, Len(p))
  BY <1>2, <1>3 DEF Paths
<1> QED
  BY <1>1, <1>2, <1>3 DEF IsPrefix, Paths

LEMMA StrictPrefixTransitive ==
  ASSUME NEW p \in Paths, NEW q \in Paths, NEW r \in Paths, IsStrictPrefix(p, q), IsStrictPrefix(q, r)
  PROVE  IsStrictPrefix(p, r)
<1>1. Len(p) <= Len(q) /\ p # q /\ \A i \in 1 .. Len(p) : p[i] = q[i]
  BY PrefixParts DEF IsStrictPrefix
<1>2. Len(q) <= Len(r) /\ q # r /\ \A i \in 1 .. Len(q) : q[i] = r[i]
  BY PrefixParts DEF IsStrictPrefix
<1>3. IsPrefix(p, r)
  BY <1>1, <1>2, PrefixParts DEF Paths
<1>4. Len(q) # Len(r)
  BY <1>2 DEF Paths
<1>5. Len(p) < Len(r)
  BY <1>1, <1>2, <1>4 DEF Paths
<1> QED
  BY <1>3, <1>5 DEF IsStrictPrefix

\* The first n parts of a path are a strict prefix of it.
LEMMA FirstParts ==
  ASSUME NEW p \in Paths, NEW n \in 0 .. Len(p) - 1
  PROVE  SubSeq(p, 1, n) \in Paths /\ IsStrictPrefix(SubSeq(p, 1, n), p)
<1> DEFINE s == SubSeq(p, 1, n)
<1>1. s \in Paths /\ Len(s) = n /\ \A i \in 1 .. n : s[i] = p[i]
  BY DEF Paths
<1> HIDE DEF s
<1>2. IsPrefix(s, p)
  BY <1>1, PrefixParts DEF Paths
<1>3. s # p
  BY <1>1 DEF Paths
<1> QED
  BY <1>1, <1>2, <1>3 DEF s, IsStrictPrefix

\* The bundle of a path below docs/evidence is below it.
LEMMA BundleIsBelow ==
  ASSUME evidenceRoot \in Paths, NEW p \in Paths, Below(p)
  PROVE  SubSeq(p, 1, 3) \in Paths /\ Below(SubSeq(p, 1, 3))
<1>1. Len(evidenceRoot) = 2
  BY DEF evidenceRoot
<1>2. /\ Len(evidenceRoot) <= Len(p) /\ evidenceRoot # p
      /\ \A i \in 1 .. Len(evidenceRoot) : evidenceRoot[i] = p[i]
  BY PrefixParts DEF Below, IsStrictPrefix
<1>3. Len(evidenceRoot) # Len(p)
  BY <1>2 DEF Paths
<1>4. Len(p) >= 3
  BY <1>1, <1>2, <1>3 DEF Paths
<1> DEFINE s == SubSeq(p, 1, 3)
<1>5. s \in Paths /\ Len(s) = 3 /\ \A i \in 1 .. 3 : s[i] = p[i]
  BY <1>4 DEF Paths
<1> HIDE DEF s
<1>6. IsPrefix(evidenceRoot, s)
  BY <1>1, <1>2, <1>5, PrefixParts DEF Paths
<1> QED
  BY <1>1, <1>5, <1>6 DEF s, Below, IsStrictPrefix

\* A bundle is a strict prefix of the files in it.
LEMMA AppendExtends ==
  ASSUME NEW p \in Paths, NEW x, Append(p, x) \in Paths
  PROVE  IsStrictPrefix(p, Append(p, x))
<1> DEFINE s == Append(p, x)
<1>1. Len(s) = Len(p) + 1 /\ \A i \in 1 .. Len(p) : s[i] = p[i]
  BY DEF Paths
<1>2. s \in Paths
  OBVIOUS
<1> HIDE DEF s
<1>3. IsPrefix(p, s)
  BY <1>1, <1>2, PrefixParts DEF Paths
<1>4. p # s
  BY <1>1 DEF Paths
<1> QED
  BY <1>3, <1>4 DEF s, IsStrictPrefix

\* What os.Lstat finds is at a path.
LEMMA FoundIsPath ==
  ASSUME NEW t, NEW ref, lstatRepoRelative(t, ref) # "finding"
  PROVE  ref \in Paths /\ safeRepoRelativeRef(ref) /\ lstatRepoRelative(t, ref) = Kind(t, ref)
BY DEF lstatRepoRelative, safeRepoRelativeRef

-----------------------------------------------------------------------------
(* Trees.                                                                  *)

\* Above an entry are directories.
LEMMA DirectoriesAbove ==
  ASSUME NEW t, DOMAIN t \subseteq Paths, IsTree(t), NEW q \in DOMAIN t, NEW p \in Paths, IsStrictPrefix(p, q)
  PROVE  Kind(t, p) = "dir"
BY DEF IsTree, Kind

\* os.Lstat gets to a path with an entry at it or below it.
LEMMA EntryIsReached ==
  ASSUME NEW t, DOMAIN t \subseteq Paths, IsTree(t), NEW ref, safeRepoRelativeRef(ref),
         NEW q \in DOMAIN t, q = ref \/ IsStrictPrefix(ref, q)
  PROVE  lstatRepoRelative(t, ref) = Kind(t, ref)
<1>1. ref \in Paths
  BY DEF safeRepoRelativeRef
<1>2. ASSUME NEW i \in 1 .. Len(ref) - 1
      PROVE  Kind(t, SubSeq(ref, 1, i)) = "dir"
  <2>1. i \in 0 .. Len(ref) - 1
    BY <1>1 DEF Paths
  <2>2. SubSeq(ref, 1, i) \in Paths /\ IsStrictPrefix(SubSeq(ref, 1, i), ref)
    BY <1>1, <2>1, FirstParts
  <2>3. IsStrictPrefix(SubSeq(ref, 1, i), q)
    BY <1>1, <2>2, StrictPrefixTransitive
  <2> QED
    BY <2>2, <2>3, DirectoriesAbove
<1> QED
  BY <1>2 DEF lstatRepoRelative

\* At and below a path below docs/evidence nothing has changed.
LEMMA SameKind ==
  ASSUME NEW m, NEW t, DOMAIN m \subseteq Paths, DOMAIN t \subseteq Paths, SameEvidence(m, t),
         evidenceRoot \in Paths, NEW p \in Paths, Below(p)
  PROVE  Kind(t, p) = Kind(m, p)
<1>1. \A q \in Paths : IsStrictPrefix(p, q) => Below(q)
  BY StrictPrefixTransitive DEF Below
<1>2. \A q \in Paths : q = p \/ IsStrictPrefix(p, q) => Same(m, t, q)
  BY <1>1 DEF SameEvidence
<1> QED
  BY <1>2 DEF Kind, Same

\* A bundle that passed passes.
LEMMA SameBundle ==
  ASSUME NEW m, NEW t, DOMAIN m \subseteq Paths, DOMAIN t \subseteq Paths, SameEvidence(m, t),
         evidenceRoot \in Paths, NEW bundle \in Paths, Below(bundle), checkBundle(m, bundle)
  PROVE  checkBundle(t, bundle)
<1> DEFINE sums == Append(bundle, "SHA256SUMS")
           log == Append(bundle, "log")
<1>1. Kind(m, bundle) = "dir" /\ Kind(m, sums) = "file" /\ Kind(m, log) = "file" /\ m[sums].text = m[log].text
  BY DEF checkBundle
<1>2. sums \in DOMAIN m /\ log \in DOMAIN m
  BY <1>1 DEF Kind
<1>3. /\ sums \in Paths /\ IsStrictPrefix(bundle, sums)
      /\ log \in Paths /\ IsStrictPrefix(bundle, log)
  BY <1>2, AppendExtends
<1>4. Below(sums) /\ Below(log)
  BY <1>3, StrictPrefixTransitive DEF Below
<1>5. Kind(t, bundle) = "dir" /\ Kind(t, sums) = "file" /\ Kind(t, log) = "file"
  BY <1>1, <1>3, <1>4, SameKind
<1>6. t[sums] = m[sums] /\ t[log] = m[log]
  BY <1>2, <1>3, <1>4 DEF SameEvidence, Same
<1> QED
  BY <1>1, <1>5, <1>6 DEF checkBundle

\* A row of the baseline that held holds.  Its documents are in the manifest.
LEMMA SameRow ==
  ASSUME NEW m, NEW t, DOMAIN m \subseteq Paths, DOMAIN t \subseteq Paths, IsTree(t), SameEvidence(m, t),
         evidenceRoot \in Paths, NEW row, rowHolds(m, row),
         summaryRefs(row.summary) \subseteq summary_doc_refs(t)
  PROVE  /\ rowHolds(t, row)
         /\ \A ref \in evidenceRefs(row.raw) : ref \in Paths /\ Below(ref)
<1>1. ASSUME NEW ref \in evidenceRefs(row.raw)
      PROVE  /\ ref \in Paths /\ Below(ref)
             /\ lstatRepoRelative(t, ref) \in {"file", "dir"}
  <2>1. /\ lstatRepoRelative(m, ref) \in {"file", "dir"} /\ IsStrictPrefix(evidenceRoot, ref)
    BY DEF rowHolds, evidenceRefs
  <2>2. ref \in Paths /\ safeRepoRelativeRef(ref) /\ Kind(m, ref) \in {"file", "dir"}
    BY <2>1, FoundIsPath
  <2>3. Below(ref)
    BY <2>1 DEF Below
  <2>4. PICK q \in DOMAIN m : q = ref \/ IsStrictPrefix(ref, q)
    BY <2>2 DEF Kind
  <2>5. q \in DOMAIN t
    BY <2>2, <2>3, <2>4, StrictPrefixTransitive DEF SameEvidence, Same, Below
  <2>6. lstatRepoRelative(t, ref) = Kind(t, ref)
    BY <2>2, <2>4, <2>5, EntryIsReached
  <2> QED
    BY <2>2, <2>3, <2>6, SameKind
<1>2. ASSUME NEW ref \in summaryRefs(row.summary)
      PROVE  lstatRepoRelative(t, ref) = "file"
  <2>1. lstatRepoRelative(m, ref) = "file"
    BY DEF rowHolds
  <2>2. safeRepoRelativeRef(ref) /\ Kind(m, ref) = "file"
    BY <2>1, FoundIsPath
  <2>3. ref \in DOMAIN m
    BY <2>2 DEF Kind
  <2>4. ref \in DOMAIN t /\ t[ref] = m[ref]
    BY <2>3 DEF SameEvidence, Same
  <2> QED
    BY <2>2, <2>3, <2>4, EntryIsReached DEF Kind
<1> QED
  BY <1>1, <1>2 DEF rowHolds

\* The checker's verdict on a tree with the same evidence.
LEMMA SameVerdict ==
  ASSUME NEW m, NEW t, DOMAIN m \subseteq Paths, DOMAIN t \subseteq Paths, IsTree(t), SameEvidence(m, t),
         \A p \in DOMAIN m : IsEntry(m[p]), checkRepo(m)
  PROVE  checkRepo(t)
<1> DEFINE table == m[baselineRef].text
           rows == Range(table.rows)
           want == UNION {summaryRefs(row.summary) : row \in rows}
           bundles(repo) == discoverEvidenceBundles(repo)
             \cup UNION {UNION {evidenceBundleForRef(repo, ref) : ref \in evidenceRefs(row.raw)} : row \in rows}
<1>1. /\ lstatRepoRelative(m, baselineRef) = "file"
      /\ parseBaselineIndex(table)
      /\ \A row \in rows : rowHolds(m, row)
      /\ checkSummaryDocsManifest(m, want)
      /\ lstatRepoRelative(m, evidenceRoot) = "dir"
      /\ \A bundle \in bundles(m) : checkBundle(m, bundle)
  BY DEF checkRepo
<1>2. baselineRef \in DOMAIN m /\ safeRepoRelativeRef(baselineRef) /\ Kind(m, baselineRef) = "file"
  BY <1>1, FoundIsPath DEF Kind
<1>3. baselineRef \in DOMAIN t /\ t[baselineRef] = m[baselineRef] /\ lstatRepoRelative(t, baselineRef) = "file"
  <2>1. baselineRef \in DOMAIN t /\ t[baselineRef] = m[baselineRef]
    BY <1>2 DEF SameEvidence, Same
  <2> QED
    BY <1>2, <2>1, EntryIsReached DEF Kind
<1>4. /\ summaryDocsManifestRef \in DOMAIN m /\ safeRepoRelativeRef(summaryDocsManifestRef)
      /\ Kind(m, summaryDocsManifestRef) = "file"
      /\ m[summaryDocsManifestRef].text.canonical /\ m[summaryDocsManifestRef].text.refs = want
  BY <1>1, FoundIsPath DEF Kind, checkSummaryDocsManifest
<1>5. /\ t[summaryDocsManifestRef] = m[summaryDocsManifestRef]
      /\ Kind(t, summaryDocsManifestRef) = "file"
      /\ lstatRepoRelative(t, summaryDocsManifestRef) = "file"
  <2>1. summaryDocsManifestRef \in DOMAIN t /\ t[summaryDocsManifestRef] = m[summaryDocsManifestRef]
    BY <1>4 DEF SameEvidence, Same
  <2> QED
    BY <1>4, <2>1, EntryIsReached DEF Kind
<1>6. checkSummaryDocsManifest(t, want) /\ summary_doc_refs(t) = want
  BY <1>4, <1>5 DEF checkSummaryDocsManifest, summary_doc_refs
<1>7. evidenceRoot \in Paths /\ safeRepoRelativeRef(evidenceRoot) /\ Kind(m, evidenceRoot) = "dir"
  BY <1>1, FoundIsPath
<1>8. lstatRepoRelative(t, evidenceRoot) = "dir"
  <2>1. PICK q \in DOMAIN m : IsStrictPrefix(evidenceRoot, q)
    BY <1>7 DEF Kind, IsEntry
  <2>2. q \in DOMAIN t
    BY <2>1 DEF SameEvidence, Same, Below
  <2> QED
    BY <1>7, <2>1, <2>2, EntryIsReached, DirectoriesAbove
<1>9. ASSUME NEW row \in rows
      PROVE  rowHolds(t, row) /\ \A ref \in evidenceRefs(row.raw) : ref \in Paths /\ Below(ref)
  BY <1>1, <1>6, <1>7, SameRow
<1>10. ASSUME NEW bundle \in bundles(t)
       PROVE  bundle \in bundles(m) /\ bundle \in Paths /\ Below(bundle)
  <2>1. CASE bundle \in discoverEvidenceBundles(t)
    <3>1. PICK p \in DOMAIN t : IsStrictPrefix(evidenceRoot, p) /\ bundle = SubSeq(p, 1, 3)
      BY <2>1 DEF discoverEvidenceBundles
    <3>2. p \in Paths /\ Below(p) /\ p \in DOMAIN m
      BY <3>1 DEF SameEvidence, Same, Below
    <3>3. bundle \in Paths /\ Below(bundle)
      BY <1>7, <3>1, <3>2, BundleIsBelow
    <3>4. Kind(t, bundle) = Kind(m, bundle)
      BY <1>7, <3>3, SameKind
    <3> QED
      BY <2>1, <3>1, <3>2, <3>3, <3>4 DEF discoverEvidenceBundles
  <2>2. ASSUME NEW row \in rows, NEW ref \in evidenceRefs(row.raw), bundle \in evidenceBundleForRef(t, ref)
        PROVE  bundle \in bundles(m) /\ bundle \in Paths /\ Below(bundle)
    <3>1. ref \in Paths /\ Below(ref)
      BY <1>9, <2>2
    <3>2. Kind(t, ref) = Kind(m, ref)
      BY <1>7, <3>1, SameKind
    <3>3. evidenceBundleForRef(t, ref) = evidenceBundleForRef(m, ref)
      BY <3>2 DEF evidenceBundleForRef
    <3>4. bundle = SubSeq(ref, 1, 3)
      BY <2>2 DEF evidenceBundleForRef
    <3> QED
      BY <1>7, <2>2, <3>1, <3>3, <3>4, BundleIsBelow
  <2> QED
    BY <2>1, <2>2
<1>11. \A bundle \in bundles(t) : checkBundle(t, bundle)
  BY <1>1, <1>7, <1>10, SameBundle
<1> QED
  BY <1>1, <1>3, <1>6, <1>8, <1>9, <1>11 DEF checkRepo

-----------------------------------------------------------------------------
(* Pull requests.                                                          *)

ChangeInv ==
  /\ merges \in Nat
  /\ change \in [PullRequests -> SUBSET Edits]
  /\ checked \in [PullRequests -> [merges : Nat, passed : BOOLEAN]]

MainInv ==
  /\ DOMAIN main \subseteq Paths /\ \A p \in DOMAIN main : IsEntry(main[p])
  /\ checkRepo(main)

\* A Check that is still of this main vouches for the merge as it is now.
CheckInv ==
  \A pr \in PullRequests :
    /\ checked[pr].merges <= merges
    /\ checked[pr].passed /\ checked[pr].merges = merges => IsTree(MergeTree(pr)) /\ checkPasses(MergeTree(pr), changedFiles(pr))
    /\ change[pr] = {} => ~checked[pr].passed

IInv == ChangeInv /\ MainInv /\ CheckInv

\* The merge of main and a change has paths and entries.
LEMMA MergeTreeIsTyped ==
  ASSUME ChangeInv, MainInv, NEW pr \in PullRequests
  PROVE  DOMAIN MergeTree(pr) \subseteq Paths /\ \A p \in DOMAIN MergeTree(pr) : IsEntry(MergeTree(pr)[p])
<1> DEFINE touched == {e.path : e \in change[pr]}
           kept == {p \in DOMAIN main : p \notin touched}
           put == {e \in change[pr] : e.file # deleted}
           paths == kept \cup {e.path : e \in put}
<1>1. MergeTree(pr) = [p \in paths |-> IF p \in kept THEN main[p] ELSE (CHOOSE e \in put : e.path = p).file]
  BY DEF MergeTree
<1>2. \A e \in put : e.path \in Paths /\ IsEntry(e.file)
  BY EditsAssumption DEF ChangeInv
<1>3. \A p \in paths \ kept : (CHOOSE e \in put : e.path = p) \in put
  OBVIOUS
<1> QED
  BY <1>1, <1>2, <1>3 DEF MainInv

\* A change that passes Check leaves a tree that passes the checker.
LEMMA CheckVouches ==
  ASSUME ChangeInv, MainInv, NEW pr \in PullRequests,
         IsTree(MergeTree(pr)), checkPasses(MergeTree(pr), changedFiles(pr))
  PROVE  checkRepo(MergeTree(pr))
<1> DEFINE t == MergeTree(pr)
<1>1. CASE evidence_changed(t, changedFiles(pr))
  BY <1>1 DEF checkPasses
<1>2. CASE ~evidence_changed(t, changedFiles(pr))
  <2>1. \A p : p \notin changedFiles(pr) => Same(main, t, p)
    BY DEF changedFiles, Same
  <2>2. \A p \in changedFiles(pr) : ~evidenceFile(t, p)
    BY <1>2 DEF evidence_changed
  <2>3. SameEvidence(main, t)
    BY <2>1, <2>2 DEF SameEvidence, evidenceFile, Below
  <2> QED
    BY <2>3, MergeTreeIsTyped, SameVerdict DEF MainInv
<1> QED
  BY <1>1, <1>2

\* The invariant holds at the start: main passes, and nothing is checked.
LEMMA InitIInv == Init => IInv
<1> SUFFICES ASSUME Init
             PROVE  IInv
  OBVIOUS
<1>1. ChangeInv /\ MainInv
  BY MainAssumption DEF Init, ChangeInv, MainInv, Unchecked
<1>2. CheckInv
  BY DEF Init, CheckInv, Unchecked
<1> QED
  BY <1>1, <1>2 DEF IInv

\* A pull request is opened: its own Check is not of it, and the others' are as they were.
LEMMA OpenKeepsIInv ==
  ASSUME IInv, NEW pr \in PullRequests, Open(pr)
  PROVE  IInv'
<1>1. change[pr] = {} /\ UNCHANGED <<main, merges, checked>>
  BY DEF Open
<1>2. PICK opened \in {Range(e) : e \in [1 .. MaxFiles -> Edits]} : change' = [change EXCEPT ![pr] = opened]
  BY DEF Open
<1>3. opened \subseteq Edits
  <2>1. PICK e \in [1 .. MaxFiles -> Edits] : opened = Range(e)
    OBVIOUS
  <2>2. DOMAIN e = 1 .. MaxFiles /\ \A i \in 1 .. MaxFiles : e[i] \in Edits
    BY <2>1
  <2> QED
    BY <2>1, <2>2 DEF Range
<1>4. ChangeInv'
  BY <1>1, <1>2, <1>3 DEF IInv, ChangeInv
<1>5. MainInv'
  BY <1>1 DEF IInv, MainInv
<1>6. ASSUME NEW others \in PullRequests
      PROVE  /\ (checked[others].merges <= merges)'
             /\ (checked[others].passed /\ checked[others].merges = merges
                  => IsTree(MergeTree(others)) /\ checkPasses(MergeTree(others), changedFiles(others)))'
             /\ (change[others] = {} => ~checked[others].passed)'
  <2>1. CASE others = pr
    BY <1>1, <2>1 DEF IInv, CheckInv
  <2>2. CASE others # pr
    <3>1. change'[others] = change[others]
      BY <1>2, <2>2 DEF IInv, ChangeInv
    <3>2. MergeTree(others)' = MergeTree(others)
      BY <1>1, <3>1 DEF MergeTree
    <3>3. changedFiles(others)' = changedFiles(others)
      BY <1>1, <3>2 DEF changedFiles
    <3> QED
      BY <1>1, <3>1, <3>2, <3>3 DEF IInv, CheckInv
  <2> QED
    BY <2>1, <2>2
<1> QED
  BY <1>4, <1>5, <1>6 DEF IInv, CheckInv

\* Check of a pull request: what it passes is the merge with the main of now.
LEMMA CheckKeepsIInv ==
  ASSUME IInv, NEW pr \in PullRequests, Check(pr)
  PROVE  IInv'
<1>1. change[pr] # {} /\ Mergeable(pr) /\ UNCHANGED <<main, merges, change>>
  BY DEF Check
<1>2. PICK passed \in BOOLEAN :
        /\ passed => checkPasses(MergeTree(pr), changedFiles(pr))
        /\ checked' = [checked EXCEPT ![pr] = IF passed THEN [merges |-> merges, passed |-> TRUE] ELSE Unchecked]
  BY DEF Check
<1>3. ChangeInv'
  BY <1>1, <1>2 DEF IInv, ChangeInv, Unchecked
<1>4. MainInv'
  BY <1>1 DEF IInv, MainInv
<1>5. \A others \in PullRequests : MergeTree(others)' = MergeTree(others)
  BY <1>1 DEF MergeTree
<1>6. \A others \in PullRequests : changedFiles(others)' = changedFiles(others)
  BY <1>1, <1>5 DEF changedFiles
<1>7. ASSUME NEW others \in PullRequests
      PROVE  /\ (checked[others].merges <= merges)'
             /\ (checked[others].passed /\ checked[others].merges = merges
                  => IsTree(MergeTree(others)) /\ checkPasses(MergeTree(others), changedFiles(others)))'
             /\ (change[others] = {} => ~checked[others].passed)'
  <2>1. CASE others = pr
    <3>1. IsTree(MergeTree(pr))
      BY <1>1 DEF Mergeable, IsTree
    <3>2. checked'[pr] = IF passed THEN [merges |-> merges, passed |-> TRUE] ELSE Unchecked
      BY <1>2 DEF IInv, ChangeInv
    <3> QED
      BY <1>1, <1>2, <1>5, <1>6, <2>1, <3>1, <3>2 DEF IInv, ChangeInv, Unchecked
  <2>2. CASE others # pr
    <3>1. checked'[others] = checked[others]
      BY <1>2, <2>2 DEF IInv, ChangeInv
    <3> QED
      BY <1>1, <1>5, <1>6, <3>1 DEF IInv, CheckInv
  <2> QED
    BY <2>1, <2>2
<1> QED
  BY <1>3, <1>4, <1>7 DEF IInv, CheckInv

\* A merge: main becomes a tree that passes, and every Check is of an older main.
LEMMA MergeKeepsIInv ==
  ASSUME IInv, NEW pr \in PullRequests, Merge(pr)
  PROVE  IInv'
<1>1. /\ checked[pr] = [merges |-> merges, passed |-> TRUE]
      /\ main' = MergeTree(pr) /\ merges' = merges + 1
      /\ change' = [change EXCEPT ![pr] = {}] /\ checked' = [checked EXCEPT ![pr] = Unchecked]
  BY DEF Merge
<1>2. IsTree(MergeTree(pr)) /\ checkPasses(MergeTree(pr), changedFiles(pr))
  BY <1>1 DEF IInv, CheckInv
<1>3. ChangeInv'
  BY <1>1 DEF IInv, ChangeInv, Unchecked
<1>4. MainInv'
  BY <1>1, <1>2, CheckVouches, MergeTreeIsTyped DEF IInv, MainInv
<1>5. ASSUME NEW others \in PullRequests
      PROVE  /\ checked'[others].merges < merges'
             /\ (change[others] = {} => ~checked[others].passed)'
  BY <1>1 DEF IInv, ChangeInv, CheckInv, Unchecked
<1>6. CheckInv'
  BY <1>3, <1>5 DEF CheckInv, ChangeInv
<1> QED
  BY <1>3, <1>4, <1>6 DEF IInv

\* What is reachable has the invariant.
THEOREM Invariance == Spec => []IInv
<1>1. IInv /\ [Next]_vars => IInv'
  <2> SUFFICES ASSUME IInv, [Next]_vars
               PROVE  IInv'
    OBVIOUS
  <2>1. CASE UNCHANGED vars
    <3>1. ASSUME NEW pr \in PullRequests
          PROVE  MergeTree(pr)' = MergeTree(pr) /\ changedFiles(pr)' = changedFiles(pr)
      <4>1. MergeTree(pr)' = MergeTree(pr)
        BY <2>1 DEF vars, MergeTree
      <4> QED
        BY <2>1, <4>1 DEF vars, changedFiles
    <3> QED
      BY <2>1, <3>1 DEF vars, IInv, ChangeInv, MainInv, CheckInv
  <2>2. CASE Next
    BY <2>2, OpenKeepsIInv, CheckKeepsIInv, MergeKeepsIInv DEF Next
  <2> QED
    BY <2>1, <2>2
<1> QED
  BY <1>1, InitIInv, PTL DEF Spec

\* Whatever the changes, however many, and however their Checks and merges interleave: main passes the
\* evidence baseline checker, though Check runs it only on the changes the classifier picks.
THEOREM MainAlwaysPasses == Spec => []MainPasses
<1>1. IInv => MainPasses
  BY DEF IInv, MainInv, MainPasses
<1> QED
  BY <1>1, Invariance, PTL

-----------------------------------------------------------------------------
(* The scan lanes.                                                         *)

Elements(s) == {s[i] : i \in DOMAIN s}
IsSeq(s) == s \in Seq(Elements(s))

\* What maintainers edit keeps its form, and the flag of gosec is in no other task.
FilesInv ==
  /\ job = [if |-> job.if, coe |-> job.coe, steps |-> job.steps] /\ IsSeq(job.steps)
  /\ task = [t \in taskNames |-> [ignore |-> task[t].ignore, cmds |-> task[t].cmds]]
  /\ \A t \in taskNames :
       /\ IsSeq(task[t].cmds)
       /\ \A command \in Elements(task[t].cmds) :
            IsSeq(command) /\ (t = "lint:golangci" => "-no-fail" \notin Elements(command))

Outcomes == {"", "skipped", "success", "failure"}
LaneRuns ==
  [lane : {"gosec", "sast-gate"}, dirty : BOOLEAN, next : Nat \ {0}, failed : BOOLEAN, outcome : Outcomes,
   installed : SUBSET {"task", "golangci-lint", "gosec"}, scanned : BOOLEAN]

\* The scan and the report of a lane: one step has the id of the scan and runs the task, and a
\* later one fails the job if the scan failed.
reportConditions == {sastFailed, gosecFailed[1]}
LaneHolds(s, id, name, scan, report) ==
  /\ scan \in DOMAIN s /\ report \in DOMAIN s /\ scan < report
  /\ \A i \in DOMAIN s : s[i].id = id <=> i = scan
  /\ s[scan].if = absent /\ ScanOf(s[scan].run).task = name
  /\ s[report].if \in reportConditions /\ s[report].run = "exit 1" /\ s[report].coe # "true"

laneTask(lane) == IF lane = "gosec" THEN "gosec" ELSE "lint:golangci"

\* How far the run is: nothing that failed is forgotten, and a scan that passed has scanned.
ProgressInv(scan, report) ==
  ~run.failed =>
    /\ run.next > scan => \/ run.outcome = "failure"
                          \/ run.outcome = "success" /\ run.scanned /\ (run.dirty => ~FailsOnFindings(laneTask(run.lane)))
    /\ run.next > report => run.outcome # "failure"

LaneInv ==
  /\ FilesInv
  /\ run # Idle =>
       /\ run \in LaneRuns /\ LaneAccepted
       /\ \E scan, report \in DOMAIN laneSteps(run.lane) :
            /\ LaneHolds(laneSteps(run.lane), laneScan(run.lane), laneTask(run.lane), scan, report)
            /\ ProgressInv(scan, report)

\* A nonempty set of places has a last one.
LEMMA LastPlace ==
  ASSUME NEW n \in Nat, NEW places \in SUBSET (1 .. n), places # {}
  PROVE  lastPlace(places) \in places /\ \A j \in places : j <= lastPlace(places)
<1> DEFINE Rests == {n - i : i \in places}
<1>0. \A i \in places : i \in Nat /\ i <= n /\ n - i \in Nat
  OBVIOUS
<1>1. PICK k \in Rests : \A m \in Rests : ~(<<m, k>> \in OpToRel(<, Nat))
  <2>1. Rests \in SUBSET Nat
    BY <1>0
  <2>2. Rests # {}
    OBVIOUS
  <2> QED BY <2>1, <2>2, NatLessThanWellFounded, WFMin
<1>2. PICK i \in places : k = n - i
  OBVIOUS
<1>3. ASSUME NEW j \in places PROVE j <= i
  <2>1. n - j \in Rests /\ n - j \in Nat /\ n - i \in Nat
    BY <1>0
  <2>2. ~(n - j < n - i)
    BY <1>1, <1>2, <2>1 DEF OpToRel
  <2> QED BY <1>0, <2>2
<1> QED BY <1>2, <1>3 DEF lastPlace

\* The checker finds the scan and the report of the sast-gate.
LEMMA SastGateHolds ==
  ASSUME FilesInv, LaneAccepted
  PROVE  \E scan, report \in DOMAIN job.steps : LaneHolds(job.steps, "sast", "lint:golangci", scan, report)
<1> DEFINE s == job.steps
<1>1. s \in Seq(Elements(s))
  BY DEF FilesInv, IsSeq
<1>2. PICK scan \in DOMAIN s : {i \in DOMAIN s : s[i].id = "sast"} = {scan} /\ s[scan].run = acceptedSASTWorkflowCommand
  BY DEF LaneAccepted, checkScanWorkflowTaskRouting
<1>3. sastScans(s) = {scan}
  BY <1>2 DEF sastScans
<1> DEFINE reports == {i \in DOMAIN s : s[i].name = reportName}
           report == lastPlace(reports)
<1>4. /\ s[scan].if = absent
      /\ report # 0 /\ s[report].if = sastFailed /\ s[report].run = "exit 1" /\ blocking(s[report].coe)
      /\ report > lastPlace({scan})
  BY <1>3 DEF LaneAccepted, checkSASTFailurePolicy, sastReportBlocks, sastReport
<1>5. lastPlace({scan}) = scan
  BY <1>1 DEF lastPlace
<1>6. reports # {}
  BY <1>4 DEF lastPlace
<1>7. Len(s) \in Nat /\ reports \in SUBSET (1 .. Len(s))
  BY <1>1
<1>8. report \in reports
  <2> HIDE DEF reports
  <2> QED BY <1>6, <1>7, LastPlace
<1>9. scan < report
  BY <1>1, <1>4, <1>5, <1>8
<1>10. ScanOf(acceptedSASTWorkflowCommand).task = "lint:golangci"
  BY DEF ScanOf, acceptedSASTWorkflowCommand, acceptedGosecWorkflowCommand
<1>11. s[report].coe # "true"
  BY <1>4 DEF blocking, absent
<1> QED
  BY <1>2, <1>4, <1>8, <1>9, <1>10, <1>11 DEF LaneHolds, reportConditions

\* The fields of a step of the catalogue.
Named(s, name, id, ifCond, continueOnError) ==
  /\ s.fields["name"] = name /\ s.fields["id"] = id /\ s.fields["if"] = ifCond
  /\ s.fields["continue-on-error"] = continueOnError

LEMMA StepFieldsOf ==
  ASSUME NEW name
  PROVE  /\ Named(Plain(name), <<name>>, None, None, None) /\ Plain(name).run = None
         /\ \A lines : /\ Named(Run(name, lines), <<name>>, None, None, None)
                       /\ Run(name, lines).run = lines
         /\ \A prefix, with : /\ Named(Use(name, prefix, with), <<name>>, None, None, None)
                              /\ Use(name, prefix, with).run = None
         /\ \A with : Named(checkoutWith(with), None, None, None, None) /\ checkoutWith(with).run = None
<1>1. Plain(name).run = None /\ Plain(name).fields = [key \in stepKeys |-> IF key = "name" THEN <<name>> ELSE None]
  BY DEF Plain
<1>2. \A lines : Run(name, lines).run = lines /\ Run(name, lines).fields = Plain(name).fields
  BY DEF Run, Plain
<1>3. \A prefix, with : Use(name, prefix, with).run = None /\ Use(name, prefix, with).fields = Plain(name).fields
  BY DEF Use, Plain
<1>4. \A with : checkoutWith(with).run = None /\ checkoutWith(with).fields = [key \in stepKeys |-> None]
  BY DEF checkoutWith, Plain, stepKeys
<1> QED
  BY <1>1, <1>2, <1>3, <1>4 DEF Named, stepKeys

LEMMA WithField ==
  ASSUME NEW s, s.fields = [key \in stepKeys |-> s.fields[key]], NEW field \in stepKeys, NEW value
  PROVE  With(s, field, value).run = s.run /\ With(s, field, value).fields = [s.fields EXCEPT ![field] = value]
BY DEF With

\* The steps of the gosec job.
gosecScan == With(With(Run("Run gosec scan", <<acceptedGosecWorkflowCommand>>), "id", <<"gosec">>), "continue-on-error", <<"true">>)
gosecUpload(prefix, with) == With(Use("Upload gosec SARIF to code scanning", prefix, with), "if", alwaysIfReport)
gosecReport == With(Run("Report gosec result", <<"exit 1">>), "if", gosecFailed)

LEMMA GosecSteps == \E upload :
  /\ gosecJob.steps = <<checkoutStep, setupGoStep, reportGoEnvironmentStep>>
                         \o <<InstallTool("task"), InstallTool("gosec"), gosecScan, upload, gosecReport>>
  /\ Named(checkoutStep, None, None, None, None) /\ Named(setupGoStep, <<"Set up Go">>, None, None, None)
  /\ Named(upload, <<"Upload gosec SARIF to code scanning">>, None, alwaysIfReport, None)
<1>1. \E c : checkoutStep = checkoutWith(c)
  BY Zenon DEF checkoutStep
<1>2. \E p, w : setupGoStep = Use("Set up Go", p, w)
  BY Zenon DEF setupGoStep
<1>3. \E p, w : gosecJob.steps = goSteps \o <<InstallTool("task"), InstallTool("gosec"), gosecScan, gosecUpload(p, w), gosecReport>>
  BY Zenon DEF gosecJob, Gate, Job, gosecScan, gosecUpload, gosecReport
<1>4. \A p, w : Named(gosecUpload(p, w), <<"Upload gosec SARIF to code scanning">>, None, alwaysIfReport, None)
  BY DEF gosecUpload, Use, With, Plain, Named, stepKeys
<1>5. Named(checkoutStep, None, None, None, None)
  BY <1>1, StepFieldsOf
<1>6. Named(setupGoStep, <<"Set up Go">>, None, None, None)
  BY <1>2, StepFieldsOf
<1>7. PICK p, w : gosecJob.steps = goSteps \o <<InstallTool("task"), InstallTool("gosec"), gosecScan, gosecUpload(p, w), gosecReport>>
  BY <1>3
<1> WITNESS gosecUpload(p, w)
<1> QED BY <1>4, <1>5, <1>6, <1>7 DEF goSteps

Eight(s, a, b, c, d, e, f, g, h) ==
  /\ DOMAIN s = 1 .. 8
  /\ s[1] = a /\ s[2] = b /\ s[3] = c /\ s[4] = d /\ s[5] = e /\ s[6] = f /\ s[7] = g /\ s[8] = h

LEMMA ThreeAndFive ==
  ASSUME NEW a, NEW b, NEW c, NEW d, NEW e, NEW f, NEW g, NEW h
  PROVE  Eight(<<a, b, c>> \o <<d, e, f, g, h>>, a, b, c, d, e, f, g, h)
BY DEF Eight

\* The eight steps of the lane: the scan is the sixth and the report the eighth.
LEMMA GosecGateHolds ==
  /\ DOMAIN gosecGateJob.steps = 1 .. 8 /\ Len(gosecGateJob.steps) = 8
  /\ LaneHolds(gosecGateJob.steps, "gosec", "gosec", 6, 8)
<1>1. PICK upload :
        /\ gosecJob.steps = <<checkoutStep, setupGoStep, reportGoEnvironmentStep>>
                               \o <<InstallTool("task"), InstallTool("gosec"), gosecScan, upload, gosecReport>>
        /\ Named(checkoutStep, None, None, None, None) /\ Named(setupGoStep, <<"Set up Go">>, None, None, None)
        /\ Named(upload, <<"Upload gosec SARIF to code scanning">>, None, alwaysIfReport, None)
  BY GosecSteps
<1>2. \E name : Named(reportGoEnvironmentStep, name, None, None, None)
  BY StepFieldsOf DEF reportGoEnvironmentStep
<1>3. \A tool : \E name : Named(InstallTool(tool), name, None, None, None)
  BY StepFieldsOf DEF InstallTool
<1>4. /\ gosecScan.fields["id"] = <<"gosec">> /\ gosecScan.fields["if"] = None
      /\ gosecScan.run = <<acceptedGosecWorkflowCommand>>
  BY DEF gosecScan, With, Run, Plain, stepKeys
<1>5. /\ gosecReport.fields["id"] = None /\ gosecReport.fields["if"] = gosecFailed
      /\ gosecReport.fields["continue-on-error"] = None /\ gosecReport.run = <<"exit 1">>
  BY DEF gosecReport, With, Run, Plain, stepKeys
<1> DEFINE t == InstallTool("task")  g == InstallTool("gosec")  r == reportGoEnvironmentStep
           s == gosecGateJob.steps
<1>6. /\ DOMAIN gosecJob.steps = 1 .. 8
      /\ gosecJob.steps[1] = checkoutStep /\ gosecJob.steps[2] = setupGoStep /\ gosecJob.steps[3] = r
      /\ gosecJob.steps[4] = t /\ gosecJob.steps[5] = g /\ gosecJob.steps[6] = gosecScan
      /\ gosecJob.steps[7] = upload /\ gosecJob.steps[8] = gosecReport
  <2>1. Eight(gosecJob.steps, checkoutStep, setupGoStep, r, t, g, gosecScan, upload, gosecReport)
    BY <1>1, ThreeAndFive, Zenon
  <2> HIDE DEF t, g, r
  <2> QED BY <2>1 DEF Eight
<1>7. /\ t.fields["id"] = None /\ g.fields["id"] = None /\ r.fields["id"] = None
      /\ checkoutStep.fields["id"] = None /\ setupGoStep.fields["id"] = None /\ upload.fields["id"] = None
  BY <1>1, <1>2, <1>3 DEF Named
<1> HIDE DEF t, g, r
<1>8. s = [i \in 1 .. 8 |-> catalogueStep(gosecJob.steps[i])]
  BY <1>6 DEF gosecGateJob
<1> HIDE DEF s
<1>9. \A i \in 1 .. 8 :
        /\ s[i].id = text(gosecJob.steps[i].fields["id"]) /\ s[i].if = text(gosecJob.steps[i].fields["if"])
        /\ s[i].coe = text(gosecJob.steps[i].fields["continue-on-error"]) /\ s[i].run = text(gosecJob.steps[i].run)
  BY <1>8 DEF catalogueStep, step
<1>10. text(None) = absent /\ text(<<"gosec">>) = "gosec" /\ text(<<"exit 1">>) = "exit 1"
       /\ text(<<acceptedGosecWorkflowCommand>>) = acceptedGosecWorkflowCommand /\ text(gosecFailed) = gosecFailed[1]
  BY DEF text, None, gosecFailed
<1>11. /\ s[1].id = absent /\ s[2].id = absent /\ s[3].id = absent /\ s[4].id = absent /\ s[5].id = absent
       /\ s[7].id = absent /\ s[8].id = absent
  <2>1. 1 \in 1 .. 8 /\ 2 \in 1 .. 8 /\ 3 \in 1 .. 8 /\ 4 \in 1 .. 8 /\ 5 \in 1 .. 8 /\ 7 \in 1 .. 8 /\ 8 \in 1 .. 8
    OBVIOUS
  <2> QED BY <1>5, <1>6, <1>7, <1>9, <1>10, <2>1, Zenon
<1>12. s[6].id = "gosec" /\ s[6].if = absent /\ s[6].run = acceptedGosecWorkflowCommand
  <2>1. 6 \in 1 .. 8
    OBVIOUS
  <2> QED BY <1>4, <1>6, <1>9, <1>10, <2>1, Zenon
<1>13. s[8].if = gosecFailed[1] /\ s[8].coe = absent /\ s[8].run = "exit 1"
  <2>1. 8 \in 1 .. 8
    OBVIOUS
  <2> QED BY <1>5, <1>6, <1>9, <1>10, <2>1, Zenon
<1>14. ScanOf(acceptedGosecWorkflowCommand).task = "gosec"
  BY DEF ScanOf, acceptedSASTWorkflowCommand, acceptedGosecWorkflowCommand
<1>15. DOMAIN s = 1 .. 8
  BY <1>8
<1>16. \A i \in 1 .. 8 : s[i].id = "gosec" <=> i = 6
  BY <1>11, <1>12 DEF absent
<1>17. s \in Seq({s[i] : i \in 1 .. 8}) /\ Len(s) = 8
  BY <1>15, <1>8
<1>18. LaneHolds(s, "gosec", "gosec", 6, 8)
  <2>1. 6 \in DOMAIN s /\ 8 \in DOMAIN s /\ 6 < 8 /\ \A i \in DOMAIN s : s[i].id = "gosec" <=> i = 6
    BY <1>15, <1>16
  <2>2. s[6].if = absent /\ ScanOf(s[6].run).task = "gosec"
    BY <1>12, <1>14
  <2>3. s[8].if \in reportConditions /\ s[8].run = "exit 1" /\ s[8].coe # "true"
    BY <1>13 DEF absent, reportConditions
  <2> QED BY <2>1, <2>2, <2>3 DEF LaneHolds
<1> QED BY <1>15, <1>17, <1>18 DEF s

\* What an edit does to a sequence.
LEMMA ElementsIn ==
  ASSUME NEW S, NEW s \in Seq(S)
  PROVE  IsSeq(s) /\ Elements(s) \subseteq S
<1>1. Elements(s) \subseteq S
  BY DEF Elements
<1>2. \A i \in DOMAIN s : s[i] \in Elements(s)
  BY DEF Elements
<1>3. s = [i \in 1 .. Len(s) |-> s[i]] /\ Len(s) \in Nat /\ DOMAIN s = 1 .. Len(s)
  OBVIOUS
<1> DEFINE E == Elements(s)
<1> HIDE DEF E
<1>4. s \in [1 .. Len(s) -> E]
  BY <1>2, <1>3 DEF E
<1>5. s \in Seq(E)
  BY <1>3, <1>4
<1> QED BY <1>1, <1>5 DEF IsSeq, E

LEMMA PlaceIn ==
  ASSUME NEW s, IsSeq(s), NEW n \in Nat \ {0}, Len(s) >= n
  PROVE  n \in DOMAIN s
BY DEF IsSeq

LEMMA FirstOf ==
  ASSUME NEW s, IsSeq(s), Len(s) >= 2
  PROVE  1 \in DOMAIN s /\ s[1] = Head(s)
BY DEF IsSeq

LEMMA Removed ==
  ASSUME NEW s, IsSeq(s), NEW i \in DOMAIN s
  PROVE  IsSeq(RemoveAt(s, i)) /\ Elements(RemoveAt(s, i)) \subseteq Elements(s)
<1> DEFINE S == Elements(s)
<1>1. s \in Seq(S)
  BY DEF IsSeq
<1> HIDE DEF S
<1>2. RemoveAt(s, i) \in Seq(S)
  BY <1>1 DEF RemoveAt
<1> QED BY <1>2, ElementsIn DEF S

LEMMA Inserted ==
  ASSUME NEW s, IsSeq(s), NEW i \in 1 .. Len(s) + 1, NEW e
  PROVE  IsSeq(InsertAt(s, i, e)) /\ Elements(InsertAt(s, i, e)) \subseteq Elements(s) \cup {e}
<1> DEFINE S == Elements(s) \cup {e}
<1>1. s \in Seq(S) /\ e \in S
  BY DEF IsSeq
<1> HIDE DEF S
<1>2. InsertAt(s, i, e) \in Seq(S)
  BY <1>1 DEF InsertAt
<1> QED BY <1>2, ElementsIn DEF S

LEMMA Appended ==
  ASSUME NEW s, IsSeq(s), NEW e
  PROVE  IsSeq(Append(s, e)) /\ Elements(Append(s, e)) \subseteq Elements(s) \cup {e}
<1> DEFINE S == Elements(s) \cup {e}
<1>1. s \in Seq(S) /\ e \in S
  BY DEF IsSeq
<1> HIDE DEF S
<1>2. Append(s, e) \in Seq(S)
  BY <1>1
<1> QED BY <1>2, ElementsIn DEF S

LEMMA Replaced ==
  ASSUME NEW s, IsSeq(s), NEW i \in DOMAIN s, NEW e
  PROVE  IsSeq([s EXCEPT ![i] = e]) /\ Elements([s EXCEPT ![i] = e]) \subseteq Elements(s) \cup {e}
<1> DEFINE S == Elements(s) \cup {e}
<1>1. s \in Seq(S) /\ e \in S
  BY DEF IsSeq
<1> HIDE DEF S
<1>2. [s EXCEPT ![i] = e] \in Seq(S)
  BY <1>1
<1> QED BY <1>2, ElementsIn DEF S

\* A step may be moved to any place of the others.
LEMMA MovedIsSeq ==
  ASSUME NEW s, IsSeq(s), NEW i \in DOMAIN s, NEW j \in DOMAIN s
  PROVE  IsSeq(Moved(s, i, j))
<1>1. Len(RemoveAt(s, i)) = Len(s) - 1 /\ DOMAIN s = 1 .. Len(s)
  BY DEF RemoveAt, IsSeq
<1>2. j \in 1 .. Len(RemoveAt(s, i)) + 1
  BY <1>1 DEF IsSeq
<1> QED BY <1>2, Removed, Inserted DEF Moved

LEMMA Tuples ==
  /\ \A a : IsSeq(<<a>>) /\ Elements(<<a>>) = {a}
  /\ \A a, b : IsSeq(<<a, b>>) /\ Elements(<<a, b>>) = {a, b}
  /\ \A a, b, c : IsSeq(<<a, b, c>>) /\ Elements(<<a, b, c>>) = {a, b, c}
  /\ \A a, b, c, d, e, f, g : IsSeq(<<a, b, c, d, e, f, g>>)
BY DEF IsSeq, Elements

LEMMA LaneInitInv == LaneInit => LaneInv
<1> SUFFICES ASSUME LaneInit PROVE LaneInv
  OBVIOUS
<1>1. /\ sastGateJob = [if |-> sastGateJob.if, coe |-> sastGateJob.coe, steps |-> sastGateJob.steps]
      /\ IsSeq(sastGateJob.steps)
  <2>1. sastGateJob = [if |-> absent, coe |-> absent, steps |-> sastGateJob.steps]
    BY DEF sastGateJob
  <2>2. IsSeq(sastGateJob.steps)
    BY Tuples, Zenon DEF sastGateJob
  <2> QED BY <2>1, <2>2
<1> DEFINE scan == "{{.GOLANGCI_LINT}} run {{.GOLANGCI_ARGS}}"
           goTool == "go-tool run golangci-lint run {{.GOLANGCI_ARGS}}"
           gosec == <<"{{.GOSEC}}", "-tests", "./...">>
           check == <<"task: lint:config-check">>
           lint == <<scan, "{{else}}", goTool>>
<1>2. tasks["gosec"].cmds = <<gosec>> /\ tasks["lint:golangci"].cmds = <<check, lint>>
  BY DEF tasks, taskNames
<1> HIDE DEF gosec, check, lint
<1>3. IsSeq(tasks["gosec"].cmds) /\ Elements(tasks["gosec"].cmds) = {gosec}
  BY <1>2, Tuples, Zenon
<1>4. IsSeq(tasks["lint:golangci"].cmds) /\ Elements(tasks["lint:golangci"].cmds) = {check, lint}
  <2>1. \A a, b : IsSeq(<<a, b>>) /\ Elements(<<a, b>>) = {a, b}
    BY Tuples
  <2>2. IsSeq(<<check, lint>>) /\ Elements(<<check, lint>>) = {check, lint}
    BY <2>1
  <2> QED BY <1>2, <2>2
<1>5. IsSeq(gosec) /\ IsSeq(check) /\ IsSeq(lint)
  BY Tuples, Zenon DEF gosec, check, lint
<1>6. Elements(check) = {"task: lint:config-check"} /\ Elements(lint) = {scan, "{{else}}", goTool}
  <2>1. Elements(check) = {"task: lint:config-check"}
    BY Tuples, Zenon DEF check
  <2>2. \A a, b, c : Elements(<<a, b, c>>) = {a, b, c}
    BY Tuples
  <2> QED BY <2>1, <2>2, Zenon DEF lint
<1>7. "-no-fail" \notin Elements(check) /\ "-no-fail" \notin Elements(lint)
  BY <1>6
<1>8. tasks = [t \in taskNames |-> [ignore |-> tasks[t].ignore, cmds |-> tasks[t].cmds]]
  BY DEF tasks
<1> QED BY <1>1, <1>3, <1>4, <1>5, <1>7, <1>8 DEF LaneInit, LaneInv, FilesInv, taskNames

LEMMA EditStepsInv == LaneInv /\ EditSteps => LaneInv'
<1> SUFFICES ASSUME LaneInv, EditSteps PROVE LaneInv'
  OBVIOUS
<1> USE DEF EditSteps, Editing
<1>1. /\ IsSeq(job.steps) /\ DOMAIN job.steps = 1 .. Len(job.steps)
      /\ job = [if |-> job.if, coe |-> job.coe, steps |-> job.steps]
  BY DEF LaneInv, FilesInv, IsSeq
<1>2. PICK i \in DOMAIN job.steps :
        \/ \E field \in DOMAIN FieldValues : \E value \in FieldValues[field] : job' = [job EXCEPT !.steps[i][field] = value]
        \/ job' = [job EXCEPT !.steps = RemoveAt(@, i)]
        \/ \E j \in DOMAIN job.steps : job' = [job EXCEPT !.steps = Moved(@, i, j)]
        \/ \E j \in DOMAIN job.steps : job' = [job EXCEPT !.steps = InsertAt(@, j, job.steps[i])]
  OBVIOUS
<1>3. \E s : IsSeq(s) /\ job' = [job EXCEPT !.steps = s]
  <2>1. \A field, value : /\ [job EXCEPT !.steps[i][field] = value]
                               = [job EXCEPT !.steps = [job.steps EXCEPT ![i] = [job.steps[i] EXCEPT ![field] = value]]]
                          /\ IsSeq([job.steps EXCEPT ![i] = [job.steps[i] EXCEPT ![field] = value]])
    BY <1>1, Replaced
  <2>2. IsSeq(RemoveAt(job.steps, i))
    BY <1>1, Removed
  <2>3. \A j \in DOMAIN job.steps : IsSeq(Moved(job.steps, i, j)) /\ IsSeq(InsertAt(job.steps, j, job.steps[i]))
    <3>1. \A j \in DOMAIN job.steps : j \in 1 .. Len(job.steps) + 1
      BY <1>1 DEF IsSeq
    <3> QED BY <1>1, <3>1, MovedIsSeq, Inserted
  <2> QED BY <1>2, <2>1, <2>2, <2>3
<1>4. /\ job' = [if |-> job'.if, coe |-> job'.coe, steps |-> job'.steps] /\ IsSeq(job'.steps)
  BY <1>1, <1>3
<1> QED BY <1>4 DEF LaneInv, FilesInv, Idle

LEMMA EditJobInv == LaneInv /\ EditJob => LaneInv'
<1> SUFFICES ASSUME LaneInv, EditJob PROVE LaneInv'
  OBVIOUS
<1>1. /\ job' = [if |-> job'.if, coe |-> job'.coe, steps |-> job'.steps] /\ IsSeq(job'.steps)
  BY DEF LaneInv, FilesInv, EditJob
<1> QED BY <1>1 DEF LaneInv, FilesInv, EditJob, Editing, Idle

\* A task as an edit may leave it.
TaskHolds(t, edited) ==
  /\ edited = [ignore |-> edited.ignore, cmds |-> edited.cmds]
  /\ IsSeq(edited.cmds)
  /\ \A command \in Elements(edited.cmds) :
       IsSeq(command) /\ (t = "lint:golangci" => "-no-fail" \notin Elements(command))

LEMMA EditTaskInv == LaneInv /\ EditTask => LaneInv'
<1> SUFFICES ASSUME LaneInv, EditTask PROVE LaneInv'
  OBVIOUS
<1>1. /\ DOMAIN task = taskNames /\ \A t \in taskNames : TaskHolds(t, task[t])
      /\ task = [t \in taskNames |-> task[t]]
  BY DEF LaneInv, FilesInv, TaskHolds
<1>2. \A t \in taskNames : \A s : IsSeq(s) /\ Elements(s) \subseteq Elements(task[t].cmds)
        => TaskHolds(t, [task[t] EXCEPT !.cmds = s])
  BY <1>1 DEF TaskHolds
<1>3. \A t \in taskNames : \A i, c :
        i \in DOMAIN task[t].cmds /\ IsSeq(c) /\ (t = "lint:golangci" => "-no-fail" \notin Elements(c))
        => TaskHolds(t, [task[t] EXCEPT !.cmds = [task[t].cmds EXCEPT ![i] = c]])
  <2> TAKE t \in taskNames
  <2> TAKE i, c
  <2> HAVE i \in DOMAIN task[t].cmds /\ IsSeq(c) /\ (t = "lint:golangci" => "-no-fail" \notin Elements(c))
  <2> DEFINE s == [task[t].cmds EXCEPT ![i] = c]
  <2>1. TaskHolds(t, task[t])
    BY <1>1
  <2>2. IsSeq(s) /\ Elements(s) \subseteq Elements(task[t].cmds) \cup {c}
    BY <2>1, Replaced DEF TaskHolds
  <2> HIDE DEF s
  <2>3. [task[t] EXCEPT !.cmds = s] = [ignore |-> task[t].ignore, cmds |-> s]
    BY <2>1 DEF TaskHolds
  <2>4. TaskHolds(t, [task[t] EXCEPT !.cmds = s])
    BY <2>1, <2>2, <2>3 DEF TaskHolds
  <2> QED BY <2>4 DEF s
<1>4. \A t \in taskNames : \A i : i \in DOMAIN task[t].cmds =>
        task[t].cmds[i] \in Elements(task[t].cmds) /\ DOMAIN task[t].cmds[i] = 1 .. Len(task[t].cmds[i])
  BY <1>1 DEF Elements, IsSeq, TaskHolds
<1>5. \E t \in taskNames : \E edited : TaskHolds(t, edited) /\ task' = [task EXCEPT ![t] = edited]
  <2>1. CASE \E t \in DOMAIN task, value \in {absent, "true", "false", "'false'", "alias"} : task' = [task EXCEPT ![t].ignore = value]
    <3>0. PICK t \in taskNames : \E value : task' = [task EXCEPT ![t].ignore = value]
      BY <1>1, <2>1
    <3>1. PICK value : task' = [task EXCEPT ![t].ignore = value]
      BY <3>0
    <3>2. TaskHolds(t, [task[t] EXCEPT !.ignore = value])
      BY <1>1 DEF TaskHolds
    <3>3. task' = [task EXCEPT ![t] = [task[t] EXCEPT !.ignore = value]]
      BY <3>1
    <3> QED BY <3>2, <3>3
  <2>2. CASE \E t \in DOMAIN task : \E i \in DOMAIN task[t].cmds : task' = [task EXCEPT ![t].cmds = RemoveAt(@, i)]
    <3>1. PICK t \in taskNames : \E i \in DOMAIN task[t].cmds : task' = [task EXCEPT ![t].cmds = RemoveAt(@, i)]
      BY <1>1, <2>2
    <3>2. PICK i \in DOMAIN task[t].cmds : task' = [task EXCEPT ![t].cmds = RemoveAt(@, i)]
      BY <3>1
    <3>3. IsSeq(RemoveAt(task[t].cmds, i)) /\ Elements(RemoveAt(task[t].cmds, i)) \subseteq Elements(task[t].cmds)
      BY <1>1, Removed DEF TaskHolds
    <3>4. task' = [task EXCEPT ![t] = [task[t] EXCEPT !.cmds = RemoveAt(task[t].cmds, i)]]
      BY <3>2
    <3> QED BY <1>2, <3>3, <3>4
  <2>3. CASE \E t \in DOMAIN task : \E i \in DOMAIN task[t].cmds : task' = [task EXCEPT ![t].cmds = Append(@, @[i])]
    <3>1. \A t \in taskNames : \A i : i \in DOMAIN task[t].cmds =>
            /\ IsSeq(Append(task[t].cmds, task[t].cmds[i]))
            /\ Elements(Append(task[t].cmds, task[t].cmds[i])) \subseteq Elements(task[t].cmds)
      BY <1>1, <1>4, Appended DEF TaskHolds
    <3> QED BY <1>1, <1>2, <2>3, <3>1
  <2>4. CASE \E t \in DOMAIN task : \E i \in DOMAIN task[t].cmds : \E k \in DOMAIN task[t].cmds[i] :
               task' = [task EXCEPT ![t].cmds[i] = RemoveAt(@, k)]
    <3>0. PICK t \in taskNames : \E i \in DOMAIN task[t].cmds : \E k \in DOMAIN task[t].cmds[i] :
            task' = [task EXCEPT ![t].cmds[i] = RemoveAt(@, k)]
      BY <1>1, <2>4
    <3>1. PICK i \in DOMAIN task[t].cmds : \E k \in DOMAIN task[t].cmds[i] : task' = [task EXCEPT ![t].cmds[i] = RemoveAt(@, k)]
      BY <3>0
    <3>2. PICK k \in DOMAIN task[t].cmds[i] : task' = [task EXCEPT ![t].cmds[i] = RemoveAt(@, k)]
      BY <3>1
    <3> DEFINE c == RemoveAt(task[t].cmds[i], k)
    <3>3. IsSeq(c) /\ (t = "lint:golangci" => "-no-fail" \notin Elements(c))
      BY <1>1, <1>4, Removed DEF TaskHolds
    <3>4. task' = [task EXCEPT ![t] = [task[t] EXCEPT !.cmds = [task[t].cmds EXCEPT ![i] = c]]]
      BY <3>2
    <3> QED BY <1>3, <3>3, <3>4
  <2>5. CASE \E i \in DOMAIN task["gosec"].cmds : \E k \in DOMAIN task["gosec"].cmds[i] :
               task' = [task EXCEPT !["gosec"].cmds[i] = InsertAt(@, k + 1, "-no-fail")]
    <3>0. PICK i \in DOMAIN task["gosec"].cmds : \E k \in DOMAIN task["gosec"].cmds[i] :
            task' = [task EXCEPT !["gosec"].cmds[i] = InsertAt(@, k + 1, "-no-fail")]
      BY <2>5
    <3>1. PICK k \in DOMAIN task["gosec"].cmds[i] : task' = [task EXCEPT !["gosec"].cmds[i] = InsertAt(@, k + 1, "-no-fail")]
      BY <3>0
    <3> DEFINE c == InsertAt(task["gosec"].cmds[i], k + 1, "-no-fail")
    <3>2. "gosec" \in taskNames
      BY DEF taskNames
    <3>3. IsSeq(task["gosec"].cmds[i]) /\ k + 1 \in 1 .. Len(task["gosec"].cmds[i]) + 1
      BY <1>1, <1>4, <3>2 DEF TaskHolds, IsSeq
    <3>4. IsSeq(c)
      BY <3>3, Inserted
    <3>5. task' = [task EXCEPT !["gosec"] = [task["gosec"] EXCEPT !.cmds = [task["gosec"].cmds EXCEPT ![i] = c]]]
      BY <3>1
    <3> QED BY <1>3, <3>2, <3>4, <3>5
  <2> QED BY <2>1, <2>2, <2>3, <2>4, <2>5 DEF EditTask
<1>6. task' = [t \in taskNames |-> task'[t]] /\ \A t \in taskNames : TaskHolds(t, task'[t])
  BY <1>1, <1>5
<1>7. FilesInv'
  <2>1. task' = [t \in taskNames |-> [ignore |-> task'[t].ignore, cmds |-> task'[t].cmds]]
    BY <1>6 DEF TaskHolds
  <2> QED BY <1>6, <2>1 DEF LaneInv, FilesInv, EditTask, TaskHolds
<1> QED BY <1>7 DEF LaneInv, EditTask, Editing, Idle

\* The places of a lane are numbered from one.
LEMMA LanePlaces ==
  ASSUME FilesInv
  PROVE  \A lane : DOMAIN laneSteps(lane) = 1 .. Len(laneSteps(lane)) /\ Len(laneSteps(lane)) \in Nat
<1>1. DOMAIN job.steps = 1 .. Len(job.steps) /\ Len(job.steps) \in Nat
  BY DEF FilesInv, IsSeq
<1> QED BY <1>1, GosecGateHolds DEF laneSteps

\* What the checker accepts has a scan and a report in either lane.
LEMMA AcceptedLaneHolds ==
  ASSUME FilesInv, LaneAccepted, NEW lane \in {"gosec", "sast-gate"}
  PROVE  \E scan, report \in DOMAIN laneSteps(lane) :
           LaneHolds(laneSteps(lane), laneScan(lane), laneTask(lane), scan, report)
<1>1. CASE lane = "gosec"
  <2>1. /\ laneSteps(lane) = gosecGateJob.steps /\ laneScan(lane) = "gosec" /\ laneTask(lane) = "gosec"
    BY <1>1 DEF laneSteps, laneScan, laneTask
  <2>2. 6 \in 1 .. 8 /\ 8 \in 1 .. 8
    OBVIOUS
  <2> QED BY <2>1, <2>2, GosecGateHolds
<1>2. CASE lane = "sast-gate"
  <2>1. /\ laneSteps(lane) = job.steps /\ laneScan(lane) = "sast" /\ laneTask(lane) = "lint:golangci"
    BY <1>2 DEF laneSteps, laneScan, laneTask
  <2> QED BY <2>1, SastGateHolds
<1> QED BY <1>1, <1>2

LEMMA StartRunInv == LaneInv /\ StartRun => LaneInv'
<1> SUFFICES ASSUME LaneInv, StartRun PROVE LaneInv'
  OBVIOUS
<1>1. PICK lane \in {"gosec", "sast-gate"}, dirty \in BOOLEAN :
        run' = [lane |-> lane, dirty |-> dirty, next |-> 1, failed |-> FALSE, outcome |-> "", installed |-> {}, scanned |-> FALSE]
  BY DEF StartRun
<1>2. /\ LaneAccepted /\ FilesInv /\ job' = job /\ task' = task
  BY DEF StartRun, LaneInv
<1>3. run' \in LaneRuns /\ run'.lane = lane /\ run'.next = 1
  <2>1. 1 \in Nat \ {0} /\ "" \in Outcomes /\ {} \in SUBSET {"task", "golangci-lint", "gosec"}
    BY DEF Outcomes
  <2>2. run'.lane = lane /\ run'.next = 1
    BY <1>1
  <2>3. run' \in LaneRuns
    BY <1>1, <2>1 DEF LaneRuns
  <2> QED BY <2>2, <2>3
<1>4. laneSteps(lane)' = laneSteps(lane) /\ FilesInv' /\ LaneAccepted'
  BY <1>2 DEF laneSteps, FilesInv, LaneAccepted
<1>5. PICK scan, report \in DOMAIN laneSteps(lane) : LaneHolds(laneSteps(lane), laneScan(lane), laneTask(lane), scan, report)
  BY <1>2, AcceptedLaneHolds
<1>6. ProgressInv(scan, report)'
  <2>1. scan \in Nat /\ report \in Nat /\ scan >= 1 /\ report >= 1
    BY <1>2, LanePlaces
  <2> QED BY <1>3, <2>1 DEF ProgressInv
<1> QED BY <1>3, <1>4, <1>5, <1>6 DEF LaneInv

\* A step of a lane that runs, or is skipped.
Taken(ran, ok, s) ==
  /\ Advance(ran, ok, s)
  /\ ran => Holds(s.if) /\ (ok => MaySucceed(s.run))
  /\ ~ran => ~Holds(s.if) \/ s.if \in {alwaysIfSarif, alwaysIfReport[1]}

LEMMA AdvanceInv ==
  ASSUME LaneInv, Running, UNCHANGED <<job, task>>, NEW ran \in BOOLEAN, NEW ok \in BOOLEAN,
         Taken(ran, ok, laneSteps(run.lane)[run.next])
  PROVE  LaneInv'
<1> DEFINE L == laneSteps(run.lane)
           s == L[run.next]
<1>0. Taken(ran, ok, s)
  OBVIOUS
<1>1. /\ run # Idle /\ run \in LaneRuns /\ LaneAccepted /\ FilesInv
  BY DEF LaneInv, Running
<1>2. PICK scan, report :
        LaneHolds(L, laneScan(run.lane), laneTask(run.lane), scan, report) /\ ProgressInv(scan, report)
  BY DEF LaneInv, Running
<1>3. DOMAIN L = 1 .. Len(L) /\ Len(L) \in Nat /\ run.next \in DOMAIN L /\ run.next \in Nat
  BY <1>1, LanePlaces DEF Running, LaneRuns
<1>s. s = L[run.next] /\ L = laneSteps(run.lane)
  OBVIOUS
<1> HIDE DEF s, L
<1>H. LaneHolds(L, laneScan(run.lane), laneTask(run.lane), scan, report)
  BY <1>2
<1>n. PICK n \in Nat : DOMAIN L = 1 .. n /\ run.next \in 1 .. n
  BY <1>3
<1>p. scan \in DOMAIN L /\ report \in DOMAIN L /\ scan < report
  BY <1>H, Zenon DEF LaneHolds
<1>i. \A i \in DOMAIN L : L[i].id = laneScan(run.lane) <=> i = scan
  BY <1>H, Zenon DEF LaneHolds
<1>q. /\ L[scan].if = absent /\ ScanOf(L[scan].run).task = laneTask(run.lane)
      /\ L[report].if \in reportConditions /\ L[report].run = "exit 1" /\ L[report].coe # "true"
  BY <1>H, Zenon DEF LaneHolds
<1>4. scan \in Nat /\ report \in Nat /\ scan < report
  BY <1>n, <1>p
<1>5. /\ run'.lane = run.lane /\ run'.dirty = run.dirty /\ run'.next = run.next + 1
      /\ run'.failed = (run.failed \/ (ran /\ ~ok /\ s.coe # "true"))
      /\ run'.outcome = IF s.id # laneScan(run.lane) THEN run.outcome
                        ELSE IF ~ran THEN "skipped" ELSE IF ok THEN "success" ELSE "failure"
      /\ run'.scanned = (run.scanned \/ (ran /\ ok /\ ScanOf(s.run).task # absent))
      /\ run' \in LaneRuns
  <2>1. InstallsOf(s.run) \subseteq {"task", "golangci-lint", "gosec"}
    BY DEF InstallsOf
  <2>2. (IF s.id # laneScan(run.lane) THEN run.outcome
         ELSE IF ~ran THEN "skipped" ELSE IF ok THEN "success" ELSE "failure") \in Outcomes
    BY <1>1 DEF LaneRuns, Outcomes
  <2>3. (IF ran /\ ok THEN run.installed \cup InstallsOf(s.run) ELSE run.installed)
          \in SUBSET {"task", "golangci-lint", "gosec"}
    BY <1>1, <2>1 DEF LaneRuns
  <2> DEFINE failed == run.failed \/ (ran /\ ~ok /\ s.coe # "true")
             outcome == IF s.id # laneScan(run.lane) THEN run.outcome
                        ELSE IF ~ran THEN "skipped" ELSE IF ok THEN "success" ELSE "failure"
             installed == IF ran /\ ok THEN run.installed \cup InstallsOf(s.run) ELSE run.installed
             scanned == run.scanned \/ (ran /\ ok /\ ScanOf(s.run).task # absent)
  <2>4. run' = [run EXCEPT !.next = @ + 1, !.failed = failed, !.outcome = outcome, !.installed = installed,
                           !.scanned = scanned]
    BY <1>0, Zenon DEF Taken, Advance
  <2>5. failed \in BOOLEAN /\ scanned \in BOOLEAN /\ run.next + 1 \in Nat \ {0}
    BY <1>1, <1>3 DEF LaneRuns
  <2> HIDE DEF failed, outcome, installed, scanned
  <2>6. /\ run'.lane = run.lane /\ run'.dirty = run.dirty /\ run'.next = run.next + 1
        /\ run'.failed = failed /\ run'.outcome = outcome /\ run'.scanned = scanned
    BY <1>1, <2>4 DEF LaneRuns
  <2>7. outcome \in Outcomes /\ installed \in SUBSET {"task", "golangci-lint", "gosec"}
    BY <2>2, <2>3 DEF outcome, installed
  <2>8. run' \in LaneRuns
    BY <1>1, <2>4, <2>5, <2>7 DEF LaneRuns
  <2> QED BY <2>6, <2>8 DEF failed, outcome, scanned
<1>6. ProgressInv(scan, report)'
  <2> SUFFICES ASSUME ~run'.failed
               PROVE  /\ run.next + 1 > scan =>
                           \/ run'.outcome = "failure"
                           \/ /\ run'.outcome = "success" /\ run'.scanned
                              /\ run.dirty => ~FailsOnFindings(laneTask(run.lane))
                      /\ run.next + 1 > report => run'.outcome # "failure"
    <3>1. FailsOnFindings(laneTask(run.lane))' <=> FailsOnFindings(laneTask(run.lane))
      BY <1>5 DEF laneTask, FailsOnFindings
    <3>2. (run.lane)' = run.lane
      BY <1>5
    <3> QED BY <1>5, <3>1, <3>2, Zenon DEF ProgressInv
  <2>1. ~run.failed /\ ~(ran /\ ~ok /\ s.coe # "true")
    BY <1>5
  <2>2. s.id = laneScan(run.lane) <=> run.next = scan
    BY <1>n, <1>i, <1>s, Zenon
  <2>3. run.next > scan => \/ run.outcome = "failure"
                           \/ /\ run.outcome = "success" /\ run.scanned
                              /\ run.dirty => ~FailsOnFindings(laneTask(run.lane))
    BY <1>2, <2>1 DEF ProgressInv
  <2>4. run.next > report => run.outcome # "failure"
    BY <1>2, <2>1 DEF ProgressInv
  <2>n. run.next \in Nat
    BY <1>n
  <2> DEFINE Fails == FailsOnFindings(laneTask(run.lane))
  <2> HIDE DEF Fails
  <2>8. run.next # scan => run'.outcome = run.outcome
    BY <1>5, <2>2
  <2>9. run.scanned => run'.scanned
    BY <1>5
  <2>5. CASE run.next = scan
    <3>1. s.if = absent /\ ScanOf(s.run).task = laneTask(run.lane)
      BY <1>q, <1>s, <2>5, Zenon
    <3>2. ran
      BY <1>0, <2>1, <3>1 DEF Taken, Holds, absent, alwaysIfSarif, alwaysIfReport
    <3>3. laneTask(run.lane) # absent
      BY DEF laneTask, absent
    <3>4. ok /\ run.dirty => ~FailsOnFindings(laneTask(run.lane))
      BY <1>0, <3>1, <3>2, <3>3 DEF Taken, MaySucceed
    <3> QED BY <1>4, <1>5, <2>2, <2>5, <3>1, <3>2, <3>3, <3>4
  <2>6. CASE run.next = report
    <3>1. s.if \in reportConditions /\ s.run = "exit 1" /\ s.coe # "true"
      BY <1>q, <1>s, <2>6, Zenon
    <3>2. ASSUME run.outcome = "failure" PROVE FALSE
      <4>1. Holds(s.if)
        BY <2>1, <3>1, <3>2 DEF Holds, reportConditions
      <4>2. ran
        BY <1>0, <3>1, <4>1 DEF Taken, reportConditions, sastFailed, gosecFailed, alwaysIfSarif, alwaysIfReport
      <4>3. ~MaySucceed("exit 1")
        BY DEF MaySucceed, ScanOf, acceptedGosecWorkflowCommand, acceptedSASTWorkflowCommand
      <4> QED BY <1>0, <2>1, <3>1, <4>2, <4>3 DEF Taken
    <3>3. run.next > scan /\ run.next # scan
      BY <1>4, <2>6
    <3> QED BY <2>3, <2>8, <2>9, <3>2, <3>3
  <2>7. CASE run.next # scan /\ run.next # report
    <3>1. (run.next + 1 > scan => run.next > scan) /\ (run.next + 1 > report => run.next > report)
      BY <1>4, <2>n, <2>7
    <3> QED BY <2>3, <2>4, <2>7, <2>8, <2>9, <3>1
  <2> QED BY <2>5, <2>6, <2>7
<1>7. FilesInv' /\ LaneAccepted'
  BY <1>1 DEF FilesInv, LaneAccepted
<1>8. (laneSteps(run.lane))' = L
  BY <1>5, <1>s DEF laneSteps
<1>9. (laneScan(run.lane))' = laneScan(run.lane) /\ (laneTask(run.lane))' = laneTask(run.lane)
  BY <1>5 DEF laneScan, laneTask
<1>10. run' \in LaneRuns
  BY <1>5
<1>11. scan \in DOMAIN L /\ report \in DOMAIN L
  BY <1>H DEF LaneHolds
<1> QED BY <1>2, <1>6, <1>7, <1>8, <1>9, <1>10, <1>11 DEF LaneInv

LEMMA RunStepInv == LaneInv /\ RunStep => LaneInv'
<1> SUFFICES ASSUME LaneInv, RunStep PROVE LaneInv'
  OBVIOUS
<1>1. PICK ok \in BOOLEAN : Taken(TRUE, ok, laneSteps(run.lane)[run.next])
  BY DEF RunStep, Taken
<1> QED BY <1>1, AdvanceInv DEF RunStep

LEMMA SkipStepInv == LaneInv /\ SkipStep => LaneInv'
<1> SUFFICES ASSUME LaneInv, SkipStep PROVE LaneInv'
  OBVIOUS
<1>1. Taken(FALSE, FALSE, laneSteps(run.lane)[run.next])
  BY DEF SkipStep, Taken
<1> QED BY <1>1, AdvanceInv DEF SkipStep

(* Whatever is edited, and wherever a run of an accepted lane stands: the   *)
(* outcome its report looks at is that of its one scan, and a run that is   *)
(* past its report and has not failed had a scan that succeeded.            *)
THEOREM LaneInvariance == LaneSpec => []LaneInv
<1>1. LaneInv /\ [LaneNext]_lanes => LaneInv'
  <2> SUFFICES ASSUME LaneInv, [LaneNext]_lanes PROVE LaneInv'
    OBVIOUS
  <2>1. CASE UNCHANGED lanes
    BY <2>1 DEF lanes, LaneInv, FilesInv, LaneAccepted, ProgressInv, laneSteps, FailsOnFindings
  <2> QED BY <2>1, EditStepsInv, EditJobInv, EditTaskInv, StartRunInv, RunStepInv, SkipStepInv DEF LaneNext
<1> QED BY <1>1, LaneInitInv, PTL DEF LaneSpec

\* An accepted task fails on findings, unless it is the lint task and ignores its errors.
LEMMA AcceptedTaskFails ==
  ASSUME FilesInv, LaneAccepted, NEW lane \in {"gosec", "sast-gate"},
         ~(lane = "sast-gate" /\ task["lint:golangci"].ignore \notin {absent, "false"})
  PROVE  FailsOnFindings(laneTask(lane))
<1>1. CASE lane = "gosec"
  <2> DEFINE c == task["gosec"].cmds[1]
  <2>1. /\ task["gosec"].ignore \in {absent, "false"} /\ Len(task["gosec"].cmds) = 1
        /\ Len(c) >= 2 /\ Head(c) = "{{.GOSEC}}" /\ "-no-fail" \notin Range(c)
    BY DEF LaneAccepted, checkGosecTaskPolicy
  <2>2. IsSeq(task["gosec"].cmds) /\ \A command \in Elements(task["gosec"].cmds) : IsSeq(command)
    BY DEF FilesInv, taskNames
  <2>3. 1 \in DOMAIN task["gosec"].cmds
    <3> DEFINE cmds == task["gosec"].cmds
    <3>1. IsSeq(cmds) /\ Len(cmds) = 1
      BY <2>1, <2>2
    <3> HIDE DEF cmds
    <3>2. 1 \in DOMAIN cmds
      BY <3>1, PlaceIn
    <3> QED BY <3>2 DEF cmds
  <2>4. IsSeq(c)
    BY <2>2, <2>3 DEF Elements
  <2> HIDE DEF c
  <2>5. 1 \in DOMAIN c /\ c[1] = "{{.GOSEC}}"
    <3>1. Len(c) >= 2 /\ Head(c) = "{{.GOSEC}}"
      BY <2>1
    <3> QED BY <2>4, <3>1, FirstOf, Zenon
  <2>6. Range(c) \cap scanners # {}
    BY <2>5 DEF scanners, Range
  <2> QED BY <1>1, <2>1, <2>3, <2>6 DEF FailsOnFindings, laneTask, c
<1>2. CASE lane = "sast-gate"
  <2> DEFINE c == task["lint:golangci"].cmds[2]
  <2>1. /\ task["lint:golangci"].ignore \in {absent, "false"} /\ Len(task["lint:golangci"].cmds) = 2
        /\ "{{.GOLANGCI_LINT}} run {{.GOLANGCI_ARGS}}" \in Range(c)
    BY <1>2 DEF LaneAccepted, checkGolangciTaskPolicy
  <2>2. 2 \in DOMAIN task["lint:golangci"].cmds /\ "-no-fail" \notin Elements(c)
    <3>1. /\ IsSeq(task["lint:golangci"].cmds)
          /\ \A command \in Elements(task["lint:golangci"].cmds) : "-no-fail" \notin Elements(command)
      BY DEF FilesInv, taskNames
    <3>2. 2 \in DOMAIN task["lint:golangci"].cmds
      <4> DEFINE cmds == task["lint:golangci"].cmds
      <4>1. IsSeq(cmds) /\ Len(cmds) = 2
        BY <2>1, <3>1
      <4> HIDE DEF cmds
      <4>2. 2 \in DOMAIN cmds
        BY <4>1, PlaceIn
      <4> QED BY <4>2 DEF cmds
    <3>3. c \in Elements(task["lint:golangci"].cmds)
      BY <3>2 DEF Elements
    <3> QED BY <3>1, <3>2, <3>3
  <2> HIDE DEF c
  <2>3. Range(c) \cap scanners # {}
    BY <2>1 DEF scanners
  <2>4. "-no-fail" \notin Range(c)
    BY <2>2 DEF Range, Elements
  <2> QED BY <1>2, <2>1, <2>2, <2>3, <2>4 DEF FailsOnFindings, laneTask, c
<1> QED BY <1>1, <1>2

(* A green run of a lane that checkGosecTaskPolicy, checkGolangciTaskPolicy *)
(* and checkSASTFailurePolicy accept has scanned and found nothing, after   *)
(* any number of edits.                                                     *)
THEOREM GreenIsClean == LaneSpec => []GreenMeansClean
<1>1. LaneInv => GreenMeansClean
  <2> SUFFICES ASSUME LaneInv, Green PROVE run.scanned /\ (~run.dirty \/ LintIgnoresErrors)
    BY DEF GreenMeansClean
  <2>1. /\ run \in LaneRuns /\ LaneAccepted /\ FilesInv
    BY DEF LaneInv, Green
  <2>2. PICK scan, report \in DOMAIN laneSteps(run.lane) :
          LaneHolds(laneSteps(run.lane), laneScan(run.lane), laneTask(run.lane), scan, report) /\ ProgressInv(scan, report)
    BY DEF LaneInv, Green
  <2>3. ~run.failed
    <3>1. job.if = absent /\ job.coe # "true"
      BY <2>1 DEF LaneAccepted, checkSASTFailurePolicy, blocking, absent
    <3> QED BY <3>1 DEF Green
  <2>4. run.next > scan /\ run.next > report
    BY <2>1, <2>2, LanePlaces DEF Green, LaneRuns
  <2>5. run.scanned /\ (run.dirty => ~FailsOnFindings(laneTask(run.lane)))
    BY <2>2, <2>3, <2>4 DEF ProgressInv
  <2>6. run.lane \in {"gosec", "sast-gate"}
    BY <2>1 DEF LaneRuns
  <2> QED BY <2>1, <2>5, <2>6, AcceptedTaskFails DEF LintIgnoresErrors
<1> QED BY <1>1, LaneInvariance, PTL

-----------------------------------------------------------------------------
(* The release policy.                                                     *)

\* Induction, as a fact about a set of numbers.
LEMMA NumbersByInduction ==
  ASSUME NEW P \in SUBSET Nat, 0 \in P, \A k \in P : k + 1 \in P
  PROVE  \A k \in Nat : k \in P
<1> DEFINE N == Nat \ P
<1> SUFFICES ASSUME N # {} PROVE FALSE
  OBVIOUS
<1>1. PICK k \in N : \A m \in N : ~(<<m, k>> \in OpToRel(<, Nat))
  BY NatLessThanWellFounded, WFMin
<1>2. k - 1 \in Nat /\ k - 1 \notin P
  BY k # 0
<1>3. <<k - 1, k>> \in OpToRel(<, Nat)
  BY <1>2 DEF OpToRel
<1> QED BY <1>1, <1>2, <1>3

TreesOver(Lower) ==
  {Alias} \cup [kind : {"scalar"}, value : Text]
    \cup [kind : {"mapping"}, entries : Seq([key : Word, node : Lower])]
    \cup [kind : {"sequence"}, items : Seq(Lower)]

\* The recursion of Trees.
LEMMA TreesUnfold ==
  Trees = [d \in Nat |-> TreesOver(IF d = 0 THEN {} ELSE Trees[d - 1])]
<1> DEFINE Rec(g, n) == DOMAIN g = 0 .. n /\ \A d \in 0 .. n : g[d] = TreesOver(IF d = 0 THEN {} ELSE g[d - 1])
           P == {n \in Nat : \E g : Rec(g, n)}
           Q == {d \in Nat : \A n, m \in Nat : \A g, h : Rec(g, n) /\ Rec(h, m) /\ d <= n /\ d <= m => g[d] = h[d]}
<1>1. \A n \in Nat : n \in P
  <2>1. 0 \in P
    <3> DEFINE g == [d \in 0 .. 0 |-> TreesOver({})]
    <3>1. Rec(g, 0)
      OBVIOUS
    <3> QED BY <3>1
  <2>2. ASSUME NEW n \in P PROVE n + 1 \in P
    <3>1. PICK g : Rec(g, n)
      OBVIOUS
    <3> DEFINE h == [d \in 0 .. n + 1 |-> IF d <= n THEN g[d] ELSE TreesOver(g[n])]
    <3>2. DOMAIN h = 0 .. n + 1 /\ h[n + 1] = TreesOver(g[n])
      OBVIOUS
    <3>3. \A d \in 0 .. n : h[d] = g[d]
      OBVIOUS
    <3> HIDE DEF h
    <3>4. ASSUME NEW d \in 0 .. n + 1 PROVE h[d] = TreesOver(IF d = 0 THEN {} ELSE h[d - 1])
      <4>1. CASE d = n + 1
        <5>1. d - 1 \in 0 .. n /\ d # 0 /\ d - 1 = n
          BY <4>1
        <5> QED BY <3>2, <3>3, <4>1, <5>1
      <4>2. CASE d \in 0 .. n
        <5>1. d # 0 => d - 1 \in 0 .. n
          BY <4>2
        <5> QED BY <3>1, <3>3, <4>2, <5>1
      <4> QED BY <4>1, <4>2
    <3>5. Rec(h, n + 1)
      BY <3>2, <3>4
    <3> QED BY <3>5
  <2>3. P \in SUBSET Nat
    OBVIOUS
  <2> HIDE DEF P
  <2> QED BY <2>1, <2>2, <2>3, NumbersByInduction
<1>2. \A d \in Nat : d \in Q
  <2>1. 0 \in Q
    OBVIOUS
  <2>2. ASSUME NEW d \in Q PROVE d + 1 \in Q
    <3> SUFFICES ASSUME NEW n \in Nat, NEW m \in Nat, NEW g, NEW h, Rec(g, n), Rec(h, m), d + 1 <= n, d + 1 <= m
                 PROVE  g[d + 1] = h[d + 1]
      OBVIOUS
    <3>1. g[d] = h[d] /\ d \in Nat
      <4>1. d \in Nat /\ d <= n /\ d <= m
        OBVIOUS
      <4> HIDE DEF Rec
      <4> QED BY <4>1, <2>2, Zenon
    <3>2. d + 1 \in 0 .. n /\ d + 1 \in 0 .. m /\ d + 1 # 0 /\ (d + 1) - 1 = d
      BY <3>1
    <3>3. g[d + 1] = TreesOver(g[d]) /\ h[d + 1] = TreesOver(h[d])
      BY <3>2
    <3> QED BY <3>1, <3>3
  <2>3. Q \in SUBSET Nat
    OBVIOUS
  <2> HIDE DEF Q
  <2> QED BY <2>1, <2>2, <2>3, NumbersByInduction
<1> DEFINE up == [n \in Nat |-> CHOOSE g : Rec(g, n)]
           f == [d \in Nat |-> up[d][d]]
<1>3. \A n \in Nat : Rec(up[n], n)
  <2> HIDE DEF Rec
  <2> QED BY <1>1
<1>4. \A d \in Nat : f[d] = TreesOver(IF d = 0 THEN {} ELSE f[d - 1])
  <2> SUFFICES ASSUME NEW d \in Nat PROVE f[d] = TreesOver(IF d = 0 THEN {} ELSE f[d - 1])
    OBVIOUS
  <2>1. f[d] = up[d][d] /\ (d # 0 => f[d - 1] = up[d - 1][d - 1] /\ d - 1 \in Nat /\ d - 1 \in 0 .. d)
    OBVIOUS
  <2> HIDE DEF f, up
  <2>2. d # 0 => up[d - 1][d - 1] = up[d][d - 1]
    <3> HAVE d # 0
    <3>1. d - 1 \in Nat /\ d - 1 <= d /\ d - 1 <= d - 1
      OBVIOUS
    <3> HIDE DEF Rec
    <3>2. d - 1 \in Q /\ Rec(up[d], d) /\ Rec(up[d - 1], d - 1)
      BY <3>1, <1>2, <1>3, Zenon
    <3> QED BY <3>1, <3>2, Zenon
  <2>3. up[d][d] = TreesOver(IF d = 0 THEN {} ELSE up[d][d - 1])
    <3>1. Rec(up[d], d) /\ d \in 0 .. d
      BY <1>3
    <3> HIDE DEF P, Q
    <3> QED BY <3>1, Zenon
  <2> QED BY <2>1, <2>2, <2>3
<1>5. f = [d \in Nat |-> TreesOver(IF d = 0 THEN {} ELSE f[d - 1])]
  <2>1. f = [d \in Nat |-> f[d]]
    OBVIOUS
  <2> HIDE DEF f
  <2> QED BY <1>4, <2>1
<1> HIDE DEF f
<1> QED BY <1>5, Zenon DEF Trees, TreesOver

Lower(d) == IF d = 0 THEN {} ELSE Trees[d - 1]

\* What a node looks like.
IsMapping(n, L) == n.kind = "mapping" /\ n = Mapping(n.entries) /\ n.entries \in Seq([key : Word, node : L])
IsSequence(n, L) == n.kind = "sequence" /\ n = Sequence(n.items) /\ n.items \in Seq(L)
IsScalar(n) == n.kind = "scalar" /\ n = Scalar(n.value) /\ n.value \in Text

LEMMA TreeForms ==
  ASSUME NEW d \in Nat, NEW n
  PROVE  n \in Trees[d] <=> n = Alias \/ IsScalar(n) \/ IsMapping(n, Lower(d)) \/ IsSequence(n, Lower(d))
<1>1. Trees[d] = TreesOver(Lower(d))
  BY TreesUnfold DEF Lower
<1> HIDE DEF Lower
<1> DEFINE L == Lower(d)
<1>2. n \in [kind : {"scalar"}, value : Text] <=> IsScalar(n)
  BY DEF IsScalar, Scalar
<1>3. n \in [kind : {"mapping"}, entries : Seq([key : Word, node : L])] <=> IsMapping(n, L)
  BY DEF IsMapping, Mapping
<1>4. n \in [kind : {"sequence"}, items : Seq(L)] <=> IsSequence(n, L)
  BY DEF IsSequence, Sequence
<1> QED BY <1>1, <1>2, <1>3, <1>4, Zenon DEF TreesOver

LEMMA NodeEmpty ==
  ASSUME NEW L, NEW s \in Seq(L), L = {}
  PROVE  s = <<>>
OBVIOUS

LEMMA NodeParts ==
  ASSUME NEW L, NEW s \in Seq(L)
  PROVE  /\ DOMAIN s = 1 .. Len(s) /\ Len(s) \in Nat /\ s \in [1 .. Len(s) -> L]
         /\ \A i \in DOMAIN s : s[i] \in L
OBVIOUS

LEMMA EntryParts ==
  ASSUME NEW L, NEW W, NEW s \in Seq([key : W, node : L])
  PROVE  \A i \in DOMAIN s : s[i].key \in W /\ s[i].node \in L /\ s[i] = [key |-> s[i].key, node |-> s[i].node]
<1> DEFINE E == [key : W, node : L]
<1>1. \A e \in E : e.key \in W /\ e.node \in L /\ e = [key |-> e.key, node |-> e.node]
  OBVIOUS
<1>2. \A i \in DOMAIN s : s[i] \in E
  BY NodeParts, Zenon
<1> HIDE DEF E
<1> QED BY <1>1, <1>2, Zenon

LEMMA TreeChildren ==
  ASSUME NEW d \in Nat, NEW n \in Trees[d]
  PROVE  /\ Children(n) \in Seq(Lower(d))
         /\ d = 0 => Children(n) = <<>>
         /\ \A i \in DOMAIN Children(n) : ChildKey(n, i) \in Word /\ Children(n)[i] \in Lower(d)
<1> DEFINE L == Lower(d)
<1>1. n = Alias \/ IsScalar(n) \/ IsMapping(n, L) \/ IsSequence(n, L)
  BY TreeForms
<1>2. "" \in Word
  BY WordAssumption
<1>3. d = 0 => L = {}
  BY DEF Lower
<1> HIDE DEF L
<1>4. CASE n = Alias \/ IsScalar(n)
  <2>1. Children(n) = <<>>
    BY <1>4 DEF Children, Alias, IsScalar
  <2> QED BY <2>1 DEF L
<1>5. CASE IsMapping(n, L)
  <2>1. Children(n) = [i \in DOMAIN n.entries |-> n.entries[i].node] /\ \A i : ChildKey(n, i) = n.entries[i].key
    BY <1>5 DEF Children, ChildKey, IsMapping
  <2>2. n.entries \in Seq([key : Word, node : L])
    BY <1>5 DEF IsMapping
  <2>3. \A i \in DOMAIN n.entries : n.entries[i].key \in Word /\ n.entries[i].node \in L
    BY <2>2, EntryParts, Zenon
  <2>4. [i \in DOMAIN n.entries |-> n.entries[i].node] \in Seq(L)
    BY <2>2, <2>3
  <2>5. d = 0 => Children(n) = <<>>
    BY <2>1, <2>4, <1>3, NodeEmpty
  <2>6. DOMAIN Children(n) = DOMAIN n.entries /\ \A i \in DOMAIN n.entries : Children(n)[i] = n.entries[i].node
    BY <2>1
  <2>7. Children(n) \in Seq(L)
    BY <2>1, <2>4
  <2>8. \A i \in DOMAIN Children(n) : ChildKey(n, i) \in Word /\ Children(n)[i] \in L
    BY <2>1, <2>3, <2>6, Zenon
  <2> QED BY <2>5, <2>7, <2>8, Zenon DEF L
<1>6. CASE IsSequence(n, L)
  <2>1. Children(n) = n.items /\ \A i : ChildKey(n, i) = ""
    BY <1>6 DEF Children, ChildKey, IsSequence
  <2>2. n.items \in Seq(L)
    BY <1>6 DEF IsSequence
  <2>3. \A i \in DOMAIN n.items : n.items[i] \in L
    BY <2>2, NodeParts, Zenon
  <2>4. d = 0 => n.items = <<>>
    BY <1>3, <2>2, NodeEmpty, Zenon
  <2> QED BY <1>2, <2>1, <2>2, <2>3, <2>4, Zenon DEF L
<1> QED BY <1>1, <1>4, <1>5, <1>6

UniqueOver(d, lower) ==
  [n \in Trees[d] |-> IsInjective(mapKeys(n)) /\ \A i \in DOMAIN Children(n) : lower[Children(n)[i]]]

LEMMA UniqueOverAtLeaves == \A a, b : UniqueOver(0, a) = UniqueOver(0, b)
<1>1. \A n \in Trees[0] : DOMAIN Children(n) = {}
  BY TreeChildren
<1> QED BY <1>1, Zenon DEF UniqueOver

\* The recursion of uniqueKeys.
LEMMA UniqueKeysUnfold ==
  uniqueKeys = [d \in Nat |-> UniqueOver(d, uniqueKeys[d - 1])]
<1> DEFINE Rec(g, n) == DOMAIN g = 0 .. n /\ \A d \in 0 .. n : g[d] = UniqueOver(d, IF d = 0 THEN {} ELSE g[d - 1])
           P == {n \in Nat : \E g : Rec(g, n)}
           Q == {d \in Nat : \A n, m \in Nat : \A g, h : Rec(g, n) /\ Rec(h, m) /\ d <= n /\ d <= m => g[d] = h[d]}
<1>1. \A n \in Nat : n \in P
  <2>1. 0 \in P
    <3> DEFINE g == [d \in 0 .. 0 |-> UniqueOver(d, {})]
    <3>1. Rec(g, 0)
      OBVIOUS
    <3> QED BY <3>1
  <2>2. ASSUME NEW n \in P PROVE n + 1 \in P
    <3>1. PICK g : Rec(g, n)
      OBVIOUS
    <3> DEFINE h == [d \in 0 .. n + 1 |-> IF d <= n THEN g[d] ELSE UniqueOver(n + 1, g[n])]
    <3>2. DOMAIN h = 0 .. n + 1 /\ h[n + 1] = UniqueOver(n + 1, g[n])
      OBVIOUS
    <3>3. \A d \in 0 .. n : h[d] = g[d]
      OBVIOUS
    <3> HIDE DEF h
    <3>4. ASSUME NEW d \in 0 .. n + 1 PROVE h[d] = UniqueOver(d, IF d = 0 THEN {} ELSE h[d - 1])
      <4>1. CASE d = n + 1
        <5>1. d - 1 \in 0 .. n /\ d # 0 /\ d - 1 = n
          BY <4>1
        <5> QED BY <3>2, <3>3, <4>1, <5>1
      <4>2. CASE d \in 0 .. n
        <5>1. d # 0 => d - 1 \in 0 .. n
          BY <4>2
        <5> QED BY <3>1, <3>3, <4>2, <5>1
      <4> QED BY <4>1, <4>2
    <3>5. Rec(h, n + 1)
      BY <3>2, <3>4
    <3> QED BY <3>5
  <2>3. P \in SUBSET Nat
    OBVIOUS
  <2> HIDE DEF P
  <2> QED BY <2>1, <2>2, <2>3, NumbersByInduction
<1>2. \A d \in Nat : d \in Q
  <2>1. 0 \in Q
    OBVIOUS
  <2>2. ASSUME NEW d \in Q PROVE d + 1 \in Q
    <3> SUFFICES ASSUME NEW n \in Nat, NEW m \in Nat, NEW g, NEW h, Rec(g, n), Rec(h, m), d + 1 <= n, d + 1 <= m
                 PROVE  g[d + 1] = h[d + 1]
      OBVIOUS
    <3>1. g[d] = h[d] /\ d \in Nat
      <4>1. d \in Nat /\ d <= n /\ d <= m
        OBVIOUS
      <4> HIDE DEF Rec
      <4> QED BY <4>1, <2>2, Zenon
    <3>2. d + 1 \in 0 .. n /\ d + 1 \in 0 .. m /\ d + 1 # 0 /\ (d + 1) - 1 = d
      BY <3>1
    <3>3. g[d + 1] = UniqueOver(d + 1, g[d]) /\ h[d + 1] = UniqueOver(d + 1, h[d])
      BY <3>2
    <3> QED BY <3>1, <3>3
  <2>3. Q \in SUBSET Nat
    OBVIOUS
  <2> HIDE DEF Q
  <2> QED BY <2>1, <2>2, <2>3, NumbersByInduction
<1> DEFINE up == [n \in Nat |-> CHOOSE g : Rec(g, n)]
           f == [d \in Nat |-> up[d][d]]
<1>3. \A n \in Nat : Rec(up[n], n)
  <2> HIDE DEF Rec
  <2> QED BY <1>1
<1>4. \A d \in Nat : f[d] = UniqueOver(d, IF d = 0 THEN {} ELSE f[d - 1])
  <2> SUFFICES ASSUME NEW d \in Nat PROVE f[d] = UniqueOver(d, IF d = 0 THEN {} ELSE f[d - 1])
    OBVIOUS
  <2>1. f[d] = up[d][d] /\ (d # 0 => f[d - 1] = up[d - 1][d - 1] /\ d - 1 \in Nat /\ d - 1 \in 0 .. d)
    OBVIOUS
  <2> HIDE DEF f, up
  <2>2. d # 0 => up[d - 1][d - 1] = up[d][d - 1]
    <3> HAVE d # 0
    <3>1. d - 1 \in Nat /\ d - 1 <= d /\ d - 1 <= d - 1
      OBVIOUS
    <3> HIDE DEF Rec
    <3>2. d - 1 \in Q /\ Rec(up[d], d) /\ Rec(up[d - 1], d - 1)
      BY <3>1, <1>2, <1>3, Zenon
    <3> QED BY <3>1, <3>2, Zenon
  <2>3. up[d][d] = UniqueOver(d, IF d = 0 THEN {} ELSE up[d][d - 1])
    <3>1. Rec(up[d], d) /\ d \in 0 .. d
      BY <1>3
    <3> HIDE DEF P, Q
    <3> QED BY <3>1, Zenon
  <2> QED BY <2>1, <2>2, <2>3
<1>5. f = [d \in Nat |-> UniqueOver(d, f[d - 1])]
  <2>1. f = [d \in Nat |-> f[d]]
    OBVIOUS
  <2> HIDE DEF f
  <2>2. \A d \in Nat : UniqueOver(d, IF d = 0 THEN {} ELSE f[d - 1]) = UniqueOver(d, f[d - 1])
    <3> TAKE d \in Nat
    <3>1. CASE d = 0
      BY <3>1, UniqueOverAtLeaves, Zenon
    <3>2. CASE d # 0
      BY <3>2, Zenon
    <3> QED BY <3>1, <3>2
  <2>3. \A d \in Nat : f[d] = UniqueOver(d, f[d - 1])
    BY <1>4, <2>2, Zenon
  <2> QED BY <2>1, <2>3, Zenon
<1> HIDE DEF f
<1> QED BY <1>5, Zenon DEF uniqueKeys, UniqueOver

Meanings(n, lower) == [i \in DOMAIN Children(n) |-> lower[ChildKey(n, i), Children(n)[i]]]
MeaningOver(d, lower) == [place \in Word \X Trees[d] |-> NodeMeaning(place[1], place[2], Meanings(place[2], lower))]

LEMMA MeaningOverAtLeaves == \A a, b : MeaningOver(0, a) = MeaningOver(0, b)
<1>1. \A n \in Trees[0] : DOMAIN Children(n) = {}
  BY TreeChildren
<1>2. \A place \in Word \X Trees[0] : \A a, b : Meanings(place[2], a) = Meanings(place[2], b)
  <2> SUFFICES ASSUME NEW place \in Word \X Trees[0], NEW a, NEW b PROVE Meanings(place[2], a) = Meanings(place[2], b)
    OBVIOUS
  <2>1. DOMAIN Children(place[2]) = {}
    BY <1>1
  <2> QED BY <2>1, Zenon DEF Meanings
<1> QED BY <1>2, Zenon DEF MeaningOver

\* The recursion of meaning.
LEMMA MeaningUnfold ==
  meaning = [d \in Nat |-> MeaningOver(d, meaning[d - 1])]
<1> DEFINE Rec(g, n) == DOMAIN g = 0 .. n /\ \A d \in 0 .. n : g[d] = MeaningOver(d, IF d = 0 THEN {} ELSE g[d - 1])
           P == {n \in Nat : \E g : Rec(g, n)}
           Q == {d \in Nat : \A n, m \in Nat : \A g, h : Rec(g, n) /\ Rec(h, m) /\ d <= n /\ d <= m => g[d] = h[d]}
<1>1. \A n \in Nat : n \in P
  <2>1. 0 \in P
    <3> DEFINE g == [d \in 0 .. 0 |-> MeaningOver(d, {})]
    <3>1. Rec(g, 0)
      OBVIOUS
    <3> QED BY <3>1
  <2>2. ASSUME NEW n \in P PROVE n + 1 \in P
    <3>1. PICK g : Rec(g, n)
      OBVIOUS
    <3> DEFINE h == [d \in 0 .. n + 1 |-> IF d <= n THEN g[d] ELSE MeaningOver(n + 1, g[n])]
    <3>2. DOMAIN h = 0 .. n + 1 /\ h[n + 1] = MeaningOver(n + 1, g[n])
      OBVIOUS
    <3>3. \A d \in 0 .. n : h[d] = g[d]
      OBVIOUS
    <3> HIDE DEF h
    <3>4. ASSUME NEW d \in 0 .. n + 1 PROVE h[d] = MeaningOver(d, IF d = 0 THEN {} ELSE h[d - 1])
      <4>1. CASE d = n + 1
        <5>1. d - 1 \in 0 .. n /\ d # 0 /\ d - 1 = n
          BY <4>1
        <5> QED BY <3>2, <3>3, <4>1, <5>1
      <4>2. CASE d \in 0 .. n
        <5>1. d # 0 => d - 1 \in 0 .. n
          BY <4>2
        <5> QED BY <3>1, <3>3, <4>2, <5>1
      <4> QED BY <4>1, <4>2
    <3>5. Rec(h, n + 1)
      BY <3>2, <3>4
    <3> QED BY <3>5
  <2>3. P \in SUBSET Nat
    OBVIOUS
  <2> HIDE DEF P
  <2> QED BY <2>1, <2>2, <2>3, NumbersByInduction
<1>2. \A d \in Nat : d \in Q
  <2>1. 0 \in Q
    OBVIOUS
  <2>2. ASSUME NEW d \in Q PROVE d + 1 \in Q
    <3> SUFFICES ASSUME NEW n \in Nat, NEW m \in Nat, NEW g, NEW h, Rec(g, n), Rec(h, m), d + 1 <= n, d + 1 <= m
                 PROVE  g[d + 1] = h[d + 1]
      OBVIOUS
    <3>1. g[d] = h[d] /\ d \in Nat
      <4>1. d \in Nat /\ d <= n /\ d <= m
        OBVIOUS
      <4> HIDE DEF Rec
      <4> QED BY <4>1, <2>2, Zenon
    <3>2. d + 1 \in 0 .. n /\ d + 1 \in 0 .. m /\ d + 1 # 0 /\ (d + 1) - 1 = d
      BY <3>1
    <3>3. g[d + 1] = MeaningOver(d + 1, g[d]) /\ h[d + 1] = MeaningOver(d + 1, h[d])
      BY <3>2
    <3> QED BY <3>1, <3>3
  <2>3. Q \in SUBSET Nat
    OBVIOUS
  <2> HIDE DEF Q
  <2> QED BY <2>1, <2>2, <2>3, NumbersByInduction
<1> DEFINE up == [n \in Nat |-> CHOOSE g : Rec(g, n)]
           f == [d \in Nat |-> up[d][d]]
<1>3. \A n \in Nat : Rec(up[n], n)
  <2> HIDE DEF Rec
  <2> QED BY <1>1
<1>4. \A d \in Nat : f[d] = MeaningOver(d, IF d = 0 THEN {} ELSE f[d - 1])
  <2> SUFFICES ASSUME NEW d \in Nat PROVE f[d] = MeaningOver(d, IF d = 0 THEN {} ELSE f[d - 1])
    OBVIOUS
  <2>1. f[d] = up[d][d] /\ (d # 0 => f[d - 1] = up[d - 1][d - 1] /\ d - 1 \in Nat /\ d - 1 \in 0 .. d)
    OBVIOUS
  <2> HIDE DEF f, up
  <2>2. d # 0 => up[d - 1][d - 1] = up[d][d - 1]
    <3> HAVE d # 0
    <3>1. d - 1 \in Nat /\ d - 1 <= d /\ d - 1 <= d - 1
      OBVIOUS
    <3> HIDE DEF Rec
    <3>2. d - 1 \in Q /\ Rec(up[d], d) /\ Rec(up[d - 1], d - 1)
      BY <3>1, <1>2, <1>3, Zenon
    <3> QED BY <3>1, <3>2, Zenon
  <2>3. up[d][d] = MeaningOver(d, IF d = 0 THEN {} ELSE up[d][d - 1])
    <3>1. Rec(up[d], d) /\ d \in 0 .. d
      BY <1>3
    <3> HIDE DEF P, Q
    <3> QED BY <3>1, Zenon
  <2> QED BY <2>1, <2>2, <2>3
<1>5. f = [d \in Nat |-> MeaningOver(d, f[d - 1])]
  <2>1. f = [d \in Nat |-> f[d]]
    OBVIOUS
  <2> HIDE DEF f
  <2>2. \A d \in Nat : MeaningOver(d, IF d = 0 THEN {} ELSE f[d - 1]) = MeaningOver(d, f[d - 1])
    <3> TAKE d \in Nat
    <3>1. CASE d = 0
      BY <3>1, MeaningOverAtLeaves, Zenon
    <3>2. CASE d # 0
      BY <3>2, Zenon
    <3> QED BY <3>1, <3>2
  <2>3. \A d \in Nat : f[d] = MeaningOver(d, f[d - 1])
    BY <1>4, <2>2, Zenon
  <2> QED BY <2>1, <2>3, Zenon
<1> HIDE DEF f
<1> HIDE DEF P, Q
<1>6. \A g : (g = [d \in Nat |-> MeaningOver(d, g[d - 1])]) <=>
              (g = [d \in Nat |-> [place \in Word \X Trees[d] |->
                     LET n == place[2]
                     IN NodeMeaning(place[1], n, [i \in DOMAIN Children(n) |-> g[d - 1][ChildKey(n, i), Children(n)[i]]])]])
  BY Zenon DEF MeaningOver, Meanings
<1> QED BY <1>5, <1>6, Zenon DEF meaning

-----------------------------------------------------------------------------
(* Trees of one depth are trees of the next, and mean the same there.      *)

LEMMA FormsGrow ==
  ASSUME NEW L, NEW M, L \subseteq M, NEW n
  PROVE  (IsMapping(n, L) => IsMapping(n, M)) /\ (IsSequence(n, L) => IsSequence(n, M))
<1>1. Seq([key : Word, node : L]) \subseteq Seq([key : Word, node : M])
  <2>1. [key : Word, node : L] \subseteq [key : Word, node : M]
    OBVIOUS
  <2> DEFINE E == [key : Word, node : L]  F == [key : Word, node : M]
  <2> HIDE DEF E, F
  <2>2. E \subseteq F => Seq(E) \subseteq Seq(F)
    OBVIOUS
  <2> QED BY <2>1, <2>2 DEF E, F
<1>2. Seq(L) \subseteq Seq(M)
  OBVIOUS
<1> QED BY <1>1, <1>2, Zenon DEF IsMapping, IsSequence

LEMMA TreesGrow == \A d \in Nat : Trees[d] \subseteq Trees[d + 1]
<1> DEFINE P == {d \in Nat : Trees[d] \subseteq Trees[d + 1]}
<1>0. ASSUME NEW d \in Nat, Lower(d) \subseteq Lower(d + 1) PROVE Trees[d] \subseteq Trees[d + 1]
  <2> SUFFICES ASSUME NEW n \in Trees[d] PROVE n \in Trees[d + 1]
    OBVIOUS
  <2>1. d + 1 \in Nat
    OBVIOUS
  <2>2. n = Alias \/ IsScalar(n) \/ IsMapping(n, Lower(d)) \/ IsSequence(n, Lower(d))
    BY TreeForms
  <2>3. n = Alias \/ IsScalar(n) \/ IsMapping(n, Lower(d + 1)) \/ IsSequence(n, Lower(d + 1))
    BY <1>0, <2>2, FormsGrow, Zenon
  <2> QED BY <2>1, <2>3, TreeForms
<1>1. 0 \in P
  <2>1. Lower(0) \subseteq Lower(0 + 1)
    BY DEF Lower
  <2> QED BY <1>0, <2>1
<1>2. ASSUME NEW d \in P PROVE d + 1 \in P
  <2>1. Lower(d + 1) = Trees[d] /\ Lower((d + 1) + 1) = Trees[d + 1]
    BY DEF Lower
  <2>2. d + 1 \in Nat /\ Lower(d + 1) \subseteq Lower((d + 1) + 1)
    BY <2>1
  <2>3. Trees[d + 1] \subseteq Trees[(d + 1) + 1]
    BY <1>0, <2>2
  <2> QED BY <2>2, <2>3
<1>3. P \in SUBSET Nat
  OBVIOUS
<1>4. \A d \in Nat : d \in P
  <2> HIDE DEF P
  <2> QED BY <1>1, <1>2, <1>3, NumbersByInduction
<1> QED BY <1>4

LEMMA SameBelow ==
  \A d \in Nat : \A n \in Trees[d] :
    /\ uniqueKeys[d + 1][n] = uniqueKeys[d][n]
    /\ \A k \in Word : meaning[d + 1][k, n] = meaning[d][k, n]
<1> DEFINE Stays(d, n) == /\ uniqueKeys[d + 1][n] = uniqueKeys[d][n]
                          /\ \A k \in Word : meaning[d + 1][k, n] = meaning[d][k, n]
           P == {d \in Nat : \A n \in Trees[d] : Stays(d, n)}
<1>0. ASSUME NEW d \in Nat, NEW n \in Trees[d], NEW e, e = d - 1,
             \A i \in DOMAIN Children(n) :
               /\ uniqueKeys[d][Children(n)[i]] = uniqueKeys[e][Children(n)[i]]
               /\ meaning[d][ChildKey(n, i), Children(n)[i]] = meaning[e][ChildKey(n, i), Children(n)[i]]
      PROVE  Stays(d, n)
  <2>1. d + 1 \in Nat /\ (d + 1) - 1 = d /\ n \in Trees[d + 1]
    BY TreesGrow
  <2>2. uniqueKeys[d + 1] = UniqueOver(d + 1, uniqueKeys[d]) /\ uniqueKeys[d] = UniqueOver(d, uniqueKeys[e])
    BY <1>0, <2>1, UniqueKeysUnfold
  <2>3. uniqueKeys[d + 1][n] = uniqueKeys[d][n]
    <3>1. uniqueKeys[d + 1][n] = (IsInjective(mapKeys(n)) /\ \A i \in DOMAIN Children(n) : uniqueKeys[d][Children(n)[i]])
      BY <2>1, <2>2, Zenon DEF UniqueOver
    <3>2. uniqueKeys[d][n] = (IsInjective(mapKeys(n)) /\ \A i \in DOMAIN Children(n) : uniqueKeys[e][Children(n)[i]])
      BY <2>2, Zenon DEF UniqueOver
    <3> QED BY <1>0, <3>1, <3>2
  <2>4. meaning[d + 1] = MeaningOver(d + 1, meaning[d]) /\ meaning[d] = MeaningOver(d, meaning[e])
    BY <1>0, <2>1, MeaningUnfold
  <2>5. Meanings(n, meaning[d]) = Meanings(n, meaning[e])
    BY <1>0, Zenon DEF Meanings
  <2>6. ASSUME NEW k \in Word PROVE meaning[d + 1][k, n] = meaning[d][k, n]
    <3>1. meaning[d + 1][k, n] = NodeMeaning(k, n, Meanings(n, meaning[d]))
      BY <2>1, <2>4 DEF MeaningOver
    <3>2. meaning[d][k, n] = NodeMeaning(k, n, Meanings(n, meaning[e]))
      BY <2>4 DEF MeaningOver
    <3> QED BY <2>5, <3>1, <3>2
  <2> QED BY <2>3, <2>6
<1>1. 0 \in P
  <2>1. \A n \in Trees[0] : DOMAIN Children(n) = {}
    BY TreeChildren
  <2> QED BY <1>0, <2>1
<1>2. ASSUME NEW d \in P PROVE d + 1 \in P
  <2>0. d \in Nat /\ d + 1 \in Nat
    <3> HIDE DEF Stays
    <3> QED OBVIOUS
  <2> SUFFICES ASSUME NEW n \in Trees[d + 1] PROVE Stays(d + 1, n)
    BY <2>0
  <2>1. d + 1 \in Nat /\ Lower(d + 1) = Trees[d] /\ d = (d + 1) - 1
    <3> HIDE DEF P, Stays
    <3> QED BY <2>0 DEF Lower
  <2>2. \A i \in DOMAIN Children(n) : ChildKey(n, i) \in Word /\ Children(n)[i] \in Trees[d]
    BY <2>1, TreeChildren
  <2> HIDE DEF Stays
  <2>3. \A c \in Trees[d] : Stays(d, c)
    OBVIOUS
  <2> HIDE DEF P
  <2>4. \A i \in DOMAIN Children(n) :
          /\ uniqueKeys[d + 1][Children(n)[i]] = uniqueKeys[d][Children(n)[i]]
          /\ meaning[d + 1][ChildKey(n, i), Children(n)[i]] = meaning[d][ChildKey(n, i), Children(n)[i]]
    <3> SUFFICES ASSUME NEW i \in DOMAIN Children(n)
                 PROVE  /\ uniqueKeys[d + 1][Children(n)[i]] = uniqueKeys[d][Children(n)[i]]
                        /\ meaning[d + 1][ChildKey(n, i), Children(n)[i]] = meaning[d][ChildKey(n, i), Children(n)[i]]
      OBVIOUS
    <3>1. Stays(d, Children(n)[i]) /\ ChildKey(n, i) \in Word
      BY <2>2, <2>3
    <3> QED BY <3>1, Zenon DEF Stays
  <2> QED BY <1>0, <2>1, <2>4, Zenon
<1>3. P \in SUBSET Nat
  OBVIOUS
<1>4. \A d \in Nat : d \in P
  <2> HIDE DEF P
  <2> QED BY <1>1, <1>2, <1>3, NumbersByInduction
<1> QED BY <1>4

AllTrees == Trees[MaxDepth]
MeaningsOf(n) == [i \in DOMAIN Children(n) |-> Meaning(ChildKey(n, i), Children(n)[i])]

\* What a node is, what it means and whether its keys are unique depends on its children.
LEMMA NodeOf ==
  ASSUME NEW n \in AllTrees
  PROVE  /\ n = Alias \/ IsScalar(n) \/ IsMapping(n, AllTrees) \/ IsSequence(n, AllTrees)
         /\ \A i \in DOMAIN Children(n) : ChildKey(n, i) \in Word /\ Children(n)[i] \in AllTrees
         /\ \A k \in Word : Meaning(k, n) = NodeMeaning(k, n, MeaningsOf(n))
         /\ checkDuplicateKeys(n) <=> IsInjective(mapKeys(n)) /\ \A i \in DOMAIN Children(n) : checkDuplicateKeys(Children(n)[i])
<1> DEFINE d == MaxDepth - 1
<1>1. MaxDepth \in Nat /\ d \in Nat /\ d + 1 = MaxDepth /\ Lower(MaxDepth) = Trees[d] /\ MaxDepth - 1 = d
  BY DepthAssumption DEF Lower
<1> HIDE DEF d
<1>2. Trees[d] \subseteq AllTrees
  BY <1>1, TreesGrow DEF AllTrees
<1>3. n = Alias \/ IsScalar(n) \/ IsMapping(n, Trees[d]) \/ IsSequence(n, Trees[d])
  BY <1>1, TreeForms DEF AllTrees
<1>4. n = Alias \/ IsScalar(n) \/ IsMapping(n, AllTrees) \/ IsSequence(n, AllTrees)
  BY <1>2, <1>3, FormsGrow, Zenon
<1>5. \A i \in DOMAIN Children(n) : ChildKey(n, i) \in Word /\ Children(n)[i] \in Trees[d]
  BY <1>1, TreeChildren DEF AllTrees
<1>6. \A c \in Trees[d] : /\ uniqueKeys[MaxDepth][c] = uniqueKeys[d][c]
                          /\ \A k \in Word : meaning[MaxDepth][k, c] = meaning[d][k, c]
  BY <1>1, SameBelow
<1>7. uniqueKeys[MaxDepth] = UniqueOver(MaxDepth, uniqueKeys[d]) /\ meaning[MaxDepth] = MeaningOver(MaxDepth, meaning[d])
  BY <1>1, UniqueKeysUnfold, MeaningUnfold
<1>8. checkDuplicateKeys(n) <=> IsInjective(mapKeys(n)) /\ \A i \in DOMAIN Children(n) : checkDuplicateKeys(Children(n)[i])
  <2>1. uniqueKeys[MaxDepth][n] = (IsInjective(mapKeys(n)) /\ \A i \in DOMAIN Children(n) : uniqueKeys[d][Children(n)[i]])
    BY <1>7, Zenon DEF UniqueOver, AllTrees
  <2> QED BY <1>5, <1>6, <2>1, Zenon DEF checkDuplicateKeys
<1>9. MeaningsOf(n) = Meanings(n, meaning[d])
  BY <1>5, <1>6, Zenon DEF MeaningsOf, Meanings, Meaning
<1>10. ASSUME NEW k \in Word PROVE Meaning(k, n) = NodeMeaning(k, n, MeaningsOf(n))
  <2>1. meaning[MaxDepth][k, n] = NodeMeaning(k, n, Meanings(n, meaning[d]))
    BY <1>7 DEF MeaningOver, AllTrees
  <2> QED BY <1>9, <2>1 DEF Meaning
<1> QED BY <1>2, <1>4, <1>5, <1>8, <1>10

-----------------------------------------------------------------------------
(* What stands under a key.                                                *)

LEMMA MappingOf ==
  ASSUME NEW L, NEW n, IsMapping(n, L), IsInjective(mapKeys(n))
  PROVE  /\ \A i \in DOMAIN n.entries : n.entries[i].key \in keysOf(n) /\ mapping(n, n.entries[i].key) = n.entries[i].node
         /\ \A key \in keysOf(n) : \E i \in DOMAIN n.entries : n.entries[i].key = key
         /\ \A key : key \notin keysOf(n) => mapping(n, key) = Nil
<1>1. mapKeys(n) = [i \in DOMAIN n.entries |-> n.entries[i].key]
  BY DEF mapKeys, IsMapping
<1>2. keysOf(n) = {n.entries[i].key : i \in DOMAIN n.entries}
  BY <1>1 DEF keysOf, Range
<1>3. n.kind = "mapping" /\ DOMAIN n.entries = 1 .. Len(n.entries) /\ Len(n.entries) \in Nat
  <2>1. n.entries \in Seq([key : Word, node : L])
    BY DEF IsMapping
  <2> QED BY <2>1, NodeParts, Zenon DEF IsMapping
<1> DEFINE At(key) == {i \in 1 .. Len(n.entries) : n.entries[i].key = key}
<1>4. \A key : mapping(n, key) = LET first == IF At(key) # {} THEN Min(At(key)) ELSE 0
                                 IN IF first = 0 THEN Nil ELSE n.entries[first].node
  BY <1>3, Zenon DEF mapping, SelectInSeq
<1>5. ASSUME NEW i \in DOMAIN n.entries PROVE mapping(n, n.entries[i].key) = n.entries[i].node
  <2>1. \A j \in DOMAIN n.entries : n.entries[j].key = n.entries[i].key => j = i
    BY <1>1 DEF IsInjective
  <2>2. At(n.entries[i].key) = {i}
    BY <1>3, <2>1, Zenon
  <2>3. i \in Nat /\ i # 0
    BY <1>3
  <2>4. Min({i}) = i
    BY <2>3 DEF Min
  <2> HIDE DEF At
  <2> QED BY <1>4, <2>2, <2>3, <2>4
<1>6. ASSUME NEW key, key \notin keysOf(n) PROVE mapping(n, key) = Nil
  <2>1. At(key) = {}
    BY <1>2, <1>3, <1>6
  <2> HIDE DEF At
  <2> QED BY <1>4, <2>1
<1> QED BY <1>2, <1>5, <1>6

LEMMA NoMapping ==
  ASSUME NEW n, n.kind # "mapping"
  PROVE  keysOf(n) = {} /\ \A key : mapping(n, key) = Nil
<1>1. mapKeys(n) = <<>>
  BY DEF mapKeys
<1> QED BY <1>1 DEF keysOf, Range, mapping

\* Trees that have no key twice, and what stands under a key of one.
UniqueTrees == {n \in AllTrees : checkDuplicateKeys(n)}
MaybeTrees == UniqueTrees \cup {Nil}

LEMMA UniqueOf ==
  ASSUME NEW n \in UniqueTrees
  PROVE  /\ n \in AllTrees /\ n # Nil
         /\ n = Alias \/ IsScalar(n) \/ IsMapping(n, AllTrees) \/ IsSequence(n, AllTrees)
         /\ IsInjective(mapKeys(n))
         /\ \A i \in DOMAIN Children(n) : ChildKey(n, i) \in Word /\ Children(n)[i] \in UniqueTrees
         /\ \A k \in Word : Meaning(k, n) = NodeMeaning(k, n, MeaningsOf(n))
<1>1. n \in AllTrees /\ checkDuplicateKeys(n)
  BY DEF UniqueTrees
<1>2. n # Nil
  <2>1. n = Alias \/ IsScalar(n) \/ IsMapping(n, AllTrees) \/ IsSequence(n, AllTrees)
    BY <1>1, NodeOf
  <2> QED BY <2>1 DEF Nil, Alias, IsScalar, IsMapping, IsSequence
<1> QED BY <1>1, <1>2, NodeOf, Zenon DEF UniqueTrees

LEMMA UnderKey ==
  ASSUME NEW n \in MaybeTrees
  PROVE  \A key : /\ mapping(n, key) \in MaybeTrees
                  /\ key \in keysOf(n) <=> mapping(n, key) # Nil
                  /\ key \in keysOf(n) => key \in Word /\ n.kind = "mapping" /\ mapping(n, key) \in UniqueTrees
<1> SUFFICES ASSUME NEW key
             PROVE  /\ mapping(n, key) \in MaybeTrees
                    /\ key \in keysOf(n) <=> mapping(n, key) # Nil
                    /\ key \in keysOf(n) => key \in Word /\ n.kind = "mapping" /\ mapping(n, key) \in UniqueTrees
  OBVIOUS
<1>1. CASE n.kind # "mapping"
  BY <1>1, NoMapping DEF MaybeTrees
<1>2. CASE n.kind = "mapping"
  <2>1. n \in UniqueTrees
    BY <1>2 DEF MaybeTrees, Nil
  <2>2. IsMapping(n, AllTrees) /\ IsInjective(mapKeys(n))
    <3>1. n = Alias \/ IsScalar(n) \/ IsMapping(n, AllTrees) \/ IsSequence(n, AllTrees)
      BY <2>1, UniqueOf
    <3> QED BY <1>2, <2>1, <3>1, UniqueOf DEF Alias, IsScalar, IsSequence
  <2>3. DOMAIN Children(n) = DOMAIN n.entries
        /\ \A i \in DOMAIN n.entries : Children(n)[i] = n.entries[i].node /\ ChildKey(n, i) = n.entries[i].key
    BY <1>2 DEF Children, ChildKey
  <2>4. \A i \in DOMAIN n.entries : n.entries[i].key \in Word /\ n.entries[i].node \in UniqueTrees
    BY <2>1, <2>3, UniqueOf
  <2>5. Nil \notin UniqueTrees
    BY UniqueOf
  <2>6. CASE key \in keysOf(n)
    <3>0. \A k \in keysOf(n) : \E i \in DOMAIN n.entries : n.entries[i].key = k
      BY <2>2, MappingOf
    <3>1. PICK i \in DOMAIN n.entries : n.entries[i].key = key
      BY <2>6, <3>0
    <3>2. mapping(n, key) = n.entries[i].node
      BY <2>2, <3>1, MappingOf, Zenon
    <3>3. key \in Word /\ mapping(n, key) \in UniqueTrees
      BY <2>4, <3>1, <3>2
    <3> QED BY <1>2, <2>5, <2>6, <3>3 DEF MaybeTrees
  <2>7. CASE key \notin keysOf(n)
    <3>1. mapping(n, key) = Nil
      BY <2>2, <2>7, MappingOf, Zenon
    <3> QED BY <2>7, <3>1 DEF MaybeTrees
  <2> QED BY <2>6, <2>7
<1> QED BY <1>1, <1>2

-----------------------------------------------------------------------------
(* What nodes without repeated keys mean.                                  *)

LEMMA MeaningOfEntries ==
  ASSUME NEW n \in AllTrees, n.kind = "mapping", IsInjective(mapKeys(n)), NEW key \in Word, key # "workflow_dispatch"
  PROVE  Meaning(key, n) = <<"mapping", [k \in keysOf(n) |-> Meaning(k, mapping(n, k))]>>
<1>1. IsMapping(n, AllTrees) /\ IsInjective(mapKeys(n)) /\ Meaning(key, n) = NodeMeaning(key, n, MeaningsOf(n))
  <2>1. n = Alias \/ IsScalar(n) \/ IsMapping(n, AllTrees) \/ IsSequence(n, AllTrees)
    BY NodeOf
  <2> QED BY <2>1, NodeOf DEF Alias, IsScalar, IsSequence
<1> DEFINE place(k) == CHOOSE i \in DOMAIN n.entries : n.entries[i].key = k
<1>2. NodeMeaning(key, n, MeaningsOf(n)) = <<"mapping", [k \in keysOf(n) |-> MeaningsOf(n)[place(k)]]>>
  <2> DEFINE M == MeaningsOf(n)
  <2> HIDE DEF M
  <2>2. [k \in keysOf(n) |-> M[CHOOSE i \in DOMAIN n.entries : n.entries[i].key = k]] = [k \in keysOf(n) |-> M[place(k)]]
    BY Zenon
  <2> HIDE DEF place
  <2>3. NodeMeaning(key, n, M) = <<"mapping", [k \in keysOf(n) |-> M[CHOOSE i \in DOMAIN n.entries : n.entries[i].key = k]]>>
    BY <1>1 DEF NodeMeaning
  <2> QED BY <2>2, <2>3 DEF M
<1>3. ASSUME NEW k \in keysOf(n) PROVE MeaningsOf(n)[place(k)] = Meaning(k, mapping(n, k))
  <2>0. \A q \in keysOf(n) : \E i \in DOMAIN n.entries : n.entries[i].key = q
    BY <1>1, MappingOf
  <2>1. place(k) \in DOMAIN n.entries /\ n.entries[place(k)].key = k
    BY <2>0
  <2> HIDE DEF place
  <2>2. mapping(n, k) = n.entries[place(k)].node
    BY <1>1, <2>1, MappingOf
  <2>3. DOMAIN Children(n) = DOMAIN n.entries
        /\ \A i \in DOMAIN n.entries : Children(n)[i] = n.entries[i].node /\ ChildKey(n, i) = n.entries[i].key
    BY DEF Children, ChildKey
  <2> QED BY <2>1, <2>2, <2>3, Zenon DEF MeaningsOf
<1> HIDE DEF place
<1>4. [k \in keysOf(n) |-> MeaningsOf(n)[place(k)]] = [k \in keysOf(n) |-> Meaning(k, mapping(n, k))]
  BY <1>3, Zenon
<1> QED BY <1>1, <1>2, <1>4

LEMMA MeaningOfMapping ==
  ASSUME NEW n \in UniqueTrees, n.kind = "mapping", NEW key \in Word, key # "workflow_dispatch"
  PROVE  Meaning(key, n) = <<"mapping", [k \in keysOf(n) |-> Meaning(k, mapping(n, k))]>>
BY UniqueOf, MeaningOfEntries

LEMMA MeaningOfNodes ==
  ASSUME NEW n \in AllTrees, NEW key \in Word
  PROVE  /\ key = "workflow_dispatch" => Meaning(key, n) = IF checkDuplicateKeys(n) THEN <<"trigger">> ELSE <<"invalid">>
         /\ key # "workflow_dispatch" =>
              /\ n.kind = "sequence" => Meaning(key, n) = IF key \in {"needs", "tags"} THEN <<"bag", Bag(MeaningsOf(n))>>
                                                          ELSE <<"sequence", MeaningsOf(n)>>
              /\ n.kind = "scalar" => Meaning(key, n) = ScalarMeaning(key, n.value)
              /\ n.kind = "alias" => Meaning(key, n) = <<"alias">>
              /\ n.kind = "mapping" /\ ~IsInjective(mapKeys(n)) => Meaning(key, n) = <<"invalid">>
<1>1. Meaning(key, n) = NodeMeaning(key, n, MeaningsOf(n))
  BY NodeOf
<1> DEFINE M == MeaningsOf(n)
<1>2. Meaning(key, n) = NodeMeaning(key, n, M)
  BY <1>1
<1> HIDE DEF M
<1>3. key = "workflow_dispatch" => Meaning(key, n) = IF checkDuplicateKeys(n) THEN <<"trigger">> ELSE <<"invalid">>
  BY <1>1, <1>2 DEF NodeMeaning
<1>4. key # "workflow_dispatch" /\ n.kind = "sequence"
        => Meaning(key, n) = IF key \in {"needs", "tags"} THEN <<"bag", Bag(M)>> ELSE <<"sequence", M>>
  BY <1>1, <1>2 DEF NodeMeaning
<1>5. key # "workflow_dispatch" /\ n.kind = "scalar" => Meaning(key, n) = ScalarMeaning(key, n.value)
  BY <1>1, <1>2 DEF NodeMeaning
<1>6. key # "workflow_dispatch" /\ n.kind = "alias" => Meaning(key, n) = <<"alias">>
  BY <1>1, <1>2 DEF NodeMeaning
<1>7. key # "workflow_dispatch" /\ n.kind = "mapping" /\ ~IsInjective(mapKeys(n)) => Meaning(key, n) = <<"invalid">>
  BY <1>1, <1>2 DEF NodeMeaning
<1> QED BY <1>3, <1>4, <1>5, <1>6, <1>7 DEF M

LEMMA MeaningOfOthers ==
  ASSUME NEW n \in UniqueTrees, NEW key \in Word
  PROVE  /\ key = "workflow_dispatch" => Meaning(key, n) = <<"trigger">>
         /\ key # "workflow_dispatch" =>
              /\ n.kind = "sequence" => Meaning(key, n) = IF key \in {"needs", "tags"} THEN <<"bag", Bag(MeaningsOf(n))>>
                                                          ELSE <<"sequence", MeaningsOf(n)>>
              /\ n.kind = "scalar" => Meaning(key, n) = ScalarMeaning(key, n.value)
              /\ n.kind = "alias" => Meaning(key, n) = <<"alias">>
<1>1. n \in AllTrees /\ checkDuplicateKeys(n)
  BY DEF UniqueTrees
<1> QED BY <1>1, MeaningOfNodes, Zenon

\* The same node for those that run it, or none at all.
Alike(key, n, m) ==
  \/ n = Nil /\ m = Nil
  \/ n \in UniqueTrees /\ m \in UniqueTrees /\ Meaning(key, n) = Meaning(key, m)

LEMMA AlikeEntries ==
  ASSUME NEW n \in UniqueTrees, n.kind = "mapping", NEW m \in UniqueTrees, m.kind = "mapping",
         NEW key \in Word, key # "workflow_dispatch", NEW K, keysOf(n) \subseteq K, keysOf(m) \subseteq K,
         \A k \in K : Alike(k, mapping(n, k), mapping(m, k))
  PROVE  Alike(key, n, m)
<1>1. n \in MaybeTrees /\ m \in MaybeTrees
  BY DEF MaybeTrees
<1>2. \A k : (k \in keysOf(n) <=> mapping(n, k) # Nil) /\ (k \in keysOf(m) <=> mapping(m, k) # Nil)
  BY <1>1, UnderKey
<1>3. Nil \notin UniqueTrees
  BY UniqueOf
<1>4. keysOf(n) = keysOf(m)
  BY <1>2, <1>3 DEF Alike
<1>5. \A k \in keysOf(n) : Meaning(k, mapping(n, k)) = Meaning(k, mapping(m, k))
  BY <1>2, Zenon DEF Alike
<1>6. [k \in keysOf(n) |-> Meaning(k, mapping(n, k))] = [k \in keysOf(m) |-> Meaning(k, mapping(m, k))]
  BY <1>4, <1>5, Zenon
<1>7. Meaning(key, n) = Meaning(key, m)
  BY <1>6, MeaningOfMapping
<1> QED BY <1>7 DEF Alike

LEMMA MeaningTags ==
  \A key, value : ScalarMeaning(key, value)[1] \in {"commands", "pinned action", "bag", "text"}
BY DEF ScalarMeaning

LEMMA EntriesAlike ==
  ASSUME NEW n \in UniqueTrees, NEW m \in UniqueTrees, m.kind = "mapping",
         NEW key \in Word, key # "workflow_dispatch", Meaning(key, n) = Meaning(key, m)
  PROVE  n.kind = "mapping" /\ keysOf(n) = keysOf(m) /\ \A k : Alike(k, mapping(n, k), mapping(m, k))
<1>1. Meaning(key, m) = <<"mapping", [k \in keysOf(m) |-> Meaning(k, mapping(m, k))]>>
  BY MeaningOfMapping
<1>2. Meaning(key, n)[1] = "mapping"
  BY <1>1
<1>3. n.kind \in {"mapping", "sequence", "scalar", "alias"}
  BY UniqueOf DEF IsMapping, IsSequence, IsScalar, Alias
<1>4. n.kind = "mapping"
  <2>1. CASE n.kind = "sequence"
    <3>1. \A x : <<"bag", x>>[1] # "mapping" /\ <<"sequence", x>>[1] # "mapping"
      OBVIOUS
    <3> QED BY <1>2, <2>1, <3>1, MeaningOfOthers, Zenon
  <2>2. CASE n.kind = "scalar"
    BY <1>2, <2>2, MeaningOfOthers, MeaningTags
  <2>3. CASE n.kind = "alias"
    BY <1>2, <2>3, MeaningOfOthers
  <2> QED BY <1>3, <2>1, <2>2, <2>3
<1>5. Meaning(key, n) = <<"mapping", [k \in keysOf(n) |-> Meaning(k, mapping(n, k))]>>
  BY <1>4, MeaningOfMapping
<1> DEFINE f == [k \in keysOf(n) |-> Meaning(k, mapping(n, k))]  g == [k \in keysOf(m) |-> Meaning(k, mapping(m, k))]
<1>6. f = g
  <2> HIDE DEF f, g
  <2>1. <<"mapping", f>> = <<"mapping", g>>
    BY <1>1, <1>5 DEF f, g
  <2> QED BY <2>1
<1>7. keysOf(n) = keysOf(m)
  <2>1. DOMAIN f = keysOf(n) /\ DOMAIN g = keysOf(m)
    BY Zenon
  <2> HIDE DEF f, g
  <2> QED BY <1>6, <2>1
<1>8. \A k \in keysOf(n) : Meaning(k, mapping(n, k)) = Meaning(k, mapping(m, k))
  <2>1. \A k \in keysOf(n) : f[k] = Meaning(k, mapping(n, k)) /\ g[k] = Meaning(k, mapping(m, k))
    BY <1>7, Zenon
  <2> HIDE DEF f, g
  <2> QED BY <1>6, <2>1, Zenon
<1>9. n \in MaybeTrees /\ m \in MaybeTrees
  BY DEF MaybeTrees
<1>10. ASSUME NEW k PROVE Alike(k, mapping(n, k), mapping(m, k))
  <2>1. CASE k \in keysOf(n)
    <3>1. mapping(n, k) \in UniqueTrees /\ mapping(m, k) \in UniqueTrees
      BY <1>7, <1>9, <2>1, UnderKey
    <3> QED BY <1>8, <2>1, <3>1 DEF Alike
  <2>2. CASE k \notin keysOf(n)
    <3>1. mapping(n, k) = Nil /\ mapping(m, k) = Nil
      BY <1>7, <1>9, <2>2, UnderKey
    <3> QED BY <3>1 DEF Alike
  <2> QED BY <2>1, <2>2
<1> QED BY <1>4, <1>7, <1>10

-----------------------------------------------------------------------------
(* Scalars, and mappings of scalars.                                       *)

LEMMA AlikeSame == \A key : \A n \in MaybeTrees : Alike(key, n, n)
BY DEF Alike, MaybeTrees

LEMMA AlikeNil ==
  ASSUME NEW key, NEW n, NEW m, Alike(key, n, m)
  PROVE  /\ n = Nil <=> m = Nil
         /\ n.kind = "nil" <=> m.kind = "nil"
         /\ n \in MaybeTrees /\ m \in MaybeTrees
<1>1. Nil \notin UniqueTrees /\ Nil.kind = "nil"
  BY UniqueOf DEF Nil
<1>2. \A t \in UniqueTrees : t.kind # "nil"
  BY UniqueOf DEF Alias, IsScalar, IsMapping, IsSequence
<1> QED BY <1>1, <1>2 DEF Alike, MaybeTrees

LEMMA KindOf ==
  ASSUME NEW n \in MaybeTrees
  PROVE  /\ n.kind = "nil" <=> n = Nil
         /\ n.kind = "scalar" <=> n \in UniqueTrees /\ IsScalar(n)
         /\ n.kind = "sequence" <=> n \in UniqueTrees /\ IsSequence(n, AllTrees)
         /\ n.kind = "mapping" <=> n \in UniqueTrees /\ IsMapping(n, AllTrees)
         /\ n.kind \in {"nil", "scalar", "sequence", "mapping", "alias"}
<1>1. CASE n = Nil
  BY <1>1, UniqueOf DEF Nil, IsScalar, IsSequence, IsMapping
<1>2. CASE n \in UniqueTrees
  <2>1. n = Alias \/ IsScalar(n) \/ IsMapping(n, AllTrees) \/ IsSequence(n, AllTrees)
    BY <1>2, UniqueOf
  <2> QED BY <1>2, <2>1, UniqueOf DEF Nil, Alias, IsScalar, IsSequence, IsMapping
<1> QED BY <1>1, <1>2 DEF MaybeTrees

LEMMA ExactScalar ==
  ASSUME NEW n \in MaybeTrees, NEW want, want # None, expectExactScalar(n, want)
  PROVE  n = Scalar(want) /\ n \in UniqueTrees
<1>1. n.kind = "scalar"
  BY DEF expectExactScalar, scalar
<1> QED BY <1>1, KindOf DEF expectExactScalar, scalar, IsScalar

LEMMA ScalarIsExact ==
  ASSUME NEW want
  PROVE  expectExactScalar(Scalar(want), want)
BY DEF expectExactScalar, scalar, Scalar

\* A text is told apart from everything else.
LEMMA TextIsScalar ==
  ASSUME NEW n \in UniqueTrees, NEW key \in Word, NEW value, Meaning(key, n) = <<"text", value>>
  PROVE  n = Scalar(value) /\ n.kind = "scalar" /\ n.value = value
<1>1. key # "workflow_dispatch"
  BY MeaningOfOthers
<1>2. Meaning(key, n)[1] = "text" /\ Meaning(key, n)[2] = value
  OBVIOUS
<1>3. n.kind \in {"scalar", "sequence", "mapping", "alias"}
  BY KindOf, UniqueOf DEF MaybeTrees
<1>4. n.kind # "mapping"
  BY <1>1, <1>2, MeaningOfMapping
<1>5. n.kind # "alias"
  BY <1>1, <1>2, MeaningOfOthers
<1>6. n.kind # "sequence"
  <2>1. \A x : <<"bag", x>>[1] # "text" /\ <<"sequence", x>>[1] # "text"
    OBVIOUS
  <2> QED BY <1>1, <1>2, <2>1, MeaningOfOthers, Zenon
<1>7. n.kind = "scalar"
  BY <1>3, <1>4, <1>5, <1>6
<1>8. IsScalar(n) /\ Meaning(key, n) = ScalarMeaning(key, n.value)
  BY <1>1, <1>7, KindOf, MeaningOfOthers DEF MaybeTrees
<1>9. ScalarMeaning(key, n.value)[1] = "text" => ScalarMeaning(key, n.value) = <<"text", n.value>>
  BY DEF ScalarMeaning
<1>10. n.value = value
  BY <1>2, <1>8, <1>9
<1> QED BY <1>7, <1>8, <1>10 DEF IsScalar

LEMMA TextOf ==
  ASSUME NEW want, Scalar(want) \in UniqueTrees, NEW key \in Word \ SpecialKeys
  PROVE  Meaning(key, Scalar(want)) = <<"text", want>>
<1>1. Scalar(want).kind = "scalar" /\ Scalar(want).value = want
  BY DEF Scalar
<1>2. key # "workflow_dispatch" /\ Meaning(key, Scalar(want)) = ScalarMeaning(key, want)
  BY <1>1, MeaningOfOthers DEF SpecialKeys
<1> QED BY <1>2 DEF ScalarMeaning, SpecialKeys

LEMMA AlikeText ==
  ASSUME NEW want, NEW key \in Word \ SpecialKeys, NEW n, NEW m, Alike(key, n, m), m = Scalar(want)
  PROVE  n = Scalar(want)
<1>1. m # Nil
  BY DEF Scalar, Nil
<1>2. n \in UniqueTrees /\ m \in UniqueTrees /\ Meaning(key, n) = Meaning(key, m)
  BY <1>1 DEF Alike
<1>3. Meaning(key, n) = <<"text", want>>
  BY <1>2, TextOf
<1> QED BY <1>2, <1>3, TextIsScalar

\* The checks of scalars settle what they mean.
LEMMA ScalarsAlike ==
  ASSUME NEW want, GivenTexts(want), NEW key \in Word, key # "workflow_dispatch",
         NEW n \in MaybeTrees, expectExactScalars(n, want), NEW m \in MaybeTrees, expectExactScalars(m, want)
  PROVE  Alike(key, n, m)
<1>1. n \in UniqueTrees /\ m \in UniqueTrees /\ n.kind = "mapping" /\ m.kind = "mapping"
  BY KindOf DEF expectExactScalars
<1>2. keysOf(n) \subseteq DOMAIN want /\ keysOf(m) \subseteq DOMAIN want
  BY DEF expectExactScalars
<1>3. ASSUME NEW k \in DOMAIN want PROVE Alike(k, mapping(n, k), mapping(m, k))
  <2>1. want[k] # None /\ mapping(n, k) \in MaybeTrees /\ mapping(m, k) \in MaybeTrees
    BY UnderKey DEF GivenTexts
  <2>2. mapping(n, k) = Scalar(want[k]) /\ mapping(m, k) = Scalar(want[k])
    BY <2>1, ExactScalar DEF expectExactScalars
  <2> QED BY <2>1, <2>2, AlikeSame
<1> QED BY <1>1, <1>2, <1>3, AlikeEntries

LEMMA OptionalScalarsAlike ==
  ASSUME NEW want, GivenTexts(want), NEW key \in Word, key # "workflow_dispatch",
         NEW n \in MaybeTrees, expectOptionalExactScalars(n, want),
         NEW m \in MaybeTrees, expectOptionalExactScalars(m, want)
  PROVE  Alike(key, n, m)
<1>1. CASE DOMAIN want = {}
  <2>1. n = Nil /\ m = Nil
    BY <1>1, KindOf DEF expectOptionalExactScalars
  <2> QED BY <2>1 DEF Alike
<1>2. CASE DOMAIN want # {}
  BY <1>2, ScalarsAlike DEF expectOptionalExactScalars
<1> QED BY <1>1, <1>2

\* And what means the same passes them.
LEMMA AlikeScalars ==
  ASSUME NEW want, GivenTexts(want), NEW key \in Word, key # "workflow_dispatch",
         NEW n, NEW m, Alike(key, n, m), expectExactScalars(m, want)
  PROVE  expectExactScalars(n, want)
<1>1. n \in MaybeTrees /\ m \in MaybeTrees
  BY AlikeNil
<1>2. m \in UniqueTrees /\ m.kind = "mapping" /\ m # Nil
  BY <1>1, KindOf DEF expectExactScalars, Nil
<1>3. n \in UniqueTrees /\ Meaning(key, n) = Meaning(key, m)
  BY <1>2 DEF Alike
<1>4. n.kind = "mapping" /\ keysOf(n) = keysOf(m) /\ \A k : Alike(k, mapping(n, k), mapping(m, k))
  BY <1>2, <1>3, EntriesAlike
<1>5. ASSUME NEW k \in DOMAIN want PROVE expectExactScalar(mapping(n, k), want[k])
  <2>1. want[k] # None /\ mapping(m, k) \in MaybeTrees /\ k \in Word \ SpecialKeys
    BY <1>1, UnderKey DEF GivenTexts
  <2>2. mapping(m, k) = Scalar(want[k])
    BY <2>1, ExactScalar DEF expectExactScalars
  <2>3. mapping(n, k) = Scalar(want[k])
    BY <1>4, <2>1, <2>2, AlikeText
  <2> QED BY <2>3, ScalarIsExact
<1> QED BY <1>4, <1>5 DEF expectExactScalars

LEMMA AlikeOptionalScalars ==
  ASSUME NEW want, GivenTexts(want), NEW key \in Word, key # "workflow_dispatch",
         NEW n, NEW m, Alike(key, n, m), expectOptionalExactScalars(m, want)
  PROVE  expectOptionalExactScalars(n, want)
<1>1. CASE DOMAIN want = {}
  BY <1>1, AlikeNil DEF expectOptionalExactScalars
<1>2. CASE DOMAIN want # {}
  BY <1>2, AlikeScalars DEF expectOptionalExactScalars
<1> QED BY <1>1, <1>2

\* Optional scalars, which may be absent.
LEMMA OptionalScalar ==
  ASSUME NEW n \in MaybeTrees, NEW want, expectOptionalExactScalar(n, want)
  PROVE  n = IF want = None THEN Nil ELSE Scalar(want)
BY KindOf, ExactScalar DEF expectOptionalExactScalar

-----------------------------------------------------------------------------
(* Scripts: the lines that are kept, and the commands that a shell reads.  *)

\* There is the recursion of Read.
LEMMA ReadingExists ==
  ASSUME NEW a \in Nat, NEW lines
  PROVE  \E g : g = [i \in 0 .. a |-> IF i = 0 THEN [done |-> <<>>, open |-> FALSE] ELSE ReadLine(g[i - 1], lines[i])]
<1> DEFINE Rec(g, n) == DOMAIN g = 0 .. n /\ \A i \in 0 .. n : g[i] = IF i = 0 THEN [done |-> <<>>, open |-> FALSE] ELSE ReadLine(g[i - 1], lines[i])
           P == {n \in Nat : \E g : Rec(g, n)}
<1>1. 0 \in P
  <2> DEFINE g == [i \in 0 .. 0 |-> [done |-> <<>>, open |-> FALSE]]
  <2>1. Rec(g, 0)
    OBVIOUS
  <2> QED BY <2>1
<1>2. ASSUME NEW n \in P PROVE n + 1 \in P
  <2>1. PICK g : Rec(g, n)
    OBVIOUS
  <2> DEFINE h == [i \in 0 .. n + 1 |-> IF i <= n THEN g[i] ELSE ReadLine(g[n], lines[n + 1])]
  <2>2. DOMAIN h = 0 .. n + 1 /\ h[n + 1] = ReadLine(g[n], lines[n + 1])
    OBVIOUS
  <2>3. \A i \in 0 .. n : h[i] = g[i]
    OBVIOUS
  <2> HIDE DEF h
  <2>4. ASSUME NEW i \in 0 .. n + 1 PROVE h[i] = IF i = 0 THEN [done |-> <<>>, open |-> FALSE] ELSE ReadLine(h[i - 1], lines[i])
    <3>1. CASE i = n + 1
      <4>1. i - 1 \in 0 .. n /\ i # 0 /\ i - 1 = n
        BY <3>1
      <4>2. h[i - 1] = g[n]
        BY <2>3, <4>1
      <4> QED BY <2>2, <3>1, <4>1, <4>2
    <3>2. CASE i \in 0 .. n
      <4>1. i # 0 => i - 1 \in 0 .. n
        BY <3>2
      <4> QED BY <2>1, <2>3, <3>2, <4>1
    <3> QED BY <3>1, <3>2
  <2>5. Rec(h, n + 1)
    BY <2>2, <2>4
  <2>6. n + 1 \in Nat
    OBVIOUS
  <2> HIDE DEF Rec, h
  <2> QED BY <2>5, <2>6
<1>3. P \in SUBSET Nat
  OBVIOUS
<1>4. a \in P
  <2> HIDE DEF P
  <2> QED BY <1>1, <1>2, <1>3, NumbersByInduction
<1>5. PICK g : Rec(g, a)
  BY <1>4
<1> DEFINE f == [i \in 0 .. a |-> g[i]]
<1>6. \A i \in 0 .. a : f[i] = IF i = 0 THEN [done |-> <<>>, open |-> FALSE] ELSE ReadLine(f[i - 1], lines[i])
  <2> SUFFICES ASSUME NEW i \in 0 .. a PROVE f[i] = IF i = 0 THEN [done |-> <<>>, open |-> FALSE] ELSE ReadLine(f[i - 1], lines[i])
    OBVIOUS
  <2>1. i # 0 => i - 1 \in 0 .. a
    OBVIOUS
  <2>2. f[i] = g[i] /\ (i # 0 => f[i - 1] = g[i - 1])
    BY <2>1
  <2> HIDE DEF f
  <2> QED BY <1>5, <2>2
<1>7. f = [i \in 0 .. a |-> f[i]]
  OBVIOUS
<1> HIDE DEF f
<1>8. f = [i \in 0 .. a |-> IF i = 0 THEN [done |-> <<>>, open |-> FALSE] ELSE ReadLine(f[i - 1], lines[i])]
  BY <1>6, <1>7
<1> QED BY <1>8

KeepLine(kept, line, dropped) == IF line \in dropped THEN kept ELSE Append(kept, line)
KeepsBy(g, a, lines, dropped) ==
  g = [i \in 0 .. a |-> IF i = 0 THEN <<>> ELSE KeepLine(g[i - 1], TrimSpace(lines[i]), dropped)]

\* There is the recursion of LinesKept.
LEMMA KeepingExists ==
  ASSUME NEW a \in Nat, NEW lines, NEW dropped
  PROVE  \E g : KeepsBy(g, a, lines, dropped)
<1> DEFINE Rec(g, n) == DOMAIN g = 0 .. n /\ \A i \in 0 .. n : g[i] = IF i = 0 THEN <<>> ELSE KeepLine(g[i - 1], TrimSpace(lines[i]), dropped)
           P == {n \in Nat : \E g : Rec(g, n)}
<1>1. 0 \in P
  <2> DEFINE g == [i \in 0 .. 0 |-> <<>>]
  <2>1. Rec(g, 0)
    OBVIOUS
  <2> QED BY <2>1
<1>2. ASSUME NEW n \in P PROVE n + 1 \in P
  <2>1. PICK g : Rec(g, n)
    OBVIOUS
  <2> DEFINE h == [i \in 0 .. n + 1 |-> IF i <= n THEN g[i] ELSE KeepLine(g[n], TrimSpace(lines[n + 1]), dropped)]
  <2>2. DOMAIN h = 0 .. n + 1 /\ h[n + 1] = KeepLine(g[n], TrimSpace(lines[n + 1]), dropped)
    OBVIOUS
  <2>3. \A i \in 0 .. n : h[i] = g[i]
    OBVIOUS
  <2> HIDE DEF h
  <2>4. ASSUME NEW i \in 0 .. n + 1 PROVE h[i] = IF i = 0 THEN <<>> ELSE KeepLine(h[i - 1], TrimSpace(lines[i]), dropped)
    <3>1. CASE i = n + 1
      <4>1. i - 1 \in 0 .. n /\ i # 0 /\ i - 1 = n
        BY <3>1
      <4>2. h[i - 1] = g[n]
        BY <2>3, <4>1
      <4> QED BY <2>2, <3>1, <4>1, <4>2
    <3>2. CASE i \in 0 .. n
      <4>1. i # 0 => i - 1 \in 0 .. n
        BY <3>2
      <4> QED BY <2>1, <2>3, <3>2, <4>1
    <3> QED BY <3>1, <3>2
  <2>5. Rec(h, n + 1)
    BY <2>2, <2>4
  <2>6. n + 1 \in Nat
    OBVIOUS
  <2> HIDE DEF Rec, h
  <2> QED BY <2>5, <2>6
<1>3. P \in SUBSET Nat
  OBVIOUS
<1>4. a \in P
  <2> HIDE DEF P
  <2> QED BY <1>1, <1>2, <1>3, NumbersByInduction
<1>5. PICK g : Rec(g, a)
  BY <1>4
<1> DEFINE f == [i \in 0 .. a |-> g[i]]
<1>6. \A i \in 0 .. a : f[i] = IF i = 0 THEN <<>> ELSE KeepLine(f[i - 1], TrimSpace(lines[i]), dropped)
  <2> SUFFICES ASSUME NEW i \in 0 .. a PROVE f[i] = IF i = 0 THEN <<>> ELSE KeepLine(f[i - 1], TrimSpace(lines[i]), dropped)
    OBVIOUS
  <2>1. i # 0 => i - 1 \in 0 .. a
    OBVIOUS
  <2>2. f[i] = g[i] /\ (i # 0 => f[i - 1] = g[i - 1])
    BY <2>1
  <2> HIDE DEF f
  <2> QED BY <1>5, <2>2
<1>7. f = [i \in 0 .. a |-> f[i]]
  OBVIOUS
<1> HIDE DEF f
<1>8. f = [i \in 0 .. a |-> IF i = 0 THEN <<>> ELSE KeepLine(f[i - 1], TrimSpace(lines[i]), dropped)]
  BY <1>6, <1>7
<1> QED BY <1>8, Zenon DEF KeepsBy

\* There is the recursion of Listed.
ListsBy(g, a, S) ==
  g = [i \in 0 .. a |-> IF i = 0 THEN <<>> ELSE Append(g[i - 1], CHOOSE x \in S : x \notin Range(g[i - 1]))]

LEMMA ListingExists ==
  ASSUME NEW a \in Nat, NEW S
  PROVE  \E g : ListsBy(g, a, S)
<1> DEFINE Rec(g, n) == DOMAIN g = 0 .. n /\ \A i \in 0 .. n : g[i] = IF i = 0 THEN <<>> ELSE Append(g[i - 1], CHOOSE x \in S : x \notin Range(g[i - 1]))
           P == {n \in Nat : \E g : Rec(g, n)}
<1>1. 0 \in P
  <2> DEFINE g == [i \in 0 .. 0 |-> <<>>]
  <2>1. Rec(g, 0)
    OBVIOUS
  <2> QED BY <2>1
<1>2. ASSUME NEW n \in P PROVE n + 1 \in P
  <2>1. PICK g : Rec(g, n)
    OBVIOUS
  <2> DEFINE h == [i \in 0 .. n + 1 |-> IF i <= n THEN g[i] ELSE Append(g[n], CHOOSE x \in S : x \notin Range(g[n]))]
  <2>2. DOMAIN h = 0 .. n + 1 /\ h[n + 1] = Append(g[n], CHOOSE x \in S : x \notin Range(g[n]))
    OBVIOUS
  <2>3. \A i \in 0 .. n : h[i] = g[i]
    OBVIOUS
  <2> HIDE DEF h
  <2>4. ASSUME NEW i \in 0 .. n + 1 PROVE h[i] = IF i = 0 THEN <<>> ELSE Append(h[i - 1], CHOOSE x \in S : x \notin Range(h[i - 1]))
    <3>1. CASE i = n + 1
      <4>1. i - 1 \in 0 .. n /\ i # 0 /\ i - 1 = n
        BY <3>1
      <4>2. h[i - 1] = g[n]
        BY <2>3, <4>1
      <4> QED BY <2>2, <3>1, <4>1, <4>2
    <3>2. CASE i \in 0 .. n
      <4>1. i # 0 => i - 1 \in 0 .. n
        BY <3>2
      <4> QED BY <2>1, <2>3, <3>2, <4>1
    <3> QED BY <3>1, <3>2
  <2>5. Rec(h, n + 1)
    BY <2>2, <2>4
  <2>6. n + 1 \in Nat
    OBVIOUS
  <2> HIDE DEF Rec, h
  <2> QED BY <2>5, <2>6
<1>3. P \in SUBSET Nat
  OBVIOUS
<1>4. a \in P
  <2> HIDE DEF P
  <2> QED BY <1>1, <1>2, <1>3, NumbersByInduction
<1>5. PICK g : Rec(g, a)
  BY <1>4
<1> DEFINE f == [i \in 0 .. a |-> g[i]]
<1>6. \A i \in 0 .. a : f[i] = IF i = 0 THEN <<>> ELSE Append(f[i - 1], CHOOSE x \in S : x \notin Range(f[i - 1]))
  <2> SUFFICES ASSUME NEW i \in 0 .. a PROVE f[i] = IF i = 0 THEN <<>> ELSE Append(f[i - 1], CHOOSE x \in S : x \notin Range(f[i - 1]))
    OBVIOUS
  <2>1. i # 0 => i - 1 \in 0 .. a
    OBVIOUS
  <2>2. f[i] = g[i] /\ (i # 0 => f[i - 1] = g[i - 1])
    BY <2>1
  <2> HIDE DEF f
  <2> QED BY <1>5, <2>2
<1>7. f = [i \in 0 .. a |-> f[i]]
  OBVIOUS
<1> HIDE DEF f
<1>8. f = [i \in 0 .. a |-> IF i = 0 THEN <<>> ELSE Append(f[i - 1], CHOOSE x \in S : x \notin Range(f[i - 1]))]
  BY <1>6, <1>7
<1> QED BY <1>8, Zenon DEF ListsBy

LEMMA ReadLoops ==
  ASSUME NEW lines \in Text
  PROVE  \E g : /\ g = [i \in 0 .. Len(lines) |-> IF i = 0 THEN [done |-> <<>>, open |-> FALSE] ELSE ReadLine(g[i - 1], lines[i])]
               /\ Read(lines) = g[Len(lines)]
<1> DEFINE a == Len(lines)
<1>1. a \in Nat
  BY DEF Text
<1>2. \E g : g = [i \in 0 .. a |-> IF i = 0 THEN [done |-> <<>>, open |-> FALSE] ELSE ReadLine(g[i - 1], lines[i])]
  BY <1>1, ReadingExists, Zenon
<1>3. LET g == CHOOSE g : g = [i \in 0 .. a |-> IF i = 0 THEN [done |-> <<>>, open |-> FALSE] ELSE ReadLine(g[i - 1], lines[i])]
      IN Read(lines) = g[a]
  BY Zenon DEF Read
<1> HIDE DEF a
<1>4. PICK g : /\ g = [i \in 0 .. a |-> IF i = 0 THEN [done |-> <<>>, open |-> FALSE] ELSE ReadLine(g[i - 1], lines[i])]
               /\ Read(lines) = g[a]
  BY <1>2, <1>3, Zenon
<1> QED BY <1>4 DEF a

\* A shell reads one line more.
LEMMA ReadAppends ==
  ASSUME NEW s \in Text, NEW x \in Word
  PROVE  Read(<<>>) = [done |-> <<>>, open |-> FALSE] /\ Read(Append(s, x)) = ReadLine(Read(s), x)
<1> DEFINE more == Append(s, x)
           a == Len(s)
<1>1. a \in Nat /\ Len(more) = a + 1 /\ more \in Text /\ more[a + 1] = x /\ \A k \in 1 .. a : more[k] = s[k]
  BY DEF Text
<1> HIDE DEF more, a
<1>2. PICK g : /\ g = [i \in 0 .. a |-> IF i = 0 THEN [done |-> <<>>, open |-> FALSE] ELSE ReadLine(g[i - 1], s[i])]
               /\ Read(s) = g[a]
  BY ReadLoops, Zenon DEF a
<1>3. PICK h : /\ h = [i \in 0 .. a + 1 |-> IF i = 0 THEN [done |-> <<>>, open |-> FALSE] ELSE ReadLine(h[i - 1], more[i])]
               /\ Read(more) = h[a + 1]
  BY <1>1, ReadLoops, Zenon
<1> DEFINE P == {k \in Nat : k <= a => h[k] = g[k]}
<1>4. 0 \in P
  <2>1. 0 \in 0 .. a /\ 0 \in 0 .. a + 1
    BY <1>1
  <2>2. g[0] = [done |-> <<>>, open |-> FALSE] /\ h[0] = [done |-> <<>>, open |-> FALSE]
    BY <1>2, <1>3, <2>1
  <2> QED BY <2>2
<1>5. ASSUME NEW k \in P PROVE k + 1 \in P
  <2> SUFFICES ASSUME k + 1 <= a PROVE h[k + 1] = g[k + 1]
    OBVIOUS
  <2>1. k \in Nat /\ h[k] = g[k] /\ k + 1 \in 0 .. a /\ k + 1 \in 0 .. a + 1 /\ k + 1 \in 1 .. a /\ k + 1 # 0 /\ (k + 1) - 1 = k
    BY <1>1
  <2>2. g[k + 1] = ReadLine(g[k], s[k + 1])
    BY <1>2, <2>1
  <2>3. h[k + 1] = ReadLine(h[k], more[k + 1])
    BY <1>3, <2>1
  <2>4. more[k + 1] = s[k + 1]
    BY <1>1, <2>1
  <2> QED BY <2>1, <2>2, <2>3, <2>4
<1>6. P \in SUBSET Nat
  OBVIOUS
<1>7. h[a] = g[a]
  <2> HIDE DEF P
  <2>1. a \in P
    BY <1>1, <1>4, <1>5, <1>6, NumbersByInduction
  <2> QED BY <1>1, <2>1 DEF P
<1>8. h[a + 1] = ReadLine(h[a], more[a + 1])
  <2>1. a + 1 \in 0 .. a + 1 /\ a + 1 # 0 /\ (a + 1) - 1 = a
    BY <1>1
  <2> QED BY <1>3, <2>1
<1>9. Read(more) = ReadLine(Read(s), x)
  BY <1>1, <1>2, <1>3, <1>7, <1>8
<1>10. Read(<<>>) = [done |-> <<>>, open |-> FALSE]
  <2>1. <<>> \in Text /\ Len(<<>>) = 0
    BY DEF Text
  <2>2. PICK e : /\ e = [i \in 0 .. Len(<<>>) |-> IF i = 0 THEN [done |-> <<>>, open |-> FALSE] ELSE ReadLine(e[i - 1], <<>>[i])]
                 /\ Read(<<>>) = e[Len(<<>>)]
    BY <2>1, ReadLoops, Zenon
  <2>3. 0 \in 0 .. Len(<<>>)
    BY <2>1
  <2> QED BY <2>1, <2>2, <2>3, Zenon
<1> QED BY <1>9, <1>10 DEF more

LEMMA KeptLoops ==
  ASSUME NEW lines \in Text, NEW dropped
  PROVE  \E g : /\ KeepsBy(g, Len(lines), lines, dropped)
               /\ LinesKept(lines, dropped) = g[Len(lines)]
<1> DEFINE a == Len(lines)
<1>1. a \in Nat
  BY DEF Text
<1>2. \E g : KeepsBy(g, a, lines, dropped)
  BY <1>1, KeepingExists, Zenon
<1>3. LET g == CHOOSE g : KeepsBy(g, a, lines, dropped)
      IN LinesKept(lines, dropped) = g[a]
  BY Zenon DEF LinesKept, KeepLine, KeepsBy
<1> HIDE DEF a
<1>4. PICK g : /\ KeepsBy(g, a, lines, dropped)
               /\ LinesKept(lines, dropped) = g[a]
  BY <1>2, <1>3, Zenon
<1> QED BY <1>4 DEF a

\* One line more is kept or dropped.
LEMMA KeptAppends ==
  ASSUME NEW s \in Text, NEW x \in Word, NEW dropped
  PROVE  LinesKept(<<>>, dropped) = <<>> /\ LinesKept(Append(s, x), dropped) = KeepLine(LinesKept(s, dropped), TrimSpace(x), dropped)
<1> DEFINE more == Append(s, x)
           a == Len(s)
<1>1. a \in Nat /\ Len(more) = a + 1 /\ more \in Text /\ more[a + 1] = x /\ \A k \in 1 .. a : more[k] = s[k]
  BY DEF Text
<1> HIDE DEF more, a
<1>2. PICK g : /\ KeepsBy(g, a, s, dropped)
               /\ LinesKept(s, dropped) = g[a]
  BY KeptLoops, Zenon DEF a
<1>3. PICK h : /\ KeepsBy(h, a + 1, more, dropped)
               /\ LinesKept(more, dropped) = h[a + 1]
  BY <1>1, KeptLoops, Zenon
<1> DEFINE P == {k \in Nat : k <= a => h[k] = g[k]}
<1>4. 0 \in P
  <2>1. 0 \in 0 .. a /\ 0 \in 0 .. a + 1
    BY <1>1
  <2>2. g[0] = <<>> /\ h[0] = <<>>
    BY <1>2, <1>3, <2>1 DEF KeepsBy
  <2> QED BY <2>2
<1>5. ASSUME NEW k \in P PROVE k + 1 \in P
  <2> SUFFICES ASSUME k + 1 <= a PROVE h[k + 1] = g[k + 1]
    OBVIOUS
  <2>1. k \in Nat /\ h[k] = g[k] /\ k + 1 \in 0 .. a /\ k + 1 \in 0 .. a + 1 /\ k + 1 \in 1 .. a /\ k + 1 # 0 /\ (k + 1) - 1 = k
    BY <1>1
  <2>2. g[k + 1] = KeepLine(g[k], TrimSpace(s[k + 1]), dropped)
    BY <1>2, <2>1 DEF KeepsBy
  <2>3. h[k + 1] = KeepLine(h[k], TrimSpace(more[k + 1]), dropped)
    BY <1>3, <2>1 DEF KeepsBy
  <2>4. more[k + 1] = s[k + 1]
    BY <1>1, <2>1
  <2> QED BY <2>1, <2>2, <2>3, <2>4
<1>6. P \in SUBSET Nat
  OBVIOUS
<1>7. h[a] = g[a]
  <2> HIDE DEF P
  <2>1. a \in P
    BY <1>1, <1>4, <1>5, <1>6, NumbersByInduction
  <2> QED BY <1>1, <2>1 DEF P
<1>8. h[a + 1] = KeepLine(h[a], TrimSpace(more[a + 1]), dropped)
  <2>1. a + 1 \in 0 .. a + 1 /\ a + 1 # 0 /\ (a + 1) - 1 = a
    BY <1>1
  <2> QED BY <1>3, <2>1 DEF KeepsBy
<1>9. LinesKept(more, dropped) = KeepLine(LinesKept(s, dropped), TrimSpace(x), dropped)
  BY <1>1, <1>2, <1>3, <1>7, <1>8
<1>10. LinesKept(<<>>, dropped) = <<>>
  <2>1. <<>> \in Text /\ Len(<<>>) = 0
    BY DEF Text
  <2>2. PICK e : /\ KeepsBy(e, Len(<<>>), <<>>, dropped)
                 /\ LinesKept(<<>>, dropped) = e[Len(<<>>)]
    BY <2>1, KeptLoops, Zenon
  <2>3. 0 \in 0 .. Len(<<>>)
    BY <2>1
  <2> QED BY <2>1, <2>2, <2>3, Zenon DEF KeepsBy
<1> QED BY <1>9, <1>10 DEF more

\* A sequence grows by its elements.
LEMMA Beginnings ==
  ASSUME NEW S, NEW s \in Seq(S)
  PROVE  /\ SubSeq(s, 1, 0) = <<>> /\ SubSeq(s, 1, Len(s)) = s /\ Len(s) \in Nat
         /\ \A n \in Nat : n + 1 <= Len(s) => /\ SubSeq(s, 1, n) \in Seq(S) /\ s[n + 1] \in S
                                             /\ SubSeq(s, 1, n + 1) = Append(SubSeq(s, 1, n), s[n + 1])
<1>1. ASSUME NEW n \in Nat, n + 1 <= Len(s)
      PROVE  /\ SubSeq(s, 1, n) \in Seq(S) /\ s[n + 1] \in S
             /\ SubSeq(s, 1, n + 1) = Append(SubSeq(s, 1, n), s[n + 1])
  BY <1>1
<1> QED BY <1>1

\* A shell reads states with a command that can go on only if there is a command.
ReadStates == {r \in [done : Seq(Text), open : BOOLEAN] : r.open => r.done # <<>>}

LEMMA ReadLineTyped ==
  ASSUME NEW r \in ReadStates, NEW line \in Word
  PROVE  /\ ReadLine(r, line) \in ReadStates
         /\ line \in {blank, comment} => ReadLine(r, line) = [done |-> r.done, open |-> FALSE]
         /\ line \notin {blank, comment} => ReadLine(r, line).open = (line \in Continued)
         /\ r = [done |-> r.done, open |-> r.open]
<1>1. r.done \in Seq(Text) /\ r.open \in BOOLEAN /\ r = [done |-> r.done, open |-> r.open] /\ (r.open => r.done # <<>>)
  BY DEF ReadStates
<1>2. CASE line \in {blank, comment}
  <2>1. ReadLine(r, line) = [r EXCEPT !.open = FALSE]
    BY <1>2 DEF ReadLine
  <2>2. [r EXCEPT !.open = FALSE] = [done |-> r.done, open |-> FALSE]
    <3>1. \A d, o, x : [[done |-> d, open |-> o] EXCEPT !.open = x] = [done |-> d, open |-> x]
      OBVIOUS
    <3> DEFINE d == r.done  o == r.open
    <3>2. r = [done |-> d, open |-> o]
      BY <1>1
    <3> HIDE DEF d, o
    <3>3. [r EXCEPT !.open = FALSE] = [done |-> d, open |-> FALSE]
      BY <3>1, <3>2, Zenon
    <3> QED BY <3>3 DEF d
  <2> QED BY <1>1, <1>2, <2>1, <2>2 DEF ReadStates
<1>3. CASE line \notin {blank, comment} /\ r.open
  <2> DEFINE d == [r.done EXCEPT ![Len(r.done)] = Append(@, line)]
  <2>1. ReadLine(r, line) = [done |-> d, open |-> line \in Continued]
    BY <1>3 DEF ReadLine
  <2>2. d \in Seq(Text) /\ d # <<>>
    <3>1. Len(r.done) \in DOMAIN r.done
      BY <1>1, <1>3
    <3>2. r.done[Len(r.done)] \in Text
      BY <1>1, <3>1
    <3>3. Append(r.done[Len(r.done)], line) \in Text
      BY <3>2 DEF Text
    <3> QED BY <1>1, <3>1, <3>3
  <2> HIDE DEF d
  <2> QED BY <1>1, <1>3, <2>1, <2>2 DEF ReadStates
<1>4. CASE line \notin {blank, comment} /\ ~r.open
  <2> DEFINE d == Append(r.done, <<line>>)
  <2>1. ReadLine(r, line) = [done |-> d, open |-> line \in Continued]
    BY <1>4 DEF ReadLine
  <2>2. d \in Seq(Text) /\ d # <<>>
    <3>1. <<line>> \in Text
      BY DEF Text
    <3> QED BY <1>1, <3>1
  <2> HIDE DEF d
  <2> QED BY <1>1, <1>4, <2>1, <2>2 DEF ReadStates
<1> QED BY <1>1, <1>2, <1>3, <1>4

\* What can be said of all beginnings of a script line by line.
LEMMA ReadTyped == \A lines \in Text : Read(lines) \in ReadStates
<1> SUFFICES ASSUME NEW lines \in Text PROVE Read(lines) \in ReadStates
  OBVIOUS
<1> DEFINE p(n) == SubSeq(lines, 1, n)
           P == {n \in Nat : n <= Len(lines) => Read(p(n)) \in ReadStates}
<1>0. /\ p(0) = <<>> /\ p(Len(lines)) = lines /\ Len(lines) \in Nat
      /\ \A n \in Nat : n + 1 <= Len(lines) =>
           p(n) \in Text /\ lines[n + 1] \in Word /\ p(n + 1) = Append(p(n), lines[n + 1])
  BY Beginnings DEF Text
<1> HIDE DEF p
<1>1. 0 \in P
  <2>1. Read(<<>>) = [done |-> <<>>, open |-> FALSE]
    BY ReadAppends, WordAssumption DEF Text
  <2>2. [done |-> <<>>, open |-> FALSE] \in ReadStates
    BY DEF ReadStates
  <2> QED BY <1>0, <2>1, <2>2
<1>2. ASSUME NEW n \in P PROVE n + 1 \in P
  <2> SUFFICES ASSUME n + 1 <= Len(lines) PROVE Read(p(n + 1)) \in ReadStates
    OBVIOUS
  <2>1. n \in Nat /\ n <= Len(lines) /\ Read(p(n)) \in ReadStates
    BY <1>0
  <2>2. p(n) \in Text /\ lines[n + 1] \in Word /\ p(n + 1) = Append(p(n), lines[n + 1])
    BY <1>0, <2>1
  <2>3. Read(p(n + 1)) = ReadLine(Read(p(n)), lines[n + 1])
    BY <2>2, ReadAppends
  <2> QED BY <2>1, <2>2, <2>3, ReadLineTyped
<1>3. P \in SUBSET Nat
  OBVIOUS
<1>4. Len(lines) \in P
  <2> HIDE DEF P
  <2> QED BY <1>0, <1>1, <1>2, <1>3, NumbersByInduction
<1> QED BY <1>0, <1>4

LEMMA ScriptAppends ==
  /\ scriptLines(<<>>) = <<>> /\ <<>> \in Text
  /\ \A s \in Text, x \in Word :
       scriptLines(Append(s, x)) = KeepLine(scriptLines(s), TrimSpace(x), {blank} \cup Comments)
<1>1. \A s \in Text, x \in Word : /\ LinesKept(<<>>, {blank} \cup Comments) = <<>>
        /\ LinesKept(Append(s, x), {blank} \cup Comments)
             = KeepLine(LinesKept(s, {blank} \cup Comments), TrimSpace(x), {blank} \cup Comments)
  BY KeptAppends, Zenon
<1>2. <<>> \in Text
  BY DEF Text
<1>3. "" \in Word
  BY WordAssumption
<1> QED BY <1>1, <1>2, <1>3, Zenon DEF scriptLines

\* A script without cuts and expressions runs the commands of the lines that the checker compares.
IsTrimmed(lines) == \A i \in DOMAIN lines : TrimSpace(lines[i]) = lines[i] /\ lines[i] # expressionComment
IsUncut(lines) == \A i \in 1 .. Len(lines) - 1 : lines[i] \in Continued => lines[i + 1] \notin {blank, comment}

LEMMA SameCommands ==
  ASSUME NEW lines \in Text, IsTrimmed(lines), IsUncut(lines)
  PROVE  Commands(lines) = Commands(scriptLines(lines))
<1> DEFINE p(n) == SubSeq(lines, 1, n)
           Good(n) == /\ Read(p(n)) = Read(scriptLines(p(n))) /\ scriptLines(p(n)) \in Text
                      /\ Read(p(n)).open => n >= 1 /\ lines[n] \in Continued
           P == {n \in Nat : n <= Len(lines) => Good(n)}
<1>0. /\ p(0) = <<>> /\ p(Len(lines)) = lines /\ Len(lines) \in Nat
      /\ \A n \in Nat : n + 1 <= Len(lines) =>
           p(n) \in Text /\ lines[n + 1] \in Word /\ p(n + 1) = Append(p(n), lines[n + 1])
  BY Beginnings DEF Text
<1> HIDE DEF p
<1>1. 0 \in P
  <2>1. Read(<<>>) = [done |-> <<>>, open |-> FALSE] /\ scriptLines(<<>>) = <<>> /\ <<>> \in Text
    BY ReadAppends, ScriptAppends, WordAssumption
  <2> QED BY <1>0, <2>1
<1>2. ASSUME NEW n \in P PROVE n + 1 \in P
  <2> SUFFICES ASSUME n + 1 <= Len(lines) PROVE Good(n + 1)
    OBVIOUS
  <2> DEFINE x == lines[n + 1]
  <2>1. n \in Nat /\ n <= Len(lines) /\ Good(n)
    BY <1>0
  <2>2. p(n) \in Text /\ x \in Word /\ p(n + 1) = Append(p(n), x)
    BY <1>0, <2>1
  <2>3. Read(p(n)) \in ReadStates
    BY <2>2, ReadTyped
  <2>4. TrimSpace(x) = x /\ x # expressionComment
    <3>1. n + 1 \in DOMAIN lines
      BY <2>1 DEF Text
    <3> QED BY <3>1 DEF IsTrimmed
  <2>5. Read(p(n + 1)) = ReadLine(Read(p(n)), x)
    BY <2>2, ReadAppends
  <2>6. scriptLines(p(n + 1)) = KeepLine(scriptLines(p(n)), x, {blank} \cup Comments)
    BY <2>2, <2>4, ScriptAppends
  <2>7. CASE x \in {blank, comment}
    <3>1. scriptLines(p(n + 1)) = scriptLines(p(n))
      BY <2>6, <2>7 DEF KeepLine, Comments
    <3>2. ~Read(p(n)).open
      <4> SUFFICES ASSUME Read(p(n)).open PROVE FALSE
        OBVIOUS
      <4>1. n >= 1 /\ lines[n] \in Continued
        BY <2>1
      <4>2. n \in 1 .. Len(lines) - 1
        BY <1>0, <2>1, <4>1
      <4> QED BY <2>7, <4>1, <4>2 DEF IsUncut
    <3>3. Read(p(n + 1)) = Read(p(n))
      BY <2>2, <2>3, <2>5, <2>7, <3>2, ReadLineTyped DEF ReadStates
    <3> QED BY <2>1, <3>1, <3>2, <3>3
  <2>8. CASE x \notin {blank, comment}
    <3>1. scriptLines(p(n + 1)) = Append(scriptLines(p(n)), x)
      BY <2>4, <2>6, <2>8 DEF KeepLine, Comments
    <3>2. Append(scriptLines(p(n)), x) \in Text
      BY <2>1, <2>2 DEF Text
    <3>3. Read(scriptLines(p(n + 1))) = ReadLine(Read(scriptLines(p(n))), x)
      BY <2>1, <2>2, <3>1, ReadAppends
    <3>4. Read(p(n + 1)).open = (x \in Continued)
      BY <2>2, <2>3, <2>5, <2>8, ReadLineTyped
    <3>5. n + 1 >= 1
      BY <2>1
    <3> QED BY <2>1, <2>5, <3>1, <3>2, <3>3, <3>4, <3>5
  <2> QED BY <2>7, <2>8
<1>3. P \in SUBSET Nat
  OBVIOUS
<1>4. Len(lines) \in P
  <2> HIDE DEF P
  <2> QED BY <1>0, <1>1, <1>2, <1>3, NumbersByInduction
<1> QED BY <1>0, <1>4 DEF Commands

-----------------------------------------------------------------------------
(* What a shell reads are the lines that are neither blank nor comments.   *)

Flat(parts) ==
  LET flat[i \in 0 .. Len(parts)] == IF i = 0 THEN <<>> ELSE flat[i - 1] \o parts[i]
  IN flat[Len(parts)]

\* There is the recursion of Flat.
LEMMA FlatteningExists ==
  ASSUME NEW a \in Nat, NEW lines
  PROVE  \E g : g = [i \in 0 .. a |-> IF i = 0 THEN <<>> ELSE g[i - 1] \o lines[i]]
<1> DEFINE Rec(g, n) == DOMAIN g = 0 .. n /\ \A i \in 0 .. n : g[i] = IF i = 0 THEN <<>> ELSE g[i - 1] \o lines[i]
           P == {n \in Nat : \E g : Rec(g, n)}
<1>1. 0 \in P
  <2> DEFINE g == [i \in 0 .. 0 |-> <<>>]
  <2>1. Rec(g, 0)
    OBVIOUS
  <2> QED BY <2>1
<1>2. ASSUME NEW n \in P PROVE n + 1 \in P
  <2>1. PICK g : Rec(g, n)
    OBVIOUS
  <2> DEFINE h == [i \in 0 .. n + 1 |-> IF i <= n THEN g[i] ELSE g[n] \o lines[n + 1]]
  <2>2. DOMAIN h = 0 .. n + 1 /\ h[n + 1] = g[n] \o lines[n + 1]
    <3>1. n + 1 \in 0 .. n + 1 /\ ~(n + 1 <= n)
      OBVIOUS
    <3> HIDE DEF Rec, P
    <3> QED BY <3>1, Zenon
  <2>3. \A i \in 0 .. n : h[i] = g[i]
    OBVIOUS
  <2> HIDE DEF h
  <2>4. ASSUME NEW i \in 0 .. n + 1 PROVE h[i] = IF i = 0 THEN <<>> ELSE h[i - 1] \o lines[i]
    <3>1. CASE i = n + 1
      <4>1. i - 1 \in 0 .. n /\ i # 0 /\ i - 1 = n
        BY <3>1
      <4>2. h[i - 1] = g[n]
        BY <2>3, <4>1
      <4> QED BY <2>2, <3>1, <4>1, <4>2
    <3>2. CASE i \in 0 .. n
      <4>1. i # 0 => i - 1 \in 0 .. n
        BY <3>2
      <4> QED BY <2>1, <2>3, <3>2, <4>1
    <3> QED BY <3>1, <3>2
  <2>5. Rec(h, n + 1)
    BY <2>2, <2>4
  <2>6. n + 1 \in Nat
    OBVIOUS
  <2> HIDE DEF Rec, h
  <2> QED BY <2>5, <2>6
<1>3. P \in SUBSET Nat
  OBVIOUS
<1>4. a \in P
  <2> HIDE DEF P
  <2> QED BY <1>1, <1>2, <1>3, NumbersByInduction
<1>5. PICK g : Rec(g, a)
  BY <1>4
<1> DEFINE f == [i \in 0 .. a |-> g[i]]
<1>6. \A i \in 0 .. a : f[i] = IF i = 0 THEN <<>> ELSE f[i - 1] \o lines[i]
  <2> SUFFICES ASSUME NEW i \in 0 .. a PROVE f[i] = IF i = 0 THEN <<>> ELSE f[i - 1] \o lines[i]
    OBVIOUS
  <2>1. i # 0 => i - 1 \in 0 .. a
    OBVIOUS
  <2>2. f[i] = g[i] /\ (i # 0 => f[i - 1] = g[i - 1])
    BY <2>1
  <2> HIDE DEF f
  <2> QED BY <1>5, <2>2
<1>7. f = [i \in 0 .. a |-> f[i]]
  OBVIOUS
<1> HIDE DEF f
<1>8. f = [i \in 0 .. a |-> IF i = 0 THEN <<>> ELSE f[i - 1] \o lines[i]]
  BY <1>6, <1>7
<1> QED BY <1>8

LEMMA FlatLoops ==
  ASSUME NEW lines \in Seq(Text)
  PROVE  \E g : /\ g = [i \in 0 .. Len(lines) |-> IF i = 0 THEN <<>> ELSE g[i - 1] \o lines[i]]
               /\ Flat(lines) = g[Len(lines)]
<1> DEFINE a == Len(lines)
<1>1. a \in Nat
  OBVIOUS
<1>2. \E g : g = [i \in 0 .. a |-> IF i = 0 THEN <<>> ELSE g[i - 1] \o lines[i]]
  BY <1>1, FlatteningExists, Zenon
<1>3. LET g == CHOOSE g : g = [i \in 0 .. a |-> IF i = 0 THEN <<>> ELSE g[i - 1] \o lines[i]]
      IN Flat(lines) = g[a]
  BY Zenon DEF Flat
<1> HIDE DEF a
<1>4. PICK g : /\ g = [i \in 0 .. a |-> IF i = 0 THEN <<>> ELSE g[i - 1] \o lines[i]]
               /\ Flat(lines) = g[a]
  BY <1>2, <1>3, Zenon
<1> QED BY <1>4 DEF a

\* One part more.
LEMMA FlatAppends ==
  ASSUME NEW s \in Seq(Text), NEW x \in Text
  PROVE  Flat(<<>>) = <<>> /\ Flat(Append(s, x)) = Flat(s) \o x
<1> DEFINE more == Append(s, x)
           a == Len(s)
<1>1. a \in Nat /\ Len(more) = a + 1 /\ more \in Seq(Text) /\ more[a + 1] = x /\ \A k \in 1 .. a : more[k] = s[k]
  OBVIOUS
<1> HIDE DEF more, a
<1>2. PICK g : /\ g = [i \in 0 .. a |-> IF i = 0 THEN <<>> ELSE g[i - 1] \o s[i]]
               /\ Flat(s) = g[a]
  BY FlatLoops, Zenon DEF a
<1>3. PICK h : /\ h = [i \in 0 .. a + 1 |-> IF i = 0 THEN <<>> ELSE h[i - 1] \o more[i]]
               /\ Flat(more) = h[a + 1]
  BY <1>1, FlatLoops
<1> DEFINE P == {k \in Nat : k <= a => h[k] = g[k]}
<1>4. 0 \in P
  <2>1. 0 \in 0 .. a /\ 0 \in 0 .. a + 1
    BY <1>1
  <2>2. g[0] = <<>> /\ h[0] = <<>>
    BY <1>2, <1>3, <2>1
  <2> QED BY <2>2
<1>5. ASSUME NEW k \in P PROVE k + 1 \in P
  <2> SUFFICES ASSUME k + 1 <= a PROVE h[k + 1] = g[k + 1]
    OBVIOUS
  <2>1. k \in Nat /\ h[k] = g[k] /\ k + 1 \in 0 .. a /\ k + 1 \in 0 .. a + 1 /\ k + 1 \in 1 .. a /\ k + 1 # 0 /\ (k + 1) - 1 = k
    BY <1>1
  <2>2. g[k + 1] = g[k] \o s[k + 1]
    BY <1>2, <2>1
  <2>3. h[k + 1] = h[k] \o more[k + 1]
    BY <1>3, <2>1
  <2>4. more[k + 1] = s[k + 1]
    BY <1>1, <2>1
  <2> QED BY <2>1, <2>2, <2>3, <2>4
<1>6. P \in SUBSET Nat
  OBVIOUS
<1>7. h[a] = g[a]
  <2> HIDE DEF P
  <2>1. a \in P
    BY <1>1, <1>4, <1>5, <1>6, NumbersByInduction
  <2> QED BY <1>1, <2>1 DEF P
<1>8. h[a + 1] = h[a] \o more[a + 1]
  <2>1. a + 1 \in 0 .. a + 1 /\ a + 1 # 0 /\ (a + 1) - 1 = a
    BY <1>1
  <2> QED BY <1>3, <2>1
<1>9. Flat(more) = Flat(s) \o x
  BY <1>1, <1>2, <1>3, <1>7, <1>8
<1>10. Flat(<<>>) = <<>>
  <2>1. <<>> \in Seq(Text) /\ Len(<<>>) = 0
    OBVIOUS
  <2>2. PICK e : /\ e = [i \in 0 .. Len(<<>>) |-> IF i = 0 THEN <<>> ELSE e[i - 1] \o <<>>[i]]
                 /\ Flat(<<>>) = e[Len(<<>>)]
    BY <2>1, FlatLoops, Zenon
  <2>3. 0 \in 0 .. Len(<<>>)
    BY <2>1
  <2> QED BY <2>1, <2>2, <2>3, Zenon
<1> QED BY <1>9, <1>10 DEF more

LEMMA FlatTyped == \A parts \in Seq(Text) : Flat(parts) \in Text
<1> SUFFICES ASSUME NEW parts \in Seq(Text) PROVE Flat(parts) \in Text
  OBVIOUS
<1> DEFINE p(n) == SubSeq(parts, 1, n)
           P == {n \in Nat : n <= Len(parts) => Flat(p(n)) \in Text}
<1>0. /\ p(0) = <<>> /\ p(Len(parts)) = parts /\ Len(parts) \in Nat
      /\ \A n \in Nat : n + 1 <= Len(parts) =>
           p(n) \in Seq(Text) /\ parts[n + 1] \in Text /\ p(n + 1) = Append(p(n), parts[n + 1])
  BY Beginnings
<1> HIDE DEF p
<1>1. 0 \in P
  <2>1. <<>> \in Text /\ <<>> \in Seq(Text)
    BY DEF Text
  <2>2. Flat(<<>>) = <<>>
    BY <2>1, FlatAppends, Zenon
  <2> QED BY <1>0, <2>1, <2>2
<1>2. ASSUME NEW n \in P PROVE n + 1 \in P
  <2> SUFFICES ASSUME n + 1 <= Len(parts) PROVE Flat(p(n + 1)) \in Text
    OBVIOUS
  <2>1. n \in Nat /\ n <= Len(parts) /\ Flat(p(n)) \in Text
    BY <1>0
  <2>2. p(n) \in Seq(Text) /\ parts[n + 1] \in Text /\ p(n + 1) = Append(p(n), parts[n + 1])
    BY <1>0, <2>1
  <2>3. Flat(p(n + 1)) = Flat(p(n)) \o parts[n + 1]
    BY <2>2, FlatAppends
  <2>4. \A b, c \in Text : b \o c \in Text
    BY DEF Text
  <2> QED BY <2>1, <2>2, <2>3, <2>4
<1>3. P \in SUBSET Nat
  OBVIOUS
<1>4. Len(parts) \in P
  <2> HIDE DEF P
  <2> QED BY <1>0, <1>1, <1>2, <1>3, NumbersByInduction
<1> QED BY <1>0, <1>4

LEMMA OneReplaced ==
  ASSUME NEW S, NEW s \in Seq(S), NEW i \in 1 .. Len(s), NEW e \in S
  PROVE  /\ [s EXCEPT ![i] = e] \in Seq(S) /\ Len([s EXCEPT ![i] = e]) = Len(s) /\ [s EXCEPT ![i] = e][i] = e
         /\ \A j \in 1 .. Len(s) : j # i => [s EXCEPT ![i] = e][j] = s[j]
OBVIOUS

LEMMA FrontAndLast ==
  ASSUME NEW S, NEW s \in Seq(S), s # <<>>
  PROVE  \E front \in Seq(S) : /\ s[Len(s)] \in S /\ s = Append(front, s[Len(s)])
                              /\ \A e \in S : [s EXCEPT ![Len(s)] = e] = Append(front, e)
<1> DEFINE n == Len(s) - 1
           front == SubSeq(s, 1, n)
<1>1. n \in Nat /\ n + 1 = Len(s)
  OBVIOUS
<1>2. front \in Seq(S) /\ s[n + 1] \in S /\ SubSeq(s, 1, n + 1) = Append(front, s[n + 1])
  BY <1>1, Beginnings
<1>3. s = Append(front, s[Len(s)])
  BY <1>1, <1>2, Beginnings
<1>4. Len(front) = n /\ \A i \in 1 .. n : front[i] = s[i]
  BY <1>1
<1>5. ASSUME NEW e \in S PROVE [s EXCEPT ![Len(s)] = e] = Append(front, e)
  <2> DEFINE t == [s EXCEPT ![Len(s)] = e]  u == Append(front, e)
  <2>1. t \in Seq(S) /\ Len(t) = n + 1 /\ t[n + 1] = e /\ \A i \in 1 .. n : t[i] = s[i]
    <3>1. Len(s) \in 1 .. Len(s)
      BY <1>1
    <3>2. t \in Seq(S) /\ Len(t) = Len(s) /\ t[Len(s)] = e /\ \A i \in 1 .. Len(s) : i # Len(s) => t[i] = s[i]
      BY <3>1, OneReplaced
    <3> HIDE DEF t, n
    <3>3. \A i \in 1 .. n : i \in 1 .. Len(s) /\ i # Len(s)
      BY <1>1
    <3>4. t[n + 1] = e
      BY <1>1, <3>2, Zenon
    <3> QED BY <1>1, <3>2, <3>3, <3>4, Zenon
  <2>2. u \in Seq(S) /\ Len(u) = n + 1 /\ u[n + 1] = e /\ \A i \in 1 .. n : u[i] = front[i]
    <3>1. front \in Seq(S) /\ Len(front) = n
      BY <1>2, <1>4
    <3> HIDE DEF front, n
    <3> QED BY <1>1, <3>1
  <2> HIDE DEF front
  <2> HIDE DEF t, u, n
  <2>3. \A i \in 1 .. Len(t) : t[i] = u[i]
    BY <1>1, <1>4, <2>1, <2>2
  <2>4. t = u
    BY <2>1, <2>2, <2>3, SeqEqual
  <2> QED BY <2>4 DEF t, u
<1> HIDE DEF front
<1> QED BY <1>1, <1>2, <1>3, <1>5

\* Reading a command line adds it at the end.
LEMMA FlatLine ==
  ASSUME NEW r \in ReadStates, NEW line \in Word, line \notin {blank, comment}
  PROVE  Flat(ReadLine(r, line).done) = Append(Flat(r.done), line)
<1>1. r.done \in Seq(Text) /\ r.open \in BOOLEAN /\ (r.open => r.done # <<>>)
  BY DEF ReadStates
<1>2. CASE r.open
  <2>1. PICK front \in Seq(Text) :
          /\ r.done[Len(r.done)] \in Text /\ r.done = Append(front, r.done[Len(r.done)])
          /\ \A e \in Text : [r.done EXCEPT ![Len(r.done)] = e] = Append(front, e)
    BY <1>1, <1>2, FrontAndLast
  <2> DEFINE last == r.done[Len(r.done)]
  <2>2. ReadLine(r, line).done = [r.done EXCEPT ![Len(r.done)] = Append(last, line)]
    BY <1>2 DEF ReadLine
  <2>3. last \in Text /\ r.done = Append(front, last)
    BY <2>1
  <2> HIDE DEF last
  <2>4. Append(last, line) \in Text
    BY <2>3 DEF Text
  <2>5. ReadLine(r, line).done = Append(front, Append(last, line))
    BY <2>1, <2>2, <2>4
  <2>6. Flat(ReadLine(r, line).done) = Flat(front) \o Append(last, line) /\ Flat(r.done) = Flat(front) \o last
    BY <2>3, <2>4, <2>5, FlatAppends
  <2>7. Flat(front) \in Text
    BY FlatTyped
  <2>8. \A a, b \in Text : a \o Append(b, line) = Append(a \o b, line)
    BY DEF Text
  <2> QED BY <2>3, <2>6, <2>7, <2>8
<1>3. CASE ~r.open
  <2>1. ReadLine(r, line).done = Append(r.done, <<line>>)
    BY <1>3 DEF ReadLine
  <2>2. <<line>> \in Text
    BY DEF Text
  <2>3. Flat(ReadLine(r, line).done) = Flat(r.done) \o <<line>>
    BY <1>1, <2>1, <2>2, FlatAppends
  <2>4. Flat(r.done) \in Text
    BY <1>1, FlatTyped
  <2>5. \A a \in Text : a \o <<line>> = Append(a, line)
    BY DEF Text
  <2> QED BY <2>3, <2>4, <2>5
<1> QED BY <1>1, <1>2, <1>3

\* What the commands of a script say about its lines.
LEMMA LinesOfCommands ==
  ASSUME NEW lines \in Text
  PROVE  /\ Flat(Commands(lines)) \in Text
         /\ \A i \in DOMAIN lines : lines[i] \notin {blank, comment} => lines[i] \in Range(Flat(Commands(lines)))
         /\ IsTrimmed(lines) => Flat(Commands(lines)) = scriptLines(lines)
<1> DEFINE p(n) == SubSeq(lines, 1, n)
           F(n) == Flat(Read(p(n)).done)
           Good(n) == /\ F(n) \in Text
                      /\ \A i \in 1 .. n : lines[i] \notin {blank, comment} => lines[i] \in Range(F(n))
                      /\ IsTrimmed(lines) => F(n) = scriptLines(p(n))
           P == {n \in Nat : n <= Len(lines) => Good(n)}
<1>0. /\ p(0) = <<>> /\ p(Len(lines)) = lines /\ Len(lines) \in Nat /\ DOMAIN lines = 1 .. Len(lines)
      /\ \A n \in Nat : n + 1 <= Len(lines) =>
           p(n) \in Text /\ lines[n + 1] \in Word /\ p(n + 1) = Append(p(n), lines[n + 1])
  BY Beginnings DEF Text
<1> HIDE DEF p
<1>1. 0 \in P
  <2>1. Read(<<>>) = [done |-> <<>>, open |-> FALSE] /\ scriptLines(<<>>) = <<>> /\ <<>> \in Text
    BY ReadAppends, ScriptAppends, WordAssumption
  <2>2. Flat(<<>>) = <<>>
    <3>1. <<>> \in Seq(Text)
      OBVIOUS
    <3> QED BY <2>1, <3>1, FlatAppends, Zenon
  <2>3. F(0) = <<>>
    BY <1>0, <2>1, <2>2
  <2> HIDE DEF F
  <2>4. Good(0)
    BY <1>0, <2>1, <2>3
  <2> HIDE DEF Good
  <2> QED BY <2>4
<1>2. ASSUME NEW n \in P PROVE n + 1 \in P
  <2>0. n \in Nat /\ n + 1 \in Nat
    OBVIOUS
  <2> SUFFICES ASSUME n + 1 <= Len(lines) PROVE Good(n + 1)
    BY <2>0
  <2> DEFINE x == lines[n + 1]
  <2>1. n \in Nat /\ n <= Len(lines) /\ Good(n)
    <3> HIDE DEF Good
    <3> QED BY <1>0
  <2>2. p(n) \in Text /\ x \in Word /\ p(n + 1) = Append(p(n), x)
    BY <1>0, <2>1
  <2>3. Read(p(n)) \in ReadStates
    BY <2>2, ReadTyped
  <2>4. Read(p(n + 1)) = ReadLine(Read(p(n)), x)
    BY <2>2, ReadAppends
  <2>5. IsTrimmed(lines) => TrimSpace(x) = x /\ x # expressionComment
    <3>1. n + 1 \in DOMAIN lines
      BY <1>0, <2>1
    <3> QED BY <3>1 DEF IsTrimmed
  <2>6. IsTrimmed(lines) => scriptLines(p(n + 1)) = KeepLine(scriptLines(p(n)), x, {blank} \cup Comments)
    BY <2>2, <2>5, ScriptAppends
  <2>7. \A i \in 1 .. n + 1 : i = n + 1 \/ i \in 1 .. n
    BY <2>1
  <2>8. CASE x \in {blank, comment}
    <3>1. Read(p(n + 1)).done = Read(p(n)).done
      BY <2>2, <2>3, <2>4, <2>8, ReadLineTyped
    <3>2. F(n + 1) = F(n)
      BY <3>1
    <3>3. IsTrimmed(lines) => scriptLines(p(n + 1)) = scriptLines(p(n))
      BY <2>6, <2>8 DEF KeepLine, Comments
    <3> HIDE DEF F
    <3> QED BY <2>1, <2>7, <2>8, <3>2, <3>3, Zenon
  <2>9. CASE x \notin {blank, comment}
    <3>1. F(n + 1) = Append(F(n), x)
      BY <2>2, <2>3, <2>4, <2>9, FlatLine
    <3>2. IsTrimmed(lines) => scriptLines(p(n + 1)) = Append(scriptLines(p(n)), x)
      BY <2>5, <2>6, <2>9 DEF KeepLine, Comments
    <3> HIDE DEF F
    <3>3. \A t \in Text : Append(t, x) \in Text /\ Range(Append(t, x)) = Range(t) \cup {x}
      <4> SUFFICES ASSUME NEW t \in Text PROVE Append(t, x) \in Text /\ Range(Append(t, x)) = Range(t) \cup {x}
        OBVIOUS
      <4>1. Append(t, x) \in Text /\ DOMAIN Append(t, x) = 1 .. Len(t) + 1 /\ DOMAIN t = 1 .. Len(t) /\ Len(t) \in Nat
        BY <2>2 DEF Text
      <4>2. Append(t, x)[Len(t) + 1] = x /\ \A i \in 1 .. Len(t) : Append(t, x)[i] = t[i]
        BY <2>2 DEF Text
      <4>3. \A i : i \in 1 .. Len(t) + 1 <=> i = Len(t) + 1 \/ i \in 1 .. Len(t)
        BY <4>1
      <4> HIDE DEF x
      <4> QED BY <4>1, <4>2, <4>3, Zenon DEF Range
    <3>4. F(n + 1) \in Text /\ Range(F(n + 1)) = Range(F(n)) \cup {x}
      BY <2>1, <3>1, <3>3
    <3> QED BY <2>1, <2>7, <3>1, <3>2, <3>4, Zenon
  <2> QED BY <2>8, <2>9
<1>3. P \in SUBSET Nat
  <2> HIDE DEF Good
  <2> QED OBVIOUS
<1>4. Len(lines) \in P
  <2> HIDE DEF P
  <2> QED BY <1>0, <1>1, <1>2, <1>3, NumbersByInduction
<1>5. Good(Len(lines))
  <2> HIDE DEF Good
  <2> QED BY <1>0, <1>4
<1> QED BY <1>0, <1>5, Zenon DEF Commands

\* A script of commands only.
IsPlain(lines) == \A line \in Range(lines) : line \notin {blank} \cup Comments /\ \A c \in Continued : line # Spaced(c)

LEMMA TrimsNothing ==
  ASSUME NEW line, \A c \in Continued : line # Spaced(c)
  PROVE  TrimSpace(line) = line
BY Zenon DEF TrimSpace

LEMMA PlainLines ==
  ASSUME NEW lines \in Text, IsPlain(lines)
  PROVE  scriptLines(lines) = lines /\ IsTrimmed(lines) /\ IsUncut(lines)
<1>0. \A i \in DOMAIN lines : lines[i] \notin {blank} \cup Comments /\ TrimSpace(lines[i]) = lines[i]
  BY TrimsNothing, Zenon DEF IsPlain, Range
<1>1. IsTrimmed(lines)
  BY <1>0 DEF IsTrimmed, Comments
<1>2. IsUncut(lines)
  <2>1. \A i \in 1 .. Len(lines) - 1 : i + 1 \in DOMAIN lines
    BY DEF Text
  <2> QED BY <1>0, <2>1 DEF IsUncut, Comments
<1> DEFINE p(n) == SubSeq(lines, 1, n)
           P == {n \in Nat : n <= Len(lines) => scriptLines(p(n)) = p(n)}
<1>3. /\ p(0) = <<>> /\ p(Len(lines)) = lines /\ Len(lines) \in Nat /\ DOMAIN lines = 1 .. Len(lines)
      /\ \A n \in Nat : n + 1 <= Len(lines) =>
           p(n) \in Text /\ lines[n + 1] \in Word /\ p(n + 1) = Append(p(n), lines[n + 1])
  BY Beginnings DEF Text
<1> HIDE DEF p
<1>4. 0 \in P
  BY <1>3, ScriptAppends
<1>5. ASSUME NEW n \in P PROVE n + 1 \in P
  <2> SUFFICES ASSUME n + 1 <= Len(lines) PROVE scriptLines(p(n + 1)) = p(n + 1)
    OBVIOUS
  <2>1. n \in Nat /\ scriptLines(p(n)) = p(n) /\ n + 1 \in DOMAIN lines
    BY <1>3
  <2>2. p(n) \in Text /\ lines[n + 1] \in Word /\ p(n + 1) = Append(p(n), lines[n + 1])
    BY <1>3, <2>1
  <2>3. scriptLines(p(n + 1)) = KeepLine(scriptLines(p(n)), lines[n + 1], {blank} \cup Comments)
    BY <1>0, <2>1, <2>2, ScriptAppends
  <2> QED BY <1>0, <2>1, <2>2, <2>3 DEF KeepLine
<1>6. P \in SUBSET Nat
  OBVIOUS
<1>7. Len(lines) \in P
  <2> HIDE DEF P
  <2> QED BY <1>3, <1>4, <1>5, <1>6, NumbersByInduction
<1> QED BY <1>1, <1>2, <1>3, <1>7

\* A script that runs the commands of a plain one has its lines, and no expression.
LEMMA CommandsSettleLines ==
  ASSUME NEW lines \in Text, NEW want \in Text, IsPlain(want), Commands(lines) = Commands(want)
  PROVE  scriptLines(lines) = want /\ IsTrimmed(lines)
<1>1. Flat(Commands(lines)) = want
  BY PlainLines, LinesOfCommands
<1>2. \A i \in DOMAIN lines : lines[i] \notin {blank, comment} => lines[i] \in Range(want)
  BY <1>1, LinesOfCommands
<1>3. \A i \in DOMAIN lines : lines[i] \in {blank, comment} => \A c \in Continued : lines[i] # Spaced(c)
  BY SpacedAssumption DEF Comments
<1>4. \A i \in DOMAIN lines : \A c \in Continued : lines[i] # Spaced(c)
  BY <1>2, <1>3, Zenon DEF IsPlain
<1>5. \A i \in DOMAIN lines : TrimSpace(lines[i]) = lines[i]
  BY <1>4, TrimsNothing
<1>6. \A i \in DOMAIN lines : lines[i] # expressionComment
  BY <1>2 DEF IsPlain, Comments, blank, comment, expressionComment
<1>7. IsTrimmed(lines)
  BY <1>5, <1>6 DEF IsTrimmed
<1> QED BY <1>1, <1>7, LinesOfCommands

-----------------------------------------------------------------------------
(* The workflow as it is written out.                                      *)

LEMMA ListingLoops ==
  ASSUME NEW S, Cardinality(S) \in Nat
  PROVE  \E g : ListsBy(g, Cardinality(S), S) /\ Listed(S) = g[Cardinality(S)]
<1>1. \E g : ListsBy(g, Cardinality(S), S)
  BY ListingExists, Zenon
<1>2. LET g == CHOOSE g : ListsBy(g, Cardinality(S), S) IN Listed(S) = g[Cardinality(S)]
  BY Zenon DEF Listed, ListsBy
<1> QED BY <1>1, <1>2, Zenon

LEMMA AppendsOne ==
  ASSUME NEW S, NEW s \in Seq(S), NEW x \in S
  PROVE  /\ Append(s, x) \in Seq(S) /\ Len(Append(s, x)) = Len(s) + 1 /\ Len(s) \in Nat
         /\ DOMAIN s = 1 .. Len(s) /\ DOMAIN Append(s, x) = 1 .. Len(s) + 1
         /\ Append(s, x)[Len(s) + 1] = x /\ \A i \in 1 .. Len(s) : Append(s, x)[i] = s[i]
OBVIOUS

\* A sequence that lists elements of a set, each once.
LEMMA ShortListing ==
  ASSUME NEW S, IsFiniteSet(S), NEW s \in Seq(S), IsInjective(s)
  PROVE  /\ Len(s) < Cardinality(S) => \E x \in S : x \notin Range(s)
         /\ Len(s) = Cardinality(S) => Range(s) = S
<1>1. Len(s) \in Nat /\ DOMAIN s = 1 .. Len(s) /\ s \in [1 .. Len(s) -> S] /\ \A i \in DOMAIN s : s[i] \in S
  BY NodeParts
<1>2. IsFiniteSet(1 .. Len(s)) /\ Cardinality(1 .. Len(s)) = Len(s)
  <2>1. 1 \in Int /\ Len(s) \in Int /\ (1 > Len(s) => Len(s) = 0)
    BY <1>1
  <2> QED BY <2>1, FS_Interval
<1> DEFINE T == Range(s)
<1>3. T \subseteq S /\ T = {s[i] : i \in 1 .. Len(s)}
  BY <1>1 DEF Range
<1>4. s \in Surjection(1 .. Len(s), T)
  <2>1. s \in [1 .. Len(s) -> T]
    BY <1>1 DEF Range
  <2> QED BY <1>1, <1>3, <2>1 DEF Surjection
<1>5. s \in Injection(1 .. Len(s), T)
  BY <1>1, <1>4 DEF Surjection, Injection, IsInjective
<1>6. IsFiniteSet(T) /\ Cardinality(T) = Len(s)
  BY <1>2, <1>4, <1>5, FS_Surjection
<1> HIDE DEF T
<1>7. Cardinality(S) \in Nat
  BY FS_CardinalityType
<1>8. Len(s) = Cardinality(S) => T = S
  BY <1>3, <1>6, FS_Subset
<1>9. Len(s) < Cardinality(S) => \E x \in S : x \notin T
  <2> SUFFICES ASSUME Len(s) < Cardinality(S), ~(\E x \in S : x \notin T) PROVE FALSE
    OBVIOUS
  <2>1. T = S
    BY <1>3
  <2> QED BY <1>1, <1>6, <1>7, <2>1
<1> QED BY <1>8, <1>9 DEF T

LEMMA InjectiveGrows ==
  ASSUME NEW S, NEW s \in Seq(S), NEW x \in S, IsInjective(s), x \notin Range(s)
  PROVE  IsInjective(Append(s, x))
<1>1. \A i \in 1 .. Len(s) : s[i] # x
  BY AppendsOne DEF Range
<1> DEFINE t == Append(s, x)
<1>2. /\ DOMAIN t = 1 .. Len(s) + 1 /\ DOMAIN s = 1 .. Len(s) /\ Len(s) \in Nat
      /\ t[Len(s) + 1] = x /\ \A i \in 1 .. Len(s) : t[i] = s[i]
  BY AppendsOne
<1> HIDE DEF t
<1>3. \A i : i \in 1 .. Len(s) + 1 <=> i = Len(s) + 1 \/ i \in 1 .. Len(s)
  BY <1>2
<1>4. IsInjective(t)
  BY <1>1, <1>2, <1>3, Zenon DEF IsInjective
<1> QED BY <1>4 DEF t

\* Listed lists a set.
LEMMA ListedOf ==
  ASSUME NEW S, IsFiniteSet(S)
  PROVE  Listed(S) \in Seq(S) /\ IsInjective(Listed(S)) /\ Range(Listed(S)) = S
<1> DEFINE a == Cardinality(S)
<1>1. a \in Nat
  BY FS_CardinalityType
<1>2. PICK g : ListsBy(g, a, S) /\ Listed(S) = g[a]
  BY <1>1, ListingLoops, Zenon
<1> HIDE DEF a
<1> DEFINE Good(k) == g[k] \in Seq(S) /\ Len(g[k]) = k /\ IsInjective(g[k])
           P == {k \in Nat : k <= a => Good(k)}
<1>3. 0 \in P
  <2>1. 0 \in 0 .. a
    BY <1>1
  <2>2. g[0] = <<>>
    BY <1>2, <2>1 DEF ListsBy
  <2>3. <<>> \in Seq(S) /\ Len(<<>>) = 0 /\ IsInjective(<<>>)
    BY DEF IsInjective
  <2>4. Good(0)
    BY <2>2, <2>3
  <2> HIDE DEF Good
  <2> QED BY <2>4
<1>4. ASSUME NEW k \in P PROVE k + 1 \in P
  <2> SUFFICES ASSUME k + 1 <= a PROVE Good(k + 1)
    <3> HIDE DEF Good
    <3> QED OBVIOUS
  <2>1. k \in Nat /\ Good(k) /\ k < a
    <3> HIDE DEF Good
    <3> QED BY <1>1
  <2>2. k + 1 \in 0 .. a /\ k + 1 # 0 /\ (k + 1) - 1 = k
    BY <1>1, <2>1
  <2> DEFINE x == CHOOSE x \in S : x \notin Range(g[k])
  <2>3. g[k + 1] = Append(g[k], x)
    BY <1>2, <2>2 DEF ListsBy
  <2>4. \E y \in S : y \notin Range(g[k])
    BY <2>1, ShortListing DEF a
  <2>5. x \in S /\ x \notin Range(g[k])
    BY <2>4
  <2> HIDE DEF x
  <2>6. Append(g[k], x) \in Seq(S) /\ Len(Append(g[k], x)) = k + 1
    BY <2>1, <2>5, AppendsOne
  <2>7. IsInjective(Append(g[k], x))
    BY <2>1, <2>5, InjectiveGrows
  <2> QED BY <2>3, <2>6, <2>7
<1>5. P \in SUBSET Nat
  <2> HIDE DEF Good
  <2> QED OBVIOUS
<1>6. a \in P
  <2> HIDE DEF P
  <2> QED BY <1>1, <1>3, <1>4, <1>5, NumbersByInduction
<1>7. Good(a)
  <2> HIDE DEF Good
  <2> QED BY <1>1, <1>6
<1> QED BY <1>2, <1>7, ShortListing DEF a

\* A sequence of entries with these keys and nodes, none twice.
Writes(entries, G) ==
  /\ entries \in Seq(G) /\ Range(entries) = G
  /\ \A i, j \in DOMAIN entries : entries[i].key = entries[j].key => i = j

\* The elements of two sequences put together.
Joined(s, t, u, S) ==
  /\ u = s \o t /\ u \in Seq(S) /\ DOMAIN u = 1 .. Len(s) + Len(t) /\ Len(s) \in Nat /\ Len(t) \in Nat
  /\ DOMAIN s = 1 .. Len(s) /\ DOMAIN t = 1 .. Len(t)
  /\ \A i \in 1 .. Len(s) : u[i] = s[i]
  /\ \A i \in 1 .. Len(t) : u[Len(s) + i] = t[i]
  /\ \A i \in 1 .. Len(s) + Len(t) : i \in 1 .. Len(s) \/ \E j \in 1 .. Len(t) : i = Len(s) + j

LEMMA Concatenation ==
  ASSUME NEW S, NEW s \in Seq(S), NEW T, NEW t \in Seq(T)
  PROVE  Joined(s, t, s \o t, S \cup T)
<1>1. s \in Seq(S \cup T) /\ t \in Seq(S \cup T)
  OBVIOUS
<1>2. s \o t \in Seq(S \cup T) /\ DOMAIN (s \o t) = 1 .. Len(s) + Len(t)
  BY <1>1
<1>3. Len(s) \in Nat /\ Len(t) \in Nat /\ DOMAIN s = 1 .. Len(s) /\ DOMAIN t = 1 .. Len(t)
  OBVIOUS
<1>4. /\ \A i \in 1 .. Len(s) : (s \o t)[i] = s[i]
      /\ \A i \in 1 .. Len(t) : (s \o t)[Len(s) + i] = t[i]
  OBVIOUS
<1>5. ASSUME NEW i \in 1 .. Len(s) + Len(t), i \notin 1 .. Len(s) PROVE \E j \in 1 .. Len(t) : i = Len(s) + j
  <2>1. i - Len(s) \in 1 .. Len(t) /\ i = Len(s) + (i - Len(s))
    BY <1>3, <1>5
  <2> QED BY <2>1
<1> QED BY <1>2, <1>3, <1>4, <1>5, Zenon DEF Joined

LEMMA WritesBoth ==
  ASSUME NEW s, NEW t, NEW G, NEW H, Writes(s, G), Writes(t, H), \A e \in G, f \in H : e.key # f.key
  PROVE  Writes(s \o t, G \cup H)
<1>1. s \in Seq(G) /\ t \in Seq(H) /\ Range(s) = G /\ Range(t) = H
  BY DEF Writes
<1>0. Joined(s, t, s \o t, G \cup H)
  BY <1>1, Concatenation, Zenon
<1> DEFINE u == s \o t
           a == Len(s)
           b == Len(t)
<1>2. /\ u \in Seq(G \cup H) /\ DOMAIN u = 1 .. a + b /\ a \in Nat /\ b \in Nat
      /\ DOMAIN s = 1 .. a /\ DOMAIN t = 1 .. b
      /\ \A i \in 1 .. a : u[i] = s[i]
      /\ \A i \in 1 .. b : u[a + i] = t[i]
      /\ \A i \in 1 .. a + b : i \in 1 .. a \/ \E j \in 1 .. b : i = a + j
  BY <1>0, Zenon DEF Joined
<1> HIDE DEF u, a, b
<1>3. /\ \A i \in 1 .. a : i \in 1 .. a + b
      /\ \A i \in 1 .. b : a + i \in 1 .. a + b
      /\ \A i, j \in 1 .. b : a + i = a + j <=> i = j
  BY <1>2
<1>4. Range(u) = G \cup H
  <2>1. \A e \in G : \E i \in 1 .. a : s[i] = e
    BY <1>1, <1>2, Zenon DEF Range
  <2>2. \A e \in H : \E i \in 1 .. b : t[i] = e
    BY <1>1, <1>2, Zenon DEF Range
  <2>3. \A e \in G : \E i \in 1 .. a + b : u[i] = e
    BY <1>2, <1>3, <2>1, Zenon
  <2>5. \A e \in H : \E i \in 1 .. a + b : u[i] = e
    <3> SUFFICES ASSUME NEW e \in H PROVE \E i \in 1 .. a + b : u[i] = e
      OBVIOUS
    <3>1. PICK i \in 1 .. b : t[i] = e
      BY <2>2
    <3>2. u[a + i] = e /\ a + i \in 1 .. a + b
      BY <1>2, <1>3, <3>1
    <3> QED BY <3>2
  <2>4. \A i \in 1 .. a + b : u[i] \in G \cup H
    BY <1>2, NodeParts, Zenon
  <2>6. \A e \in G \cup H : \E i \in DOMAIN u : u[i] = e
    BY <1>2, <2>3, <2>5
  <2>7. \A i \in DOMAIN u : u[i] \in G \cup H
    BY <1>2, <2>4
  <2> QED BY <2>6, <2>7 DEF Range
<1>5. \A i, j \in DOMAIN u : u[i].key = u[j].key => i = j
  <2>1. \A i \in 1 .. a : s[i] \in G
    BY <1>1, <1>2 DEF Range
  <2>2. \A i \in 1 .. b : t[i] \in H
    BY <1>1, <1>2 DEF Range
  <2>3. /\ \A i, j \in 1 .. a : s[i].key = s[j].key => i = j
        /\ \A i, j \in 1 .. b : t[i].key = t[j].key => i = j
    BY <1>2 DEF Writes
  <2> SUFFICES ASSUME NEW i \in 1 .. a + b, NEW j \in 1 .. a + b, u[i].key = u[j].key PROVE i = j
    BY <1>2
  <2>9. \A k \in 1 .. a : u[k] \in G
    BY <1>2, <2>1, Zenon
  <2>10. ASSUME NEW k \in 1 .. a + b, k \notin 1 .. a PROVE u[k] \in H
    <3>1. PICK l \in 1 .. b : k = a + l
      BY <1>2, <2>10
    <3> QED BY <1>2, <2>2, <3>1
  <2>8. /\ \A k \in 1 .. a : u[k] \in G
        /\ \A k \in 1 .. a + b : k \notin 1 .. a => u[k] \in H
    BY <2>9, <2>10
  <2>4. CASE i \in 1 .. a /\ j \in 1 .. a
    BY <1>2, <2>3, <2>4, Zenon
  <2>5. CASE i \in 1 .. a /\ j \notin 1 .. a
    BY <2>8, <2>5, Zenon
  <2>6. CASE i \notin 1 .. a /\ j \in 1 .. a
    <3>1. u[j].key # u[i].key
      BY <2>8, <2>6, Zenon
    <3> QED BY <3>1
  <2>7. CASE i \notin 1 .. a /\ j \notin 1 .. a
    <3>1. PICK k \in 1 .. b : i = a + k
      BY <1>2, <2>7
    <3>2. PICK l \in 1 .. b : j = a + l
      BY <1>2, <2>7
    <3>3. t[k].key = t[l].key
      BY <1>2, <3>1, <3>2
    <3> QED BY <2>3, <3>1, <3>2, <3>3, Zenon
  <2> QED BY <2>4, <2>5, <2>6, <2>7
<1>6. Writes(u, G \cup H)
  BY <1>2, <1>4, <1>5, Zenon DEF Writes
<1> QED BY <1>6 DEF u

LEMMA WritesGiven ==
  ASSUME NEW condition, NEW key, NEW n
  PROVE  Writes(Given(condition, key, n), IF condition THEN {Entry(key, n)} ELSE {})
<1>1. CASE condition
  <2>1. Given(condition, key, n) = <<Entry(key, n)>>
    BY <1>1 DEF Given
  <2>2. \A e : <<e>> \in Seq({e}) /\ DOMAIN <<e>> = {1} /\ <<e>>[1] = e
    OBVIOUS
  <2>3. ASSUME NEW e PROVE Writes(<<e>>, {e})
    <3>1. Range(<<e>>) = {e}
      BY <2>2, Zenon DEF Range
    <3>2. \A i, j \in DOMAIN <<e>> : i = j
      BY <2>2
    <3> DEFINE s == <<e>>
    <3>3. s \in Seq({e}) /\ Range(s) = {e} /\ \A i, j \in DOMAIN s : s[i].key = s[j].key => i = j
      BY <2>2, <3>1, <3>2
    <3> HIDE DEF s
    <3>4. Writes(s, {e})
      BY <3>3 DEF Writes
    <3> QED BY <3>4 DEF s
  <2> QED BY <1>1, <2>1, <2>3
<1>2. CASE ~condition
  <2>1. Given(condition, key, n) = <<>>
    BY <1>2 DEF Given
  <2>2. <<>> \in Seq({}) /\ DOMAIN <<>> = {}
    OBVIOUS
  <2>3. Writes(<<>>, {})
    BY <2>2, Zenon DEF Writes, Range
  <2> QED BY <1>2, <2>1, <2>3
<1> QED BY <1>1, <1>2

\* The entries of a mapping of scalars.
ScalarEntries(f) == {Entry(key, Scalar(f[key])) : key \in {k \in DOMAIN f : f[k] # None}}

LEMMA WritesScalars ==
  ASSUME NEW f, IsFiniteSet(DOMAIN f)
  PROVE  Writes(Scalars(f), ScalarEntries(f))
<1> DEFINE K == {key \in DOMAIN f : f[key] # None}
           keys == Listed(K)
           G == ScalarEntries(f)
<1>1. IsFiniteSet(K)
  BY FS_Subset
<1>2. keys \in Seq(K) /\ IsInjective(keys) /\ Range(keys) = K
  BY <1>1, ListedOf
<1>3. Scalars(f) = [i \in DOMAIN keys |-> Entry(keys[i], Scalar(f[keys[i]]))]
  BY Zenon DEF Scalars
<1>4. DOMAIN keys = 1 .. Len(keys) /\ Len(keys) \in Nat /\ \A i \in DOMAIN keys : keys[i] \in K
  BY <1>2, NodeParts
<1>5. \A k \in K : Entry(k, Scalar(f[k])) \in G
  BY DEF ScalarEntries
<1>6. \A e \in G : \E k \in K : e = Entry(k, Scalar(f[k]))
  BY DEF ScalarEntries
<1> HIDE DEF keys, G, K
<1> DEFINE s == Scalars(f)
<1>7. DOMAIN s = DOMAIN keys /\ \A i \in DOMAIN keys : s[i] = Entry(keys[i], Scalar(f[keys[i]])) /\ s[i] \in G
  BY <1>3, <1>4, <1>5
<1>8. s = [i \in 1 .. Len(keys) |-> s[i]]
  BY <1>3, <1>4
<1> HIDE DEF s
<1>9. s \in Seq(G)
  BY <1>4, <1>7, <1>8
<1>10. Range(s) = G
  <2>1. Range(s) \subseteq G
    BY <1>7, Zenon DEF Range
  <2>2. \A k \in K : \E i \in DOMAIN keys : keys[i] = k
    BY <1>2, Zenon DEF Range
  <2>3. ASSUME NEW e \in G PROVE e \in Range(s)
    <3>1. PICK k \in K : e = Entry(k, Scalar(f[k]))
      BY <1>6
    <3>2. PICK i \in DOMAIN keys : keys[i] = k
      BY <2>2
    <3>3. e = s[i]
      BY <1>7, <3>1, <3>2
    <3> QED BY <1>7, <3>3, Zenon DEF Range
  <2> QED BY <2>1, <2>3, Zenon
<1>11. \A i \in DOMAIN keys : s[i].key = keys[i]
  BY <1>7 DEF Entry
<1>12. \A i, j \in DOMAIN s : s[i].key = s[j].key => i = j
  BY <1>2, <1>7, <1>11, Zenon DEF IsInjective
<1>13. Writes(s, G)
  BY <1>9, <1>10, <1>12, Zenon DEF Writes
<1> QED BY <1>13 DEF s, G

\* Trees without a key twice, by their height.
Tall(d) == Trees[d] \cap UniqueTrees

LEMMA TreesHigher ==
  ASSUME NEW d \in Nat, NEW e \in Nat, d <= e
  PROVE  Trees[d] \subseteq Trees[e]
<1> DEFINE P == {k \in Nat : Trees[d] \subseteq Trees[d + k]}
<1>1. 0 \in P
  BY d + 0 = d
<1>2. ASSUME NEW k \in P PROVE k + 1 \in P
  <2>1. k \in Nat /\ d + k \in Nat /\ (d + k) + 1 = d + (k + 1) /\ k + 1 \in Nat
    OBVIOUS
  <2>2. Trees[d + k] \subseteq Trees[(d + k) + 1]
    BY <2>1, TreesGrow, Zenon
  <2>3. Trees[d + k] \subseteq Trees[d + (k + 1)]
    BY <2>1, <2>2
  <2>4. Trees[d] \subseteq Trees[d + k]
    OBVIOUS
  <2> QED BY <2>1, <2>3, <2>4, Zenon
<1>3. P \in SUBSET Nat
  OBVIOUS
<1>4. e - d \in P
  <2> HIDE DEF P
  <2>1. e - d \in Nat
    OBVIOUS
  <2> QED BY <1>1, <1>2, <1>3, <2>1, NumbersByInduction
<1>5. d + (e - d) = e
  OBVIOUS
<1> QED BY <1>4, <1>5

LEMMA TallGrows ==
  ASSUME NEW d \in Nat, NEW e \in Nat, d <= e
  PROVE  Tall(d) \subseteq Tall(e)
BY TreesHigher DEF Tall

LEMMA TallScalar ==
  ASSUME NEW words \in Text
  PROVE  Scalar(words) \in Tall(0)
<1>1. IsScalar(Scalar(words))
  BY DEF IsScalar, Scalar
<1>2. Scalar(words) \in Trees[0]
  BY <1>1, TreeForms
<1>3. 0 <= MaxDepth /\ MaxDepth \in Nat
  BY DepthAssumption
<1>4. Scalar(words) \in AllTrees
  BY <1>2, <1>3, TreesHigher DEF AllTrees
<1>5. mapKeys(Scalar(words)) = <<>> /\ Children(Scalar(words)) = <<>>
  BY DEF mapKeys, Children, Scalar
<1>6. IsInjective(<<>>) /\ DOMAIN <<>> = {}
  BY DEF IsInjective
<1>7. checkDuplicateKeys(Scalar(words))
  BY <1>4, <1>5, <1>6, NodeOf, Zenon
<1> QED BY <1>2, <1>4, <1>7 DEF Tall, UniqueTrees

LEMMA TallSequence ==
  ASSUME NEW d \in Nat, d + 1 <= MaxDepth, NEW items \in Seq(Tall(d))
  PROVE  Sequence(items) \in Tall(d + 1)
<1> DEFINE n == Sequence(items)
<1>1. n.kind = "sequence" /\ n.items = items /\ n = Sequence(n.items)
  BY DEF Sequence
<1>2. items \in Seq(Trees[d]) /\ \A i \in DOMAIN items : items[i] \in UniqueTrees
  <2>1. \A s \in Seq(Tall(d)) : \A i \in DOMAIN s : s[i] \in Tall(d)
    BY NodeParts
  <2>2. Tall(d) \subseteq Trees[d]
    BY DEF Tall
  <2>3. \A S, T : S \subseteq T => Seq(S) \subseteq Seq(T)
    OBVIOUS
  <2> QED BY <2>1, <2>2, <2>3, Zenon DEF Tall
<1>3. Lower(d + 1) = Trees[d] /\ d + 1 \in Nat /\ MaxDepth \in Nat
  BY DepthAssumption DEF Lower
<1> HIDE DEF n
<1>4. IsSequence(n, Lower(d + 1))
  BY <1>1, <1>2, <1>3 DEF IsSequence
<1>5. n \in Trees[d + 1]
  BY <1>3, <1>4, TreeForms, Zenon
<1>6. n \in AllTrees
  BY <1>3, <1>5, TreesHigher DEF AllTrees
<1>7. mapKeys(n) = <<>> /\ Children(n) = items
  BY <1>1 DEF mapKeys, Children
<1>8. IsInjective(<<>>)
  BY DEF IsInjective
<1>9. checkDuplicateKeys(n)
  BY <1>2, <1>6, <1>7, <1>8, NodeOf, Zenon DEF UniqueTrees
<1>10. n \in Tall(d + 1)
  BY <1>5, <1>6, <1>9 DEF Tall, UniqueTrees
<1> QED BY <1>10 DEF n

\* A mapping written from entries, and what stands under its keys.
LEMMA TallMapping ==
  ASSUME NEW d \in Nat, d + 1 <= MaxDepth, NEW G, NEW entries, Writes(entries, G),
         \A e \in G : e = Entry(e.key, e.node) /\ e.key \in Word /\ e.node \in Tall(d)
  PROVE  /\ Mapping(entries) \in Tall(d + 1) /\ Mapping(entries).kind = "mapping"
         /\ \A e \in G : e.key \in keysOf(Mapping(entries)) /\ mapping(Mapping(entries), e.key) = e.node
         /\ \A key \in keysOf(Mapping(entries)) : \E e \in G : e.key = key
         /\ \A key : (\A e \in G : e.key # key) => mapping(Mapping(entries), key) = Nil
<1> DEFINE n == Mapping(entries)
<1>1. n.kind = "mapping" /\ n.entries = entries /\ n = Mapping(n.entries)
  BY DEF Mapping
<1>2. entries \in Seq(G) /\ Range(entries) = G /\ \A i, j \in DOMAIN entries : entries[i].key = entries[j].key => i = j
  BY DEF Writes
<1>3. DOMAIN entries = 1 .. Len(entries) /\ Len(entries) \in Nat /\ \A i \in DOMAIN entries : entries[i] \in G
  BY <1>2, NodeParts
<1>4. G \subseteq [key : Word, node : Trees[d]]
  BY DEF Entry, Tall
<1>5. entries \in Seq([key : Word, node : Trees[d]])
  <2>1. \A S, T : S \subseteq T => Seq(S) \subseteq Seq(T)
    OBVIOUS
  <2> QED BY <1>2, <1>4, <2>1, Zenon
<1>6. Lower(d + 1) = Trees[d] /\ d + 1 \in Nat /\ MaxDepth \in Nat
  BY DepthAssumption DEF Lower
<1> HIDE DEF n
<1>7. IsMapping(n, Lower(d + 1))
  BY <1>1, <1>5, <1>6 DEF IsMapping
<1>8. n \in Trees[d + 1]
  BY <1>6, <1>7, TreeForms, Zenon
<1>9. n \in AllTrees
  BY <1>6, <1>8, TreesHigher DEF AllTrees
<1>10. mapKeys(n) = [i \in DOMAIN entries |-> entries[i].key] /\ Children(n) = [i \in DOMAIN entries |-> entries[i].node]
  BY <1>1 DEF mapKeys, Children
<1>11. IsInjective(mapKeys(n))
  BY <1>2, <1>10, Zenon DEF IsInjective
<1>12. \A i \in DOMAIN Children(n) : Children(n)[i] \in UniqueTrees
  BY <1>3, <1>10 DEF Tall
<1>13. checkDuplicateKeys(n)
  BY <1>9, <1>11, <1>12, NodeOf, Zenon DEF UniqueTrees
<1>14. n \in Tall(d + 1)
  BY <1>8, <1>9, <1>13 DEF Tall, UniqueTrees
<1>15. /\ \A i \in DOMAIN entries : entries[i].key \in keysOf(n) /\ mapping(n, entries[i].key) = entries[i].node
       /\ \A key \in keysOf(n) : \E i \in DOMAIN entries : entries[i].key = key
       /\ \A key : key \notin keysOf(n) => mapping(n, key) = Nil
  BY <1>1, <1>7, <1>11, MappingOf
<1>16. \A e \in G : \E i \in DOMAIN entries : entries[i] = e
  BY <1>2, Zenon DEF Range
<1>17. \A e \in G : e.key \in keysOf(n) /\ mapping(n, e.key) = e.node
  BY <1>15, <1>16, Zenon
<1>18. \A key \in keysOf(n) : \E e \in G : e.key = key
  BY <1>3, <1>15, Zenon
<1>19. \A key : (\A e \in G : e.key # key) => mapping(n, key) = Nil
  BY <1>15, <1>18, Zenon
<1> QED BY <1>1, <1>14, <1>17, <1>18, <1>19 DEF n

\* A mapping of scalars passes the comparison of its scalars.
LEMMA WrittenScalars ==
  ASSUME NEW f, GivenTexts(f)
  PROVE  /\ Mapping(Scalars(f)) \in Tall(1) /\ expectExactScalars(Mapping(Scalars(f)), f)
         /\ keysOf(Mapping(Scalars(f))) = DOMAIN f
         /\ \A e \in ScalarEntries(f) : e = Entry(e.key, e.node) /\ e.key \in DOMAIN f /\ e.node = Scalar(f[e.key]) /\ e.node \in Tall(0)
<1> DEFINE n == Mapping(Scalars(f))
           G == ScalarEntries(f)
<1>1. Writes(Scalars(f), G)
  BY WritesScalars DEF GivenTexts
<1>2. /\ \A e \in G : e = Entry(e.key, e.node) /\ e.key \in DOMAIN f /\ e.node = Scalar(f[e.key])
      /\ \A k \in DOMAIN f : Entry(k, Scalar(f[k])) \in G
  BY DEF ScalarEntries, Entry, GivenTexts
<1>3. \A e \in G : e.node \in Tall(0) /\ e.key \in Word
  BY <1>2, TallScalar DEF GivenTexts
<1> HIDE DEF G
<1>4. 0 + 1 <= MaxDepth /\ 0 + 1 = 1
  BY DepthAssumption
<1>5. /\ n \in Tall(1) /\ n.kind = "mapping"
      /\ \A e \in G : e.key \in keysOf(n) /\ mapping(n, e.key) = e.node
      /\ \A key \in keysOf(n) : \E e \in G : e.key = key
  BY <1>1, <1>2, <1>3, <1>4, TallMapping
<1> HIDE DEF n
<1>6. \A k \in DOMAIN f : mapping(n, k) = Scalar(f[k]) /\ k \in keysOf(n)
  <2> SUFFICES ASSUME NEW k \in DOMAIN f PROVE mapping(n, k) = Scalar(f[k]) /\ k \in keysOf(n)
    OBVIOUS
  <2>1. Entry(k, Scalar(f[k])) \in G /\ Entry(k, Scalar(f[k])).key = k /\ Entry(k, Scalar(f[k])).node = Scalar(f[k])
    BY <1>2 DEF Entry
  <2> QED BY <1>5, <2>1
<1>7. keysOf(n) = DOMAIN f
  BY <1>2, <1>5, <1>6
<1>8. expectExactScalars(n, f)
  BY <1>5, <1>6, <1>7, ScalarIsExact DEF expectExactScalars
<1> QED BY <1>2, <1>3, <1>5, <1>7, <1>8 DEF n, G

LEMMA StepKeysFinite == IsFiniteSet(stepKeys)
<1>1. \A S, x : IsFiniteSet(S) => IsFiniteSet(S \cup {x})
  BY FS_AddElement
<1>2. stepKeys = ((({"name"} \cup {"id"}) \cup {"if"}) \cup {"shell"}) \cup {"continue-on-error"}
  BY DEF stepKeys
<1> QED BY <1>1, <1>2, FS_Singleton, Zenon

GivenEntry(condition, key, n) == IF condition THEN {Entry(key, n)} ELSE {}

LEMMA GivenIs ==
  ASSUME NEW condition, NEW key, NEW n
  PROVE  /\ \A x \in GivenEntry(condition, key, n) : condition /\ x.key = key /\ x.node = n /\ x = Entry(x.key, x.node)
         /\ condition => Entry(key, n) \in GivenEntry(condition, key, n)
         /\ Entry(key, n).key = key /\ Entry(key, n).node = n
BY DEF GivenEntry, Entry

LEMMA WritesOneMore ==
  ASSUME NEW s, NEW G, Writes(s, G), NEW condition, NEW key, NEW n, \A x \in G : x.key # key
  PROVE  Writes(s \o Given(condition, key, n), G \cup GivenEntry(condition, key, n))
<1>1. Writes(Given(condition, key, n), GivenEntry(condition, key, n))
  BY WritesGiven, Zenon DEF GivenEntry
<1>2. \A x \in G, y \in GivenEntry(condition, key, n) : x.key # y.key
  <2> SUFFICES ASSUME NEW x \in G, NEW y \in GivenEntry(condition, key, n) PROVE x.key # y.key
    OBVIOUS
  <2>1. y.key = key
    BY GivenIs
  <2> QED BY <2>1
<1> QED BY <1>1, <1>2, WritesBoth, Zenon

LEMMA ScalarEntriesAre ==
  ASSUME NEW f
  PROVE  /\ \A x \in ScalarEntries(f) : x.key \in DOMAIN f /\ f[x.key] # None /\ x.node = Scalar(f[x.key]) /\ x = Entry(x.key, x.node)
         /\ \A key \in DOMAIN f : f[key] # None => Entry(key, Scalar(f[key])) \in ScalarEntries(f)
<1> DEFINE K == {key \in DOMAIN f : f[key] # None}
<1>1. ScalarEntries(f) = {Entry(key, Scalar(f[key])) : key \in K}
  BY DEF ScalarEntries
<1>2. \A key, m : Entry(key, m).key = key /\ Entry(key, m).node = m
  BY DEF Entry
<1>3. ASSUME NEW x \in ScalarEntries(f)
      PROVE  x.key \in DOMAIN f /\ f[x.key] # None /\ x.node = Scalar(f[x.key]) /\ x = Entry(x.key, x.node)
  <2>1. PICK key \in K : x = Entry(key, Scalar(f[key]))
    BY <1>1
  <2>2. x.key = key /\ x.node = Scalar(f[key])
    BY <1>2, <2>1, Zenon
  <2> QED BY <2>1, <2>2, Zenon
<1>4. \A key \in DOMAIN f : f[key] # None => Entry(key, Scalar(f[key])) \in ScalarEntries(f)
  BY <1>1, Zenon
<1> QED BY <1>3, <1>4, Zenon

\* A node of scalars and four nodes more, each of them there under a condition.
WithFour(f, c1, k1, n1, c2, k2, n2, c3, k3, n3, c4, k4, n4) ==
  Mapping((((Scalars(f) \o Given(c1, k1, n1)) \o Given(c2, k2, n2)) \o Given(c3, k3, n3)) \o Given(c4, k4, n4))

HoldsUnder(m, key, condition, n) == mapping(m, key) = IF condition THEN n ELSE Nil

LEMMA HoldsOne ==
  ASSUME NEW m, NEW G, NEW condition, NEW key, NEW n,
         GivenEntry(condition, key, n) \subseteq G, \A x \in G : x.key = key => x \in GivenEntry(condition, key, n),
         \A x \in G : mapping(m, x.key) = x.node,
         \A k : (\A x \in G : x.key # k) => mapping(m, k) = Nil
  PROVE  HoldsUnder(m, key, condition, n)
<1>1. CASE condition
  <2>1. Entry(key, n) \in G /\ Entry(key, n).key = key /\ Entry(key, n).node = n
    BY <1>1, GivenIs
  <2>2. mapping(m, Entry(key, n).key) = Entry(key, n).node
    BY <2>1, Zenon
  <2> QED BY <1>1, <2>1, <2>2 DEF HoldsUnder
<1>2. CASE ~condition
  <2>1. ASSUME NEW x \in G PROVE x.key # key
    <3>1. x \in GivenEntry(condition, key, n) => condition
      BY GivenIs
    <3> QED BY <1>2, <3>1
  <2> QED BY <1>2, <2>1 DEF HoldsUnder
<1> QED BY <1>1, <1>2

FourFit(d, f, c1, k1, n1, c2, k2, n2, c3, k3, n3, c4, k4, n4, m) ==
  /\ d \in Nat /\ d + 1 <= MaxDepth
  /\ IsFiniteSet(DOMAIN f) /\ DOMAIN f \subseteq Word /\ \A key \in DOMAIN f : f[key] \in Text
  /\ k1 \in Word \ DOMAIN f /\ (c1 => n1 \in Tall(d))
  /\ k2 \in Word \ DOMAIN f /\ (c2 => n2 \in Tall(d))
  /\ k3 \in Word \ DOMAIN f /\ (c3 => n3 \in Tall(d))
  /\ k4 \in Word \ DOMAIN f /\ (c4 => n4 \in Tall(d))
  /\ k1 \notin {k2, k3, k4} /\ k2 \notin {k3, k4} /\ k3 # k4
  /\ m = WithFour(f, c1, k1, n1, c2, k2, n2, c3, k3, n3, c4, k4, n4)

FourHold(d, f, c1, k1, n1, c2, k2, n2, c3, k3, n3, c4, k4, n4, m) ==
  /\ m \in Tall(d + 1) /\ m.kind = "mapping" /\ keysOf(m) \subseteq DOMAIN f \cup {k1, k2, k3, k4}
  /\ \A key \in DOMAIN f : HoldsUnder(m, key, f[key] # None, Scalar(f[key]))
  /\ HoldsUnder(m, k1, c1, n1) /\ HoldsUnder(m, k2, c2, n2) /\ HoldsUnder(m, k3, c3, n3) /\ HoldsUnder(m, k4, c4, n4)

LEMMA WrittenWithFour ==
  ASSUME NEW d, NEW f, NEW c1, NEW k1, NEW n1, NEW c2, NEW k2, NEW n2, NEW c3, NEW k3, NEW n3, NEW c4, NEW k4, NEW n4,
         NEW m, FourFit(d, f, c1, k1, n1, c2, k2, n2, c3, k3, n3, c4, k4, n4, m)
  PROVE  FourHold(d, f, c1, k1, n1, c2, k2, n2, c3, k3, n3, c4, k4, n4, m)
<1>0. /\ d \in Nat /\ d + 1 <= MaxDepth
      /\ IsFiniteSet(DOMAIN f) /\ DOMAIN f \subseteq Word /\ \A key \in DOMAIN f : f[key] \in Text
      /\ k1 \in Word \ DOMAIN f /\ (c1 => n1 \in Tall(d))
      /\ k2 \in Word \ DOMAIN f /\ (c2 => n2 \in Tall(d))
      /\ k3 \in Word \ DOMAIN f /\ (c3 => n3 \in Tall(d))
      /\ k4 \in Word \ DOMAIN f /\ (c4 => n4 \in Tall(d))
      /\ k1 \notin {k2, k3, k4} /\ k2 \notin {k3, k4} /\ k3 # k4
      /\ m = WithFour(f, c1, k1, n1, c2, k2, n2, c3, k3, n3, c4, k4, n4)
  BY Zenon DEF FourFit
<1> DEFINE A == ScalarEntries(f)
           B == GivenEntry(c1, k1, n1)
           C == GivenEntry(c2, k2, n2)
           D == GivenEntry(c3, k3, n3)
           E == GivenEntry(c4, k4, n4)
           s == (((Scalars(f) \o Given(c1, k1, n1)) \o Given(c2, k2, n2)) \o Given(c3, k3, n3)) \o Given(c4, k4, n4)
           G == (((A \cup B) \cup C) \cup D) \cup E
<1>1. /\ \A x \in A : x.key \in DOMAIN f /\ f[x.key] # None /\ x.node = Scalar(f[x.key]) /\ x = Entry(x.key, x.node)
      /\ \A key \in DOMAIN f : f[key] # None => Entry(key, Scalar(f[key])) \in A
  BY ScalarEntriesAre
<1>2. /\ \A x \in B : c1 /\ x.key = k1 /\ x.node = n1 /\ x = Entry(x.key, x.node)
      /\ \A x \in C : c2 /\ x.key = k2 /\ x.node = n2 /\ x = Entry(x.key, x.node)
      /\ \A x \in D : c3 /\ x.key = k3 /\ x.node = n3 /\ x = Entry(x.key, x.node)
      /\ \A x \in E : c4 /\ x.key = k4 /\ x.node = n4 /\ x = Entry(x.key, x.node)
  BY GivenIs, Zenon
<1>3. m = Mapping(s)
  BY <1>0 DEF WithFour
<1>4. Writes(s, G)
  <2>1. Writes(Scalars(f), A)
    BY <1>0, WritesScalars
  <2> HIDE DEF A
  <2>2. Writes(Scalars(f) \o Given(c1, k1, n1), A \cup B)
    <3>1. \A x \in A : x.key # k1
      BY <1>0, <1>1
    <3> QED BY <2>1, <3>1, WritesOneMore, Zenon
  <2> HIDE DEF B
  <2>3. Writes((Scalars(f) \o Given(c1, k1, n1)) \o Given(c2, k2, n2), (A \cup B) \cup C)
    <3>1. \A x \in A \cup B : x.key # k2
      BY <1>0, <1>1, <1>2
    <3> QED BY <2>2, <3>1, WritesOneMore, Zenon
  <2> HIDE DEF C
  <2>4. Writes(((Scalars(f) \o Given(c1, k1, n1)) \o Given(c2, k2, n2)) \o Given(c3, k3, n3), ((A \cup B) \cup C) \cup D)
    <3>1. \A x \in (A \cup B) \cup C : x.key # k3
      BY <1>0, <1>1, <1>2
    <3> QED BY <2>3, <3>1, WritesOneMore, Zenon
  <2> HIDE DEF D
  <2>5. \A x \in ((A \cup B) \cup C) \cup D : x.key # k4
    BY <1>0, <1>1, <1>2
  <2> QED BY <2>4, <2>5, WritesOneMore, Zenon
<1>5. \A x \in A : x.node \in Tall(d) /\ x.key \in Word
  <2>1. Tall(0) \subseteq Tall(d)
    BY <1>0, TallGrows
  <2>2. \A key \in DOMAIN f : Scalar(f[key]) \in Tall(0)
    BY <1>0, TallScalar
  <2> QED BY <1>0, <1>1, <2>1, <2>2
<1> HIDE DEF s, A, B, C, D, E
<1>6. \A x \in G : x = Entry(x.key, x.node) /\ x.key \in Word /\ x.node \in Tall(d)
  BY <1>0, <1>1, <1>2, <1>5
<1>7. /\ A \subseteq G /\ B \subseteq G /\ C \subseteq G /\ D \subseteq G /\ E \subseteq G
      /\ \A x \in G : x.key \in DOMAIN f => x \in A
      /\ \A x \in G : x.key = k1 => x \in B
      /\ \A x \in G : x.key = k2 => x \in C
      /\ \A x \in G : x.key = k3 => x \in D
      /\ \A x \in G : x.key = k4 => x \in E
      /\ \A x \in G : x.key \in DOMAIN f \cup {k1, k2, k3, k4}
  BY <1>0, <1>1, <1>2
<1> HIDE DEF G
<1>8. /\ m \in Tall(d + 1) /\ m.kind = "mapping"
      /\ \A x \in G : x.key \in keysOf(m) /\ mapping(m, x.key) = x.node
      /\ \A key \in keysOf(m) : \E x \in G : x.key = key
      /\ \A key : (\A x \in G : x.key # key) => mapping(m, key) = Nil
  <2> DEFINE M == Mapping(s)
  <2>1. /\ M \in Tall(d + 1) /\ M.kind = "mapping"
        /\ \A x \in G : x.key \in keysOf(M) /\ mapping(M, x.key) = x.node
        /\ \A key \in keysOf(M) : \E x \in G : x.key = key
        /\ \A key : (\A x \in G : x.key # key) => mapping(M, key) = Nil
    BY <1>0, <1>4, <1>6, TallMapping
  <2> HIDE DEF M
  <2>2. m = M
    BY <1>3 DEF M
  <2> QED BY <2>1, <2>2
<1>9. keysOf(m) \subseteq DOMAIN f \cup {k1, k2, k3, k4}
  BY <1>7, <1>8
<1>10. ASSUME NEW key \in DOMAIN f PROVE HoldsUnder(m, key, f[key] # None, Scalar(f[key]))
  <2>1. CASE f[key] = None
    <3>1. \A x \in G : x.key # key
      BY <1>1, <1>7, <2>1
    <3> QED BY <1>8, <2>1, <3>1, Zenon DEF HoldsUnder
  <2>2. CASE f[key] # None
    <3>1. Entry(key, Scalar(f[key])) \in G
      BY <1>1, <1>7, <2>2
    <3>2. Entry(key, Scalar(f[key])).key = key /\ Entry(key, Scalar(f[key])).node = Scalar(f[key])
      BY DEF Entry
    <3> QED BY <1>8, <2>2, <3>1, <3>2 DEF HoldsUnder
  <2> QED BY <2>1, <2>2
<1>11. HoldsUnder(m, k1, c1, n1)
  BY <1>7, <1>8, HoldsOne, Zenon DEF B
<1>12. HoldsUnder(m, k2, c2, n2)
  BY <1>7, <1>8, HoldsOne, Zenon DEF C
<1>13. HoldsUnder(m, k3, c3, n3)
  BY <1>7, <1>8, HoldsOne, Zenon DEF D
<1>14. HoldsUnder(m, k4, c4, n4)
  BY <1>7, <1>8, HoldsOne, Zenon DEF E
<1> QED BY <1>8, <1>9, <1>10, <1>11, <1>12, <1>13, <1>14, Zenon DEF FourHold

\* A list is of a set when it lists it without a repetition.
LEMMA SameSet ==
  ASSUME NEW S, NEW s \in Seq(S), NEW want, IsFiniteSet(want)
  PROVE  sameStringSet(s, want) <=> IsInjective(s) /\ Range(s) = want
<1>1. Len(s) \in Nat /\ DOMAIN s = 1 .. Len(s) /\ s \in [1 .. Len(s) -> S]
  BY NodeParts
<1>2. IsFiniteSet(1 .. Len(s)) /\ Cardinality(1 .. Len(s)) = Len(s)
  <2>1. 1 \in Int /\ Len(s) \in Int /\ (1 > Len(s) => Len(s) = 0)
    BY <1>1
  <2> QED BY <2>1, FS_Interval
<1>3. ASSUME Range(s) = want PROVE Cardinality(want) = Len(s) <=> IsInjective(s)
  <2>1. s \in [1 .. Len(s) -> want]
    BY <1>1, <1>3 DEF Range
  <2>2. \A e \in want : \E i \in 1 .. Len(s) : s[i] = e
    BY <1>1, <1>3, Zenon DEF Range
  <2>3. s \in Surjection(1 .. Len(s), want)
    BY <2>1, <2>2 DEF Surjection
  <2>4. s \in Injection(1 .. Len(s), want) <=> IsInjective(s)
    BY <1>1, <2>1, Zenon DEF Injection, IsInjective
  <2>5. Cardinality(want) = Cardinality(1 .. Len(s)) <=> s \in Injection(1 .. Len(s), want)
    BY <1>2, <2>3, FS_Surjection
  <2> QED BY <1>2, <2>4, <2>5
<1> QED BY <1>3 DEF sameStringSet

LEMMA WrittenStep ==
  ASSUME NEW p, WellMadeStep(p)
  PROVE  /\ StepNode(p) \in Tall(2) /\ StepNode(p).kind = "mapping"
         /\ keysOf(StepNode(p)) \subseteq stepKeys \cup {"uses", "with", "env", "run"}
         /\ \A key \in stepKeys : HoldsUnder(StepNode(p), key, p.fields[key] # None, Scalar(p.fields[key]))
         /\ HoldsUnder(StepNode(p), "uses", p.uses # "", Scalar(<<p.uses, "one SHA">>))
         /\ HoldsUnder(StepNode(p), "with", DOMAIN p.with # {}, Mapping(Scalars(p.with)))
         /\ HoldsUnder(StepNode(p), "env", DOMAIN p.env # {}, Mapping(Scalars(p.env)))
         /\ HoldsUnder(StepNode(p), "run", p.run # None, Scalar(p.run))
<1> DEFINE m == StepNode(p)
           uses == Scalar(<<p.uses, "one SHA">>)
           with == Mapping(Scalars(p.with))
           env == Mapping(Scalars(p.env))
           words == Scalar(p.run)
<1>1. m = WithFour(p.fields, p.uses # "", "uses", uses, DOMAIN p.with # {}, "with", with,
                   DOMAIN p.env # {}, "env", env, p.run # None, "run", words)
  BY Zenon DEF StepNode, WithFour
<1>2. uses \in Tall(1) /\ with \in Tall(1) /\ env \in Tall(1) /\ words \in Tall(1)
  <2>1. Tall(0) \subseteq Tall(1)
    BY TallGrows
  <2>2. p.uses \in Word /\ "one SHA" \in Word /\ p.run \in Text
    BY WordAssumption DEF WellMadeStep
  <2>3. \A a, b \in Word : <<a, b>> \in Text
    BY DEF Text
  <2>4. GivenTexts(p.with) /\ GivenTexts(p.env)
    BY DEF WellMadeStep
  <2>5. <<p.uses, "one SHA">> \in Text
    BY <2>2, <2>3
  <2> QED BY <2>1, <2>2, <2>4, <2>5, TallScalar, WrittenScalars
<1>3. DOMAIN p.fields = stepKeys /\ stepKeys \subseteq Word /\ \A key \in DOMAIN p.fields : p.fields[key] \in Text
  BY DEF WellMadeStep
<1>4. "uses" \in Word \ stepKeys /\ "with" \in Word \ stepKeys /\ "env" \in Word \ stepKeys /\ "run" \in Word \ stepKeys
  BY WordAssumption DEF stepKeys
<1>5. 1 \in Nat /\ 1 + 1 <= MaxDepth /\ 1 + 1 = 2
  BY DepthAssumption
<1> HIDE DEF m, uses, with, env, words
<1>6. "uses" \notin {"with", "env", "run"} /\ "with" \notin {"env", "run"} /\ "env" # "run"
  OBVIOUS
<1> DEFINE c1 == p.uses # "" c2 == DOMAIN p.with # {} c3 == DOMAIN p.env # {} c4 == p.run # None
           f == p.fields
<1>7. m = WithFour(f, c1, "uses", uses, c2, "with", with, c3, "env", env, c4, "run", words)
  BY <1>1
<1>10. IsFiniteSet(DOMAIN f) /\ DOMAIN f = stepKeys /\ DOMAIN f \subseteq Word /\ \A key \in DOMAIN f : f[key] \in Text
  BY <1>3, StepKeysFinite
<1> HIDE DEF c1, c2, c3, c4, f
<1>11. /\ "uses" \in Word \ DOMAIN f /\ (c1 => uses \in Tall(1))
       /\ "with" \in Word \ DOMAIN f /\ (c2 => with \in Tall(1))
       /\ "env" \in Word \ DOMAIN f /\ (c3 => env \in Tall(1))
       /\ "run" \in Word \ DOMAIN f /\ (c4 => words \in Tall(1))
  BY <1>2, <1>4, <1>10
<1>13. FourFit(1, f, c1, "uses", uses, c2, "with", with, c3, "env", env, c4, "run", words, m)
  BY <1>5, <1>6, <1>7, <1>10, <1>11, Zenon DEF FourFit
<1>12. FourHold(1, f, c1, "uses", uses, c2, "with", with, c3, "env", env, c4, "run", words, m)
  BY <1>13, WrittenWithFour, Zenon
<1>8. /\ m \in Tall(1 + 1) /\ m.kind = "mapping" /\ keysOf(m) \subseteq stepKeys \cup {"uses", "with", "env", "run"}
      /\ \A key \in stepKeys : HoldsUnder(m, key, p.fields[key] # None, Scalar(p.fields[key]))
      /\ HoldsUnder(m, "uses", c1, uses) /\ HoldsUnder(m, "with", c2, with) /\ HoldsUnder(m, "env", c3, env) /\ HoldsUnder(m, "run", c4, words)
  <2>1. \A key \in DOMAIN f : HoldsUnder(m, key, f[key] # None, Scalar(f[key]))
    BY <1>12, Zenon DEF FourHold
  <2> QED BY <1>10, <1>12, <2>1, Zenon DEF FourHold, f
<1>9. m \in Tall(2)
  BY <1>5, <1>8
<1> QED BY <1>8, <1>9, Zenon DEF m, uses, with, env, words, c1, c2, c3, c4

\* The jobs a job waits for, as they are written.
LEMMA WrittenNeeds ==
  ASSUME NEW names, IsFiniteSet(names), names \subseteq Word
  PROVE  LET wanted == Listed(names)
             n == Sequence([i \in DOMAIN wanted |-> Scalar(<<wanted[i]>>)])
         IN n \in Tall(1) /\ n.kind = "sequence" /\ sameStringSet(seqStrings(n), {<<name>> : name \in names})
<1> DEFINE wanted == Listed(names)
           items == [i \in DOMAIN wanted |-> Scalar(<<wanted[i]>>)]
           n == Sequence(items)
           W == {<<name>> : name \in names}
<1>1. wanted \in Seq(names) /\ IsInjective(wanted) /\ Range(wanted) = names
  BY ListedOf
<1>2. DOMAIN wanted = 1 .. Len(wanted) /\ Len(wanted) \in Nat /\ \A i \in DOMAIN wanted : wanted[i] \in names
  BY <1>1, NodeParts
<1>3. n.kind = "sequence" /\ n.items = items
  BY DEF Sequence
<1>4. DOMAIN items = DOMAIN wanted /\ \A i \in DOMAIN wanted : items[i] = Scalar(<<wanted[i]>>)
  BY DEF items
<1>5. \A w \in Word : <<w>> \in Text
  BY DEF Text
<1>6. \A i \in DOMAIN wanted : items[i] \in Tall(0)
  BY <1>2, <1>4, <1>5, TallScalar
<1>7. items \in Seq(Tall(0))
  <2>1. items = [i \in 1 .. Len(wanted) |-> items[i]]
    BY <1>2
  <2> HIDE DEF items
  <2> QED BY <1>2, <1>6, <2>1
<1> DEFINE texts == [i \in DOMAIN wanted |-> <<wanted[i]>>]
<1>8. seqStrings(n) = texts
  <2>1. seqStrings(n) = [i \in DOMAIN items |-> scalar(items[i])]
    BY <1>3 DEF seqStrings
  <2>2. \A t : scalar(Scalar(t)) = t
    BY DEF scalar, Scalar
  <2> HIDE DEF items
  <2> QED BY <1>4, <2>1, <2>2, Zenon
<1>9. DOMAIN texts = DOMAIN wanted /\ \A i \in DOMAIN wanted : texts[i] = <<wanted[i]>>
  OBVIOUS
<1>10. \A a, b : <<a>> = <<b>> => a = b
  OBVIOUS
<1>11. texts \in Seq(W)
  <2>1. \A i \in DOMAIN wanted : texts[i] \in W
    BY <1>2
  <2>2. texts = [i \in 1 .. Len(wanted) |-> texts[i]]
    BY <1>2
  <2> HIDE DEF texts, W
  <2> QED BY <1>2, <2>1, <2>2
<1>12. IsFiniteSet(W)
  <2> DEFINE f == [name \in names |-> <<name>>]
  <2>1. f \in Surjection(names, W)
    BY DEF Surjection
  <2> HIDE DEF f, W
  <2> QED BY <2>1, FS_Surjection
<1> HIDE DEF texts
<1>13. IsInjective(texts)
  BY <1>1, <1>9, <1>10, Zenon DEF IsInjective
<1>14. Range(texts) = W
  <2>1. \A i \in DOMAIN texts : texts[i] \in W
    BY <1>2, <1>9
  <2>2. ASSUME NEW e \in W PROVE \E i \in DOMAIN texts : texts[i] = e
    <3>1. PICK name \in names : e = <<name>>
      OBVIOUS
    <3>2. PICK i \in DOMAIN wanted : wanted[i] = name
      BY <1>1, Zenon DEF Range
    <3> QED BY <1>9, <3>1, <3>2
  <2> HIDE DEF W
  <2> QED BY <2>1, <2>2, Zenon DEF Range
<1>15. sameStringSet(texts, W)
  <2> HIDE DEF W
  <2> QED BY <1>11, <1>12, <1>13, <1>14, SameSet
<1>16. n \in Tall(1)
  <2>1. 0 \in Nat /\ 0 + 1 <= MaxDepth /\ 0 + 1 = 1
    BY DepthAssumption
  <2> HIDE DEF items
  <2> QED BY <1>7, <2>1, TallSequence
<1> QED BY <1>3, <1>8, <1>15, <1>16

LEMMA JobStepsTyped ==
  ASSUME NEW p, WellMadeJob(p)
  PROVE  [i \in DOMAIN p.steps |-> StepNode(p.steps[i])] \in Seq(Tall(2))
<1>1. p.steps \in Seq(Range(p.steps)) /\ \A s \in Range(p.steps) : WellMadeStep(s)
  BY DEF WellMadeJob
<1>2. DOMAIN p.steps = 1 .. Len(p.steps) /\ Len(p.steps) \in Nat /\ \A i \in DOMAIN p.steps : p.steps[i] \in Range(p.steps)
  BY <1>1, NodeParts
<1>3. \A i \in DOMAIN p.steps : StepNode(p.steps[i]) \in Tall(2)
  BY <1>1, <1>2, WrittenStep
<1> QED BY <1>2, <1>3

LEMMA WrittenJob ==
  ASSUME NEW p, WellMadeJob(p)
  PROVE  LET wanted == Listed(p.needs)
             m == JobNode(p)
         IN /\ m \in Tall(4) /\ m.kind = "mapping"
            /\ keysOf(m) \subseteq DOMAIN p.scalars \cup {"needs", "permissions", "outputs", "steps"}
            /\ \A key \in DOMAIN p.scalars : mapping(m, key) = Scalar(p.scalars[key])
            /\ HoldsUnder(m, "needs", p.needs # {}, Sequence([i \in DOMAIN wanted |-> Scalar(<<wanted[i]>>)]))
            /\ HoldsUnder(m, "permissions", DOMAIN p.permissions # {}, Mapping(Scalars(p.permissions)))
            /\ HoldsUnder(m, "outputs", DOMAIN p.outputs # {}, Mapping(Scalars(p.outputs)))
            /\ mapping(m, "steps") = Sequence([i \in DOMAIN p.steps |-> StepNode(p.steps[i])])
<1> DEFINE wanted == Listed(p.needs)
           m == JobNode(p)
           f == p.scalars
           c1 == p.needs # {}
           n1 == Sequence([i \in DOMAIN wanted |-> Scalar(<<wanted[i]>>)])
           c2 == DOMAIN p.permissions # {}
           n2 == Mapping(Scalars(p.permissions))
           c3 == DOMAIN p.outputs # {}
           n3 == Mapping(Scalars(p.outputs))
           n4 == Sequence([i \in DOMAIN p.steps |-> StepNode(p.steps[i])])
<1>1. /\ DOMAIN f = {"name", "if", "runs-on", "timeout-minutes"} /\ GivenTexts(f)
      /\ GivenTexts(p.permissions) /\ GivenTexts(p.outputs) /\ IsFiniteSet(p.needs) /\ p.needs \subseteq Word
  BY DEF WellMadeJob
<1>2. m = WithFour(f, c1, "needs", n1, c2, "permissions", n2, c3, "outputs", n3, TRUE, "steps", n4)
  BY Zenon DEF JobNode, WithFour, Given
<1>3. n1 \in Tall(3) /\ n2 \in Tall(3) /\ n3 \in Tall(3) /\ n4 \in Tall(3)
  <2>1. n1 \in Tall(1)
    BY <1>1, WrittenNeeds
  <2>2. n2 \in Tall(1) /\ n3 \in Tall(1)
    BY <1>1, WrittenScalars
  <2> DEFINE items == [i \in DOMAIN p.steps |-> StepNode(p.steps[i])]
  <2>3. items \in Seq(Tall(2))
    BY JobStepsTyped
  <2> HIDE DEF items
  <2>4. Sequence(items) \in Tall(2 + 1) /\ 2 + 1 = 3
    <3>1. 2 \in Nat /\ 2 + 1 <= MaxDepth
      BY DepthAssumption
    <3> QED BY <2>3, <3>1, TallSequence
  <2>5. Tall(1) \subseteq Tall(3)
    BY TallGrows
  <2> HIDE DEF n1, n2, n3
  <2> QED BY <2>1, <2>2, <2>4, <2>5 DEF items
<1>4. /\ IsFiniteSet(DOMAIN f) /\ DOMAIN f \subseteq Word /\ \A key \in DOMAIN f : f[key] \in Text /\ f[key] # None
  BY <1>1 DEF GivenTexts
<1>5. /\ "needs" \in Word \ DOMAIN f /\ "permissions" \in Word \ DOMAIN f
      /\ "outputs" \in Word \ DOMAIN f /\ "steps" \in Word \ DOMAIN f
  BY <1>1, WordAssumption
<1>6. 3 \in Nat /\ 3 + 1 <= MaxDepth /\ 3 + 1 = 4
  BY DepthAssumption
<1>7. "needs" \notin {"permissions", "outputs", "steps"} /\ "permissions" \notin {"outputs", "steps"} /\ "outputs" # "steps"
  OBVIOUS
<1> HIDE DEF m, f, c1, n1, c2, n2, c3, n3, n4
<1>8. FourFit(3, f, c1, "needs", n1, c2, "permissions", n2, c3, "outputs", n3, TRUE, "steps", n4, m)
  BY <1>2, <1>3, <1>4, <1>5, <1>6, <1>7, Zenon DEF FourFit
<1>9. FourHold(3, f, c1, "needs", n1, c2, "permissions", n2, c3, "outputs", n3, TRUE, "steps", n4, m)
  BY <1>8, WrittenWithFour, Zenon
<1>10. m \in Tall(4)
  BY <1>6, <1>9 DEF FourHold
<1>11. \A key \in DOMAIN f : mapping(m, key) = Scalar(f[key])
  BY <1>4, <1>9, Zenon DEF FourHold, HoldsUnder
<1>12. mapping(m, "steps") = n4
  BY <1>9, Zenon DEF FourHold, HoldsUnder
<1> QED BY <1>9, <1>10, <1>11, <1>12, Zenon DEF FourHold, m, f, c1, n1, c2, n2, c3, n3, n4

LEMMA WritesOne ==
  ASSUME NEW e
  PROVE  Writes(<<e>>, {e})
<1> DEFINE s == <<e>>
<1>1. s \in Seq({e}) /\ DOMAIN s = {1} /\ s[1] = e
  OBVIOUS
<1> HIDE DEF s
<1>2. Range(s) = {e} /\ \A i, j \in DOMAIN s : i = j
  BY <1>1 DEF Range
<1>3. Writes(s, {e})
  BY <1>1, <1>2, Zenon DEF Writes
<1> QED BY <1>3 DEF s

LEMMA WritesOneAfter ==
  ASSUME NEW s, NEW G, Writes(s, G), NEW e, \A x \in G : x.key # e.key
  PROVE  Writes(Append(s, e), G \cup {e})
<1>1. Writes(s \o <<e>>, G \cup {e})
  BY WritesOne, WritesBoth
<1>2. s \in Seq(G)
  BY DEF Writes
<1>3. s \o <<e>> = Append(s, e)
  BY <1>2
<1> QED BY <1>1, <1>3

LEMMA WritesTwo ==
  ASSUME NEW a, NEW b, a.key # b.key
  PROVE  Writes(<<a, b>>, {a, b})
<1>1. <<a, b>> = Append(<<a>>, b) /\ {a, b} = {a} \cup {b}
  OBVIOUS
<1>2. Writes(Append(<<a>>, b), {a} \cup {b})
  BY WritesOne, WritesOneAfter
<1> QED BY <1>1, <1>2

LEMMA WritesSix ==
  ASSUME NEW a, NEW b, NEW c, NEW d, NEW e, NEW f,
         a.key \notin {b.key, c.key, d.key, e.key, f.key}, b.key \notin {c.key, d.key, e.key, f.key},
         c.key \notin {d.key, e.key, f.key}, d.key \notin {e.key, f.key}, e.key # f.key
  PROVE  Writes(<<a, b, c, d, e, f>>, {a, b, c, d, e, f})
<1> DEFINE s == <<a, b, c, d, e, f>>
           S == {a, b, c, d, e, f}
<1>1. /\ s \in Seq(S) /\ DOMAIN s = {1, 2, 3, 4, 5, 6}
      /\ s[1] = a /\ s[2] = b /\ s[3] = c /\ s[4] = d /\ s[5] = e /\ s[6] = f
  OBVIOUS
<1>2. \A x \in S : x = a \/ x = b \/ x = c \/ x = d \/ x = e \/ x = f
  OBVIOUS
<1>3. a \in S /\ b \in S /\ c \in S /\ d \in S /\ e \in S /\ f \in S
  OBVIOUS
<1> HIDE DEF s, S
<1>4. \A i \in DOMAIN s : s[i] \in S
  BY <1>1, <1>3
<1>5. \A x \in S : \E i \in DOMAIN s : s[i] = x
  BY <1>1, <1>2
<1>6. Range(s) = S
  BY <1>4, <1>5 DEF Range
<1>7. \A i, j \in DOMAIN s : s[i].key = s[j].key => i = j
  BY <1>1
<1>8. Writes(s, S)
  BY <1>1, <1>6, <1>7, Zenon DEF Writes
<1> QED BY <1>8 DEF s, S

\* A function on the places of a sequence is one.
LEMMA OverPlaces ==
  ASSUME NEW S, NEW n \in Nat, NEW s, s = [i \in 1 .. n |-> s[i]], \A i \in 1 .. n : s[i] \in S
  PROVE  s \in Seq(S) /\ Len(s) = n
OBVIOUS

JobEntries(p) == {Entry(p.jobs[i].name, JobNode(p.jobs[i])) : i \in DOMAIN p.jobs}

\* The jobs as they are written.
LEMMA WrittenJobs ==
  ASSUME NEW p, WellMade(p)
  PROVE  LET m == Mapping([i \in DOMAIN p.jobs |-> Entry(p.jobs[i].name, JobNode(p.jobs[i]))])
         IN /\ m \in Tall(5) /\ m.kind = "mapping" /\ keysOf(m) = policyJobNames(p)
            /\ \A i \in DOMAIN p.jobs : mapping(m, p.jobs[i].name) = JobNode(p.jobs[i])
<1> DEFINE s == [i \in DOMAIN p.jobs |-> Entry(p.jobs[i].name, JobNode(p.jobs[i]))]
           m == Mapping(s)
           G == JobEntries(p)
           names == [i \in DOMAIN p.jobs |-> p.jobs[i].name]
<1>1. /\ p.jobs \in Seq(Range(p.jobs)) /\ \A x \in Range(p.jobs) : WellMadeJob(x)
      /\ policyJobNames(p) \subseteq Word \ SpecialKeys /\ IsInjective(names)
  BY DEF WellMade
<1>2. DOMAIN p.jobs = 1 .. Len(p.jobs) /\ Len(p.jobs) \in Nat /\ \A i \in DOMAIN p.jobs : p.jobs[i] \in Range(p.jobs)
  BY <1>1, NodeParts
<1>3. \A i, j \in DOMAIN p.jobs : p.jobs[i].name = p.jobs[j].name => i = j
  BY <1>1 DEF IsInjective
<1>4. policyJobNames(p) = {p.jobs[i].name : i \in DOMAIN p.jobs}
  BY DEF policyJobNames
<1>5. DOMAIN s = DOMAIN p.jobs /\ \A i \in DOMAIN p.jobs : s[i] = Entry(p.jobs[i].name, JobNode(p.jobs[i])) /\ s[i] \in G
  BY DEF JobEntries
<1>6. \A e \in G : \E i \in DOMAIN p.jobs : e = s[i]
  BY DEF JobEntries
<1>7. s = [i \in 1 .. Len(p.jobs) |-> s[i]]
  BY <1>2
<1> HIDE DEF s, G
<1>8. s \in Seq(G)
  BY <1>2, <1>5, <1>7, OverPlaces, Zenon
<1>9. \A i \in DOMAIN p.jobs : s[i].key = p.jobs[i].name /\ s[i].node = JobNode(p.jobs[i]) /\ s[i] = Entry(s[i].key, s[i].node)
  <2> SUFFICES ASSUME NEW i \in DOMAIN p.jobs
               PROVE  s[i].key = p.jobs[i].name /\ s[i].node = JobNode(p.jobs[i]) /\ s[i] = Entry(s[i].key, s[i].node)
    OBVIOUS
  <2>1. s[i] = Entry(p.jobs[i].name, JobNode(p.jobs[i]))
    BY <1>5
  <2>2. \A k, n : Entry(k, n).key = k /\ Entry(k, n).node = n
    BY DEF Entry
  <2>3. s[i].key = p.jobs[i].name /\ s[i].node = JobNode(p.jobs[i])
    BY <2>1, <2>2
  <2> QED BY <2>1, <2>3
<1>10. Writes(s, G)
  <2>1. Range(s) = G
    <3>1. \A i \in DOMAIN s : s[i] \in G
      BY <1>5
    <3>2. \A e \in G : \E i \in DOMAIN s : s[i] = e
      BY <1>5, <1>6
    <3> QED BY <3>1, <3>2 DEF Range
  <2>2. \A i, j \in DOMAIN s : s[i].key = s[j].key => i = j
    BY <1>3, <1>5, <1>9
  <2> QED BY <1>8, <2>1, <2>2, Zenon DEF Writes
<1>11. \A i \in DOMAIN p.jobs : JobNode(p.jobs[i]) \in Tall(4) /\ p.jobs[i].name \in Word
  <2>1. \A i \in DOMAIN p.jobs : WellMadeJob(p.jobs[i]) /\ p.jobs[i].name \in Word
    BY <1>1, <1>2, <1>4
  <2> QED BY <2>1, WrittenJob
<1>12. \A e \in G : e = Entry(e.key, e.node) /\ e.key \in Word /\ e.node \in Tall(4)
  BY <1>6, <1>9, <1>11, Zenon
<1>13. 4 \in Nat /\ 4 + 1 <= MaxDepth /\ 4 + 1 = 5
  BY DepthAssumption
<1>14. /\ m \in Tall(4 + 1) /\ m.kind = "mapping"
       /\ \A e \in G : e.key \in keysOf(m) /\ mapping(m, e.key) = e.node
       /\ \A key \in keysOf(m) : \E e \in G : e.key = key
  BY <1>10, <1>12, <1>13, TallMapping
<1> HIDE DEF m
<1>15. \A i \in DOMAIN p.jobs : p.jobs[i].name \in keysOf(m) /\ mapping(m, p.jobs[i].name) = JobNode(p.jobs[i])
  BY <1>5, <1>9, <1>14, Zenon
<1>16. keysOf(m) = policyJobNames(p)
  BY <1>4, <1>6, <1>9, <1>14, <1>15
<1> QED BY <1>13, <1>14, <1>15, <1>16 DEF m, s

TriggerNode == Mapping(<<Entry("push", Mapping(<<Entry("tags", Sequence(<<Scalar(<<"v*">>)>>))>>)), Entry("workflow_dispatch", Scalar(None))>>)

\* The triggers as they are written.
LEMMA WrittenTriggers ==
  LET push == Mapping(<<Entry("tags", Sequence(<<Scalar(<<"v*">>)>>))>>)
  IN /\ TriggerNode \in Tall(3) /\ TriggerNode.kind = "mapping" /\ keysOf(TriggerNode) = {"push", "workflow_dispatch"}
     /\ mapping(TriggerNode, "push") = push
     /\ mapping(TriggerNode, "workflow_dispatch") = Scalar(None)
     /\ push.kind = "mapping" /\ keysOf(push) = {"tags"}
     /\ mapping(push, "tags") = Sequence(<<Scalar(<<"v*">>)>>)
<1> DEFINE words == <<"v*">>
           tag == Scalar(words)
           items == <<tag>>
           tags == Sequence(items)
           e1 == Entry("tags", tags)
           push == Mapping(<<e1>>)
           dispatch == Scalar(None)
           e2 == Entry("push", push)
           e3 == Entry("workflow_dispatch", dispatch)
<1>1. /\ e1.key = "tags" /\ e1.node = tags /\ e2.key = "push" /\ e2.node = push
      /\ e3.key = "workflow_dispatch" /\ e3.node = dispatch
      /\ e1 = Entry(e1.key, e1.node) /\ e2 = Entry(e2.key, e2.node) /\ e3 = Entry(e3.key, e3.node)
  BY DEF Entry
<1>2. words \in Text /\ None \in Text /\ "tags" \in Word /\ "push" \in Word /\ "workflow_dispatch" \in Word
  <2>1. "v*" \in Word /\ "tags" \in Word /\ "push" \in Word /\ "workflow_dispatch" \in Word
    BY WordAssumption
  <2>2. \A w \in Word : <<w>> \in Text
    BY DEF Text
  <2>3. None \in Text
    BY DEF None, Text
  <2> QED BY <2>1, <2>2, <2>3
<1> HIDE DEF words
<1>3. tag \in Tall(0) /\ dispatch \in Tall(0)
  BY <1>2, TallScalar
<1> HIDE DEF tag, dispatch
<1>4. /\ 0 \in Nat /\ 1 \in Nat /\ 2 \in Nat /\ 0 + 1 = 1 /\ 1 + 1 = 2 /\ 2 + 1 = 3
      /\ 0 + 1 <= MaxDepth /\ 1 + 1 <= MaxDepth /\ 2 + 1 <= MaxDepth
  BY DepthAssumption
<1>5. items \in Seq(Tall(0))
  BY <1>3
<1> HIDE DEF items
<1>6. tags \in Tall(1)
  <2>1. tags \in Tall(0 + 1)
    BY <1>4, <1>5, TallSequence, Zenon
  <2> QED BY <1>4, <2>1
<1> HIDE DEF tags, e1, e2, e3
<1>7. Writes(<<e1>>, {e1})
  BY WritesOne
<1>8. /\ push \in Tall(1 + 1) /\ push.kind = "mapping"
      /\ \A e \in {e1} : e.key \in keysOf(push) /\ mapping(push, e.key) = e.node
      /\ \A key \in keysOf(push) : \E e \in {e1} : e.key = key
  BY <1>1, <1>2, <1>4, <1>6, <1>7, TallMapping
<1>9. keysOf(push) = {"tags"} /\ mapping(push, "tags") = tags
  BY <1>1, <1>8
<1>10. push \in Tall(2)
  BY <1>4, <1>8
<1> HIDE DEF push
<1>11. Writes(<<e2, e3>>, {e2, e3})
  <2>1. e2.key # e3.key
    BY <1>1
  <2> QED BY <2>1, WritesTwo
<1> DEFINE on == Mapping(<<e2, e3>>)
<1>12. dispatch \in Tall(2)
  <2>1. Tall(0) \subseteq Tall(2)
    BY TallGrows
  <2> QED BY <1>3, <2>1
<1>13. /\ on \in Tall(2 + 1) /\ on.kind = "mapping"
       /\ \A e \in {e2, e3} : e.key \in keysOf(on) /\ mapping(on, e.key) = e.node
       /\ \A key \in keysOf(on) : \E e \in {e2, e3} : e.key = key
  <2>1. \A e \in {e2, e3} : e = Entry(e.key, e.node) /\ e.key \in Word /\ e.node \in Tall(2)
    BY <1>1, <1>2, <1>10, <1>12
  <2> QED BY <1>4, <1>11, <2>1, TallMapping
<1> HIDE DEF on
<1>14. keysOf(on) = {"push", "workflow_dispatch"} /\ mapping(on, "push") = push /\ mapping(on, "workflow_dispatch") = dispatch
  BY <1>1, <1>13
<1>15. on \in Tall(3)
  BY <1>4, <1>13
<1>16. TriggerNode = on
  BY Zenon DEF TriggerNode, on, e2, e3, push, e1, tags, items, tag, words, dispatch
<1> QED BY <1>8, <1>9, <1>13, <1>14, <1>15, <1>16, Zenon DEF push, e1, tags, items, tag, words, dispatch

rootNames == {"name", "on", "permissions", "env", "concurrency", "jobs"}
JobsNode(p) == Mapping([i \in DOMAIN p.jobs |-> Entry(p.jobs[i].name, JobNode(p.jobs[i]))])

\* The workflow as it is written.
LEMMA WrittenRoot ==
  ASSUME NEW p, WellMade(p)
  PROVE  LET m == Workflow(p)
         IN /\ m \in Tall(6) /\ m.kind = "mapping" /\ keysOf(m) = rootNames
            /\ mapping(m, "name") = Scalar(p.workflowName)
            /\ mapping(m, "on") = TriggerNode
            /\ mapping(m, "permissions") = Mapping(Scalars(p.topPermission))
            /\ mapping(m, "env") = Mapping(Scalars(p.env))
            /\ mapping(m, "concurrency") = Mapping(Scalars(p.concurrency))
            /\ mapping(m, "jobs") = JobsNode(p)
<1> DEFINE name == Scalar(p.workflowName)
           permissions == Mapping(Scalars(p.topPermission))
           env == Mapping(Scalars(p.env))
           concurrency == Mapping(Scalars(p.concurrency))
           jobs == JobsNode(p)
           e1 == Entry("name", name)
           e2 == Entry("on", TriggerNode)
           e3 == Entry("permissions", permissions)
           e4 == Entry("env", env)
           e5 == Entry("concurrency", concurrency)
           e6 == Entry("jobs", jobs)
           G == {e1, e2, e3, e4, e5, e6}
           m == Mapping(<<e1, e2, e3, e4, e5, e6>>)
<1>1. /\ name \in Tall(5) /\ TriggerNode \in Tall(5) /\ permissions \in Tall(5) /\ env \in Tall(5)
      /\ concurrency \in Tall(5) /\ jobs \in Tall(5)
  <2>1. Tall(0) \subseteq Tall(5) /\ Tall(1) \subseteq Tall(5) /\ Tall(3) \subseteq Tall(5)
    BY TallGrows
  <2>2. p.workflowName \in Text /\ GivenTexts(p.topPermission) /\ GivenTexts(p.env) /\ GivenTexts(p.concurrency)
    BY DEF WellMade
  <2>3. name \in Tall(0)
    BY <2>2, TallScalar
  <2>4. permissions \in Tall(1) /\ env \in Tall(1) /\ concurrency \in Tall(1)
    BY <2>2, WrittenScalars
  <2>5. TriggerNode \in Tall(3)
    BY WrittenTriggers
  <2>6. jobs \in Tall(5)
    BY WrittenJobs DEF JobsNode
  <2> HIDE DEF name, permissions, env, concurrency, jobs
  <2> QED BY <2>1, <2>3, <2>4, <2>5, <2>6
<1> HIDE DEF name, permissions, env, concurrency, jobs
<1>2. /\ e1.key = "name" /\ e1.node = name /\ e1 = Entry(e1.key, e1.node)
      /\ e2.key = "on" /\ e2.node = TriggerNode /\ e2 = Entry(e2.key, e2.node)
      /\ e3.key = "permissions" /\ e3.node = permissions /\ e3 = Entry(e3.key, e3.node)
      /\ e4.key = "env" /\ e4.node = env /\ e4 = Entry(e4.key, e4.node)
      /\ e5.key = "concurrency" /\ e5.node = concurrency /\ e5 = Entry(e5.key, e5.node)
      /\ e6.key = "jobs" /\ e6.node = jobs /\ e6 = Entry(e6.key, e6.node)
  BY DEF Entry
<1>3. rootNames \subseteq Word
  BY WordAssumption DEF rootNames
<1> HIDE DEF e1, e2, e3, e4, e5, e6
<1>4. Writes(<<e1, e2, e3, e4, e5, e6>>, G)
  <2>1. /\ e1.key \notin {e2.key, e3.key, e4.key, e5.key, e6.key} /\ e2.key \notin {e3.key, e4.key, e5.key, e6.key}
        /\ e3.key \notin {e4.key, e5.key, e6.key} /\ e4.key \notin {e5.key, e6.key} /\ e5.key # e6.key
    BY <1>2
  <2> QED BY <2>1, WritesSix
<1>5. \A e \in G : e = Entry(e.key, e.node) /\ e.key \in Word /\ e.node \in Tall(5) /\ e.key \in rootNames
  BY <1>1, <1>2, <1>3 DEF rootNames
<1>6. e1 \in G /\ e2 \in G /\ e3 \in G /\ e4 \in G /\ e5 \in G /\ e6 \in G
  OBVIOUS
<1> HIDE DEF G
<1>7. 5 \in Nat /\ 5 + 1 <= MaxDepth /\ 5 + 1 = 6
  BY DepthAssumption
<1>8. /\ m \in Tall(5 + 1) /\ m.kind = "mapping"
      /\ \A e \in G : e.key \in keysOf(m) /\ mapping(m, e.key) = e.node
      /\ \A key \in keysOf(m) : \E e \in G : e.key = key
  BY <1>4, <1>5, <1>7, TallMapping
<1> HIDE DEF m
<1>9. /\ mapping(m, "name") = name /\ mapping(m, "on") = TriggerNode /\ mapping(m, "permissions") = permissions
      /\ mapping(m, "env") = env /\ mapping(m, "concurrency") = concurrency /\ mapping(m, "jobs") = jobs
      /\ rootNames \subseteq keysOf(m)
  BY <1>2, <1>6, <1>8 DEF rootNames
<1>10. keysOf(m) \subseteq rootNames
  BY <1>5, <1>8
<1>11. m \in Tall(6)
  BY <1>7, <1>8
<1>12. Workflow(p) = m
  BY Zenon DEF Workflow, TriggerNode, JobsNode, m, e1, e2, e3, e4, e5, e6, name, permissions, env, concurrency, jobs
<1> QED BY <1>8, <1>9, <1>10, <1>11, <1>12 DEF name, permissions, env, concurrency, jobs

-----------------------------------------------------------------------------
(* A step of a job.                                                        *)

Pinned(n) == LET uses == scalar(mapping(n, "uses")) IN uses # None => Len(uses) = 2 /\ uses[2] \in shaRef
RunOf(n) == scalar(mapping(n, "run"))
StepPasses(n, p) ==
  checkAcceptedStep(n, p) /\ stepIdentity(n) = policyIdentity(p) /\ Pinned(n) /\ IsTrimmed(RunOf(n))

LEMMA NilScalar == scalar(Nil) = None /\ Nil.kind = "nil"
BY DEF scalar, Nil

LEMMA ScalarOf == \A words : scalar(Scalar(words)) = words /\ Scalar(words).kind = "scalar" /\ Scalar(words) # Nil
BY DEF scalar, Scalar, Nil

LEMMA PairOf == \A x, a, b : x = <<a, b>> => x[1] = a /\ x[2] = b
OBVIOUS

LEMMA PairLen == \A x, a, b : x = <<a, b>> => Len(x) = 2 /\ x[1] = a /\ x[2] = b
OBVIOUS

LEMMA NoPlaces == DOMAIN <<>> = {}
OBVIOUS

LEMMA AlikeToNil == \A key, n : Alike(key, n, Nil) => n = Nil
<1>1. Nil \notin UniqueTrees
  BY UniqueOf
<1> QED BY <1>1 DEF Alike

LEMMA NotEmpty == \A s : Len(s) = 2 => s # <<>>
<1>1. Len(<<>>) = 0
  OBVIOUS
<1>2. ASSUME NEW s, Len(s) = 2, s = <<>> PROVE FALSE
  <2>1. Len(s) = 0
    BY <1>1, <1>2, Zenon
  <2> QED BY <1>2, <2>1
<1> QED BY <1>2

LEMMA OneOf == \A x, a : x = <<a>> => x[1] = a
OBVIOUS

\* What an action means.
LEMMA ActionMeaning ==
  ASSUME NEW u \in UniqueTrees, NEW prefix,
         u.kind = "scalar", Len(u.value) = 2, u.value[2] \in shaRef, u.value[1] = prefix
  PROVE  Meaning("uses", u) = <<"pinned action", prefix>>
<1>1. "uses" \in Word /\ "uses" # "workflow_dispatch"
  BY WordAssumption
<1>2. Meaning("uses", u) = ScalarMeaning("uses", u.value)
  BY <1>1, MeaningOfOthers
<1> QED BY <1>2 DEF ScalarMeaning

\* A meaning that is neither a mapping's nor a list's is a scalar's.
LEMMA MeaningOfScalar ==
  ASSUME NEW u \in UniqueTrees, NEW key \in Word, key # "workflow_dispatch",
         Meaning(key, u)[1] \in {"commands", "pinned action", "text"}
  PROVE  u.kind = "scalar" /\ u = Scalar(u.value) /\ u.value \in Text /\ Meaning(key, u) = ScalarMeaning(key, u.value)
<1>1. u.kind \in {"scalar", "sequence", "mapping", "alias"}
  BY KindOf, UniqueOf DEF MaybeTrees
<1>2. u.kind # "mapping"
  <2>1. u.kind = "mapping" => Meaning(key, u)[1] = "mapping"
    BY MeaningOfMapping, PairOf, Zenon
  <2> QED BY <2>1
<1>3. u.kind # "alias"
  <2>1. u.kind = "alias" => Meaning(key, u)[1] = "alias"
    BY MeaningOfOthers, OneOf, Zenon
  <2> QED BY <2>1
<1>4. u.kind # "sequence"
  <2>1. \A x : <<"bag", x>>[1] = "bag" /\ <<"sequence", x>>[1] = "sequence"
    OBVIOUS
  <2>2. u.kind = "sequence" => Meaning(key, u)[1] \in {"bag", "sequence"}
    BY <2>1, MeaningOfOthers
  <2> QED BY <2>2
<1>5. u.kind = "scalar"
  BY <1>1, <1>2, <1>3, <1>4
<1> QED BY <1>5, KindOf, MeaningOfOthers DEF MaybeTrees, IsScalar

LEMMA MeaningIsAction ==
  ASSUME NEW u \in UniqueTrees, NEW prefix, Meaning("uses", u) = <<"pinned action", prefix>>
  PROVE  u.kind = "scalar" /\ Len(u.value) = 2 /\ u.value[2] \in shaRef /\ u.value[1] = prefix /\ scalar(u) = u.value /\ u.value # None
<1>1. "uses" \in Word /\ "uses" # "workflow_dispatch" /\ Meaning("uses", u)[1] = "pinned action"
  <2>1. "uses" \in Word /\ "uses" # "workflow_dispatch"
    BY WordAssumption
  <2> QED BY <2>1, PairOf, Zenon
<1>2. u.kind = "scalar" /\ u.value \in Text /\ Meaning("uses", u) = ScalarMeaning("uses", u.value)
  BY <1>1, MeaningOfScalar
<1>3. \A a, b : <<a, b>>[1] = a /\ <<a, b>>[2] = b
  OBVIOUS
<1>4. ~(Len(u.value) = 2 /\ u.value[2] \in shaRef) => ScalarMeaning("uses", u.value) = <<"text", u.value>>
  BY DEF ScalarMeaning
<1>5. Len(u.value) = 2 /\ u.value[2] \in shaRef
  <2>1. ~(Len(u.value) = 2 /\ u.value[2] \in shaRef) => Meaning("uses", u)[1] = "text"
    BY <1>2, <1>4, PairOf, Zenon
  <2> QED BY <1>1, <2>1
<1>6. ScalarMeaning("uses", u.value) = <<"pinned action", u.value[1]>>
  BY <1>5 DEF ScalarMeaning
<1>7. u.value[1] = prefix
  <2>1. Meaning("uses", u) = <<"pinned action", u.value[1]>>
    BY <1>2, <1>6, Zenon
  <2>2. Meaning("uses", u)[2] = u.value[1]
    <3> DEFINE first == u.value[1]
    <3>1. Meaning("uses", u) = <<"pinned action", first>>
      BY <2>1
    <3> HIDE DEF first
    <3>2. Meaning("uses", u)[2] = first
      BY <3>1, PairOf, Zenon
    <3> QED BY <3>2 DEF first
  <2>3. Meaning("uses", u)[2] = prefix
    BY PairOf, Zenon
  <2> QED BY <2>2, <2>3
<1>8. scalar(u) = u.value /\ u.value # None
  <2>2. u.value # None
    BY <1>5, NotEmpty, Zenon DEF None
  <2> QED BY <1>2, <2>2, Zenon DEF scalar
<1> QED BY <1>2, <1>5, <1>7, <1>8

LEMMA RunMeaning ==
  ASSUME NEW u \in UniqueTrees, u.kind = "scalar"
  PROVE  Meaning("run", u) = <<"commands", Commands(u.value)>> /\ u.value \in Text
<1>1. "run" \in Word /\ "run" # "workflow_dispatch"
  BY WordAssumption
<1>2. Meaning("run", u) = ScalarMeaning("run", u.value)
  BY <1>1, MeaningOfOthers
<1>3. u.value \in Text
  BY KindOf DEF MaybeTrees, IsScalar
<1> QED BY <1>2, <1>3 DEF ScalarMeaning

LEMMA MeaningIsRun ==
  ASSUME NEW u \in UniqueTrees, NEW commands, Meaning("run", u) = <<"commands", commands>>
  PROVE  u.kind = "scalar" /\ u.value \in Text /\ Commands(u.value) = commands
<1>1. "run" \in Word /\ "run" # "workflow_dispatch" /\ Meaning("run", u)[1] = "commands"
  <2>1. "run" \in Word /\ "run" # "workflow_dispatch"
    BY WordAssumption
  <2> QED BY <2>1, PairOf, Zenon
<1>2. u.kind = "scalar"
  BY <1>1, MeaningOfScalar
<1>3. <<"commands", Commands(u.value)>> = <<"commands", commands>> /\ u.value \in Text
  BY <1>2, RunMeaning
<1> QED BY <1>2, <1>3

stepNames == {"name", "id", "if", "uses", "run", "with", "env", "shell", "continue-on-error"}

LEMMA StepWords ==
  /\ stepKeys \cup {"uses", "with", "env", "run"} = stepNames
  /\ \A p : WellMadeStep(p) => /\ stepNames \subseteq Word /\ "workflow_dispatch" \notin stepNames
                               /\ stepKeys \subseteq Word \ SpecialKeys
                               /\ "with" \in Word /\ "env" \in Word /\ "with" # "workflow_dispatch" /\ "env" # "workflow_dispatch"
<1>1. stepKeys \cup {"uses", "with", "env", "run"} = stepNames
  BY DEF stepKeys, stepNames
<1>2. \A p : WellMadeStep(p) => stepKeys \subseteq Word
  BY DEF WellMadeStep
<1>3. {"uses", "with", "env", "run"} \subseteq Word
  BY WordAssumption
<1>4. \A p : WellMadeStep(p) => stepNames \subseteq Word
  BY <1>1, <1>2, <1>3
<1>5. "workflow_dispatch" \notin stepNames /\ stepKeys \cap SpecialKeys = {}
  BY DEF stepNames, stepKeys, SpecialKeys
<1>6. "with" # "workflow_dispatch" /\ "env" # "workflow_dispatch"
  OBVIOUS
<1> QED BY <1>1, <1>2, <1>3, <1>4, <1>5, <1>6

LEMMA PolicyRunIsPlain ==
  ASSUME NEW p, WellMadeStep(p)
  PROVE  p.run \in Text /\ IsPlain(p.run)
BY DEF WellMadeStep, IsPlain

\* The action, and the script, that a step has to have settle what it means.
LEMMA UsesAlike ==
  ASSUME NEW p, NEW n \in MaybeTrees, NEW m \in MaybeTrees,
         \A u \in {n, m} : IF p.uses = "" THEN u.kind = "nil"
                           ELSE hasPrefix(scalar(u), p.uses) /\ Len(scalar(u)) = 2 /\ scalar(u)[2] \in shaRef
  PROVE  Alike("uses", n, m)
<1>1. CASE p.uses = ""
  <2>1. n = Nil /\ m = Nil
    BY <1>1, KindOf
  <2> QED BY <2>1 DEF Alike
<1>2. CASE p.uses # ""
  <2>1. ASSUME NEW u \in MaybeTrees, hasPrefix(scalar(u), p.uses), Len(scalar(u)) = 2, scalar(u)[2] \in shaRef
        PROVE  u \in UniqueTrees /\ Meaning("uses", u) = <<"pinned action", p.uses>>
    <3>1. u.kind = "scalar" /\ scalar(u) = u.value
      BY <2>1 DEF hasPrefix, scalar
    <3>2. u \in UniqueTrees
      BY <3>1, KindOf
    <3>3. Len(u.value) = 2 /\ u.value[2] \in shaRef /\ u.value[1] = p.uses
      BY <2>1, <3>1 DEF hasPrefix
    <3> QED BY <3>1, <3>2, <3>3, ActionMeaning
  <2>2. n \in UniqueTrees /\ m \in UniqueTrees /\ Meaning("uses", n) = Meaning("uses", m)
    BY <1>2, <2>1
  <2> QED BY <2>2 DEF Alike
<1> QED BY <1>1, <1>2

LEMMA RunsAlike ==
  ASSUME NEW p, NEW n \in MaybeTrees, NEW m \in MaybeTrees,
         \A u \in {n, m} : /\ IF p.run = None THEN u.kind = "nil" ELSE requireExactScriptLines(u, p.run)
                           /\ IsTrimmed(scalar(u)) /\ IsUncut(scalar(u))
  PROVE  Alike("run", n, m)
<1>1. CASE p.run = None
  <2>1. n = Nil /\ m = Nil
    BY <1>1, KindOf
  <2> QED BY <2>1 DEF Alike
<1>2. CASE p.run # None
  <2>1. ASSUME NEW u \in MaybeTrees, requireExactScriptLines(u, p.run), IsTrimmed(scalar(u)), IsUncut(scalar(u))
        PROVE  u \in UniqueTrees /\ Meaning("run", u) = <<"commands", Commands(p.run)>>
    <3>1. u.kind = "scalar" /\ scalar(u) = u.value /\ scriptLines(u.value) = p.run
      BY <2>1 DEF requireExactScriptLines, scalar
    <3>2. u \in UniqueTrees
      BY <3>1, KindOf
    <3>3. Meaning("run", u) = <<"commands", Commands(u.value)>> /\ u.value \in Text
      BY <3>1, <3>2, RunMeaning
    <3>4. Commands(u.value) = Commands(scriptLines(u.value))
      BY <2>1, <3>1, <3>3, SameCommands
    <3> QED BY <3>1, <3>2, <3>3, <3>4
  <2>2. n \in UniqueTrees /\ m \in UniqueTrees /\ Meaning("run", n) = Meaning("run", m)
    BY <1>2, <2>1
  <2> QED BY <2>2 DEF Alike
<1> QED BY <1>1, <1>2

\* Steps that pass mean the same.
LEMMA StepsAlike ==
  ASSUME NEW p, WellMadeStep(p), NEW n \in UniqueTrees, NEW m \in UniqueTrees,
         StepPasses(n, p), IsUncut(RunOf(n)), StepPasses(m, p), IsUncut(RunOf(m))
  PROVE  Alike("", n, m)
<1>1. checkAcceptedStep(n, p) /\ checkAcceptedStep(m, p) /\ Pinned(n) /\ Pinned(m) /\ IsTrimmed(RunOf(n)) /\ IsTrimmed(RunOf(m))
  BY DEF StepPasses
<1>2. n.kind = "mapping" /\ m.kind = "mapping" /\ keysOf(n) \subseteq stepNames /\ keysOf(m) \subseteq stepNames
  BY <1>1, Zenon DEF checkAcceptedStep, expectOnlyKeys, stepNames
<1>3. \A key : mapping(n, key) \in MaybeTrees /\ mapping(m, key) \in MaybeTrees
  BY UnderKey DEF MaybeTrees
<1>4. ASSUME NEW key \in stepKeys PROVE Alike(key, mapping(n, key), mapping(m, key))
  <2>1. expectOptionalExactScalar(mapping(n, key), p.fields[key]) /\ expectOptionalExactScalar(mapping(m, key), p.fields[key])
    BY <1>1, Zenon DEF checkAcceptedStep, WellMadeStep
  <2>2. mapping(n, key) = mapping(m, key)
    BY <1>3, <2>1, OptionalScalar
  <2> QED BY <1>3, <2>2, AlikeSame
<1>5. Alike("uses", mapping(n, "uses"), mapping(m, "uses"))
  <2>1. ASSUME NEW x \in {n, m}
        PROVE  IF p.uses = "" THEN mapping(x, "uses").kind = "nil"
               ELSE /\ hasPrefix(scalar(mapping(x, "uses")), p.uses)
                    /\ Len(scalar(mapping(x, "uses"))) = 2 /\ scalar(mapping(x, "uses"))[2] \in shaRef
    <3>1. checkAcceptedStep(x, p) /\ Pinned(x)
      BY <1>1
    <3>2. IF p.uses = "" THEN mapping(x, "uses").kind = "nil" ELSE hasPrefix(scalar(mapping(x, "uses")), p.uses)
      BY <3>1, Zenon DEF checkAcceptedStep
    <3> QED BY <3>1, <3>2 DEF Pinned, hasPrefix
  <2> QED BY <1>3, <2>1, UsesAlike
<1>6. Alike("run", mapping(n, "run"), mapping(m, "run"))
  <2>1. ASSUME NEW x \in {n, m}
        PROVE  /\ IF p.run = None THEN mapping(x, "run").kind = "nil" ELSE requireExactScriptLines(mapping(x, "run"), p.run)
               /\ IsTrimmed(scalar(mapping(x, "run"))) /\ IsUncut(scalar(mapping(x, "run")))
    <3>1. checkAcceptedStep(x, p) /\ IsTrimmed(RunOf(x)) /\ IsUncut(RunOf(x))
      BY <1>1
    <3>2. IF p.run = None THEN mapping(x, "run").kind = "nil" ELSE requireExactScriptLines(mapping(x, "run"), p.run)
      BY <3>1, Zenon DEF checkAcceptedStep
    <3> QED BY <3>1, <3>2 DEF RunOf
  <2> QED BY <1>3, <2>1, RunsAlike
<1>7. Alike("with", mapping(n, "with"), mapping(m, "with")) /\ Alike("env", mapping(n, "env"), mapping(m, "env"))
  <2>1. GivenTexts(p.with) /\ GivenTexts(p.env)
    BY DEF WellMadeStep
  <2>2. /\ expectOptionalExactScalars(mapping(n, "with"), p.with) /\ expectOptionalExactScalars(mapping(m, "with"), p.with)
        /\ expectOptionalExactScalars(mapping(n, "env"), p.env) /\ expectOptionalExactScalars(mapping(m, "env"), p.env)
    BY <1>1, Zenon DEF checkAcceptedStep
  <2> QED BY <1>3, <2>1, <2>2, StepWords, OptionalScalarsAlike
<1>8. \A key \in stepNames : key \in stepKeys \/ key = "uses" \/ key = "run" \/ key = "with" \/ key = "env"
  BY DEF stepKeys, stepNames
<1>9. \A key \in stepNames : Alike(key, mapping(n, key), mapping(m, key))
  BY <1>4, <1>5, <1>6, <1>7, <1>8
<1>10. "" \in Word /\ "" # "workflow_dispatch"
  BY WordAssumption
<1> QED BY <1>2, <1>9, <1>10, AlikeEntries

\* Whatever means the same as the written step passes.
LEMMA AlikeStep ==
  ASSUME NEW p, WellMadeStep(p), NEW n, Alike("", n, StepNode(p))
  PROVE  StepPasses(n, p)
<1> DEFINE m == StepNode(p)
<1>1. /\ m \in UniqueTrees /\ m.kind = "mapping" /\ keysOf(m) \subseteq stepNames
      /\ \A key \in stepKeys : HoldsUnder(m, key, p.fields[key] # None, Scalar(p.fields[key]))
      /\ HoldsUnder(m, "uses", p.uses # "", Scalar(<<p.uses, "one SHA">>))
      /\ HoldsUnder(m, "with", DOMAIN p.with # {}, Mapping(Scalars(p.with)))
      /\ HoldsUnder(m, "env", DOMAIN p.env # {}, Mapping(Scalars(p.env)))
      /\ HoldsUnder(m, "run", p.run # None, Scalar(p.run))
  BY WrittenStep, StepWords DEF Tall
<1> HIDE DEF m
<1>2. Nil \notin UniqueTrees
  BY UniqueOf
<1>3. n \in UniqueTrees /\ Meaning("", n) = Meaning("", m)
  BY <1>1, <1>2 DEF Alike, m
<1>4. "" \in Word /\ "" # "workflow_dispatch"
  BY WordAssumption
<1>5. n.kind = "mapping" /\ keysOf(n) = keysOf(m) /\ \A k : Alike(k, mapping(n, k), mapping(m, k))
  BY <1>1, <1>3, <1>4, EntriesAlike
<1>6. expectOnlyKeys(n, stepNames)
  BY <1>1, <1>5 DEF expectOnlyKeys
<1>7. ASSUME NEW key \in stepKeys
      PROVE  mapping(n, key) = IF p.fields[key] # None THEN Scalar(p.fields[key]) ELSE Nil
  <2>1. key \in Word \ SpecialKeys
    BY StepWords
  <2>2. mapping(m, key) = IF p.fields[key] # None THEN Scalar(p.fields[key]) ELSE Nil
    BY <1>1, Zenon DEF HoldsUnder
  <2>3. Alike(key, mapping(n, key), mapping(m, key))
    BY <1>5
  <2>4. p.fields[key] # None => mapping(n, key) = Scalar(p.fields[key])
    BY <2>1, <2>2, <2>3, AlikeText
  <2>5. p.fields[key] = None => mapping(n, key) = Nil
    BY <2>2, <2>3, AlikeToNil, Zenon
  <2> QED BY <2>4, <2>5
<1>8. \A key \in stepKeys : expectOptionalExactScalar(mapping(n, key), p.fields[key])
  BY <1>7, NilScalar, ScalarIsExact DEF expectOptionalExactScalar
<1>9. /\ IF p.uses = "" THEN mapping(n, "uses").kind = "nil" ELSE hasPrefix(scalar(mapping(n, "uses")), p.uses)
      /\ p.uses = "" => scalar(mapping(n, "uses")) = None
      /\ p.uses # "" => /\ scalar(mapping(n, "uses")) # None /\ scalar(mapping(n, "uses"))[1] = p.uses
                        /\ Len(scalar(mapping(n, "uses"))) = 2 /\ scalar(mapping(n, "uses"))[2] \in shaRef
  <2>1. Alike("uses", mapping(n, "uses"), mapping(m, "uses"))
    BY <1>5
  <2>2. CASE p.uses = ""
    <3>1. mapping(m, "uses") = Nil
      BY <1>1, <2>2, Zenon DEF HoldsUnder
    <3>2. mapping(n, "uses") = Nil
      BY <2>1, <3>1, AlikeToNil, Zenon
    <3> QED BY <2>2, <3>2, NilScalar
  <2>3. CASE p.uses # ""
    <3> DEFINE a == Scalar(<<p.uses, "one SHA">>)
               u == mapping(n, "uses")
    <3>1. mapping(m, "uses") = a
      BY <1>1, <2>3, Zenon DEF HoldsUnder
    <3>2. a # Nil
      BY ScalarOf
    <3>3. u \in UniqueTrees /\ a \in UniqueTrees /\ Meaning("uses", u) = Meaning("uses", a)
      BY <2>1, <3>1, <3>2 DEF Alike
    <3>4. a.kind = "scalar" /\ a.value = <<p.uses, "one SHA">>
      BY DEF Scalar
    <3>5. "one SHA" \in shaRef
      BY DEF shaRef
    <3> HIDE DEF a, u
    <3>6. Len(a.value) = 2 /\ a.value[1] = p.uses /\ a.value[2] \in shaRef
      <4>1. \A v, x, y : v = <<x, y>> => Len(v) = 2 /\ v[1] = x /\ v[2] = y
        BY PairLen, Zenon
      <4> DEFINE x == p.uses
                 y == "one SHA"
                 v == a.value
      <4>2. v = <<x, y>> /\ y \in shaRef
        BY <3>4, <3>5
      <4> HIDE DEF x, y, v
      <4>3. Len(v) = 2 /\ v[1] = x /\ v[2] = y
        BY <4>1, <4>2, Zenon
      <4> QED BY <4>2, <4>3 DEF v, x
    <3>7. Meaning("uses", u) = <<"pinned action", p.uses>>
      BY <3>3, <3>4, <3>6, ActionMeaning
    <3>8. u.kind = "scalar" /\ Len(u.value) = 2 /\ u.value[2] \in shaRef /\ u.value[1] = p.uses /\ scalar(u) = u.value /\ u.value # None
      BY <3>3, <3>7, MeaningIsAction
    <3> QED BY <2>3, <3>8 DEF hasPrefix, u
  <2> QED BY <2>2, <2>3
<1>10. /\ IF p.run = None THEN mapping(n, "run").kind = "nil" ELSE requireExactScriptLines(mapping(n, "run"), p.run)
       /\ IsTrimmed(RunOf(n))
  <2>1. Alike("run", mapping(n, "run"), mapping(m, "run"))
    BY <1>5
  <2>2. CASE p.run = None
    <3>1. mapping(m, "run") = Nil
      BY <1>1, <2>2, Zenon DEF HoldsUnder
    <3>2. mapping(n, "run") = Nil
      BY <2>1, <3>1, AlikeToNil, Zenon
    <3>3. RunOf(n) = <<>>
      BY <3>2, NilScalar DEF RunOf, None
    <3>4. IsTrimmed(<<>>)
      BY NoPlaces, Zenon DEF IsTrimmed
    <3> QED BY <2>2, <3>2, <3>3, <3>4, NilScalar, Zenon
  <2>3. CASE p.run # None
    <3> DEFINE a == Scalar(p.run)
               u == mapping(n, "run")
    <3>1. mapping(m, "run") = a
      BY <1>1, <2>3, Zenon DEF HoldsUnder
    <3>2. a # Nil /\ a.kind = "scalar" /\ a.value = p.run
      BY ScalarOf DEF Scalar
    <3> HIDE DEF a, u
    <3>3. u \in UniqueTrees /\ a \in UniqueTrees /\ Meaning("run", u) = Meaning("run", a)
      BY <2>1, <3>1, <3>2 DEF Alike, u
    <3>4. Meaning("run", u) = <<"commands", Commands(p.run)>>
      BY <3>2, <3>3, RunMeaning
    <3>5. u.kind = "scalar" /\ u.value \in Text /\ Commands(u.value) = Commands(p.run)
      BY <3>3, <3>4, MeaningIsRun
    <3>6. scriptLines(u.value) = p.run /\ IsTrimmed(u.value)
      BY <3>5, PolicyRunIsPlain, CommandsSettleLines
    <3>7. scalar(u) = u.value
      BY <3>5 DEF scalar
    <3> QED BY <2>3, <3>5, <3>6, <3>7 DEF requireExactScriptLines, RunOf, u
  <2> QED BY <2>2, <2>3
<1>11. expectOptionalExactScalars(mapping(n, "with"), p.with) /\ expectOptionalExactScalars(mapping(n, "env"), p.env)
  <2>1. GivenTexts(p.with) /\ GivenTexts(p.env)
    BY DEF WellMadeStep
  <2>2. ASSUME NEW f, GivenTexts(f), NEW u, u = IF DOMAIN f # {} THEN Mapping(Scalars(f)) ELSE Nil
        PROVE  expectOptionalExactScalars(u, f)
    BY <2>2, WrittenScalars, NilScalar DEF expectOptionalExactScalars
  <2>3. expectOptionalExactScalars(mapping(m, "with"), p.with) /\ expectOptionalExactScalars(mapping(m, "env"), p.env)
    BY <1>1, <2>1, <2>2, Zenon DEF HoldsUnder
  <2> QED BY <1>5, <2>1, <2>3, StepWords, AlikeOptionalScalars
<1>12. checkAcceptedStep(n, p)
  <2>1. DOMAIN p.fields = stepKeys
    BY DEF WellMadeStep
  <2> QED BY <1>6, <1>8, <1>9, <1>10, <1>11, <2>1, Zenon DEF checkAcceptedStep, stepNames
<1>13. Pinned(n)
  BY <1>9, Zenon DEF Pinned
<1>14. stepIdentity(n) = policyIdentity(p)
  <2>1. "name" \in stepKeys
    BY DEF stepKeys
  <2>2. p.fields["name"] # None => scalar(mapping(n, "name")) = p.fields["name"]
    BY <1>7, <2>1, ScalarOf
  <2>3. p.fields["name"] = None => scalar(mapping(n, "name")) = None /\ p.uses # ""
    BY <1>7, <2>1, NilScalar DEF WellMadeStep
  <2> QED BY <1>9, <2>2, <2>3, Zenon DEF stepIdentity, policyIdentity
<1> QED BY <1>10, <1>12, <1>13, <1>14 DEF StepPasses

\* The written step passes.
LEMMA WrittenStepPasses ==
  ASSUME NEW p, WellMadeStep(p)
  PROVE  StepNode(p) \in UniqueTrees /\ StepPasses(StepNode(p), p) /\ IsUncut(RunOf(StepNode(p)))
<1>1. StepNode(p) \in UniqueTrees /\ HoldsUnder(StepNode(p), "run", p.run # None, Scalar(p.run))
  BY WrittenStep DEF Tall
<1>2. StepPasses(StepNode(p), p)
  BY <1>1, AlikeStep DEF Alike
<1>3. RunOf(StepNode(p)) = p.run
  <2>1. mapping(StepNode(p), "run") = IF p.run # None THEN Scalar(p.run) ELSE Nil
    BY <1>1, Zenon DEF HoldsUnder
  <2> QED BY <2>1, NilScalar, ScalarOf DEF RunOf
<1>4. IsUncut(p.run)
  BY PolicyRunIsPlain, PlainLines
<1> QED BY <1>1, <1>2, <1>3, <1>4

-----------------------------------------------------------------------------
(* Lists of which the order does not count.                                *)

OnceEach(W) == [x \in {<<"text", t>> : t \in W} |-> 1]

LEMMA BagOfTexts ==
  ASSUME NEW s \in Seq(Text), IsInjective(s), NEW t, t = [i \in DOMAIN s |-> <<"text", s[i]>>]
  PROVE  Bag(t) = OnceEach(Range(s))
<1>1. DOMAIN t = DOMAIN s /\ \A i \in DOMAIN s : t[i] = <<"text", s[i]>>
  OBVIOUS
<1>2. \A a, b : <<"text", a>> = <<"text", b>> => a = b
  OBVIOUS
<1>3. Range(t) = {<<"text", x>> : x \in Range(s)}
  BY <1>1, Zenon DEF Range
<1>4. \A i, j \in DOMAIN t : t[i] = t[j] => i = j
  BY <1>1, <1>2, Zenon DEF IsInjective
<1> HIDE <1>2
<1>5. ASSUME NEW item \in Range(t) PROVE Cardinality({i \in DOMAIN t : t[i] = item}) = 1
  <2>1. PICK k \in DOMAIN t : t[k] = item
    BY Zenon DEF Range
  <2>2. {i \in DOMAIN t : t[i] = item} = {k}
    BY <1>4, <2>1, Zenon
  <2> QED BY <2>2, FS_Singleton, Zenon
<1>6. Bag(t) = [item \in Range(t) |-> 1]
  BY <1>5, Zenon DEF Bag
<1> QED BY <1>3, <1>6, Zenon DEF OnceEach

LEMMA StringsOf ==
  ASSUME NEW n \in UniqueTrees, n.kind = "sequence"
  PROVE  /\ Children(n) = n.items /\ DOMAIN n.items = 1 .. Len(n.items) /\ Len(n.items) \in Nat
         /\ seqStrings(n) = [i \in DOMAIN n.items |-> scalar(n.items[i])]
         /\ MeaningsOf(n) = [i \in DOMAIN n.items |-> Meaning("", n.items[i])]
         /\ \A i \in DOMAIN n.items : n.items[i] \in UniqueTrees
<1>1. n.items \in Seq(AllTrees)
  BY KindOf DEF MaybeTrees, IsSequence
<1>2. Children(n) = n.items /\ \A i : ChildKey(n, i) = ""
  BY DEF Children, ChildKey
<1>3. \A i \in DOMAIN n.items : n.items[i] \in UniqueTrees
  BY <1>2, UniqueOf
<1>4. seqStrings(n) = [i \in DOMAIN n.items |-> scalar(n.items[i])]
  BY DEF seqStrings
<1>5. MeaningsOf(n) = [i \in DOMAIN n.items |-> Meaning("", n.items[i])]
  BY <1>2, Zenon DEF MeaningsOf
<1> QED BY <1>1, <1>2, <1>3, <1>4, <1>5, NodeParts

LEMMA PlainKey == "" \in Word \ SpecialKeys /\ "" # "workflow_dispatch" /\ "needs" \in Word /\ "tags" \in Word /\ "steps" \in Word \ SpecialKeys
BY WordAssumption DEF SpecialKeys

LEMMA TextInTree ==
  ASSUME NEW n \in UniqueTrees, scalar(n) # None
  PROVE  n = Scalar(scalar(n)) /\ scalar(n) \in Text /\ Meaning("", n) = <<"text", scalar(n)>>
<1>1. n.kind = "scalar" /\ scalar(n) = n.value
  BY DEF scalar
<1>2. n = Scalar(n.value) /\ n.value \in Text
  BY <1>1, KindOf DEF MaybeTrees, IsScalar
<1> QED BY <1>1, <1>2, PlainKey, TextOf

\* A list of texts that is a set means that set.
LEMMA ListMeaning ==
  ASSUME NEW n \in UniqueTrees, n.kind = "sequence", NEW key \in {"needs", "tags"},
         NEW W, IsFiniteSet(W), None \notin W, sameStringSet(seqStrings(n), W)
  PROVE  Meaning(key, n) = <<"bag", OnceEach(W)>>
<1> DEFINE items == n.items
           strings == seqStrings(n)
<1>1. /\ DOMAIN items = 1 .. Len(items) /\ Len(items) \in Nat
      /\ strings = [i \in DOMAIN items |-> scalar(items[i])]
      /\ MeaningsOf(n) = [i \in DOMAIN items |-> Meaning("", items[i])]
      /\ \A i \in DOMAIN items : items[i] \in UniqueTrees
  BY StringsOf
<1> HIDE DEF items, strings
<1>2. DOMAIN strings = DOMAIN items /\ \A i \in DOMAIN items : strings[i] = scalar(items[i])
  BY <1>1
<1>3. Range(strings) = W
  BY DEF sameStringSet, strings
<1>4. \A i \in DOMAIN items : scalar(items[i]) # None
  BY <1>2, <1>3 DEF Range
<1>5. \A i \in DOMAIN items : strings[i] \in Text /\ Meaning("", items[i]) = <<"text", strings[i]>>
  BY <1>1, <1>2, <1>4, TextInTree
<1>6. strings \in Seq(Text)
  <2>1. strings = [i \in 1 .. Len(items) |-> strings[i]]
    BY <1>1, <1>2
  <2> QED BY <1>1, <1>5, <2>1, OverPlaces, Zenon
<1>7. IsInjective(strings)
  BY <1>6, SameSet DEF strings
<1>8. MeaningsOf(n) = [i \in DOMAIN strings |-> <<"text", strings[i]>>]
  BY <1>1, <1>2, <1>5, Zenon
<1>9. Bag(MeaningsOf(n)) = OnceEach(W)
  BY <1>3, <1>6, <1>7, <1>8, BagOfTexts, Zenon
<1>10. key \in Word /\ key # "workflow_dispatch"
  BY PlainKey
<1> QED BY <1>9, <1>10, MeaningOfOthers

LEMMA OneText ==
  ASSUME NEW words \in Text
  PROVE  Bag(<<<<"text", words>>>>) = OnceEach({words})
<1> DEFINE s == <<words>>
           t == <<<<"text", words>>>>
<1>1. s \in Seq(Text) /\ DOMAIN s = {1} /\ s[1] = words /\ Range(s) = {words}
  BY DEF Range
<1>2. t = [i \in {1} |-> <<"text", words>>]
  OBVIOUS
<1> HIDE DEF s, t
<1>3. IsInjective(s)
  BY <1>1 DEF IsInjective
<1>4. t = [i \in DOMAIN s |-> <<"text", s[i]>>]
  BY <1>1, <1>2
<1>5. Bag(t) = OnceEach({words})
  BY <1>1, <1>3, <1>4, BagOfTexts
<1> QED BY <1>5 DEF t

LEMMA OnceEachTells == \A V, W : OnceEach(V) = OnceEach(W) => V = W
<1> SUFFICES ASSUME NEW V, NEW W, OnceEach(V) = OnceEach(W) PROVE V = W
  OBVIOUS
<1>1. {<<"text", t>> : t \in V} = {<<"text", t>> : t \in W}
  <2>1. \A S, T : [x \in S |-> 1] = [x \in T |-> 1] => S = T
    <3> SUFFICES ASSUME NEW S, NEW T, [x \in S |-> 1] = [x \in T |-> 1] PROVE S = T
      OBVIOUS
    <3>1. DOMAIN [x \in S |-> 1] = DOMAIN [x \in T |-> 1]
      OBVIOUS
    <3> QED BY <3>1
  <2> QED BY <2>1, Zenon DEF OnceEach
<1>2. \A a, b : <<"text", a>> = <<"text", b>> => a = b
  OBVIOUS
<1>3. ASSUME NEW A, NEW B, {<<"text", t>> : t \in A} = {<<"text", t>> : t \in B} PROVE A \subseteq B
  <2> SUFFICES ASSUME NEW a \in A PROVE a \in B
    OBVIOUS
  <2>1. <<"text", a>> \in {<<"text", t>> : t \in B}
    BY <1>3, Zenon
  <2>2. PICK b \in B : <<"text", a>> = <<"text", b>>
    BY <2>1, Zenon
  <2> QED BY <1>2, <2>2, Zenon
<1> HIDE <1>2
<1>4. V \subseteq W /\ W \subseteq V
  BY <1>1, <1>3, Zenon
<1> QED BY <1>4, Zenon

\* A bag that has everything once is of a list without a repetition.
LEMMA BagOnce ==
  ASSUME NEW t, IsFiniteSet(DOMAIN t), NEW V, Bag(t) = [x \in V |-> 1]
  PROVE  Range(t) = V /\ \A i, j \in DOMAIN t : t[i] = t[j] => i = j
<1> DEFINE places(item) == {k \in DOMAIN t : t[k] = item}
           b == [item \in Range(t) |-> Cardinality(places(item))]
<1>1. DOMAIN b = Range(t) /\ \A item \in Range(t) : b[item] = Cardinality(places(item))
  OBVIOUS
<1>2. b = [x \in V |-> 1]
  BY Zenon DEF Bag
<1> HIDE DEF b
<1>3. DOMAIN b = V /\ \A x \in V : b[x] = 1
  BY <1>2
<1>4. Range(t) = V
  BY <1>1, <1>3
<1> SUFFICES ASSUME NEW i \in DOMAIN t, NEW j \in DOMAIN t, t[i] = t[j] PROVE i = j
  BY <1>4
<1>5. t[i] \in Range(t)
  BY DEF Range
<1>6. Cardinality(places(t[i])) = 1
  BY <1>1, <1>3, <1>4, <1>5
<1>7. IsFiniteSet(places(t[i]))
  BY FS_Subset
<1>8. i \in places(t[i]) /\ j \in places(t[i])
  OBVIOUS
<1> HIDE DEF places
<1>9. PICK x : places(t[i]) = {x}
  BY <1>6, <1>7, FS_Singleton, Zenon
<1> QED BY <1>8, <1>9

LEMMA BagTells ==
  ASSUME NEW n \in UniqueTrees, n.kind = "sequence", NEW W, IsFiniteSet(W), Bag(MeaningsOf(n)) = OnceEach(W)
  PROVE  sameStringSet(seqStrings(n), W)
<1> DEFINE items == n.items
           strings == seqStrings(n)
           t == MeaningsOf(n)
           V == {<<"text", x>> : x \in W}
<1>1. /\ DOMAIN items = 1 .. Len(items) /\ Len(items) \in Nat
      /\ strings = [i \in DOMAIN items |-> scalar(items[i])]
      /\ t = [i \in DOMAIN items |-> Meaning("", items[i])]
      /\ \A i \in DOMAIN items : items[i] \in UniqueTrees
  BY StringsOf
<1>2. Bag(t) = [x \in V |-> 1]
  BY Zenon DEF OnceEach
<1> HIDE DEF items, strings, t, V
<1>3. DOMAIN t = DOMAIN items /\ \A i \in DOMAIN items : t[i] = Meaning("", items[i])
  BY <1>1
<1>4. DOMAIN strings = DOMAIN items /\ \A i \in DOMAIN items : strings[i] = scalar(items[i])
  BY <1>1
<1>5. IsFiniteSet(DOMAIN t)
  <2>1. Len(items) \in Nat
    BY <1>1, Zenon
  <2>2. 1 \in Int /\ Len(items) \in Int
    BY <2>1
  <2>3. IsFiniteSet(1 .. Len(items))
    BY <2>2, FS_Interval, Zenon
  <2> QED BY <1>1, <1>3, <2>3, Zenon
<1>6. Range(t) = V /\ \A i, j \in DOMAIN t : t[i] = t[j] => i = j
  BY <1>2, <1>5, BagOnce
<1>7. \A i \in DOMAIN items : strings[i] \in W /\ t[i] = <<"text", strings[i]>>
  <2> SUFFICES ASSUME NEW i \in DOMAIN items PROVE strings[i] \in W /\ t[i] = <<"text", strings[i]>>
    OBVIOUS
  <2>1. t[i] \in V
    BY <1>3, <1>6 DEF Range
  <2>2. PICK x \in W : t[i] = <<"text", x>>
    BY <2>1, Zenon DEF V
  <2>3. items[i] = Scalar(x)
    <3> DEFINE item == items[i]
    <3>1. item \in UniqueTrees /\ Meaning("", item) = <<"text", x>>
      BY <1>1, <1>3, <2>2, Zenon
    <3>2. "" \in Word
      BY PlainKey, Zenon
    <3> HIDE DEF item
    <3>3. item = Scalar(x)
      BY <3>1, <3>2, TextIsScalar
    <3> QED BY <3>3 DEF item
  <2>4. strings[i] = x
    BY <1>4, <2>3, ScalarOf
  <2> QED BY <2>2, <2>4
<1>8. W \subseteq Range(strings)
  <2> SUFFICES ASSUME NEW x \in W PROVE x \in Range(strings)
    OBVIOUS
  <2>1. <<"text", x>> \in V
    BY Zenon DEF V
  <2>2. PICK i \in DOMAIN t : t[i] = <<"text", x>>
    BY <1>6, <2>1, Zenon DEF Range
  <2>3. <<"text", strings[i]>> = <<"text", x>>
    BY <1>3, <1>7, <2>2
  <2>4. strings[i] = x
    BY <2>3
  <2> QED BY <1>3, <1>4, <2>4 DEF Range
<1>9. Range(strings) = W
  BY <1>4, <1>7, <1>8 DEF Range
<1>10. strings \in Seq(W)
  <2>1. strings = [i \in 1 .. Len(items) |-> strings[i]]
    BY <1>1, <1>4
  <2> QED BY <1>1, <1>7, <2>1, OverPlaces, Zenon
<1>11. IsInjective(strings)
  <2>1. \A i, j \in DOMAIN strings : strings[i] = strings[j] => i = j
    BY <1>3, <1>4, <1>6, <1>7, Zenon
  <2> QED BY <2>1, Zenon DEF IsInjective
<1>12. sameStringSet(strings, W)
  BY <1>9, <1>10, <1>11, SameSet
<1> QED BY <1>12 DEF strings

\* What means a set of texts lists them, or is the only one.
LEMMA MeaningIsList ==
  ASSUME NEW n \in UniqueTrees, NEW key \in {"needs", "tags"}, NEW W, IsFiniteSet(W),
         Meaning(key, n) = <<"bag", OnceEach(W)>>
  PROVE  \/ n.kind = "sequence" /\ sameStringSet(seqStrings(n), W)
         \/ key = "needs" /\ n.kind = "scalar" /\ W = {n.value}
<1> DEFINE once == OnceEach(W)
<1>1. Meaning(key, n) = <<"bag", once>>
  OBVIOUS
<1>2. n.kind \in {"scalar", "sequence", "mapping", "alias"}
  BY KindOf, UniqueOf DEF MaybeTrees
<1>3. key \in Word /\ key # "workflow_dispatch" /\ key # "run" /\ key # "uses"
  BY PlainKey
<1> HIDE DEF once
<1>4. Meaning(key, n)[1] = "bag" /\ Meaning(key, n)[2] = once
  BY <1>1, PairOf, Zenon
<1>5. n.kind # "mapping"
  <2>1. n.kind = "mapping" => Meaning(key, n)[1] = "mapping"
    BY <1>3, MeaningOfMapping, PairOf, Zenon
  <2> QED BY <1>4, <2>1
<1>6. n.kind # "alias"
  <2>1. n.kind = "alias" => Meaning(key, n)[1] = "alias"
    BY <1>3, MeaningOfOthers, OneOf, Zenon
  <2> QED BY <1>4, <2>1
<1>7. CASE n.kind = "sequence"
  <2> DEFINE b == Bag(MeaningsOf(n))
  <2>1. Meaning(key, n) = <<"bag", b>>
    BY <1>3, <1>7, MeaningOfOthers
  <2> HIDE DEF b
  <2>2. b = once
    BY <1>4, <2>1, PairOf, Zenon
  <2> QED BY <1>7, <2>2, BagTells DEF b, once
<1>8. CASE n.kind = "scalar"
  <2> DEFINE words == n.value
             b == Bag(<<<<"text", words>>>>)
  <2>1. Meaning(key, n) = ScalarMeaning(key, words)
    BY <1>3, <1>8, MeaningOfOthers
  <2>2. key # "needs" => ScalarMeaning(key, words)[1] = "text"
    <3>1. key # "needs" => ScalarMeaning(key, words) = <<"text", words>>
      BY <1>3 DEF ScalarMeaning
    <3> HIDE DEF words
    <3> QED BY <3>1, PairOf, Zenon
  <2>3. key = "needs"
    BY <1>4, <2>1, <2>2
  <2>4. ScalarMeaning("needs", words) = <<"bag", b>>
    BY DEF ScalarMeaning
  <2>5. words \in Text
    BY <1>8, KindOf DEF MaybeTrees, IsScalar
  <2>6. b = OnceEach({words})
    BY <2>5, OneText
  <2> HIDE DEF b
  <2>7. b = once
    BY <1>4, <2>1, <2>3, <2>4, PairOf, Zenon
  <2>8. W = {words}
    BY <2>6, <2>7, OnceEachTells DEF once
  <2> QED BY <1>8, <2>3, <2>8
<1> QED BY <1>2, <1>5, <1>6, <1>7, <1>8

-----------------------------------------------------------------------------
(* A job.                                                                  *)

NamesOf(n) == IF n.kind = "scalar" THEN <<n.value>> ELSE seqStrings(n)
NameTexts(names) == {<<name>> : name \in names}

LEMMA NameTextsAre ==
  ASSUME NEW names, IsFiniteSet(names), names \subseteq Word
  PROVE  /\ IsFiniteSet(NameTexts(names)) /\ None \notin NameTexts(names) /\ NameTexts(names) \subseteq Text
         /\ names # {} => NameTexts(names) # {}
<1>1. IsFiniteSet({<<name>> : name \in names})
  <2> DEFINE f == [name \in names |-> <<name>>]
             W == {<<name>> : name \in names}
  <2>1. f \in Surjection(names, W)
    BY DEF Surjection
  <2> HIDE DEF f, W
  <2>2. IsFiniteSet(W)
    BY <2>1, FS_Surjection
  <2> QED BY <2>2 DEF W
<1>2. \A name \in names : <<name>> \in Seq(Word) /\ <<name>> # <<>>
  OBVIOUS
<1> QED BY <1>1, <1>2 DEF NameTexts, None, Text

\* A job that waits for the accepted ones means them.
LEMMA NeedsMean ==
  ASSUME NEW names, IsFiniteSet(names), names \subseteq Word, names # {},
         NEW n \in MaybeTrees, sameStringSet(NamesOf(n), NameTexts(names))
  PROVE  n \in UniqueTrees /\ Meaning("needs", n) = <<"bag", OnceEach(NameTexts(names))>>
<1> DEFINE W == NameTexts(names)
<1>1. IsFiniteSet(W) /\ None \notin W /\ W # {}
  BY NameTextsAre
<1> HIDE DEF W
<1>2. sameStringSet(NamesOf(n), W)
  BY DEF W
<1>3. n.kind = "sequence" \/ n.kind = "scalar"
  <2> SUFFICES ASSUME n.kind # "sequence", n.kind # "scalar" PROVE FALSE
    OBVIOUS
  <2>1. NamesOf(n) = <<>>
    BY DEF NamesOf, seqStrings
  <2>2. Range(NamesOf(n)) = {}
    BY <2>1, NoPlaces DEF Range
  <2> QED BY <1>1, <1>2, <2>2 DEF sameStringSet
<1>4. n \in UniqueTrees
  BY <1>3, KindOf
<1>5. CASE n.kind = "sequence"
  <2>1. sameStringSet(seqStrings(n), W)
    BY <1>2, <1>5 DEF NamesOf
  <2>2. Meaning("needs", n) = <<"bag", OnceEach(W)>>
    BY <1>1, <1>4, <1>5, <2>1, ListMeaning
  <2> QED BY <1>4, <2>2 DEF W
<1>6. CASE n.kind = "scalar"
  <2> DEFINE words == n.value
  <2>1. words \in Text /\ Meaning("needs", n) = ScalarMeaning("needs", words)
    BY <1>4, <1>6, PlainKey, MeaningOfOthers, KindOf DEF MaybeTrees, IsScalar
  <2>2. sameStringSet(<<words>>, W)
    BY <1>2, <1>6 DEF NamesOf
  <2> HIDE DEF words
  <2>3. W = {words}
    BY <2>2 DEF sameStringSet, Range
  <2>4. ScalarMeaning("needs", words) = <<"bag", Bag(<<<<"text", words>>>>)>>
    BY DEF ScalarMeaning
  <2>5. Meaning("needs", n) = <<"bag", OnceEach(W)>>
    BY <2>1, <2>3, <2>4, OneText, Zenon
  <2> QED BY <1>4, <2>5 DEF W
<1> QED BY <1>3, <1>5, <1>6

\* What means the accepted ones names them.
LEMMA MeaningIsNeeds ==
  ASSUME NEW names, IsFiniteSet(names), names \subseteq Word,
         NEW n \in UniqueTrees, Meaning("needs", n) = <<"bag", OnceEach(NameTexts(names))>>
  PROVE  sameStringSet(NamesOf(n), NameTexts(names))
<1> DEFINE W == NameTexts(names)
<1>1. IsFiniteSet(W)
  BY NameTextsAre
<1>2. \/ n.kind = "sequence" /\ sameStringSet(seqStrings(n), W)
      \/ n.kind = "scalar" /\ W = {n.value}
  BY <1>1, MeaningIsList
<1> HIDE DEF W
<1>3. CASE n.kind = "sequence" /\ sameStringSet(seqStrings(n), W)
  <2>1. sameStringSet(NamesOf(n), W)
    BY <1>3 DEF NamesOf
  <2> QED BY <2>1 DEF W
<1>4. CASE n.kind = "scalar" /\ W = {n.value}
  <2> DEFINE words == n.value
  <2>1. NamesOf(n) = <<words>> /\ W = {words}
    BY <1>4 DEF NamesOf
  <2> HIDE DEF words
  <2>2. Cardinality({words}) = 1
    BY FS_Singleton, Zenon
  <2>3. Len(<<words>>) = 1 /\ Range(<<words>>) = {words}
    BY DEF Range
  <2>4. sameStringSet(NamesOf(n), W)
    BY <2>1, <2>2, <2>3 DEF sameStringSet
  <2> QED BY <2>4 DEF W
<1> QED BY <1>2, <1>3, <1>4

jobScalars == {"name", "if", "runs-on", "timeout-minutes"}
jobNames == {"name", "if", "needs", "runs-on", "timeout-minutes", "permissions", "outputs", "steps"}

\* What a job that the checker accepts is, up to its continued lines.
JobPasses(n, p) == checkAcceptedJob(n, p) /\ \A s \in Range(steps(n)) : Pinned(s) /\ IsTrimmed(RunOf(s))
JobUncut(n) == \A s \in Range(steps(n)) : IsUncut(RunOf(s))

LEMMA JobWords ==
  /\ jobScalars \cup {"needs", "permissions", "outputs", "steps"} = jobNames
  /\ {"needs", "permissions", "outputs", "steps"} \subseteq Word
  /\ "workflow_dispatch" \notin {"needs", "permissions", "outputs", "steps"}
  /\ \A p : WellMadeJob(p) => DOMAIN p.scalars = jobScalars /\ jobScalars \subseteq Word \ SpecialKeys
<1>1. {"needs", "permissions", "outputs", "steps"} \subseteq Word
  BY WordAssumption
<1>2. \A p : WellMadeJob(p) => DOMAIN p.scalars = jobScalars /\ jobScalars \subseteq Word \ SpecialKeys
  BY Zenon DEF WellMadeJob, GivenTexts, jobScalars
<1>3. jobScalars \cup {"needs", "permissions", "outputs", "steps"} = jobNames
  BY DEF jobScalars, jobNames
<1> QED BY <1>1, <1>2, <1>3

LEMMA FullPlaces == \A S : \A s \in Seq(S) : s # <<>> => DOMAIN s # {}
<1> SUFFICES ASSUME NEW S, NEW s \in Seq(S), s # <<>> PROVE DOMAIN s # {}
  OBVIOUS
<1>1. DOMAIN s = 1 .. Len(s) /\ Len(s) \in Nat
  OBVIOUS
<1>2. Len(s) # 0
  OBVIOUS
<1>3. 1 \in 1 .. Len(s)
  BY <1>1, <1>2
<1> QED BY <1>1, <1>3, Zenon

\* The steps of a job that passes.
LEMMA StepsOfJob ==
  ASSUME NEW p, WellMadeJob(p), NEW n \in UniqueTrees, checkAcceptedJobSteps(n, p)
  PROVE  /\ mapping(n, "steps") \in UniqueTrees /\ mapping(n, "steps").kind = "sequence"
         /\ mapping(n, "steps").items = steps(n) /\ DOMAIN steps(n) = DOMAIN p.steps
         /\ \A i \in DOMAIN p.steps : stepIdentity(steps(n)[i]) = policyIdentity(p.steps[i]) /\ checkAcceptedStep(steps(n)[i], p.steps[i])
<1> DEFINE a == [i \in DOMAIN steps(n) |-> stepIdentity(steps(n)[i])]
           b == [i \in DOMAIN p.steps |-> policyIdentity(p.steps[i])]
<1>1. a = b /\ \A i \in DOMAIN p.steps : checkAcceptedStep(steps(n)[i], p.steps[i])
  BY Zenon DEF checkAcceptedJobSteps
<1>2. /\ DOMAIN a = DOMAIN steps(n) /\ DOMAIN b = DOMAIN p.steps
      /\ (\A i \in DOMAIN steps(n) : a[i] = stepIdentity(steps(n)[i])) /\ (\A i \in DOMAIN p.steps : b[i] = policyIdentity(p.steps[i]))
  BY Zenon
<1> HIDE DEF a, b
<1>3. DOMAIN steps(n) = DOMAIN p.steps /\ \A i \in DOMAIN p.steps : stepIdentity(steps(n)[i]) = policyIdentity(p.steps[i])
  BY <1>1, <1>2, Zenon
<1>4. DOMAIN p.steps # {}
  <2>1. p.steps \in Seq(Range(p.steps)) /\ p.steps # <<>>
    BY Zenon DEF WellMadeJob
  <2> QED BY <2>1, FullPlaces, Zenon
<1>5. mapping(n, "steps").kind = "sequence"
  <2> SUFFICES ASSUME mapping(n, "steps").kind # "sequence" PROVE FALSE
    OBVIOUS
  <2>1. steps(n) = <<>>
    BY Zenon DEF steps
  <2> QED BY <1>3, <1>4, <2>1, NoPlaces, Zenon
<1>6. mapping(n, "steps") \in MaybeTrees
  BY UnderKey DEF MaybeTrees
<1>7. mapping(n, "steps") \in UniqueTrees
  BY <1>5, <1>6, KindOf
<1>8. steps(n) = mapping(n, "steps").items
  BY <1>5, Zenon DEF steps
<1> QED BY <1>1, <1>3, <1>5, <1>7, <1>8

LEMMA MeaningOfSteps ==
  ASSUME NEW u \in UniqueTrees, u.kind = "sequence", NEW key \in Word \ SpecialKeys
  PROVE  Meaning(key, u) = <<"sequence", MeaningsOf(u)>>
<1>1. key # "workflow_dispatch" /\ key \notin {"needs", "tags"}
  BY DEF SpecialKeys
<1> QED BY <1>1, MeaningOfOthers

LEMMA MeaningIsSteps ==
  ASSUME NEW u \in UniqueTrees, NEW key \in Word \ SpecialKeys, NEW x, Meaning(key, u) = <<"sequence", x>>
  PROVE  u.kind = "sequence" /\ MeaningsOf(u) = x
<1>1. key # "workflow_dispatch" /\ key \notin {"needs", "tags", "run", "uses"} /\ key \in Word
  BY DEF SpecialKeys
<1>2. u.kind \in {"scalar", "sequence", "mapping", "alias"}
  BY KindOf, UniqueOf DEF MaybeTrees
<1>3. Meaning(key, u)[1] = "sequence" /\ Meaning(key, u)[2] = x
  BY PairOf, Zenon
<1>4. u.kind # "mapping"
  <2>1. u.kind = "mapping" => Meaning(key, u)[1] = "mapping"
    BY <1>1, MeaningOfMapping, PairOf, Zenon
  <2> QED BY <1>3, <2>1
<1>5. u.kind # "alias"
  <2>1. u.kind = "alias" => Meaning(key, u)[1] = "alias"
    BY <1>1, MeaningOfOthers, OneOf, Zenon
  <2> QED BY <1>3, <2>1
<1>6. u.kind # "scalar"
  <2> DEFINE words == u.value
  <2>1. ScalarMeaning(key, words) = <<"text", words>>
    BY <1>1 DEF ScalarMeaning
  <2>2. u.kind = "scalar" => Meaning(key, u) = ScalarMeaning(key, words)
    BY <1>1, MeaningOfOthers
  <2> HIDE DEF words
  <2>3. u.kind = "scalar" => Meaning(key, u)[1] = "text"
    BY <2>1, <2>2, PairOf, Zenon
  <2> QED BY <1>3, <2>3
<1>7. u.kind = "sequence"
  BY <1>2, <1>4, <1>5, <1>6
<1>8. MeaningsOf(u) = x
  <2> DEFINE y == MeaningsOf(u)
  <2>1. Meaning(key, u) = <<"sequence", y>>
    BY <1>7, MeaningOfSteps
  <2> HIDE DEF y
  <2>2. y = x
    BY <1>3, <2>1, PairOf, Zenon
  <2> QED BY <2>2 DEF y
<1> QED BY <1>7, <1>8

LEMMA StepsMean ==
  ASSUME NEW p, WellMadeJob(p), NEW n \in UniqueTrees, JobPasses(n, p),
         NEW u, u = mapping(n, "steps")
  PROVE  /\ u \in UniqueTrees /\ u.kind = "sequence" /\ u.items = steps(n) /\ DOMAIN steps(n) = DOMAIN p.steps
         /\ \A i \in DOMAIN p.steps : steps(n)[i] \in UniqueTrees /\ steps(n)[i] \in Range(steps(n)) /\ StepPasses(steps(n)[i], p.steps[i])
         /\ Meaning("steps", u) = <<"sequence", [i \in DOMAIN p.steps |-> Meaning("", steps(n)[i])]>>
<1>1. checkAcceptedJobSteps(n, p) /\ \A s \in Range(steps(n)) : Pinned(s) /\ IsTrimmed(RunOf(s))
  BY Zenon DEF JobPasses, checkAcceptedJob
<1>2. /\ u \in UniqueTrees /\ u.kind = "sequence" /\ u.items = steps(n) /\ DOMAIN steps(n) = DOMAIN p.steps
      /\ \A i \in DOMAIN p.steps : stepIdentity(steps(n)[i]) = policyIdentity(p.steps[i]) /\ checkAcceptedStep(steps(n)[i], p.steps[i])
  BY <1>1, StepsOfJob
<1>3. \A i \in DOMAIN steps(n) : steps(n)[i] \in UniqueTrees
  BY <1>2, StringsOf
<1>4. \A i \in DOMAIN steps(n) : steps(n)[i] \in Range(steps(n))
  BY Zenon DEF Range
<1>5. \A i \in DOMAIN p.steps : StepPasses(steps(n)[i], p.steps[i])
  BY <1>1, <1>2, <1>4, Zenon DEF StepPasses
<1>6. Meaning("steps", u) = <<"sequence", MeaningsOf(u)>>
  BY <1>2, PlainKey, MeaningOfSteps
<1>7. MeaningsOf(u) = [i \in DOMAIN p.steps |-> Meaning("", steps(n)[i])]
  BY <1>2, StringsOf
<1> QED BY <1>2, <1>3, <1>4, <1>5, <1>6, <1>7, Zenon

\* Two jobs that pass mean the same when no continued line is cut.
LEMMA JobsAlike ==
  ASSUME NEW p, WellMadeJob(p), NEW n \in UniqueTrees, NEW m \in UniqueTrees,
         JobPasses(n, p), JobUncut(n), JobPasses(m, p), JobUncut(m), NEW key \in Word, key # "workflow_dispatch"
  PROVE  Alike(key, n, m)
<1>1. checkAcceptedJob(n, p) /\ checkAcceptedJob(m, p)
  BY DEF JobPasses
<1>2. n.kind = "mapping" /\ m.kind = "mapping" /\ keysOf(n) \subseteq jobNames /\ keysOf(m) \subseteq jobNames
  BY <1>1, Zenon DEF checkAcceptedJob, checkAcceptedJobEnvelope, expectOnlyKeys, jobNames
<1>3. \A k : mapping(n, k) \in MaybeTrees /\ mapping(m, k) \in MaybeTrees
  BY UnderKey DEF MaybeTrees
<1>4. ASSUME NEW k \in jobScalars PROVE Alike(k, mapping(n, k), mapping(m, k))
  <2>1. k \in DOMAIN p.scalars /\ p.scalars[k] # None
    BY Zenon, JobWords DEF WellMadeJob, GivenTexts
  <2>2. expectExactScalar(mapping(n, k), p.scalars[k]) /\ expectExactScalar(mapping(m, k), p.scalars[k])
    BY <1>1, <2>1, Zenon DEF checkAcceptedJob, checkAcceptedJobEnvelope
  <2>3. mapping(n, k) = mapping(m, k)
    <3> DEFINE x == mapping(n, k)
               y == mapping(m, k)
               want == p.scalars[k]
    <3>1. x \in MaybeTrees /\ y \in MaybeTrees /\ want # None /\ expectExactScalar(x, want) /\ expectExactScalar(y, want)
      BY <1>3, <2>1, <2>2, Zenon
    <3> HIDE DEF x, y, want
    <3>2. x = Scalar(want) /\ y = Scalar(want)
      BY <3>1, ExactScalar
    <3> QED BY <3>2, Zenon DEF x, y
  <2> QED BY <1>3, <2>3, AlikeSame
<1>5. Alike("needs", mapping(n, "needs"), mapping(m, "needs"))
  <2>1. IsFiniteSet(p.needs) /\ p.needs \subseteq Word
    BY DEF WellMadeJob
  <2>2. CASE p.needs = {}
    <3>1. mapping(n, "needs").kind = "nil" /\ mapping(m, "needs").kind = "nil"
      BY <1>1, <2>2, Zenon DEF checkAcceptedJob, checkAcceptedJobNeeds
    <3>2. mapping(n, "needs") = Nil /\ mapping(m, "needs") = Nil
      BY <1>3, <3>1, KindOf
    <3> QED BY <3>2 DEF Alike
  <2>3. CASE p.needs # {}
    <3>1. sameStringSet(needs(n), NameTexts(p.needs)) /\ sameStringSet(needs(m), NameTexts(p.needs))
      BY <1>1, <2>3, Zenon DEF checkAcceptedJob, checkAcceptedJobNeeds, NameTexts
    <3>2. needs(n) = NamesOf(mapping(n, "needs")) /\ needs(m) = NamesOf(mapping(m, "needs"))
      BY Zenon DEF needs, NamesOf
    <3>3. \A u \in MaybeTrees : sameStringSet(NamesOf(u), NameTexts(p.needs)) =>
            u \in UniqueTrees /\ Meaning("needs", u) = <<"bag", OnceEach(NameTexts(p.needs))>>
      BY <2>1, <2>3, NeedsMean
    <3> QED BY <1>3, <3>1, <3>2, <3>3, Zenon DEF Alike
  <2> QED BY <2>2, <2>3
<1>6. Alike("permissions", mapping(n, "permissions"), mapping(m, "permissions")) /\ Alike("outputs", mapping(n, "outputs"), mapping(m, "outputs"))
  <2>1. GivenTexts(p.permissions) /\ GivenTexts(p.outputs)
    BY DEF WellMadeJob
  <2>2. /\ expectOptionalExactScalars(mapping(n, "permissions"), p.permissions) /\ expectOptionalExactScalars(mapping(m, "permissions"), p.permissions)
        /\ expectOptionalExactScalars(mapping(n, "outputs"), p.outputs) /\ expectOptionalExactScalars(mapping(m, "outputs"), p.outputs)
    BY <1>1, Zenon DEF checkAcceptedJob
  <2> QED BY <1>3, <2>1, <2>2, JobWords, OptionalScalarsAlike
<1>7. Alike("steps", mapping(n, "steps"), mapping(m, "steps"))
  <2> DEFINE a == [i \in DOMAIN p.steps |-> Meaning("", steps(n)[i])]
             b == [i \in DOMAIN p.steps |-> Meaning("", steps(m)[i])]
  <2>1. /\ mapping(n, "steps") \in UniqueTrees /\ Meaning("steps", mapping(n, "steps")) = <<"sequence", a>>
        /\ \A i \in DOMAIN p.steps : steps(n)[i] \in UniqueTrees /\ steps(n)[i] \in Range(steps(n)) /\ StepPasses(steps(n)[i], p.steps[i])
    BY StepsMean
  <2>2. /\ mapping(m, "steps") \in UniqueTrees /\ Meaning("steps", mapping(m, "steps")) = <<"sequence", b>>
        /\ \A i \in DOMAIN p.steps : steps(m)[i] \in UniqueTrees /\ steps(m)[i] \in Range(steps(m)) /\ StepPasses(steps(m)[i], p.steps[i])
    BY StepsMean
  <2>3. \A i \in DOMAIN p.steps : Meaning("", steps(n)[i]) = Meaning("", steps(m)[i])
    <3> SUFFICES ASSUME NEW i \in DOMAIN p.steps PROVE Meaning("", steps(n)[i]) = Meaning("", steps(m)[i])
      OBVIOUS
    <3> DEFINE x == steps(n)[i]
               y == steps(m)[i]
    <3>1. x \in UniqueTrees /\ StepPasses(x, p.steps[i]) /\ IsUncut(RunOf(x))
      BY <2>1, Zenon DEF JobUncut
    <3>2. y \in UniqueTrees /\ StepPasses(y, p.steps[i]) /\ IsUncut(RunOf(y))
      BY <2>2, Zenon DEF JobUncut
    <3>3. WellMadeStep(p.steps[i])
      BY Zenon DEF WellMadeJob, Range
    <3> HIDE DEF x, y
    <3>4. Alike("", x, y)
      BY <3>1, <3>2, <3>3, StepsAlike
    <3>5. x # Nil
      BY <3>1, UniqueOf
    <3> QED BY <3>4, <3>5, Zenon DEF Alike, x, y
  <2>4. a = b
    BY <2>3, Zenon
  <2> HIDE DEF a, b
  <2> QED BY <2>1, <2>2, <2>4, Zenon DEF Alike
<1>8. \A k \in jobNames : k \in jobScalars \/ k = "needs" \/ k = "permissions" \/ k = "outputs" \/ k = "steps"
  BY DEF jobScalars, jobNames
<1>9. \A k \in jobNames : Alike(k, mapping(n, k), mapping(m, k))
  BY <1>4, <1>5, <1>6, <1>7, <1>8
<1> QED BY <1>2, <1>9, AlikeEntries

\* Whatever means the same as the written job passes.
LEMMA AlikeJob ==
  ASSUME NEW p, WellMadeJob(p), NEW key \in Word, key # "workflow_dispatch", NEW n, Alike(key, n, JobNode(p))
  PROVE  JobPasses(n, p)
<1> DEFINE m == JobNode(p)
           wanted == Listed(p.needs)
           list == Sequence([i \in DOMAIN wanted |-> Scalar(<<wanted[i]>>)])
           written == [i \in DOMAIN p.steps |-> StepNode(p.steps[i])]
<1>1. /\ m \in UniqueTrees /\ m.kind = "mapping" /\ keysOf(m) \subseteq jobNames
      /\ \A k \in jobScalars : mapping(m, k) = Scalar(p.scalars[k])
      /\ HoldsUnder(m, "needs", p.needs # {}, list)
      /\ HoldsUnder(m, "permissions", DOMAIN p.permissions # {}, Mapping(Scalars(p.permissions)))
      /\ HoldsUnder(m, "outputs", DOMAIN p.outputs # {}, Mapping(Scalars(p.outputs)))
      /\ mapping(m, "steps") = Sequence(written)
  <2>1. DOMAIN p.scalars = jobScalars /\ DOMAIN p.scalars \cup {"needs", "permissions", "outputs", "steps"} = jobNames
    BY JobWords
  <2>2. m \in Tall(4) /\ m.kind = "mapping"
    BY WrittenJob, Zenon
  <2>3. keysOf(m) \subseteq jobNames /\ \A k \in jobScalars : mapping(m, k) = Scalar(p.scalars[k])
    BY <2>1, WrittenJob, Zenon
  <2>4. /\ HoldsUnder(m, "needs", p.needs # {}, list)
        /\ HoldsUnder(m, "permissions", DOMAIN p.permissions # {}, Mapping(Scalars(p.permissions)))
        /\ HoldsUnder(m, "outputs", DOMAIN p.outputs # {}, Mapping(Scalars(p.outputs)))
        /\ mapping(m, "steps") = Sequence(written)
    BY WrittenJob, Zenon
  <2>5. m \in UniqueTrees
    BY <2>2, Zenon DEF Tall
  <2> QED BY <2>2, <2>3, <2>4, <2>5, Zenon
<1> HIDE DEF m
<1>2. Nil \notin UniqueTrees
  BY UniqueOf
<1>3. n \in UniqueTrees /\ Meaning(key, n) = Meaning(key, m)
  BY <1>1, <1>2, Zenon DEF Alike, m
<1>4. n.kind = "mapping" /\ keysOf(n) = keysOf(m) /\ \A k : Alike(k, mapping(n, k), mapping(m, k))
  BY <1>1, <1>3, EntriesAlike
<1>5. expectOnlyKeys(n, jobNames)
  BY <1>1, <1>4 DEF expectOnlyKeys
<1>6. ASSUME NEW k \in jobScalars PROVE expectExactScalar(mapping(n, k), p.scalars[k])
  <2> DEFINE want == p.scalars[k]
             u == mapping(n, k)
  <2>1. k \in Word \ SpecialKeys
    BY JobWords
  <2>2. Alike(k, u, Scalar(want))
    BY <1>1, <1>4, Zenon
  <2> HIDE DEF want, u
  <2>3. u = Scalar(want)
    BY <2>1, <2>2, AlikeText
  <2>4. expectExactScalar(u, want)
    BY <2>3, ScalarIsExact
  <2> QED BY <2>4 DEF u, want
<1>7. checkAcceptedJobEnvelope(n, p)
  <2>1. DOMAIN p.scalars = jobScalars
    BY JobWords
  <2> QED BY <1>5, <1>6, <2>1, Zenon DEF checkAcceptedJobEnvelope, jobNames
<1>8. checkAcceptedJobNeeds(n, p)
  <2>1. Alike("needs", mapping(n, "needs"), mapping(m, "needs"))
    BY <1>4
  <2>2. CASE p.needs = {}
    <3>1. mapping(m, "needs") = Nil
      BY <1>1, <2>2, Zenon DEF HoldsUnder
    <3>2. mapping(n, "needs") = Nil
      BY <2>1, <3>1, AlikeToNil, Zenon
    <3> QED BY <2>2, <3>2, NilScalar, Zenon DEF checkAcceptedJobNeeds
  <2>3. CASE p.needs # {}
    <3> DEFINE u == mapping(n, "needs")
               once == OnceEach(NameTexts(p.needs))
    <3>1. IsFiniteSet(p.needs) /\ p.needs \subseteq Word
      BY DEF WellMadeJob
    <3>2. list \in Tall(1) /\ list.kind = "sequence" /\ sameStringSet(seqStrings(list), NameTexts(p.needs))
      BY <3>1, WrittenNeeds, Zenon DEF NameTexts
    <3>3. Alike("needs", u, list)
      BY <1>1, <2>1, <2>3, Zenon DEF HoldsUnder
    <3> HIDE DEF list, u
    <3>4. list \in UniqueTrees /\ sameStringSet(NamesOf(list), NameTexts(p.needs))
      BY <3>2 DEF Tall, NamesOf
    <3>5. Meaning("needs", list) = <<"bag", once>>
      BY <2>3, <3>1, <3>4, NeedsMean DEF MaybeTrees
    <3>6. u \in UniqueTrees /\ Meaning("needs", u) = <<"bag", once>>
      BY <1>2, <3>3, <3>4, <3>5, Zenon DEF Alike
    <3>7. sameStringSet(NamesOf(u), NameTexts(p.needs))
      BY <3>1, <3>6, MeaningIsNeeds
    <3>8. needs(n) = NamesOf(u)
      BY Zenon DEF needs, NamesOf, u
    <3> QED BY <2>3, <3>7, <3>8, Zenon DEF checkAcceptedJobNeeds, NameTexts
  <2> QED BY <2>2, <2>3
<1>9. expectOptionalExactScalars(mapping(n, "permissions"), p.permissions) /\ expectOptionalExactScalars(mapping(n, "outputs"), p.outputs)
  <2>1. GivenTexts(p.permissions) /\ GivenTexts(p.outputs)
    BY DEF WellMadeJob
  <2>2. ASSUME NEW f, GivenTexts(f), NEW u, u = IF DOMAIN f # {} THEN Mapping(Scalars(f)) ELSE Nil
        PROVE  expectOptionalExactScalars(u, f)
    BY <2>2, WrittenScalars, NilScalar DEF expectOptionalExactScalars
  <2>3. expectOptionalExactScalars(mapping(m, "permissions"), p.permissions) /\ expectOptionalExactScalars(mapping(m, "outputs"), p.outputs)
    BY <1>1, <2>1, <2>2, Zenon DEF HoldsUnder
  <2> QED BY <1>4, <2>1, <2>3, JobWords, AlikeOptionalScalars
<1>10. /\ DOMAIN steps(n) = DOMAIN p.steps
       /\ \A i \in DOMAIN p.steps : StepPasses(steps(n)[i], p.steps[i])
  <2> DEFINE u == mapping(n, "steps")
             w == Sequence(written)
  <2>1. Alike("steps", u, w)
    BY <1>1, <1>4, Zenon
  <2>2. w.kind = "sequence" /\ w.items = written /\ w # Nil
    BY DEF Sequence, Nil
  <2>3. w \in UniqueTrees /\ u \in UniqueTrees /\ Meaning("steps", u) = Meaning("steps", w)
    BY <2>1, <2>2, Zenon DEF Alike
  <2> HIDE DEF u, w
  <2>4. Meaning("steps", w) = <<"sequence", MeaningsOf(w)>>
    BY <2>2, <2>3, PlainKey, MeaningOfSteps
  <2>5. u.kind = "sequence" /\ MeaningsOf(u) = MeaningsOf(w)
    <3> DEFINE x == MeaningsOf(w)
    <3>1. Meaning("steps", u) = <<"sequence", x>>
      BY <2>3, <2>4
    <3> HIDE DEF x
    <3>2. u.kind = "sequence" /\ MeaningsOf(u) = x
      BY <2>3, <3>1, PlainKey, MeaningIsSteps
    <3> QED BY <3>2 DEF x
  <2>6. steps(n) = u.items
    BY <2>5, Zenon DEF steps, u
  <2>7. /\ MeaningsOf(u) = [i \in DOMAIN u.items |-> Meaning("", u.items[i])]
        /\ MeaningsOf(w) = [i \in DOMAIN w.items |-> Meaning("", w.items[i])]
        /\ \A i \in DOMAIN u.items : u.items[i] \in UniqueTrees
        /\ \A i \in DOMAIN w.items : w.items[i] \in UniqueTrees
    BY <2>2, <2>3, <2>5, StringsOf
  <2>8. DOMAIN u.items = DOMAIN w.items /\ \A i \in DOMAIN u.items : Meaning("", u.items[i]) = Meaning("", w.items[i])
    <3> DEFINE f(i) == Meaning("", u.items[i])
               g(i) == Meaning("", w.items[i])
               a == [i \in DOMAIN u.items |-> f(i)]
               b == [i \in DOMAIN w.items |-> g(i)]
    <3>1. a = b
      BY <2>5, <2>7, Zenon
    <3> HIDE DEF f, g
    <3>2. DOMAIN a = DOMAIN u.items /\ DOMAIN b = DOMAIN w.items /\ (\A i \in DOMAIN u.items : a[i] = f(i)) /\ (\A i \in DOMAIN w.items : b[i] = g(i))
      BY Zenon
    <3> HIDE DEF a, b
    <3>3. DOMAIN u.items = DOMAIN w.items /\ \A i \in DOMAIN u.items : f(i) = g(i)
      BY <3>1, <3>2, Zenon
    <3> QED BY <3>3 DEF f, g
  <2>9. DOMAIN written = DOMAIN p.steps /\ \A i \in DOMAIN p.steps : written[i] = StepNode(p.steps[i])
    BY Zenon
  <2>10. \A i \in DOMAIN p.steps : WellMadeStep(p.steps[i])
    BY Zenon DEF WellMadeJob, Range
  <2> HIDE DEF written
  <2>11. ASSUME NEW i \in DOMAIN p.steps PROVE StepPasses(u.items[i], p.steps[i])
    <3> DEFINE x == u.items[i]
    <3>1. x \in UniqueTrees /\ StepNode(p.steps[i]) \in UniqueTrees /\ Meaning("", x) = Meaning("", StepNode(p.steps[i]))
      BY <2>2, <2>7, <2>8, <2>9, Zenon
    <3> HIDE DEF x
    <3>2. StepPasses(x, p.steps[i])
      BY <2>10, <3>1, AlikeStep, Zenon DEF Alike
    <3> QED BY <3>2 DEF x
  <2> QED BY <2>2, <2>6, <2>8, <2>9, <2>11, Zenon
<1>11. checkAcceptedJobSteps(n, p)
  <2>1. \A i \in DOMAIN p.steps : stepIdentity(steps(n)[i]) = policyIdentity(p.steps[i]) /\ checkAcceptedStep(steps(n)[i], p.steps[i])
    BY <1>10, Zenon DEF StepPasses
  <2>2. [i \in DOMAIN steps(n) |-> stepIdentity(steps(n)[i])] = [i \in DOMAIN p.steps |-> policyIdentity(p.steps[i])]
    BY <1>10, <2>1, Zenon
  <2> QED BY <2>1, <2>2, Zenon DEF checkAcceptedJobSteps
<1>12. \A s \in Range(steps(n)) : Pinned(s) /\ IsTrimmed(RunOf(s))
  BY <1>10, Zenon DEF StepPasses, Range
<1> QED BY <1>7, <1>8, <1>9, <1>11, <1>12, Zenon DEF JobPasses, checkAcceptedJob

\* The written job passes.
LEMMA WrittenJobPasses ==
  ASSUME NEW p, WellMadeJob(p), NEW key \in Word, key # "workflow_dispatch"
  PROVE  JobNode(p) \in UniqueTrees /\ JobPasses(JobNode(p), p) /\ JobUncut(JobNode(p))
<1> DEFINE m == JobNode(p)
           written == [i \in DOMAIN p.steps |-> StepNode(p.steps[i])]
<1>1. m \in Tall(4) /\ mapping(m, "steps") = Sequence(written)
  BY WrittenJob, Zenon
<1> HIDE DEF m
<1>2. m \in UniqueTrees
  BY <1>1, Zenon DEF Tall
<1>3. Alike(key, m, m)
  BY <1>2 DEF Alike
<1>4. JobPasses(m, p)
  BY <1>3, AlikeJob DEF m
<1>5. steps(m) = written
  <2>1. Sequence(written).kind = "sequence" /\ Sequence(written).items = written
    BY DEF Sequence
  <2> QED BY <1>1, <2>1, Zenon DEF steps
<1>6. \A i \in DOMAIN p.steps : WellMadeStep(p.steps[i])
  BY Zenon DEF WellMadeJob, Range
<1>7. \A i \in DOMAIN p.steps : IsUncut(RunOf(StepNode(p.steps[i])))
  BY <1>6, WrittenStepPasses, Zenon
<1>8. \A x \in Range(written) : IsUncut(RunOf(x))
  <2> SUFFICES ASSUME NEW x \in Range(written) PROVE IsUncut(RunOf(x))
    OBVIOUS
  <2>1. DOMAIN written = DOMAIN p.steps /\ \A i \in DOMAIN p.steps : written[i] = StepNode(p.steps[i])
    BY Zenon
  <2>2. PICK i \in DOMAIN p.steps : x = StepNode(p.steps[i])
    BY <2>1, Zenon DEF Range
  <2> QED BY <1>7, <2>2, Zenon
<1> HIDE DEF written
<1> QED BY <1>2, <1>4, <1>5, <1>8, Zenon DEF JobUncut, m

-----------------------------------------------------------------------------
(* The triggers and the permissions of the workflow.                       *)

LEMMA KeysAre ==
  ASSUME NEW n \in MaybeTrees, NEW W, IsFiniteSet(W)
  PROVE  /\ sameStringSet(mapKeys(n), W) <=> keysOf(n) = W
         /\ keysOf(n) # {} => n \in UniqueTrees /\ n.kind = "mapping"
<1>1. keysOf(n) # {} => n.kind = "mapping"
  BY NoMapping
<1>2. n.kind = "mapping" => n \in UniqueTrees /\ IsMapping(n, AllTrees)
  BY KindOf
<1>3. CASE n.kind = "mapping"
  <2> DEFINE entries == n.entries
             keys == mapKeys(n)
  <2>1. entries \in Seq([key : Word, node : AllTrees]) /\ keys = [i \in DOMAIN entries |-> entries[i].key]
    BY <1>2, <1>3 DEF IsMapping, mapKeys
  <2>2. IsInjective(keys)
    BY <1>2, <1>3, UniqueOf
  <2> HIDE DEF entries, keys
  <2>3. DOMAIN entries = 1 .. Len(entries) /\ Len(entries) \in Nat
    BY <2>1, NodeParts
  <2>4. \A i \in DOMAIN entries : entries[i].key \in Word
    BY <2>1, EntryParts
  <2>5. DOMAIN keys = 1 .. Len(entries) /\ \A i \in 1 .. Len(entries) : keys[i] \in Word
    BY <2>1, <2>3, <2>4
  <2>6. keys = [i \in 1 .. Len(entries) |-> keys[i]]
    BY <2>1, <2>3
  <2>7. keys \in Seq(Word)
    BY <2>3, <2>5, <2>6, OverPlaces
  <2>8. sameStringSet(keys, W) <=> Range(keys) = W
    BY <2>2, <2>7, SameSet
  <2> QED BY <1>1, <1>2, <1>3, <2>8 DEF keysOf, keys
<1>4. CASE n.kind # "mapping"
  <2>1. mapKeys(n) = <<>> /\ keysOf(n) = {}
    BY <1>4, NoMapping DEF mapKeys
  <2>2. <<>> \in Seq(Word) /\ Range(<<>>) = {}
    BY NoPlaces DEF Range
  <2>3. IsInjective(<<>>)
    BY NoPlaces DEF IsInjective
  <2>4. sameStringSet(<<>>, W) <=> {} = W
    BY <2>2, <2>3, SameSet
  <2> QED BY <1>1, <1>2, <2>1, <2>4
<1> QED BY <1>3, <1>4

LEMMA ListIs ==
  ASSUME NEW n \in MaybeTrees, NEW key \in {"needs", "tags"}, NEW W, IsFiniteSet(W), None \notin W, W # {},
         sameStringSet(seqStrings(n), W)
  PROVE  n \in UniqueTrees /\ Meaning(key, n) = <<"bag", OnceEach(W)>>
<1>1. n.kind = "sequence"
  <2> SUFFICES ASSUME n.kind # "sequence" PROVE FALSE
    OBVIOUS
  <2>1. seqStrings(n) = <<>>
    BY DEF seqStrings
  <2>2. Range(seqStrings(n)) = {}
    BY <2>1, NoPlaces DEF Range
  <2> QED BY <2>2 DEF sameStringSet
<1>2. n \in UniqueTrees
  BY <1>1, KindOf
<1> QED BY <1>1, <1>2, ListMeaning

tagTexts == {<<"v*">>}
OnPasses(on) ==
  /\ sameStringSet(mapKeys(on), {"push", "workflow_dispatch"})
  /\ sameStringSet(mapKeys(mapping(on, "push")), {"tags"})
  /\ sameStringSet(seqStrings(mapping(mapping(on, "push"), "tags")), tagTexts)

LEMMA TriggerSets ==
  /\ IsFiniteSet({"push", "workflow_dispatch"}) /\ IsFiniteSet({"tags"}) /\ IsFiniteSet(tagTexts)
  /\ None \notin tagTexts /\ tagTexts # {}
  /\ {"on", "push", "tags", "workflow_dispatch"} \subseteq Word
<1>1. IsFiniteSet({"push", "workflow_dispatch"})
  <2>1. IsFiniteSet({"push"})
    BY FS_Singleton, Zenon
  <2>2. IsFiniteSet({"push"} \cup {"workflow_dispatch"})
    BY <2>1, FS_AddElement, Zenon
  <2>3. {"push"} \cup {"workflow_dispatch"} = {"push", "workflow_dispatch"}
    OBVIOUS
  <2> QED BY <2>2, <2>3
<1>2. IsFiniteSet({"tags"})
  BY FS_Singleton, Zenon
<1>3. IsFiniteSet(tagTexts)
  BY FS_Singleton, Zenon DEF tagTexts
<1>4. None \notin tagTexts /\ tagTexts # {}
  <2>1. \A x : <<x>> # <<>>
    OBVIOUS
  <2> QED BY <2>1 DEF None, tagTexts
<1>5. {"on", "push", "tags", "workflow_dispatch"} \subseteq Word
  BY WordAssumption
<1> QED BY <1>1, <1>2, <1>3, <1>4, <1>5

\* The written triggers.
LEMMA WrittenOn ==
  /\ TriggerNode \in UniqueTrees /\ TriggerNode.kind = "mapping" /\ keysOf(TriggerNode) = {"push", "workflow_dispatch"}
  /\ mapping(TriggerNode, "push") \in UniqueTrees /\ mapping(TriggerNode, "push").kind = "mapping"
  /\ keysOf(mapping(TriggerNode, "push")) = {"tags"}
  /\ mapping(TriggerNode, "workflow_dispatch") \in UniqueTrees
  /\ mapping(mapping(TriggerNode, "push"), "tags") \in UniqueTrees
  /\ Meaning("tags", mapping(mapping(TriggerNode, "push"), "tags")) = <<"bag", OnceEach(tagTexts)>>
<1> DEFINE on == TriggerNode
           push == mapping(on, "push")
           tags == mapping(push, "tags")
<1>1. on \in UniqueTrees /\ on.kind = "mapping" /\ keysOf(on) = {"push", "workflow_dispatch"}
  BY WrittenTriggers, Zenon DEF Tall
<1>2. push.kind = "mapping" /\ keysOf(push) = {"tags"}
  BY WrittenTriggers, Zenon
<1>3. tags = Sequence(<<Scalar(<<"v*">>)>>)
  BY WrittenTriggers, Zenon
<1> HIDE DEF on
<1>4. push \in UniqueTrees /\ mapping(on, "workflow_dispatch") \in UniqueTrees
  BY <1>1, UnderKey DEF MaybeTrees
<1> HIDE DEF push
<1>5. tags \in UniqueTrees
  BY <1>2, <1>4, UnderKey DEF MaybeTrees
<1>6. seqStrings(tags) = <<<<"v*">>>>
  <2> DEFINE s == Scalar(<<"v*">>)
             items == <<s>>
  <2>1. tags.kind = "sequence" /\ tags.items = items
    BY <1>3 DEF Sequence
  <2>2. scalar(s) = <<"v*">>
    BY ScalarOf
  <2> HIDE DEF s, tags
  <2>3. seqStrings(tags) = [i \in DOMAIN items |-> scalar(items[i])]
    BY <2>1, Zenon DEF seqStrings
  <2>4. DOMAIN items = {1} /\ items[1] = s
    OBVIOUS
  <2>5. seqStrings(tags) = [i \in {1} |-> <<"v*">>]
    BY <2>2, <2>3, <2>4
  <2> QED BY <2>5
<1>7. sameStringSet(seqStrings(tags), tagTexts)
  <2>1. Cardinality(tagTexts) = 1
    BY FS_Singleton, Zenon DEF tagTexts
  <2>2. \A x : Len(<<x>>) = 1 /\ Range(<<x>>) = {x}
    BY DEF Range
  <2>3. Len(seqStrings(tags)) = 1 /\ Range(seqStrings(tags)) = {<<"v*">>}
    BY <1>6, <2>2, Zenon
  <2> QED BY <2>1, <2>3, Zenon DEF sameStringSet, tagTexts
<1> HIDE DEF tags
<1>8. Meaning("tags", tags) = <<"bag", OnceEach(tagTexts)>>
  BY <1>5, <1>7, TriggerSets, ListIs DEF MaybeTrees
<1> QED BY <1>1, <1>2, <1>4, <1>5, <1>8, Zenon DEF on, push, tags

LEMMA TriggerMeaning ==
  ASSUME NEW u \in UniqueTrees
  PROVE  Meaning("workflow_dispatch", u) = <<"trigger">>
BY TriggerSets, MeaningOfOthers

\* The triggers pass when they mean what the written ones mean.
LEMMA OnAlike ==
  ASSUME NEW on \in MaybeTrees
  PROVE  OnPasses(on) <=> Alike("on", on, TriggerNode)
<1> DEFINE m == TriggerNode
           push == mapping(on, "push")
           tags == mapping(push, "tags")
           mpush == mapping(m, "push")
           mtags == mapping(mpush, "tags")
           W == tagTexts
<1>1. /\ m \in UniqueTrees /\ m.kind = "mapping" /\ keysOf(m) = {"push", "workflow_dispatch"}
      /\ mpush \in UniqueTrees /\ mpush.kind = "mapping" /\ keysOf(mpush) = {"tags"}
      /\ mapping(m, "workflow_dispatch") \in UniqueTrees
      /\ mtags \in UniqueTrees /\ Meaning("tags", mtags) = <<"bag", OnceEach(W)>>
  BY WrittenOn
<1>2. push \in MaybeTrees /\ tags \in MaybeTrees
  BY UnderKey
<1>3. /\ sameStringSet(mapKeys(on), {"push", "workflow_dispatch"}) <=> keysOf(on) = {"push", "workflow_dispatch"}
      /\ sameStringSet(mapKeys(push), {"tags"}) <=> keysOf(push) = {"tags"}
      /\ keysOf(on) # {} => on \in UniqueTrees /\ on.kind = "mapping"
      /\ keysOf(push) # {} => push \in UniqueTrees /\ push.kind = "mapping"
  <2>1. IsFiniteSet({"push", "workflow_dispatch"}) /\ IsFiniteSet({"tags"})
    BY TriggerSets
  <2> HIDE DEF push
  <2> QED BY <1>2, <2>1, KeysAre
<1>4. OnPasses(on) <=> /\ keysOf(on) = {"push", "workflow_dispatch"} /\ keysOf(push) = {"tags"}
                       /\ sameStringSet(seqStrings(tags), W)
  BY <1>3, Zenon DEF OnPasses
<1>5. /\ "on" \in Word /\ "push" \in Word /\ "tags" \in Word
      /\ "on" # "workflow_dispatch" /\ "push" # "workflow_dispatch"
  BY TriggerSets
<1>6. ASSUME OnPasses(on) PROVE Alike("on", on, m)
  <2>1. /\ on \in UniqueTrees /\ on.kind = "mapping" /\ keysOf(on) = {"push", "workflow_dispatch"}
        /\ push \in UniqueTrees /\ push.kind = "mapping" /\ keysOf(push) = {"tags"}
    BY <1>3, <1>4, <1>6
  <2>2. tags \in UniqueTrees /\ Meaning("tags", tags) = <<"bag", OnceEach(W)>>
    <3>1. sameStringSet(seqStrings(tags), W)
      BY <1>4, <1>6, Zenon
    <3> HIDE DEF tags
    <3> QED BY <1>2, <3>1, TriggerSets, ListIs
  <2>3. Alike("tags", tags, mtags)
    BY <1>1, <2>2, Zenon DEF Alike
  <2>4. Alike("push", push, mpush)
    <3>1. \A k \in {"tags"} : Alike(k, mapping(push, k), mapping(mpush, k))
      BY <2>3
    <3> HIDE DEF push, mpush
    <3> QED BY <1>1, <1>5, <2>1, <3>1, AlikeEntries
  <2>5. Alike("workflow_dispatch", mapping(on, "workflow_dispatch"), mapping(m, "workflow_dispatch"))
    <3>1. mapping(on, "workflow_dispatch") \in UniqueTrees
      BY <2>1, UnderKey
    <3> QED BY <1>1, <3>1, TriggerMeaning DEF Alike
  <2>6. \A k \in {"push", "workflow_dispatch"} : Alike(k, mapping(on, k), mapping(m, k))
    BY <2>4, <2>5
  <2> HIDE DEF m
  <2> QED BY <1>1, <1>5, <2>1, <2>6, AlikeEntries
<1>7. ASSUME Alike("on", on, m) PROVE OnPasses(on)
  <2>1. on \in UniqueTrees /\ Meaning("on", on) = Meaning("on", m)
    <3>1. m # Nil
      BY <1>1, UniqueOf
    <3> QED BY <1>7, <3>1, Zenon DEF Alike
  <2> HIDE DEF m
  <2>2. keysOf(on) = {"push", "workflow_dispatch"} /\ Alike("push", push, mpush)
    BY <1>1, <1>5, <2>1, EntriesAlike
  <2> HIDE DEF push, mpush
  <2>3. push \in UniqueTrees /\ Meaning("push", push) = Meaning("push", mpush)
    <3>1. mpush # Nil
      BY <1>1, UniqueOf
    <3> QED BY <2>2, <3>1, Zenon DEF Alike
  <2>4. keysOf(push) = {"tags"} /\ Alike("tags", tags, mtags)
    BY <1>1, <1>5, <2>3, EntriesAlike
  <2> HIDE DEF tags, mtags
  <2>5. tags \in UniqueTrees /\ Meaning("tags", tags) = <<"bag", OnceEach(W)>>
    <3>1. mtags # Nil
      BY <1>1, UniqueOf
    <3> QED BY <1>1, <2>4, <3>1, Zenon DEF Alike
  <2>6. sameStringSet(seqStrings(tags), W)
    BY <2>5, TriggerSets, MeaningIsList
  <2> QED BY <1>4, <2>2, <2>4, <2>6, Zenon
<1> QED BY <1>6, <1>7, Zenon

PermissionsPass(permissions, top) ==
  /\ permissions.kind # "nil"
  /\ expectExactScalar(mapping(permissions, "contents"), top["contents"])
  /\ keysOf(permissions) \subseteq DOMAIN top

LEMMA PermissionsExact ==
  ASSUME NEW top, DOMAIN top = {"contents"}, GivenTexts(top), NEW n \in MaybeTrees
  PROVE  PermissionsPass(n, top) <=> expectExactScalars(n, top)
<1>1. top["contents"] # None
  BY DEF GivenTexts
<1>2. \A key \in DOMAIN top : key = "contents"
  OBVIOUS
<1>3. ASSUME PermissionsPass(n, top) PROVE expectExactScalars(n, top)
  <2>1. mapping(n, "contents") # Nil
    <3>1. expectExactScalar(mapping(n, "contents"), top["contents"])
      BY <1>3 DEF PermissionsPass
    <3> QED BY <1>1, <3>1, NilScalar, Zenon DEF expectExactScalar
  <2>2. n.kind = "mapping"
    BY <2>1, NoMapping
  <2> QED BY <1>2, <1>3, <2>2, Zenon DEF PermissionsPass, expectExactScalars
<1>4. ASSUME expectExactScalars(n, top) PROVE PermissionsPass(n, top)
  <2>1. n.kind # "nil" /\ "contents" \in DOMAIN top
    BY <1>4 DEF expectExactScalars
  <2> QED BY <1>4, <2>1, Zenon DEF PermissionsPass, expectExactScalars
<1> QED BY <1>3, <1>4, Zenon

-----------------------------------------------------------------------------
(* All jobs.                                                               *)

CutIn(lines) ==
  \/ \E i \in 1 .. Len(lines) - 1 : lines[i] \in Continued /\ lines[i + 1] \in {blank, comment}
  \/ \E i \in DOMAIN lines : lines[i] # TrimSpace(lines[i])

LEMMA NotCut ==
  ASSUME NEW lines, ~CutIn(lines), expressionComment \notin Range(lines)
  PROVE  IsTrimmed(lines) /\ IsUncut(lines)
<1>1. IsUncut(lines)
  BY Zenon DEF CutIn, IsUncut
<1>2. \A i \in DOMAIN lines : lines[i] # expressionComment
  BY Zenon DEF Range
<1>3. \A i \in DOMAIN lines : TrimSpace(lines[i]) = lines[i]
  BY Zenon DEF CutIn
<1> QED BY <1>1, <1>2, <1>3, Zenon DEF IsTrimmed

JobsPass(jobs, p) ==
  /\ jobs.kind # "nil"
  /\ checkJobSet(jobs, p)
  /\ \A i \in DOMAIN p.jobs : checkAcceptedJob(mapping(jobs, p.jobs[i].name), p.jobs[i])
  /\ checkActionPins(jobs) /\ checkCheckoutCredentials(jobs, p) /\ checkNoRunExpressions(jobs)

LEMMA JobNames ==
  ASSUME NEW p, WellMade(p)
  PROVE  /\ policyJobNames(p) # {} /\ policyJobNames(p) \subseteq Word \ SpecialKeys
         /\ \A i \in DOMAIN p.jobs : p.jobs[i].name \in policyJobNames(p) /\ WellMadeJob(p.jobs[i])
         /\ \A name \in policyJobNames(p) : \E i \in DOMAIN p.jobs : name = p.jobs[i].name
         /\ \A name \in policyJobNames(p) : name \in Word /\ name # "workflow_dispatch"
<1>1. \A i \in DOMAIN p.jobs : p.jobs[i].name \in policyJobNames(p) /\ WellMadeJob(p.jobs[i])
  BY Zenon DEF WellMade, policyJobNames, Range
<1>2. \A name \in policyJobNames(p) : \E i \in DOMAIN p.jobs : name = p.jobs[i].name
  BY Zenon DEF policyJobNames
<1>3. DOMAIN p.jobs # {}
  <2>1. p.jobs \in Seq(Range(p.jobs)) /\ p.jobs # <<>>
    BY Zenon DEF WellMade
  <2> QED BY <2>1, FullPlaces, Zenon
<1>4. policyJobNames(p) \subseteq Word \ SpecialKeys
  BY Zenon DEF WellMade
<1>5. "workflow_dispatch" \in SpecialKeys
  BY DEF SpecialKeys
<1>6. policyJobNames(p) # {}
  BY <1>1, <1>3, Zenon
<1>7. \A name \in policyJobNames(p) : name \in Word /\ name # "workflow_dispatch"
  BY <1>4, <1>5
<1> QED BY <1>1, <1>2, <1>4, <1>6, <1>7, Zenon

LEMMA WrittenJobsAre ==
  ASSUME NEW p, WellMade(p)
  PROVE  /\ JobsNode(p) \in UniqueTrees /\ JobsNode(p).kind = "mapping" /\ keysOf(JobsNode(p)) = policyJobNames(p)
         /\ \A i \in DOMAIN p.jobs : mapping(JobsNode(p), p.jobs[i].name) = JobNode(p.jobs[i])
BY WrittenJobs, Zenon DEF JobsNode, Tall

\* Jobs that pass mean the same as the written ones, when no continued line is cut.
LEMMA JobsNodeAlike ==
  ASSUME NEW p, WellMade(p), NEW jobs \in MaybeTrees, JobsPass(jobs, p), \A lines \in Runs(jobs) : ~CutIn(lines)
  PROVE  Alike("jobs", jobs, JobsNode(p))
<1> DEFINE m == JobsNode(p)
<1>1. keysOf(jobs) = policyJobNames(p)
  BY Zenon DEF JobsPass, checkJobSet
<1>2. jobs \in UniqueTrees /\ jobs.kind = "mapping"
  <2>1. keysOf(jobs) # {} => jobs.kind = "mapping"
    BY NoMapping
  <2> QED BY <1>1, <2>1, JobNames, KindOf
<1>3. m \in UniqueTrees /\ m.kind = "mapping" /\ keysOf(m) = policyJobNames(p)
  BY WrittenJobsAre
<1>4. ASSUME NEW name \in policyJobNames(p) PROVE Alike(name, mapping(jobs, name), mapping(m, name))
  <2>1. PICK i \in DOMAIN p.jobs : name = p.jobs[i].name
    BY JobNames
  <2> DEFINE n == mapping(jobs, name)
             q == p.jobs[i]
  <2>2. mapping(m, name) = JobNode(q)
    BY <2>1, WrittenJobsAre, Zenon
  <2>3. n \in UniqueTrees
    BY <1>1, <1>2, UnderKey DEF MaybeTrees
  <2>4. checkAcceptedJob(n, q)
    BY <2>1, Zenon DEF JobsPass
  <2>5. \A s \in Range(steps(n)) : s \in allSteps(jobs)
    BY <1>1, Zenon DEF allSteps
  <2>6. \A s \in Range(steps(n)) : Pinned(s)
    BY <2>5, Zenon DEF JobsPass, checkActionPins, Pinned
  <2>7. \A s \in Range(steps(n)) : RunOf(s) \in Runs(jobs) /\ expressionComment \notin Range(RunOf(s))
    BY <2>5, Zenon DEF JobsPass, checkNoRunExpressions, RunOf, Runs
  <2>8. \A s \in Range(steps(n)) : IsTrimmed(RunOf(s)) /\ IsUncut(RunOf(s))
    BY <2>7, NotCut, Zenon
  <2> HIDE DEF n, q
  <2>9. JobPasses(n, q) /\ JobUncut(n)
    BY <2>4, <2>6, <2>8, Zenon DEF JobPasses, JobUncut
  <2>10. WellMadeJob(q) /\ name \in Word /\ name # "workflow_dispatch"
    BY JobNames, Zenon DEF q
  <2>11. JobNode(q) \in UniqueTrees /\ JobPasses(JobNode(q), q) /\ JobUncut(JobNode(q))
    BY <2>10, WrittenJobPasses
  <2>12. Alike(name, n, JobNode(q))
    BY <2>3, <2>9, <2>10, <2>11, JobsAlike
  <2> QED BY <2>2, <2>12 DEF n
<1>5. "jobs" \in Word /\ "jobs" # "workflow_dispatch"
  BY WordAssumption
<1> HIDE DEF m
<1>6. Alike("jobs", jobs, m)
  BY <1>1, <1>2, <1>3, <1>4, <1>5, AlikeEntries
<1> QED BY <1>6 DEF m

\* Whatever means the same as the written jobs passes.
LEMMA AlikeJobsNode ==
  ASSUME NEW p, WellMade(p), NEW jobs, Alike("jobs", jobs, JobsNode(p))
  PROVE  JobsPass(jobs, p)
<1> DEFINE m == JobsNode(p)
<1>1. m \in UniqueTrees /\ m.kind = "mapping" /\ keysOf(m) = policyJobNames(p)
  BY WrittenJobsAre
<1>2. jobs \in UniqueTrees /\ Meaning("jobs", jobs) = Meaning("jobs", m)
  <2>1. m # Nil
    BY <1>1, UniqueOf
  <2> QED BY <2>1, Zenon DEF Alike
<1>3. "jobs" \in Word /\ "jobs" # "workflow_dispatch"
  BY WordAssumption
<1> HIDE DEF m
<1>4. jobs.kind = "mapping" /\ keysOf(jobs) = policyJobNames(p) /\ \A k : Alike(k, mapping(jobs, k), mapping(m, k))
  BY <1>1, <1>2, <1>3, EntriesAlike
<1>5. ASSUME NEW i \in DOMAIN p.jobs PROVE JobPasses(mapping(jobs, p.jobs[i].name), p.jobs[i])
  <2> DEFINE q == p.jobs[i]
             name == q.name
             n == mapping(jobs, name)
  <2>1. WellMadeJob(q) /\ name \in policyJobNames(p)
    BY JobNames, Zenon
  <2>2. name \in Word /\ name # "workflow_dispatch"
    BY <2>1, JobNames, Zenon
  <2>3. mapping(m, name) = JobNode(q)
    BY WrittenJobsAre, Zenon DEF m
  <2>4. Alike(name, n, JobNode(q))
    BY <1>4, <2>3, Zenon
  <2> HIDE DEF n, name, q
  <2>5. JobPasses(n, q)
    BY <2>1, <2>2, <2>4, AlikeJob
  <2> QED BY <2>5 DEF n, name, q
<1>6. \A s \in allSteps(jobs) : Pinned(s) /\ IsTrimmed(RunOf(s))
  <2> SUFFICES ASSUME NEW s \in allSteps(jobs) PROVE Pinned(s) /\ IsTrimmed(RunOf(s))
    OBVIOUS
  <2>1. PICK name \in keysOf(jobs) : s \in Range(steps(mapping(jobs, name)))
    BY Zenon DEF allSteps
  <2>2. PICK i \in DOMAIN p.jobs : name = p.jobs[i].name
    BY <1>4, <2>1, JobNames, Zenon
  <2>3. JobPasses(mapping(jobs, name), p.jobs[i])
    BY <1>5, <2>2, Zenon
  <2> QED BY <2>1, <2>3, Zenon DEF JobPasses
<1>7. checkActionPins(jobs)
  BY <1>6, Zenon DEF checkActionPins, Pinned
<1>8. checkNoRunExpressions(jobs)
  <2>1. \A s \in allSteps(jobs) : expressionComment \notin Range(RunOf(s))
    BY <1>6, Zenon DEF IsTrimmed, Range
  <2> QED BY <2>1, Zenon DEF checkNoRunExpressions, RunOf
<1>9. checkCheckoutCredentials(jobs, p)
  <2>1. keysOf(jobs) \ policyJobNames(p) = {}
    BY <1>4
  <2> QED BY <2>1, Zenon DEF checkCheckoutCredentials
<1>10. \A i \in DOMAIN p.jobs : checkAcceptedJob(mapping(jobs, p.jobs[i].name), p.jobs[i])
  BY <1>5, Zenon DEF JobPasses
<1>11. jobs.kind # "nil"
  BY <1>4
<1> QED BY <1>4, <1>7, <1>8, <1>9, <1>10, <1>11, Zenon DEF JobsPass, checkJobSet

-----------------------------------------------------------------------------
(* The workflow.                                                           *)

WorkflowPasses(r, p) ==
  /\ checkDuplicateKeys(r)
  /\ sameStringSet(mapKeys(r), rootNames)
  /\ expectExactScalar(mapping(r, "name"), p.workflowName)
  /\ expectExactScalars(mapping(r, "env"), p.env)
  /\ expectExactScalars(mapping(r, "concurrency"), p.concurrency)
  /\ OnPasses(mapping(r, "on"))
  /\ PermissionsPass(mapping(r, "permissions"), p.topPermission)
  /\ JobsPass(mapping(r, "jobs"), p)

LEMMA PassesIs ==
  ASSUME NEW p, WellMade(p), NEW r
  PROVE  checkWorkflowAgainstPolicy(r, p) <=> WorkflowPasses(r, p)
<1> DEFINE jobs == mapping(r, "jobs")
<1>1. /\ checkAcceptedReleasePolicyCatalogue(p) /\ p.rootKeys = rootNames /\ p.triggerKeys = {"push", "workflow_dispatch"}
      /\ p.pushKeys = {"tags"} /\ p.pushTags = {<<"v*">>}
  BY Zenon DEF WellMade, rootNames
<1>2. checkRoot(r, p) <=> /\ sameStringSet(mapKeys(r), rootNames)
                          /\ expectExactScalar(mapping(r, "name"), p.workflowName)
                          /\ expectExactScalars(mapping(r, "env"), p.env)
                          /\ expectExactScalars(mapping(r, "concurrency"), p.concurrency)
  BY <1>1, Zenon DEF checkRoot
<1>3. checkTriggers(r, p) <=> OnPasses(mapping(r, "on"))
  BY <1>1, Zenon DEF checkTriggers, OnPasses, tagTexts
<1>4. checkTopPermissions(r, p) <=> PermissionsPass(mapping(r, "permissions"), p.topPermission)
  BY Zenon DEF checkTopPermissions, PermissionsPass
<1>5. JobsPass(jobs, p) <=>
        /\ jobs.kind # "nil"
        /\ checkJobSet(jobs, p)
        /\ \A i \in DOMAIN p.jobs : checkAcceptedJob(mapping(jobs, p.jobs[i].name), p.jobs[i])
        /\ checkActionPins(jobs) /\ checkCheckoutCredentials(jobs, p) /\ checkNoRunExpressions(jobs)
  BY Zenon DEF JobsPass
<1>6. checkWorkflowAgainstPolicy(r, p) <=>
        /\ checkDuplicateKeys(r) /\ checkRoot(r, p) /\ checkTriggers(r, p) /\ checkTopPermissions(r, p)
        /\ JobsPass(jobs, p)
  BY <1>1, <1>5, Zenon DEF checkWorkflowAgainstPolicy
<1> QED BY <1>2, <1>3, <1>4, <1>6, Zenon DEF WorkflowPasses

LEMMA RootWords ==
  /\ IsFiniteSet(rootNames) /\ rootNames # {} /\ rootNames \subseteq Word
  /\ "" \in Word /\ "" # "workflow_dispatch" /\ "name" \in Word \ SpecialKeys
  /\ {"permissions", "env", "concurrency"} \subseteq Word /\ "workflow_dispatch" \notin {"permissions", "env", "concurrency"}
  /\ \A k \in rootNames : k = "name" \/ k = "on" \/ k \in {"permissions", "env", "concurrency"} \/ k = "jobs"
  /\ {"name", "on", "permissions", "env", "concurrency", "jobs"} \subseteq rootNames
<1>1. IsFiniteSet(rootNames)
  <2>1. \A S, x : IsFiniteSet(S) => IsFiniteSet(S \cup {x})
    BY FS_AddElement, Zenon
  <2> HIDE <2>1
  <2>2. IsFiniteSet({"name"})
    BY FS_Singleton, Zenon
  <2>3. IsFiniteSet(((({"name"} \cup {"on"}) \cup {"permissions"}) \cup {"env"}) \cup {"concurrency"})
    BY <2>1, <2>2, Zenon
  <2>4. IsFiniteSet((((({"name"} \cup {"on"}) \cup {"permissions"}) \cup {"env"}) \cup {"concurrency"}) \cup {"jobs"})
    BY <2>1, <2>3, Zenon
  <2>5. rootNames = (((({"name"} \cup {"on"}) \cup {"permissions"}) \cup {"env"}) \cup {"concurrency"}) \cup {"jobs"}
    BY DEF rootNames
  <2> QED BY <2>4, <2>5, Zenon
<1>2. rootNames \subseteq Word /\ rootNames # {}
  BY WordAssumption DEF rootNames
<1>3. "" \in Word /\ "name" \in Word \ SpecialKeys /\ {"permissions", "env", "concurrency"} \subseteq Word
  BY WordAssumption DEF SpecialKeys
<1>4. \A k \in rootNames : k = "name" \/ k = "on" \/ k \in {"permissions", "env", "concurrency"} \/ k = "jobs"
  BY DEF rootNames
<1>5. {"name", "on", "permissions", "env", "concurrency", "jobs"} \subseteq rootNames
  BY DEF rootNames
<1> QED BY <1>1, <1>2, <1>3, <1>4, <1>5

LEMMA WrittenRootIs ==
  ASSUME NEW p, WellMade(p)
  PROVE  /\ Workflow(p) \in UniqueTrees /\ Workflow(p).kind = "mapping" /\ keysOf(Workflow(p)) = rootNames
         /\ mapping(Workflow(p), "name") = Scalar(p.workflowName)
         /\ mapping(Workflow(p), "on") = TriggerNode
         /\ expectExactScalars(mapping(Workflow(p), "permissions"), p.topPermission)
         /\ expectExactScalars(mapping(Workflow(p), "env"), p.env)
         /\ expectExactScalars(mapping(Workflow(p), "concurrency"), p.concurrency)
         /\ mapping(Workflow(p), "jobs") = JobsNode(p)
<1> DEFINE m == Workflow(p)
<1>1. /\ m \in Tall(6) /\ m.kind = "mapping" /\ keysOf(m) = rootNames
      /\ mapping(m, "name") = Scalar(p.workflowName)
      /\ mapping(m, "on") = TriggerNode
      /\ mapping(m, "jobs") = JobsNode(p)
  BY WrittenRoot, Zenon
<1>2. /\ mapping(m, "permissions") = Mapping(Scalars(p.topPermission))
      /\ mapping(m, "env") = Mapping(Scalars(p.env))
      /\ mapping(m, "concurrency") = Mapping(Scalars(p.concurrency))
  BY WrittenRoot, Zenon
<1> HIDE DEF m
<1>3. GivenTexts(p.topPermission) /\ GivenTexts(p.env) /\ GivenTexts(p.concurrency)
  BY Zenon DEF WellMade
<1>4. \A f : GivenTexts(f) => expectExactScalars(Mapping(Scalars(f)), f)
  BY WrittenScalars, Zenon
<1>5. /\ expectExactScalars(mapping(m, "permissions"), p.topPermission)
      /\ expectExactScalars(mapping(m, "env"), p.env)
      /\ expectExactScalars(mapping(m, "concurrency"), p.concurrency)
  BY <1>2, <1>3, <1>4, Zenon
<1>6. m \in UniqueTrees
  BY <1>1, Zenon DEF Tall
<1> QED BY <1>1, <1>5, <1>6, Zenon DEF m

\* What passes means the same as the written workflow, when no continued line is cut.
LEMMA PassesAlike ==
  ASSUME NEW p, WellMade(p), NEW r \in AllTrees, WorkflowPasses(r, p), \A lines \in Runs(mapping(r, "jobs")) : ~CutIn(lines)
  PROVE  Meaning("", r) = Meaning("", Workflow(p))
<1> DEFINE m == Workflow(p)
<1>1. r \in UniqueTrees
  BY Zenon DEF WorkflowPasses, UniqueTrees
<1>2. r.kind = "mapping" /\ keysOf(r) = rootNames
  <2>1. sameStringSet(mapKeys(r), rootNames)
    BY Zenon DEF WorkflowPasses
  <2> QED BY <1>1, <2>1, RootWords, KeysAre DEF MaybeTrees
<1>3. \A k : mapping(r, k) \in MaybeTrees
  BY <1>1, UnderKey DEF MaybeTrees
<1>4. m \in UniqueTrees /\ m.kind = "mapping" /\ keysOf(m) = rootNames
  BY WrittenRootIs
<1>5. \A k : mapping(m, k) \in MaybeTrees
  <2> HIDE DEF m
  <2> QED BY <1>4, UnderKey DEF MaybeTrees
<1>6. Alike("name", mapping(r, "name"), mapping(m, "name"))
  <2>1. p.workflowName # None
    BY Zenon DEF WellMade
  <2>2. expectExactScalar(mapping(r, "name"), p.workflowName)
    BY Zenon DEF WorkflowPasses
  <2>3. mapping(r, "name") = Scalar(p.workflowName)
    <3> DEFINE x == mapping(r, "name")
               want == p.workflowName
    <3>1. x \in MaybeTrees /\ want # None /\ expectExactScalar(x, want)
      BY <1>3, <2>1, <2>2
    <3> HIDE DEF x, want
    <3>2. x = Scalar(want)
      BY <3>1, ExactScalar
    <3> QED BY <3>2 DEF x, want
  <2>4. mapping(m, "name") = mapping(r, "name")
    BY <2>3, WrittenRootIs
  <2> QED BY <1>3, <2>4, AlikeSame
<1>7. Alike("on", mapping(r, "on"), mapping(m, "on"))
  <2>1. OnPasses(mapping(r, "on"))
    BY Zenon DEF WorkflowPasses
  <2>2. mapping(m, "on") = TriggerNode
    BY WrittenRootIs, Zenon
  <2>3. Alike("on", mapping(r, "on"), TriggerNode)
    BY <1>3, <2>1, OnAlike
  <2> QED BY <2>2, <2>3
<1>8. ASSUME NEW k \in {"permissions", "env", "concurrency"} PROVE Alike(k, mapping(r, k), mapping(m, k))
  <2>1. ASSUME NEW f, GivenTexts(f), expectExactScalars(mapping(r, k), f), expectExactScalars(mapping(m, k), f)
        PROVE  Alike(k, mapping(r, k), mapping(m, k))
    <3>1. k \in Word /\ k # "workflow_dispatch"
      BY RootWords
    <3> DEFINE x == mapping(r, k)
               y == mapping(m, k)
    <3>2. x \in MaybeTrees /\ y \in MaybeTrees /\ expectExactScalars(x, f) /\ expectExactScalars(y, f)
      BY <1>3, <1>5, <2>1
    <3> HIDE DEF x, y
    <3>3. Alike(k, x, y)
      BY <2>1, <3>1, <3>2, ScalarsAlike
    <3> QED BY <3>3 DEF x, y
  <2>2. GivenTexts(p.topPermission) /\ GivenTexts(p.env) /\ GivenTexts(p.concurrency) /\ DOMAIN p.topPermission = {"contents"}
    BY Zenon DEF WellMade
  <2>3. /\ expectExactScalars(mapping(m, "permissions"), p.topPermission)
        /\ expectExactScalars(mapping(m, "env"), p.env)
        /\ expectExactScalars(mapping(m, "concurrency"), p.concurrency)
    BY WrittenRootIs, Zenon
  <2>4. /\ PermissionsPass(mapping(r, "permissions"), p.topPermission)
        /\ expectExactScalars(mapping(r, "env"), p.env)
        /\ expectExactScalars(mapping(r, "concurrency"), p.concurrency)
    BY Zenon DEF WorkflowPasses
  <2>5. expectExactScalars(mapping(r, "permissions"), p.topPermission)
    <3> DEFINE x == mapping(r, "permissions")
               f == p.topPermission
    <3>1. x \in MaybeTrees /\ DOMAIN f = {"contents"} /\ GivenTexts(f) /\ PermissionsPass(x, f)
      BY <1>3, <2>2, <2>4
    <3> HIDE DEF x, f
    <3>2. expectExactScalars(x, f)
      BY <3>1, PermissionsExact
    <3> QED BY <3>2 DEF x, f
  <2>6. CASE k = "permissions"
    BY <2>1, <2>2, <2>3, <2>5, <2>6, Zenon
  <2>7. CASE k = "env"
    BY <2>1, <2>2, <2>3, <2>4, <2>7, Zenon
  <2>8. CASE k = "concurrency"
    BY <2>1, <2>2, <2>3, <2>4, <2>8, Zenon
  <2> QED BY <2>6, <2>7, <2>8
<1>9. Alike("jobs", mapping(r, "jobs"), mapping(m, "jobs"))
  <2> DEFINE jobs == mapping(r, "jobs")
  <2>1. JobsPass(jobs, p) /\ jobs \in MaybeTrees /\ \A lines \in Runs(jobs) : ~CutIn(lines)
    BY <1>3, Zenon DEF WorkflowPasses
  <2>2. mapping(m, "jobs") = JobsNode(p)
    BY WrittenRootIs, Zenon
  <2> HIDE DEF jobs
  <2>3. Alike("jobs", jobs, JobsNode(p))
    BY <2>1, JobsNodeAlike
  <2> QED BY <2>2, <2>3, Zenon DEF jobs
<1> HIDE DEF m
<1>10. \A k \in rootNames : Alike(k, mapping(r, k), mapping(m, k))
  BY <1>6, <1>7, <1>8, <1>9, RootWords
<1>11. Alike("", r, m)
  BY <1>1, <1>2, <1>4, <1>10, RootWords, AlikeEntries
<1>12. r # Nil
  BY <1>1, UniqueOf
<1> QED BY <1>11, <1>12, Zenon DEF Alike, m

\* Whatever means the same as the written workflow passes.
LEMMA AlikePasses ==
  ASSUME NEW p, WellMade(p), NEW r \in UniqueTrees, Meaning("", r) = Meaning("", Workflow(p))
  PROVE  WorkflowPasses(r, p)
<1> DEFINE m == Workflow(p)
<1>1. m \in UniqueTrees /\ m.kind = "mapping" /\ keysOf(m) = rootNames
  BY WrittenRootIs
<1>2. Meaning("", r) = Meaning("", m)
  OBVIOUS
<1>3. /\ mapping(m, "name") = Scalar(p.workflowName) /\ mapping(m, "on") = TriggerNode /\ mapping(m, "jobs") = JobsNode(p)
      /\ expectExactScalars(mapping(m, "permissions"), p.topPermission)
      /\ expectExactScalars(mapping(m, "env"), p.env)
      /\ expectExactScalars(mapping(m, "concurrency"), p.concurrency)
  BY WrittenRootIs, Zenon
<1> HIDE DEF m
<1>4. r.kind = "mapping" /\ keysOf(r) = rootNames /\ \A k : Alike(k, mapping(r, k), mapping(m, k))
  BY <1>1, <1>2, RootWords, EntriesAlike
<1>5. sameStringSet(mapKeys(r), rootNames)
  BY <1>4, RootWords, KeysAre DEF MaybeTrees
<1>6. expectExactScalar(mapping(r, "name"), p.workflowName)
  <2> DEFINE x == mapping(r, "name")
             want == p.workflowName
  <2>1. Alike("name", x, Scalar(want)) /\ "name" \in Word \ SpecialKeys
    BY <1>3, <1>4, RootWords, Zenon
  <2> HIDE DEF x, want
  <2>2. x = Scalar(want)
    BY <2>1, AlikeText
  <2>3. expectExactScalar(x, want)
    BY <2>2, ScalarIsExact
  <2> QED BY <2>3 DEF x, want
<1>7. ASSUME NEW k \in {"permissions", "env", "concurrency"}, NEW f, GivenTexts(f), expectExactScalars(mapping(m, k), f)
      PROVE  expectExactScalars(mapping(r, k), f)
  <2> DEFINE x == mapping(r, k)
             y == mapping(m, k)
  <2>1. Alike(k, x, y) /\ k \in Word /\ k # "workflow_dispatch" /\ expectExactScalars(y, f)
    BY <1>4, <1>7, RootWords
  <2> HIDE DEF x, y
  <2>2. expectExactScalars(x, f)
    BY <1>7, <2>1, AlikeScalars
  <2> QED BY <2>2 DEF x
<1>8. GivenTexts(p.topPermission) /\ GivenTexts(p.env) /\ GivenTexts(p.concurrency) /\ DOMAIN p.topPermission = {"contents"}
  BY Zenon DEF WellMade
<1>9. expectExactScalars(mapping(r, "env"), p.env) /\ expectExactScalars(mapping(r, "concurrency"), p.concurrency)
  BY <1>3, <1>7, <1>8
<1>10. PermissionsPass(mapping(r, "permissions"), p.topPermission)
  <2> DEFINE x == mapping(r, "permissions")
             f == p.topPermission
  <2>1. expectExactScalars(x, f) /\ DOMAIN f = {"contents"} /\ GivenTexts(f)
    BY <1>3, <1>7, <1>8
  <2>2. x \in MaybeTrees
    BY UnderKey DEF MaybeTrees
  <2> HIDE DEF x, f
  <2>3. PermissionsPass(x, f)
    BY <2>1, <2>2, PermissionsExact
  <2> QED BY <2>3 DEF x, f
<1>11. OnPasses(mapping(r, "on"))
  <2>1. Alike("on", mapping(r, "on"), TriggerNode)
    BY <1>3, <1>4, Zenon
  <2>2. mapping(r, "on") \in MaybeTrees
    BY UnderKey DEF MaybeTrees
  <2> QED BY <2>1, <2>2, OnAlike
<1>12. JobsPass(mapping(r, "jobs"), p)
  <2> DEFINE jobs == mapping(r, "jobs")
  <2>1. Alike("jobs", jobs, JobsNode(p))
    BY <1>3, <1>4, Zenon
  <2> HIDE DEF jobs
  <2>2. JobsPass(jobs, p)
    BY <2>1, AlikeJobsNode
  <2> QED BY <2>2 DEF jobs
<1>13. checkDuplicateKeys(r)
  BY Zenon DEF UniqueTrees
<1> QED BY <1>5, <1>6, <1>9, <1>10, <1>11, <1>12, <1>13, Zenon DEF WorkflowPasses

-----------------------------------------------------------------------------
(* A node that means what a node without repeated keys means repeats none. *)

Tag(key, n) == Meaning(key, n)[1]

LEMMA TagsOf ==
  ASSUME NEW n \in AllTrees, NEW key \in Word, key # "workflow_dispatch"
  PROVE  /\ n.kind = "mapping" /\ IsInjective(mapKeys(n)) => Tag(key, n) = "mapping"
         /\ n.kind = "mapping" /\ ~IsInjective(mapKeys(n)) => Tag(key, n) = "invalid"
         /\ n.kind = "sequence" => Tag(key, n) = IF key \in {"needs", "tags"} THEN "bag" ELSE "sequence"
         /\ n.kind = "scalar" => /\ Tag(key, n) \in {"commands", "pinned action", "bag", "text"}
                                 /\ Tag(key, n) = "bag" => key = "needs"
         /\ n.kind = "alias" => Tag(key, n) = "alias"
<1>1. n.kind = "mapping" /\ IsInjective(mapKeys(n)) => Tag(key, n) = "mapping"
  BY MeaningOfEntries, PairOf, Zenon DEF Tag
<1>2. n.kind = "mapping" /\ ~IsInjective(mapKeys(n)) => Tag(key, n) = "invalid"
  <2>1. n.kind = "mapping" /\ ~IsInjective(mapKeys(n)) => Meaning(key, n) = <<"invalid">>
    BY MeaningOfNodes
  <2> QED BY <2>1, OneOf, Zenon DEF Tag
<1>3. n.kind = "sequence" => Tag(key, n) = IF key \in {"needs", "tags"} THEN "bag" ELSE "sequence"
  <2>1. key \in {"needs", "tags"} /\ n.kind = "sequence" => Meaning(key, n) = <<"bag", Bag(MeaningsOf(n))>>
    BY MeaningOfNodes, Zenon
  <2>2. key \notin {"needs", "tags"} /\ n.kind = "sequence" => Meaning(key, n) = <<"sequence", MeaningsOf(n)>>
    BY MeaningOfNodes, Zenon
  <2>3. key \in {"needs", "tags"} /\ n.kind = "sequence" => Tag(key, n) = "bag"
    BY <2>1, PairOf, Zenon DEF Tag
  <2>4. key \notin {"needs", "tags"} /\ n.kind = "sequence" => Tag(key, n) = "sequence"
    BY <2>2, PairOf, Zenon DEF Tag
  <2> QED BY <2>3, <2>4
<1>4. n.kind = "alias" => Tag(key, n) = "alias"
  BY MeaningOfNodes, OneOf, Zenon DEF Tag
<1>5. n.kind = "scalar" => Tag(key, n) = ScalarMeaning(key, n.value)[1]
  BY MeaningOfNodes, Zenon DEF Tag
<1>6. \A value : ScalarMeaning(key, value)[1] = "bag" => key = "needs"
  BY DEF ScalarMeaning
<1> QED BY <1>1, <1>2, <1>3, <1>4, <1>5, <1>6, MeaningTags, Zenon

LEMMA EntryMeanings ==
  ASSUME NEW n \in AllTrees, n.kind = "mapping", NEW m \in UniqueTrees, NEW key \in Word, key # "workflow_dispatch",
         Meaning(key, n) = Meaning(key, m)
  PROVE  /\ IsInjective(mapKeys(n))
         /\ \A i \in DOMAIN Children(n) : \E u \in UniqueTrees : Meaning(ChildKey(n, i), Children(n)[i]) = Meaning(ChildKey(n, i), u)
<1>1. m.kind \in {"scalar", "sequence", "mapping", "alias"} /\ IsInjective(mapKeys(m)) /\ m \in AllTrees
  BY KindOf, UniqueOf DEF MaybeTrees
<1>2. Tag(key, n) = Tag(key, m)
  BY DEF Tag
<1>3. m.kind = "mapping" /\ IsInjective(mapKeys(n))
  <2>1. Tag(key, n) \in {"mapping", "invalid"}
    BY TagsOf
  <2>2. m.kind # "mapping" => Tag(key, m) \in {"bag", "sequence", "commands", "pinned action", "text", "alias"}
    BY <1>1, TagsOf
  <2>3. m.kind = "mapping" => Tag(key, m) = "mapping"
    BY <1>1, TagsOf
  <2>4. ~IsInjective(mapKeys(n)) => Tag(key, n) = "invalid"
    BY TagsOf
  <2> QED BY <1>2, <2>1, <2>2, <2>3, <2>4
<1> DEFINE f == [k \in keysOf(n) |-> Meaning(k, mapping(n, k))]
           g == [k \in keysOf(m) |-> Meaning(k, mapping(m, k))]
<1>4. Meaning(key, n) = <<"mapping", f>> /\ Meaning(key, m) = <<"mapping", g>>
  BY <1>3, MeaningOfEntries, MeaningOfMapping, Zenon
<1>5. /\ DOMAIN f = keysOf(n) /\ DOMAIN g = keysOf(m)
      /\ (\A k \in keysOf(n) : f[k] = Meaning(k, mapping(n, k))) /\ (\A k \in keysOf(m) : g[k] = Meaning(k, mapping(m, k)))
  BY Zenon
<1> HIDE DEF f, g
<1>6. f = g
  <2>1. \A x, y : <<"mapping", x>> = <<"mapping", y>> => x = y
    OBVIOUS
  <2> QED BY <1>4, <2>1, Zenon
<1>7. \A k \in keysOf(n) : k \in keysOf(m) /\ Meaning(k, mapping(n, k)) = Meaning(k, mapping(m, k))
  BY <1>5, <1>6, Zenon
<1>8. IsMapping(n, AllTrees)
  <2>1. n = Alias \/ IsScalar(n) \/ IsMapping(n, AllTrees) \/ IsSequence(n, AllTrees)
    BY NodeOf
  <2> QED BY <2>1 DEF Alias, IsScalar, IsSequence
<1>9. \A i \in DOMAIN n.entries : n.entries[i].key \in keysOf(n) /\ mapping(n, n.entries[i].key) = n.entries[i].node
  BY <1>3, <1>8, MappingOf
<1>10. DOMAIN Children(n) = DOMAIN n.entries
       /\ \A i \in DOMAIN n.entries : Children(n)[i] = n.entries[i].node /\ ChildKey(n, i) = n.entries[i].key
  BY DEF Children, ChildKey
<1>11. \A k \in keysOf(m) : mapping(m, k) \in UniqueTrees
  BY UnderKey DEF MaybeTrees
<1>12. ASSUME NEW i \in DOMAIN Children(n)
       PROVE  \E u \in UniqueTrees : Meaning(ChildKey(n, i), Children(n)[i]) = Meaning(ChildKey(n, i), u)
  <2> DEFINE k == ChildKey(n, i)
  <2>1. k \in keysOf(n) /\ mapping(n, k) = Children(n)[i]
    BY <1>9, <1>10, Zenon
  <2>2. mapping(m, k) \in UniqueTrees /\ Meaning(k, Children(n)[i]) = Meaning(k, mapping(m, k))
    BY <1>7, <1>11, <2>1, Zenon
  <2> QED BY <2>2, Zenon
<1> QED BY <1>3, <1>12

LEMMA ItemMeanings ==
  ASSUME NEW n \in AllTrees, n.kind = "sequence", NEW m \in UniqueTrees, NEW key \in Word, key # "workflow_dispatch",
         Meaning(key, n) = Meaning(key, m)
  PROVE  \A i \in DOMAIN Children(n) : \E u \in UniqueTrees : Meaning("", Children(n)[i]) = Meaning("", u)
<1>1. m.kind \in {"scalar", "sequence", "mapping", "alias"} /\ IsInjective(mapKeys(m)) /\ m \in AllTrees
  BY KindOf, UniqueOf DEF MaybeTrees
<1>2. Tag(key, n) = Tag(key, m)
  BY DEF Tag
<1>3. DOMAIN Children(n) = DOMAIN MeaningsOf(n) /\ \A i \in DOMAIN Children(n) : MeaningsOf(n)[i] = Meaning("", Children(n)[i])
  <2>1. \A i : ChildKey(n, i) = ""
    BY DEF ChildKey
  <2> QED BY <2>1, Zenon DEF MeaningsOf
<1>4. CASE m.kind = "sequence"
  <2>1. Range(MeaningsOf(n)) \subseteq Range(MeaningsOf(m))
    <3>1. CASE key \in {"needs", "tags"}
      <4> DEFINE a == MeaningsOf(n)
                 b == MeaningsOf(m)
      <4>1. Meaning(key, n) = <<"bag", Bag(a)>> /\ Meaning(key, m) = <<"bag", Bag(b)>>
        BY <1>1, <1>4, <3>1, MeaningOfNodes, Zenon
      <4> HIDE DEF a, b
      <4>2. \A x, y : <<"bag", x>> = <<"bag", y>> => x = y
        OBVIOUS
      <4>3. Bag(a) = Bag(b)
        BY <4>1, <4>2, Zenon
      <4>4. DOMAIN Bag(a) = Range(a) /\ DOMAIN Bag(b) = Range(b)
        BY Zenon DEF Bag
      <4> QED BY <4>3, <4>4, Zenon DEF a, b
    <3>2. CASE key \notin {"needs", "tags"}
      <4> DEFINE a == MeaningsOf(n)
                 b == MeaningsOf(m)
      <4>1. Meaning(key, n) = <<"sequence", a>> /\ Meaning(key, m) = <<"sequence", b>>
        BY <1>1, <1>4, <3>2, MeaningOfNodes, Zenon
      <4> HIDE DEF a, b
      <4>2. \A x, y : <<"sequence", x>> = <<"sequence", y>> => x = y
        OBVIOUS
      <4>3. a = b
        BY <4>1, <4>2, Zenon
      <4> QED BY <4>3, Zenon DEF a, b
    <3> QED BY <3>1, <3>2
  <2>2. DOMAIN Children(m) = DOMAIN MeaningsOf(m) /\ \A i \in DOMAIN Children(m) : MeaningsOf(m)[i] = Meaning("", Children(m)[i])
    <3>1. \A i : ChildKey(m, i) = ""
      BY <1>4 DEF ChildKey
    <3> QED BY <3>1, Zenon DEF MeaningsOf
  <2>3. \A i \in DOMAIN Children(m) : Children(m)[i] \in UniqueTrees
    BY UniqueOf
  <2> SUFFICES ASSUME NEW i \in DOMAIN Children(n) PROVE \E u \in UniqueTrees : Meaning("", Children(n)[i]) = Meaning("", u)
    OBVIOUS
  <2>4. Meaning("", Children(n)[i]) \in Range(MeaningsOf(m))
    BY <1>3, <2>1, Zenon DEF Range
  <2>5. PICK j \in DOMAIN Children(m) : Meaning("", Children(n)[i]) = Meaning("", Children(m)[j])
    BY <2>2, <2>4, Zenon DEF Range
  <2> QED BY <2>3, <2>5, Zenon
<1>5. CASE m.kind # "sequence"
  <2>1. m.kind = "scalar" /\ key = "needs"
    <3>1. Tag(key, n) \in {"bag", "sequence"}
      BY TagsOf
    <3>2. m.kind = "mapping" => Tag(key, m) = "mapping"
      BY <1>1, TagsOf
    <3>3. m.kind = "alias" => Tag(key, m) = "alias"
      BY <1>1, TagsOf
    <3>4. m.kind = "scalar" => Tag(key, m) \in {"commands", "pinned action", "bag", "text"} /\ (Tag(key, m) = "bag" => key = "needs")
      BY <1>1, TagsOf
    <3> QED BY <1>1, <1>2, <1>5, <3>1, <3>2, <3>3, <3>4
  <2> DEFINE words == m.value
             one == <<"text", words>>
             a == MeaningsOf(n)
             b == <<one>>
  <2>2. m = Scalar(words) /\ words \in Text
    BY <2>1, KindOf DEF MaybeTrees, IsScalar
  <2>3. Meaning("", m) = one
    BY <2>2, PlainKey, TextOf
  <2>4. Meaning(key, n) = <<"bag", Bag(a)>>
    BY <2>1, MeaningOfNodes
  <2>5. Meaning(key, m) = <<"bag", Bag(b)>>
    <3>1. Meaning(key, m) = ScalarMeaning("needs", words)
      BY <1>1, <2>1, MeaningOfNodes
    <3> HIDE DEF words
    <3>2. ScalarMeaning("needs", words) = <<"bag", Bag(<<<<"text", words>>>>)>>
      BY DEF ScalarMeaning
    <3> QED BY <3>1, <3>2, Zenon
  <2> HIDE DEF one, a
  <2>6. Range(b) = {one}
    BY DEF Range
  <2> HIDE DEF b
  <2>7. \A x, y : <<"bag", x>> = <<"bag", y>> => x = y
    OBVIOUS
  <2>8. Bag(a) = Bag(b)
    BY <2>4, <2>5, <2>7, Zenon
  <2>9. DOMAIN Bag(a) = Range(a) /\ DOMAIN Bag(b) = Range(b)
    BY Zenon DEF Bag
  <2>10. Range(a) = {one}
    BY <2>6, <2>8, <2>9, Zenon
  <2>11. \A i \in DOMAIN Children(n) : Meaning("", Children(n)[i]) = one
    BY <1>3, <2>10, Zenon DEF a, Range
  <2> QED BY <2>3, <2>11, Zenon
<1> QED BY <1>4, <1>5

LEMMA ChildMeanings ==
  ASSUME NEW n \in AllTrees, NEW m \in UniqueTrees, NEW key \in Word, Meaning(key, n) = Meaning(key, m)
  PROVE  \/ n \in UniqueTrees
         \/ /\ IsInjective(mapKeys(n))
            /\ \A i \in DOMAIN Children(n) : \E u \in UniqueTrees : Meaning(ChildKey(n, i), Children(n)[i]) = Meaning(ChildKey(n, i), u)
<1>1. CASE key = "workflow_dispatch"
  <2>1. Meaning(key, m) = <<"trigger">>
    BY <1>1, MeaningOfOthers
  <2>2. ~checkDuplicateKeys(n) => Meaning(key, n) = <<"invalid">>
    BY <1>1, MeaningOfNodes
  <2>3. <<"trigger">> # <<"invalid">>
    OBVIOUS
  <2> QED BY <2>1, <2>2, <2>3, Zenon DEF UniqueTrees
<1>2. CASE key # "workflow_dispatch"
  <2>1. n = Alias \/ IsScalar(n) \/ IsMapping(n, AllTrees) \/ IsSequence(n, AllTrees)
    BY NodeOf
  <2>2. n.kind \in {"mapping", "sequence", "scalar", "alias"}
    BY <2>1 DEF IsMapping, IsSequence, IsScalar, Alias
  <2>3. n.kind # "mapping" => mapKeys(n) = <<>> /\ IsInjective(mapKeys(n))
    <3>1. IsInjective(<<>>)
      BY NoPlaces DEF IsInjective
    <3> QED BY <3>1 DEF mapKeys
  <2>4. CASE n.kind = "mapping"
    BY <1>2, <2>4, EntryMeanings
  <2>5. CASE n.kind = "sequence"
    <3>1. \A i : ChildKey(n, i) = ""
      BY <2>5 DEF ChildKey
    <3>2. \A i \in DOMAIN Children(n) : \E u \in UniqueTrees : Meaning("", Children(n)[i]) = Meaning("", u)
      BY <1>2, <2>5, ItemMeanings
    <3>3. IsInjective(mapKeys(n))
      BY <2>3, <2>5
    <3>4. ASSUME NEW i \in DOMAIN Children(n)
          PROVE  \E u \in UniqueTrees : Meaning(ChildKey(n, i), Children(n)[i]) = Meaning(ChildKey(n, i), u)
      <4>1. PICK u \in UniqueTrees : Meaning("", Children(n)[i]) = Meaning("", u)
        BY <3>2
      <4> DEFINE k == ChildKey(n, i)
                 empty == ""
                 c == Children(n)[i]
      <4>2. k = empty /\ Meaning(empty, c) = Meaning(empty, u)
        BY <3>1, <4>1
      <4> HIDE DEF k, empty, c
      <4>3. Meaning(k, c) = Meaning(k, u)
        BY <4>2
      <4> QED BY <4>3 DEF k, c
    <3> QED BY <3>3, <3>4
  <2>6. CASE n.kind \in {"scalar", "alias"}
    <3>1. Children(n) = <<>>
      BY <2>6 DEF Children
    <3>2. IsInjective(mapKeys(n))
      BY <2>3, <2>6
    <3> QED BY <3>1, <3>2, NoPlaces, Zenon
  <2> QED BY <2>2, <2>4, <2>5, <2>6
<1> QED BY <1>1, <1>2

LEMMA SameIsUnique ==
  \A n \in AllTrees, m \in UniqueTrees, key \in Word : Meaning(key, n) = Meaning(key, m) => n \in UniqueTrees
<1> DEFINE P == {d \in Nat : \A n \in Trees[d] \cap AllTrees, m \in UniqueTrees, key \in Word :
                               Meaning(key, n) = Meaning(key, m) => n \in UniqueTrees}
<1>1. ASSUME NEW d \in Nat,
             NEW n \in AllTrees, NEW m \in UniqueTrees, NEW key \in Word, Meaning(key, n) = Meaning(key, m),
             \A i \in DOMAIN Children(n) : \A u \in UniqueTrees, k \in Word :
               Meaning(k, Children(n)[i]) = Meaning(k, u) => Children(n)[i] \in UniqueTrees
      PROVE  n \in UniqueTrees
  <2> SUFFICES ASSUME /\ IsInjective(mapKeys(n))
                      /\ \A i \in DOMAIN Children(n) : \E u \in UniqueTrees : Meaning(ChildKey(n, i), Children(n)[i]) = Meaning(ChildKey(n, i), u)
               PROVE  n \in UniqueTrees
    BY <1>1, ChildMeanings, Zenon
  <2>1. \A i \in DOMAIN Children(n) : ChildKey(n, i) \in Word
    BY NodeOf
  <2>2. \A i \in DOMAIN Children(n) : Children(n)[i] \in UniqueTrees
    BY <1>1, <2>1, Zenon
  <2>3. \A i \in DOMAIN Children(n) : checkDuplicateKeys(Children(n)[i])
    BY <2>2, Zenon DEF UniqueTrees
  <2>4. checkDuplicateKeys(n)
    BY <2>3, NodeOf, Zenon
  <2> QED BY <2>4, Zenon DEF UniqueTrees
<1>2. 0 \in P
  <2> SUFFICES ASSUME NEW n \in Trees[0] \cap AllTrees, NEW m \in UniqueTrees, NEW key \in Word, Meaning(key, n) = Meaning(key, m)
               PROVE  n \in UniqueTrees
    OBVIOUS
  <2>1. Children(n) = <<>>
    BY TreeChildren
  <2>2. \A i \in DOMAIN Children(n) : \A u \in UniqueTrees, k \in Word :
          Meaning(k, Children(n)[i]) = Meaning(k, u) => Children(n)[i] \in UniqueTrees
    BY <2>1, NoPlaces, Zenon
  <2>3. n \in AllTrees /\ 0 \in Nat
    OBVIOUS
  <2> QED BY <1>1, <2>2, <2>3, Zenon
<1>3. ASSUME NEW d \in P PROVE d + 1 \in P
  <2>1. d \in Nat /\ d + 1 \in Nat /\ Lower(d + 1) = Trees[d]
    <3>1. d \in Nat
      OBVIOUS
    <3> HIDE DEF P
    <3> QED BY <3>1 DEF Lower
  <2> SUFFICES ASSUME NEW n \in Trees[d + 1] \cap AllTrees, NEW m \in UniqueTrees, NEW key \in Word, Meaning(key, n) = Meaning(key, m)
               PROVE  n \in UniqueTrees
    BY <2>1
  <2>2. \A i \in DOMAIN Children(n) : Children(n)[i] \in Trees[d]
    BY <2>1, TreeChildren
  <2>3. \A i \in DOMAIN Children(n) : Children(n)[i] \in AllTrees
    BY NodeOf
  <2>4. \A c \in Trees[d] \cap AllTrees, u \in UniqueTrees, k \in Word : Meaning(k, c) = Meaning(k, u) => c \in UniqueTrees
    BY Zenon
  <2>5. \A i \in DOMAIN Children(n) : \A u \in UniqueTrees, k \in Word :
          Meaning(k, Children(n)[i]) = Meaning(k, u) => Children(n)[i] \in UniqueTrees
    BY <2>2, <2>3, <2>4, Zenon
  <2>6. n \in AllTrees
    OBVIOUS
  <2> QED BY <1>1, <2>1, <2>5, <2>6, Zenon
<1>4. P \in SUBSET Nat
  OBVIOUS
<1>5. \A d \in Nat : d \in P
  <2> HIDE DEF P
  <2> QED BY <1>2, <1>3, <1>4, NumbersByInduction
<1>6. MaxDepth \in Nat
  BY DepthAssumption
<1> QED BY <1>5, <1>6, Zenon DEF AllTrees

-----------------------------------------------------------------------------
\* The inductive invariant: a workflow that is edited stays within the levels there are.
TreeInv == instance \in Instances /\ (Examined => root \in AllTrees)

LEMMA ExaminedIsMade ==
  ASSUME TreeInv, Examined
  PROVE  WellMade(instance.policy) /\ root \in AllTrees
BY PolicyAssumption DEF TreeInv, Examined

LEMMA TreeInvHolds == WorkflowSpec => []TreeInv
<1>1. WorkflowInit => TreeInv
  <2> SUFFICES ASSUME WorkflowInit, Examined PROVE root \in AllTrees
    BY DEF WorkflowInit, TreeInv
  <2>1. WellMade(instance.policy) /\ root = Workflow(instance.policy)
    BY PolicyAssumption DEF WorkflowInit, Examined
  <2> QED BY <2>1, WrittenRootIs, UniqueOf
<1>2. TreeInv /\ [WorkflowNext]_workflowVars => TreeInv'
  <2> SUFFICES ASSUME TreeInv, [WorkflowNext]_workflowVars PROVE TreeInv'
    OBVIOUS
  <2>1. CASE EditWorkflow
    BY <2>1 DEF EditWorkflow, TreeInv, AllTrees
  <2>2. CASE UNCHANGED workflowVars
    BY <2>2 DEF workflowVars, TreeInv, Examined, AllTrees
  <2> QED BY <2>1, <2>2 DEF WorkflowNext
<1> QED BY <1>1, <1>2, PTL DEF WorkflowSpec

(* checkWorkflowAgainstPolicy accepts no workflow that differs in a        *)
(* trigger, guard, permission, need, action or command from the one the    *)
(* catalogue describes, but for a continued line cut in two: for every     *)
(* catalogue newAcceptedReleasePolicy makes, and any number of edits.      *)
THEOREM AcceptedIsSame == WorkflowSpec => []AcceptedMeansSame
<1>1. TreeInv => AcceptedMeansSame
  <2> SUFFICES ASSUME TreeInv, Examined, PolicyAccepted, ~ContinuationCut PROVE MeansTheSame
    BY DEF AcceptedMeansSame
  <2>1. WellMade(instance.policy) /\ root \in AllTrees
    BY ExaminedIsMade
  <2>2. WorkflowPasses(root, instance.policy)
    BY <2>1, PassesIs DEF PolicyAccepted
  <2>3. \A lines \in Runs(mapping(root, "jobs")) : ~CutIn(lines)
    BY Zenon DEF ContinuationCut, CutIn
  <2> QED BY <2>1, <2>2, <2>3, PassesAlike DEF MeansTheSame
<1> QED BY <1>1, TreeInvHolds, PTL

(* checkWorkflowAgainstPolicy reports nothing of a workflow that GitHub    *)
(* and the shell take for the one the catalogue describes, whatever the    *)
(* order of its keys, needs and tags, its comments and the commits its     *)
(* actions are pinned to.                                                  *)
THEOREM SameAlwaysAccepted == WorkflowSpec => []SameIsAccepted
<1>1. TreeInv => SameIsAccepted
  <2> SUFFICES ASSUME TreeInv, Examined, MeansTheSame PROVE PolicyAccepted
    BY DEF SameIsAccepted
  <2>1. WellMade(instance.policy) /\ root \in AllTrees
    BY ExaminedIsMade
  <2>2. Workflow(instance.policy) \in UniqueTrees /\ "" \in Word
    BY <2>1, WrittenRootIs, RootWords
  <2>3. root \in UniqueTrees
    BY <2>1, <2>2, SameIsUnique DEF MeansTheSame
  <2>4. WorkflowPasses(root, instance.policy)
    BY <2>1, <2>3, AlikePasses DEF MeansTheSame
  <2> QED BY <2>1, <2>4, PassesIs DEF PolicyAccepted
<1> QED BY <1>1, TreeInvHolds, PTL

=============================================================================
