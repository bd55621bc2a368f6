---------------------------- MODULE EvidenceIndex ----------------------------
(***************************************************************************)
(* checkRepo of tools/evidencebaseline/main.go on a tree: a function from  *)
(* paths, sequences of parts, to the files that are there.  A directory    *)
(* exists by the files under it, as in git.  Every check is a predicate,   *)
(* TRUE where the source reports nothing and returns no error.             *)
(* checkBundle is module EvidenceBundle's subject; here a bundle is a file *)
(* of sums that pins one log.                                              *)
(***************************************************************************)
EXTENDS Naturals, FiniteSets, SequencesExt

baselineRef == <<"docs", "evidence-baseline.md">>
summaryDocsManifestRef == <<"docs", "evidence-baseline-summary-docs.txt">>
evidenceRoot == <<"docs", "evidence">>
Markdown == {"a.md", "b.md"}

File(text) == [kind |-> "file", text |-> text]
Symlink == [kind |-> "symlink"]
deleted == [kind |-> "deleted"]
IsEntry(entry) == entry.kind \in {"file", "symlink"}

Kind(repo, path) ==
  IF path \in DOMAIN repo THEN repo[path].kind
  ELSE IF \E p \in DOMAIN repo : IsStrictPrefix(path, p) THEN "dir" ELSE "absent"

Paths == Seq(STRING)
safeRepoRelativeRef(ref) == ref \in Paths \ {<<>>} /\ Range(ref) \cap {"", ".", ".."} = {}

\* What os.Lstat says of a path whose parents are directories.
lstatRepoRelative(repo, ref) ==
  IF safeRepoRelativeRef(ref) /\ \A i \in 1 .. Len(ref) - 1 : Kind(repo, SubSeq(ref, 1, i)) = "dir"
  THEN Kind(repo, ref) ELSE "finding"

\* The references of a cell, all of them under docs; an unsafe one is a finding wherever it stands.
evidenceRefs(cell) == {ref \in cell : IsStrictPrefix(evidenceRoot, ref)}
summaryRefs(cell) == {ref \in cell : Last(ref) \in Markdown}
safeCell(cell) == \A ref \in cell : safeRepoRelativeRef(ref)

\* The table: its header and separator may be wrong; a row has columns, a lane and two cells of references.
parseBaselineIndex(table) ==
  /\ table.header /\ table.separator /\ table.rows # <<>>
  /\ \A i \in DOMAIN table.rows : table.rows[i].columns = 5 /\ table.rows[i].lane # ""
  /\ \A i, j \in DOMAIN table.rows : table.rows[i].lane = table.rows[j].lane => i = j

rowHolds(repo, row) ==
  /\ safeCell(row.raw) /\ safeCell(row.summary)
  /\ \A ref \in evidenceRefs(row.raw) : lstatRepoRelative(repo, ref) \in {"file", "dir"}
  /\ \A ref \in summaryRefs(row.summary) : lstatRepoRelative(repo, ref) = "file"

\* canonical: sorted, nothing twice, no space around a line.
checkSummaryDocsManifest(repo, want) ==
  /\ lstatRepoRelative(repo, summaryDocsManifestRef) = "file"
  /\ LET got == repo[summaryDocsManifestRef].text IN got.canonical /\ got.refs = want

evidenceBundleForRef(repo, ref) ==
  IF Len(ref) >= 4 \/ (Len(ref) = 3 /\ Kind(repo, ref) \in {"dir", "symlink"}) THEN {SubSeq(ref, 1, 3)} ELSE {}

discoverEvidenceBundles(repo) ==
  {bundle \in {SubSeq(p, 1, 3) : p \in {q \in DOMAIN repo : IsStrictPrefix(evidenceRoot, q)}} :
     Kind(repo, bundle) \in {"dir", "symlink"} /\ Last(bundle) # ".hidden"}

checkBundle(repo, bundle) ==
  LET sums == Append(bundle, "SHA256SUMS")
      log == Append(bundle, "log")
  IN /\ Kind(repo, bundle) = "dir" /\ Kind(repo, sums) = "file" /\ Kind(repo, log) = "file"
     /\ repo[sums].text = repo[log].text

checkRepo(repo) ==
  /\ lstatRepoRelative(repo, baselineRef) = "file"
  /\ LET table == repo[baselineRef].text
         rows == Range(table.rows)
     IN /\ parseBaselineIndex(table)
        /\ \A row \in rows : rowHolds(repo, row)
        /\ checkSummaryDocsManifest(repo, UNION {summaryRefs(row.summary) : row \in rows})
        /\ lstatRepoRelative(repo, evidenceRoot) = "dir"
        /\ \A bundle \in discoverEvidenceBundles(repo)
                 \cup UNION {UNION {evidenceBundleForRef(repo, ref) : ref \in evidenceRefs(row.raw)} : row \in rows} :
             checkBundle(repo, bundle)
=============================================================================
