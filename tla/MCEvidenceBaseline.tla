------------------------- MODULE MCEvidenceBaseline -------------------------
(***************************************************************************)
(* The evidence baseline checker at work on files: ManifestWrite with      *)
(* interchangeable lists, and EvidenceBundle on trees with one directory   *)
(* beside the control files, one file outside, and lists of up to two      *)
(* lines.  A behaviour is about the one or the other.                      *)
(***************************************************************************)
EXTENDS ManifestWrite, EvidenceBundle

A == <<"a.log">>
D == <<"d">>
DA == <<"d", "a.log">>
DReadme == <<"d", "README.md">>
DMeta == <<"d", ".DS_Store">>
Meta == <<".DS_Store">>
MetaFile == <<".DS_Store", "x">>
Up == <<"..">>
Outside == <<"..", "x">>

MCPaths == {<<>>, README, SHA256SUMS, Signature, A, D, DA, DReadme, DMeta, Meta, MetaFile, Up, Outside}
MCContents == {"c1", "c2"}

\* A good bundle of one file; the trees differ from it in some places.
Good == [p \in MCPaths |->
           CASE p \in {<<>>, Up} -> "dir"
             [] p \in {README, SHA256SUMS, A, Outside} -> "c1"
             [] OTHER -> "absent"]

BrokenRoots ==
  {[p \in MCPaths |-> IF p = <<>> THEN k ELSE IF k = "link" \/ p[1] = ".." THEN Good[p] ELSE "absent"] :
     k \in {"absent", "link", "c1"}}

ControlTrees ==
  {[Good EXCEPT ![README] = r, ![SHA256SUMS] = s, ![Signature] = g] :
     r \in {"absent", "link", "dir", "c1"}, s \in {"absent", "link", "other", "c1"},
     g \in {"absent", "link", "dir", "c1"}}

\* d and what is under it; nothing is, unless d is a directory or leads to one.
EvidenceTrees ==
  {[Good EXCEPT ![A] = a, ![Meta] = m] : a \in {"absent", "dir", "link", "other"} \cup MCContents, m \in {"absent", "link", "c1"}}
  \cup
  {[Good EXCEPT ![A] = a, ![Meta] = m, ![MetaFile] = "c1"] : a \in {"absent", "c1"}, m \in {"dir", "link"}}
  \cup
  {[Good EXCEPT ![A] = a, ![D] = d, ![DA] = da, ![DReadme] = r, ![DMeta] = m] :
     a \in {"absent", "c1"}, d \in {"dir", "link"}, da \in {"absent", "link", "other", "c1", "c2"},
     r \in {"absent", "c1", "c2"}, m \in {"absent", "c1"}}

MCTrees == BrokenRoots \cup ControlTrees \cup EvidenceTrees

Line(f, paths, hashes) == [form : {f}, path : paths, hash : hashes]

MCLines ==
  Line("blank", {<<>>}, {"bad hash"}) \cup Line("refused", {<<>>}, {"bad hash"})
  \cup Line("entry", {A}, {"c1", "c2", "bad hash"}) \cup Line("entry", {DA}, MCContents)
  \cup Line("entry", {D, DReadme, README, DMeta, MetaFile, Outside}, {"c1"})

MCSumsFiles == UNION {[1..n -> MCLines] : n \in 0..2}

BundleIdle ==
  /\ tree = <<>> /\ sums = <<>> /\ pass = "idle" /\ next = 1
  /\ entries = <<>> /\ opened = {} /\ findings = FALSE /\ ioError = FALSE
ManifestIdle == Init /\ baseline = "broken" /\ manifest = "absent"

MCInit == (Init /\ BundleIdle) \/ (ManifestIdle /\ BundleInit)
MCNext == (Next /\ BundleIdle /\ UNCHANGED bundleVars) \/ (BundleNext /\ UNCHANGED vars)
MCSpec == MCInit /\ [][MCNext]_<<vars, bundleVars>>

ListSymmetry == Permutations(Lists)
=============================================================================
