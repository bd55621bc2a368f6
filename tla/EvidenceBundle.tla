--------------------------- MODULE EvidenceBundle ---------------------------
(***************************************************************************)
(* checkBundle of tools/evidencebaseline: whether the SHA256SUMS file of a *)
(* bundle under docs/evidence accounts for the raw files of the bundle.    *)
(* The tree and the lines of SHA256SUMS are chosen at the start; the steps *)
(* are the passes of the checker over them.                                *)
(*                                                                         *)
(* A path is a sequence of names, <<>> the root of the bundle.  A node is  *)
(* the content of a regular file, or what else lstat finds there.  Opening *)
(* a path follows symlinks on the way, so a path behind a symlink has the  *)
(* node that is found by following it.  A hash is the content it is of.    *)
(***************************************************************************)
EXTENDS Naturals, SequencesExt

CONSTANTS
  Paths,       \* every path the instance knows, <<>> among them
  FileContents, \* contents of regular files
  Trees,       \* the trees to check
  SumsFiles    \* the SHA256SUMS files to check, as sequences of lines

Special == {"absent", "dir", "link", "other"}

\* A line of SHA256SUMS: nothing but white space, refused for its form, or a hash
\* and a path.  The hash may be one that is not 64 lowercase hex digits.
BadHash == "bad hash"
Lines == [form : {"blank", "refused", "entry"}, path : Paths, hash : FileContents \cup {BadHash}]

README == <<"README.md">>
SHA256SUMS == <<"SHA256SUMS">>
Signature == <<"SHA256SUMS.sig">>

Parents(p) == {SubSeq(p, 1, n) : n \in 0..(Len(p) - 1)}

\* safeBundleRelativePath: no way up, and not the bundle itself.
Safe(p) == p # <<>> /\ ".." \notin Range(p)

\* Nodes can be told apart and a path has its parents.  What is there is in
\* directories, or is reached by following links.
ASSUME ConstantsAgree ==
  /\ (Special \cup {BadHash}) \cap FileContents = {}
  /\ Paths \subseteq Seq(STRING) /\ {<<>>, README, SHA256SUMS, Signature} \subseteq Paths
  /\ \A p \in Paths : Parents(p) \subseteq Paths
  /\ Trees \subseteq [Paths -> Special \cup FileContents] /\ SumsFiles \subseteq Seq(Lines)
  /\ \A t \in Trees, p \in Paths : Safe(p) /\ t[p] # "absent" => \A q \in Parents(p) : t[q] \in {"dir", "link"}

VARIABLES
  tree, sums,   \* the bundle: chosen at the start, never changed
  pass,         \* the pass at work
  next,         \* the line or entry it looks at
  entries,      \* the entries parsed so far
  opened,       \* the paths whose content was read
  findings,     \* whether there is a finding
  ioError       \* whether an operation of the file system failed

bundleVars == <<tree, sums, pass, next, entries, opened, findings, ioError>>

BundleInit ==
  /\ tree \in Trees
  /\ sums \in SumsFiles
  /\ pass = "root"
  /\ next = 1
  /\ entries = <<>>
  /\ opened = {}
  /\ findings = FALSE
  /\ ioError = FALSE

-----------------------------------------------------------------------------
CheckRoot ==
  /\ pass = "root"
  /\ pass' = IF tree[<<>>] = "dir" THEN "control" ELSE "done"
  /\ findings' = (tree[<<>>] # "dir")
  /\ UNCHANGED <<tree, sums, next, entries, opened, ioError>>

IsRegular(p) == tree[p] \in FileContents

\* validateBundleControlFile and its optional form; no list, no further pass.
CheckControlFiles ==
  /\ pass = "control"
  /\ findings' = ~(/\ IsRegular(README) /\ IsRegular(SHA256SUMS)
                   /\ tree[Signature] = "absent" \/ IsRegular(Signature))
  /\ pass' = IF IsRegular(SHA256SUMS) THEN "parse" ELSE "done"
  /\ UNCHANGED <<tree, sums, next, entries, opened, ioError>>

\* parseSHA256SUMS: what a line adds to the entries, and whether it is a finding.
\* A bad hash and a repeated path are findings, and are entries all the same.
Parsed(line) == IF line.form = "entry" /\ Safe(line.path) THEN <<line>> ELSE <<>>

Complaint(line) ==
  \/ line.form = "refused"
  \/ /\ line.form = "entry"
     /\ \/ ~Safe(line.path)
        \/ line.hash = BadHash
        \/ \E e \in Range(entries) : e.path = line.path

ParseLine ==
  /\ pass = "parse"
  /\ next <= Len(sums)
  /\ entries' = entries \o Parsed(sums[next])
  /\ findings' = (findings \/ Complaint(sums[next]))
  /\ next' = next + 1
  /\ UNCHANGED <<tree, sums, pass, opened, ioError>>

ParseEnd ==
  /\ pass = "parse"
  /\ next > Len(sums)
  /\ findings' = (findings \/ entries = <<>>)
  /\ pass' = "verify"
  /\ next' = 1
  /\ UNCHANGED <<tree, sums, entries, opened, ioError>>

\* Slip: only the last name of a path is looked at, what os.Lstat does by itself.
lstatLastOnly(p) == tree[p]

\* lstatChecksumEntry: name by name; a name under anything but a real directory
\* has a finding of its own, here "absent".
lstatChecksumEntry(p) ==
  IF \A q \in Parents(p) : tree[q] = "dir" THEN tree[p] ELSE "absent"

\* verifySHA256Entry: open, hash and compare what is a regular file.
VerifyEntry ==
  /\ pass = "verify"
  /\ next <= Len(entries)
  /\ LET e == entries[next] IN
       IF lstatChecksumEntry(e.path) \in FileContents
         THEN /\ opened' = opened \cup {e.path}
              /\ findings' = (findings \/ tree[e.path] # e.hash)
         ELSE /\ findings' = TRUE
              /\ UNCHANGED opened
  /\ next' = next + 1
  /\ UNCHANGED <<tree, sums, pass, entries, ioError>>

VerifyEnd ==
  /\ pass = "verify"
  /\ next > Len(entries)
  /\ pass' = "walk"
  /\ UNCHANGED <<tree, sums, next, entries, opened, findings, ioError>>

\* Slips: control files are ignored at any depth, local metadata at the top only.
ignoredAtAnyDepth(p) == Last(p) \in {"README.md", "SHA256SUMS", "SHA256SUMS.sig", ".DS_Store"}
ignoredAtTop(p) == p \in {README, SHA256SUMS, Signature, <<".DS_Store">>}

ignoredBundleEntry(p) == p \in {README, SHA256SUMS, Signature} \/ Last(p) = ".DS_Store"

\* What filepath.WalkDir hands to the callback of bundleRawFiles: everything that
\* is there, without following a symlink; an ignored directory is walked as well.
Walked == {p \in Paths :
             Safe(p) /\ tree[p] # "absent" /\ \A q \in Parents(p) : tree[q] = "dir"}

RawEntries == {p \in Walked : ~ignoredBundleEntry(p) /\ tree[p] # "dir"}

\* bundleRawFiles, and the comparison with the paths of the entries.
Walk ==
  /\ pass = "walk"
  /\ findings' = (findings \/ \E p \in RawEntries :
                    ~IsRegular(p) \/ \A e \in Range(entries) : e.path # p)
  /\ pass' = "done"
  /\ UNCHANGED <<tree, sums, next, entries, opened, ioError>>

\* An operation of the file system fails, which is a finding wherever it happens:
\* verification goes on with the next entry, the control files with the next
\* one; an error about SHA256SUMS itself and the other passes end the check.
OperationFails ==
  /\ findings' = TRUE
  /\ ioError' = TRUE
  /\ \/ /\ pass = "verify" /\ next <= Len(entries)
        /\ next' = next + 1
        /\ UNCHANGED pass
     \/ /\ pass = "control" /\ IsRegular(SHA256SUMS)
        /\ pass' = "parse"
        /\ UNCHANGED next
     \/ /\ pass \in {"root", "control", "parse", "walk"}
        /\ pass' = "done"
        /\ UNCHANGED next
  /\ UNCHANGED <<tree, sums, entries, opened>>

BundleNext ==
  \/ CheckRoot \/ CheckControlFiles \/ ParseLine \/ ParseEnd
  \/ VerifyEntry \/ VerifyEnd \/ Walk \/ OperationFails

BundleSpec == BundleInit /\ [][BundleNext]_bundleVars

-----------------------------------------------------------------------------
\* The variables hold values of their kinds; no entry has an unsafe path.
BundleTypeOK ==
  /\ tree \in Trees /\ sums \in SumsFiles
  /\ pass \in {"root", "control", "parse", "verify", "walk", "done"}
  /\ next \in 1..(Len(sums) + 1)
  /\ entries \in Seq(Lines) /\ \A e \in Range(entries) : e.form = "entry" /\ Safe(e.path)
  /\ opened \subseteq Paths
  /\ {findings, ioError} \subseteq BOOLEAN

Passed == pass = "done" /\ ~findings

\* The evidence: every regular file that a reader of the bundle can open below
\* its root, behind a symlink or not, but for the control files and the metadata
\* that macOS leaves behind.
Metadata == ".DS_Store"
Evidence ==
  {p \in Paths : /\ Safe(p) /\ IsRegular(p)
                 /\ p \notin {README, SHA256SUMS, Signature}
                 /\ Last(p) # Metadata
                 /\ ~\E q \in Parents(p) : q # <<>> /\ Last(q) = Metadata /\ tree[q] = "link"}

Listed == {line \in Range(sums) : line.form = "entry"}

\* A bundle that passes is pinned by its SHA256SUMS: each piece of evidence is
\* listed with its content, so no file can be added, removed or changed without
\* changing the list ("covering every raw transcript in the bundle",
\* docs/evidence/README.md).
PassPinsEvidence ==
  Passed => /\ \A p \in Evidence : \E e \in Listed : e.path = p
            /\ \A e \in Listed : tree[e.path] = e.hash

\* The checker hashes nothing but regular files that are in the bundle: no path
\* with "..", and none through a symlink, whatever SHA256SUMS says.
ReadsInside ==
  \A p \in opened : ".." \notin Range(p) /\ IsRegular(p)
                    /\ \A q \in Parents(p) : tree[q] = "dir"

\* The list that sha256sum writes for a bundle of plain files passes, with blank
\* lines or without, in any order, and with or without the control files.
WellMade ==
  /\ \A p \in Paths : Safe(p) => tree[p] \notin {"link", "other"}
  /\ tree[<<>>] = "dir" /\ IsRegular(README) /\ IsRegular(SHA256SUMS)
  /\ tree[Signature] # "dir"
  /\ Listed # {} /\ \A line \in Range(sums) : line.form # "refused"
  /\ \A e \in Listed : Safe(e.path) /\ tree[e.path] = e.hash
  /\ \A m, n \in DOMAIN sums : sums[m] = sums[n] /\ sums[m] \in Listed => m = n
  /\ \A p \in Evidence : \E e \in Listed : e.path = p

WellMadePasses == pass = "done" /\ ~ioError /\ WellMade => ~findings
=============================================================================
