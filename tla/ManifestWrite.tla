--------------------------- MODULE ManifestWrite ---------------------------
(***************************************************************************)
(* The summary-doc manifest of tools/evidencebaseline as files on disk.    *)
(* Writers are runs of --write-summary-docs: read the baseline, check the  *)
(* place of the manifest, fill a temporary file, rename it.  Readers are   *)
(* runs of the checker: read the baseline, look at the place, read the     *)
(* file, compare.  Any file operation may fail, a writer may be killed at  *)
(* any point, and the baseline is edited meanwhile.                        *)
(*                                                                         *)
(* A list stands for the text made from it.  Reading and parsing the       *)
(* baseline is one step, and nobody but a writer changes the manifest.     *)
(***************************************************************************)
EXTENDS Naturals

CONSTANTS
  Writers, Readers,   \* runs; each does one command and exits
  Lists,              \* the lists of summary docs a baseline can name
  Inodes,             \* files, each with the name it is created under
  Committed,          \* the file that may be there from the start
  MaxEdits            \* bound on the edits of the baseline

ASSUME CommittedIsAnInode == Committed \in Inodes
ASSUME EditsAreCounted == MaxEdits \in Nat

\* What the manifest's path can hold beside a regular file: nothing, a symlink,
\* something else, or a path with a symlinked or missing parent.
NoFile == {"absent", "symlink", "irregular", "unreachable"}

ASSUME NoFileIsNoInode == (NoFile \cup {"none"}) \cap Inodes = {}
ASSUME MarksAreNoLists == {"broken", "none", "torn"} \cap Lists = {}

VARIABLES
  baseline,    \* the list the baseline names, or "broken" if it has findings
  edits,       \* edits of the baseline so far
  manifest,    \* the file at the manifest's path, or why there is none
  file,        \* file[i]: the list it is meant to hold, how much of it, its mode
  linked,      \* temporary files that are still in the directory
  pc,          \* pc[w]: the next operation of writer w
  docs,        \* docs[w]: the list w writes
  temp,        \* temp[w]: the temporary file of w
  outcome,     \* outcome[w]: "none", "ok", "err" or "killed"
  undeleted,   \* writers whose deferred os.Remove failed
  rpc,         \* rpc[r]: the next operation of reader r
  want,        \* want[r]: the list r found in the baseline
  open,        \* open[r]: the file r has opened
  first,       \* first[r]: what the first read of the file returned
  got,         \* got[r]: the list r read, as a set of at most one
  verdict      \* verdict[r]: "none", "pass" or "findings"

writerVars == <<pc, docs, temp, outcome, undeleted>>
readerVars == <<rpc, want, open, first, got, verdict>>
fileVars == <<manifest, file, linked>>
vars == <<baseline, edits, fileVars, writerVars, readerVars>>

WriterPoints == {"baseline", "place", "create", "write", "chmod", "close",
                 "rename", "remove", "exit"}
ReaderPoints == {"baseline", "place", "open", "read", "reread", "compare", "exit"}
Baselines == Lists \cup {"broken"}
Contents == [list : Lists \cup {"none"}, size : {"empty", "part", "whole"},
             mode : {"0600", "0644"}]

NewFile == [list |-> "none", size |-> "empty", mode |-> "0600"]

Init ==
  /\ baseline \in Baselines
  /\ edits = 0
  /\ manifest \in {Committed} \cup NoFile
  /\ file \in {[i \in Inodes |->
                  IF i = Committed
                    THEN [list |-> l, size |-> "whole", mode |-> "0644"]
                    ELSE NewFile] :
               l \in Lists}
  /\ linked = {}
  /\ pc = [w \in Writers |-> "baseline"]
  /\ docs = [w \in Writers |-> "none"]
  /\ temp = [w \in Writers |-> "none"]
  /\ outcome = [w \in Writers |-> "none"]
  /\ undeleted = {}
  /\ rpc = [r \in Readers |-> "baseline"]
  /\ want = [r \in Readers |-> "none"]
  /\ open = [r \in Readers |-> "none"]
  /\ first = [r \in Readers |-> "none"]
  /\ got = [r \in Readers |-> {}]
  /\ verdict = [r \in Readers |-> "none"]

-----------------------------------------------------------------------------
(* The writer: main and writeSummaryDocsManifest.                          *)

Goto(w, p) ==
  /\ pc' = [pc EXCEPT ![w] = p]
  /\ UNCHANGED <<baseline, edits, readerVars>>

Exit(w, o) ==
  /\ Goto(w, "exit")
  /\ outcome' = [outcome EXCEPT ![w] = o]

\* summaryDocsFromBaseline; findings and read errors end the run here.
ReadBaseline(w) ==
  /\ pc[w] = "baseline"
  /\ \/ /\ baseline \in Lists
        /\ docs' = [docs EXCEPT ![w] = baseline]
        /\ Goto(w, "place")
        /\ UNCHANGED outcome
     \/ /\ Exit(w, "err")
        /\ UNCHANGED docs
  /\ UNCHANGED <<fileVars, temp, undeleted>>

\* summaryDocsManifestWritePath: a file may be missing, nothing else.
CheckPlace(w) ==
  /\ pc[w] = "place"
  /\ IF manifest \in Inodes \cup {"absent"}
       THEN Goto(w, "create") /\ UNCHANGED outcome
       ELSE Exit(w, "err")
  /\ UNCHANGED <<fileVars, docs, temp, undeleted>>

\* Slip: one name for all runs, os.Create in place of os.CreateTemp.
CreateTempFixedName(w) ==
  /\ pc[w] = "create"
  /\ \E i \in Inodes \ {Committed} :
       /\ IF linked = {} THEN \A v \in Writers : temp[v] # i ELSE i \in linked
       /\ temp' = [temp EXCEPT ![w] = i]
       /\ file' = [file EXCEPT ![i] = NewFile]
       /\ linked' = linked \cup {i}
  /\ Goto(w, "write")
  /\ UNCHANGED <<manifest, docs, outcome, undeleted>>

\* Slip: the manifest itself is created and filled.
CreateInPlace(w) ==
  /\ pc[w] = "create"
  /\ \E i \in Inodes \ {Committed} :
       /\ \A v \in Writers : temp[v] # i
       /\ temp' = [temp EXCEPT ![w] = i]
       /\ file' = [file EXCEPT ![i] = NewFile]
       /\ manifest' = i
  /\ Goto(w, "write")
  /\ UNCHANGED <<linked, docs, outcome, undeleted>>

\* os.CreateTemp: a new file, mode 0600, under a name that nobody has.
CreateTemp(w) ==
  /\ pc[w] = "create"
  /\ \E i \in Inodes \ {Committed} :
       /\ \A v \in Writers : temp[v] # i
       /\ temp' = [temp EXCEPT ![w] = i]
       /\ file' = [file EXCEPT ![i] = NewFile]
       /\ linked' = linked \cup {i}
  /\ Goto(w, "write")
  /\ UNCHANGED <<manifest, docs, outcome, undeleted>>

\* tmp.WriteString, which may reach the file in two parts.
WritePart(w) ==
  /\ pc[w] = "write"
  /\ file[temp[w]].size = "empty"
  /\ file' = [file EXCEPT ![temp[w]] = [list |-> docs[w], size |-> "part", mode |-> @.mode]]
  /\ Goto(w, "write")
  /\ UNCHANGED <<manifest, linked, docs, temp, outcome, undeleted>>

WriteRest(w) ==
  /\ pc[w] = "write"
  /\ file' = [file EXCEPT ![temp[w]] = [list |-> docs[w], size |-> "whole", mode |-> @.mode]]
  /\ Goto(w, "chmod")
  /\ UNCHANGED <<manifest, linked, docs, temp, outcome, undeleted>>

\* Slip: the file is put in place before it gets its mode.
ChmodAfterRename(w) ==
  /\ pc[w] = "chmod"
  /\ manifest' = temp[w]
  /\ file' = [file EXCEPT ![temp[w]] = [@ EXCEPT !.mode = "0644"]]
  /\ Goto(w, "close")
  /\ UNCHANGED <<linked, docs, temp, outcome, undeleted>>

Chmod(w) ==
  /\ pc[w] = "chmod"
  /\ file' = [file EXCEPT ![temp[w]] = [@ EXCEPT !.mode = "0644"]]
  /\ Goto(w, "close")
  /\ UNCHANGED <<manifest, linked, docs, temp, outcome, undeleted>>

CloseTemp(w) ==
  /\ pc[w] = "close"
  /\ Goto(w, "rename")
  /\ UNCHANGED <<fileVars, docs, temp, outcome, undeleted>>

\* Slip: a manifest that is there already is kept, as os.Link would.
RenameKeepsOld(w) ==
  /\ pc[w] = "rename"
  /\ manifest' = IF manifest = "absent" THEN temp[w] ELSE manifest
  /\ linked' = linked \ {temp[w]}
  /\ Exit(w, "ok")
  /\ UNCHANGED <<file, docs, temp, undeleted>>

\* os.Rename replaces the directory entry; readers keep the file they opened.
Rename(w) ==
  /\ pc[w] = "rename"
  /\ manifest' = temp[w]
  /\ linked' = linked \ {temp[w]}
  /\ Exit(w, "ok")
  /\ UNCHANGED <<file, docs, temp, undeleted>>

\* Slip: the error of WriteString is not looked at.
FailUnlessWriting(w) ==
  /\ \/ pc[w] \in {"place", "create"} /\ Exit(w, "err")
     \/ pc[w] = "write" /\ Goto(w, "chmod") /\ UNCHANGED outcome
     \/ /\ pc[w] \in {"chmod", "close", "rename"}
        /\ Goto(w, "remove")
        /\ outcome' = [outcome EXCEPT ![w] = "err"]
  /\ UNCHANGED <<fileVars, docs, temp, undeleted>>

\* Slip: the removal is not deferred but written out, and missing in one place.
FailWithoutRemove(w) ==
  /\ \/ pc[w] \in {"place", "create", "rename"} /\ Exit(w, "err")
     \/ /\ pc[w] \in {"write", "chmod", "close"}
        /\ Goto(w, "remove")
        /\ outcome' = [outcome EXCEPT ![w] = "err"]
  /\ UNCHANGED <<fileVars, docs, temp, undeleted>>

\* An operation returns an error; once the file exists the deferred call is due.
Fail(w) ==
  /\ \/ pc[w] \in {"place", "create"} /\ Exit(w, "err")
     \/ /\ pc[w] \in {"write", "chmod", "close", "rename"}
        /\ Goto(w, "remove")
        /\ outcome' = [outcome EXCEPT ![w] = "err"]
  /\ UNCHANGED <<fileVars, docs, temp, undeleted>>

\* The deferred os.Remove, whose own error is dropped.
RemoveTemp(w) ==
  /\ pc[w] = "remove"
  /\ \/ linked' = linked \ {temp[w]} /\ UNCHANGED undeleted
     \/ undeleted' = undeleted \cup {w} /\ UNCHANGED linked
  /\ Goto(w, "exit")
  /\ UNCHANGED <<manifest, file, docs, temp, outcome>>

\* The process is killed: no deferred call runs.
Kill(w) ==
  /\ pc[w] # "exit"
  /\ Exit(w, "killed")
  /\ UNCHANGED <<fileVars, docs, temp, undeleted>>

-----------------------------------------------------------------------------
(* The reader: checkRepo as far as the manifest is concerned.              *)

RGoto(r, p) ==
  /\ rpc' = [rpc EXCEPT ![r] = p]
  /\ UNCHANGED <<baseline, edits, fileVars, writerVars>>

\* checkRepo goes on after findings; a read error ends it.
ParseBaseline(r) ==
  /\ rpc[r] = "baseline"
  /\ want' = [want EXCEPT ![r] = baseline]
  /\ RGoto(r, "place")
  /\ UNCHANGED <<open, first, got, verdict>>

\* lstatRepoRelative and the tests of readSummaryDocsManifest.
LookAtPlace(r) ==
  /\ rpc[r] = "place"
  /\ manifest \in Inodes
  /\ RGoto(r, "open")
  /\ UNCHANGED <<want, open, first, got, verdict>>

\* os.ReadFile opens whatever the path names by now.
OpenManifest(r) ==
  /\ rpc[r] = "open"
  /\ manifest \in Inodes
  /\ open' = [open EXCEPT ![r] = manifest]
  /\ RGoto(r, "read")
  /\ UNCHANGED <<want, first, got, verdict>>

\* What a read returns now: the list, if the whole of it is there.
TextOf(i) == IF file[i].size = "whole" THEN file[i].list ELSE "torn"

ReadFirst(r) ==
  /\ rpc[r] = "read"
  /\ first' = [first EXCEPT ![r] = TextOf(open[r])]
  /\ RGoto(r, "reread")
  /\ UNCHANGED <<want, open, got, verdict>>

ReadRest(r) ==
  /\ rpc[r] = "reread"
  /\ got' = [got EXCEPT ![r] = {IF TextOf(open[r]) = first[r] THEN first[r] ELSE "torn"}]
  /\ RGoto(r, "compare")
  /\ UNCHANGED <<want, open, first, verdict>>

\* slices.Equal(got, want), with the findings of the baseline if it had any.
Compare(r) ==
  /\ rpc[r] = "compare"
  /\ verdict' = [verdict EXCEPT ![r] =
                   IF want[r] \in Lists /\ got[r] = {want[r]} THEN "pass" ELSE "findings"]
  /\ RGoto(r, "exit")
  /\ UNCHANGED <<want, open, first, got>>

\* A missing or refused manifest, or a failing file operation.
ReaderFails(r) ==
  /\ rpc[r] \in {"baseline", "place", "open", "read", "reread"}
  /\ verdict' = [verdict EXCEPT ![r] = "findings"]
  /\ RGoto(r, "exit")
  /\ UNCHANGED <<want, open, first, got>>

-----------------------------------------------------------------------------
\* The author edits docs/evidence-baseline.md.
EditBaseline(b) ==
  /\ edits < MaxEdits
  /\ edits' = edits + 1
  /\ baseline' = b
  /\ UNCHANGED <<fileVars, writerVars, readerVars>>

WriterStep(w) ==
  \/ ReadBaseline(w) \/ CheckPlace(w) \/ CreateTemp(w) \/ WritePart(w)
  \/ WriteRest(w) \/ Chmod(w) \/ CloseTemp(w) \/ Rename(w)
  \/ Fail(w) \/ RemoveTemp(w) \/ Kill(w)

ReaderStep(r) ==
  \/ ParseBaseline(r) \/ LookAtPlace(r) \/ OpenManifest(r) \/ ReadFirst(r)
  \/ ReadRest(r) \/ Compare(r) \/ ReaderFails(r)

Next ==
  \/ \E w \in Writers : WriterStep(w)
  \/ \E r \in Readers : ReaderStep(r)
  \/ \E b \in Baselines : EditBaseline(b)

Spec == Init /\ [][Next]_vars

-----------------------------------------------------------------------------
\* The variables hold values of their kinds: no temporary file gets a mode
\* other than those of os.CreateTemp and of tmp.Chmod(0o644).
TypeOK ==
  /\ baseline \in Baselines
  /\ edits \in 0..MaxEdits
  /\ manifest \in Inodes \cup NoFile
  /\ file \in [Inodes -> Contents]
  /\ linked \subseteq Inodes
  /\ pc \in [Writers -> WriterPoints]
  /\ docs \in [Writers -> Lists \cup {"none"}]
  /\ temp \in [Writers -> Inodes \cup {"none"}]
  /\ outcome \in [Writers -> {"none", "ok", "err", "killed"}]
  /\ undeleted \subseteq Writers
  /\ rpc \in [Readers -> ReaderPoints]
  /\ want \in [Readers -> Baselines \cup {"none"}]
  /\ open \in [Readers -> Inodes \cup {"none"}]
  /\ first \in [Readers -> Lists \cup {"none", "torn"}]
  /\ got \in [Readers -> SUBSET (Lists \cup {"none", "torn"})]
  /\ verdict \in [Readers -> {"none", "pass", "findings"}]

\* Whatever fails and whoever is killed, a file at the manifest's path holds a
\* whole list and is readable by all: writeSummaryDocsManifest renames only what
\* it has written, chmodded and closed, and no run writes a file of another run.
ManifestIsWhole ==
  manifest \in Inodes => file[manifest].size = "whole" /\ file[manifest].mode = "0644"

\* The directory keeps no temporary file of a run that has returned, unless the
\* removal itself failed: the defer covers every return after os.CreateTemp.
NoStrayTemp ==
  \A i \in linked : \E w \in Writers :
    temp[w] = i /\ (pc[w] # "exit" \/ outcome[w] = "killed" \/ w \in undeleted)

\* The manifest is replaced only by the step that makes a run succeed, and by the
\* list that run read from the baseline: a run that reports an error, or is
\* killed, has left the manifest as it was.
ReplacedOnlyBySuccess ==
  [][manifest' # manifest =>
       \E w \in Writers :
         /\ outcome[w] = "none" /\ outcome'[w] = "ok"
         /\ manifest' = temp[w]
         /\ file[temp[w]].list = docs[w]]_vars

\* When every run that reported success read the baseline as it is now, the
\* manifest lists what the baseline lists: success means that the list is in
\* place, however the runs overlapped and whichever of them failed.
SuccessIsInstalled ==
  (/\ \E w \in Writers : outcome[w] = "ok"
   /\ \A w \in Writers : outcome[w] = "ok" => docs[w] = baseline)
  => manifest \in Inodes /\ TextOf(manifest) = baseline

\* A check that passed compared the baseline with a list the manifest had: the
\* file it opened still holds that list, whatever was renamed over it since.
PassIsOfOneManifest ==
  \A r \in Readers : verdict[r] = "pass" => open[r] \in Inodes /\ TextOf(open[r]) = want[r]

-----------------------------------------------------------------------------
AskedFor == {docs[w] : w \in Writers} \ {"none"}
Seen(r) == IF open[r] \in Inodes THEN {TextOf(open[r])} ELSE {}

Register == INSTANCE ManifestRegister WITH
  NoList <- "none",
  value <- IF manifest \in Inodes THEN TextOf(manifest) ELSE "none",
  asked <- AskedFor,
  sight <- [r \in Readers |-> Seen(r)]

\* The manifest behaves as one register: it changes at an instant, to a list that
\* a run was asked to write, and a reader gets a value it had at one instant.
ImplementsManifestRegister == Register!Spec
=============================================================================
