----------------------- MODULE EvidenceBaseline_proofs -----------------------
(***************************************************************************)
(* Proofs about the evidence baseline checker: about ManifestWrite, for    *)
(* any number of writers and readers, and about EvidenceBundle, for any    *)
(* trees and any SHA256SUMS files.                                         *)
(*                                                                         *)
(* A temporary file belongs to one writer (OwnerInv); where the writer is  *)
(* determines what is in it (FillInv); a file that has reached the         *)
(* manifest's path is final, no step ever changes it (FinalStays).         *)
(*                                                                         *)
(* A check without a finding has gone through every pass, and each pass    *)
(* has established its part for all that it has looked at so far           *)
(* (ParsedInv, VerifiedInv, WalkedInv, beside the control files).  The     *)
(* passes look at the tree without following symlinks, and what can be     *)
(* read in a bundle includes files behind symlinks; the first symlink on   *)
(* the way to such a file is itself a finding of the walk, or one of the   *)
(* two exceptions (EvidenceIsWalked).                                      *)
(***************************************************************************)
EXTENDS ManifestWrite, EvidenceBundle, SequenceTheorems, WellFoundedInduction, TLAPS

(* The manifest.                                                           *)

\* i has been at the manifest's path: the file of the start, or of a success.
Final(i) == i = Committed \/ \E w \in Writers : temp[w] = i /\ outcome[w] = "ok"

OwnerInv ==
  /\ \A v, w \in Writers : temp[v] \in Inodes /\ temp[v] = temp[w] => v = w
  /\ \A w \in Writers : temp[w] # Committed

WriterInv ==
  \A w \in Writers :
    /\ outcome[w] = "none" <=> pc[w] \notin {"remove", "exit"}
    /\ pc[w] = "remove" => outcome[w] = "err"
    /\ pc[w] \in {"baseline", "place", "create"} => temp[w] = "none"
    /\ pc[w] = "baseline" => docs[w] = "none"
    /\ pc[w] \in {"place", "create"} => docs[w] \in Lists
    /\ pc[w] \in {"write", "chmod", "close", "rename", "remove"} \/ outcome[w] = "ok"
         => temp[w] \in Inodes /\ docs[w] \in Lists

FillInv ==
  /\ file[Committed].size = "whole"
  /\ file[Committed].mode = "0644"
  /\ file[Committed].list \in Lists
  /\ \A w \in Writers :
       /\ pc[w] \in {"chmod", "close", "rename"} \/ outcome[w] = "ok" =>
            file[temp[w]].size = "whole" /\ file[temp[w]].list = docs[w]
       /\ pc[w] \in {"close", "rename"} \/ outcome[w] = "ok" =>
            file[temp[w]].mode = "0644"

PlaceInv ==
  /\ manifest \in Inodes => Final(manifest)
  /\ (\E w \in Writers : outcome[w] = "ok") =>
        \E w \in Writers : outcome[w] = "ok" /\ manifest = temp[w]

ReaderInv ==
  \A r \in Readers :
    /\ open[r] \in Inodes => Final(open[r])
    /\ rpc[r] \in {"baseline", "place", "open"} => open[r] = "none"
    /\ rpc[r] \in {"read", "reread", "compare"} => open[r] \in Inodes
    /\ rpc[r] = "reread" => first[r] = TextOf(open[r])
    /\ rpc[r] \in {"baseline", "place", "open", "read", "reread"} => got[r] = {}
    /\ rpc[r] = "compare" => got[r] = {TextOf(open[r])}
    /\ verdict[r] = "pass" => open[r] \in Inodes /\ TextOf(open[r]) = want[r]

IInv == OwnerInv /\ WriterInv /\ FillInv /\ PlaceInv /\ ReaderInv /\ NoStrayTemp

-----------------------------------------------------------------------------
LEMMA TypeInit == Init => TypeOK
BY CommittedIsAnInode, EditsAreCounted DEF Init, TypeOK, Contents, NewFile, WriterPoints, ReaderPoints, Baselines, NoFile

LEMMA TypeNext == TypeOK /\ WriterInv /\ ReaderInv /\ [Next]_vars => TypeOK'
<1> SUFFICES ASSUME TypeOK, WriterInv, ReaderInv, [Next]_vars PROVE TypeOK'
  OBVIOUS
<1> USE DEF TypeOK, WriterPoints, Goto, Exit
<1>1. CASE UNCHANGED vars
  BY <1>1 DEF vars, fileVars, writerVars, readerVars
<1>2. ASSUME NEW w \in Writers, WriterStep(w) PROVE TypeOK'
  <2> USE DEF readerVars, fileVars, WriterInv
  <2>1. CASE ReadBaseline(w) BY <2>1 DEF ReadBaseline
  <2>2. CASE CheckPlace(w)   BY <2>2 DEF CheckPlace
  <2>3. CASE CreateTemp(w)   BY <2>3 DEF CreateTemp, Contents, NewFile
  <2>4. CASE WritePart(w)    BY <2>4 DEF WritePart, Contents
  <2>5. CASE WriteRest(w)    BY <2>5 DEF WriteRest, Contents
  <2>6. CASE Chmod(w)        BY <2>6 DEF Chmod, Contents
  <2>7. CASE CloseTemp(w)    BY <2>7 DEF CloseTemp
  <2>8. CASE Rename(w)       BY <2>8 DEF Rename
  <2>9. CASE Fail(w)         BY <2>9 DEF Fail
  <2>10. CASE RemoveTemp(w)  BY <2>10 DEF RemoveTemp
  <2>11. CASE Kill(w)        BY <2>11 DEF Kill
  <2> QED BY <1>2, <2>1, <2>2, <2>3, <2>4, <2>5, <2>6, <2>7, <2>8, <2>9, <2>10, <2>11
          DEF WriterStep
<1>3. ASSUME NEW r \in Readers, ReaderStep(r) PROVE TypeOK'
  <2> USE DEF RGoto, ReaderPoints, writerVars, fileVars, TextOf, Contents, Baselines, ReaderInv
  <2>1. CASE ParseBaseline(r) BY <2>1 DEF ParseBaseline
  <2>2. CASE LookAtPlace(r)   BY <2>2 DEF LookAtPlace
  <2>3. CASE OpenManifest(r)  BY <2>3 DEF OpenManifest
  <2>4. CASE ReadFirst(r)     BY <2>4 DEF ReadFirst
  <2>5. CASE ReadRest(r)      BY <2>5 DEF ReadRest
  <2>6. CASE Compare(r)       BY <2>6 DEF Compare
  <2>7. CASE ReaderFails(r)   BY <2>7 DEF ReaderFails
  <2> QED BY <1>3, <2>1, <2>2, <2>3, <2>4, <2>5, <2>6, <2>7 DEF ReaderStep
<1>4. ASSUME NEW b \in Baselines, EditBaseline(b) PROVE TypeOK'
  BY <1>4, EditsAreCounted DEF EditBaseline, fileVars, writerVars, readerVars
<1> QED BY <1>1, <1>2, <1>3, <1>4 DEF Next

-----------------------------------------------------------------------------
LEMMA InvInit == Init => IInv
BY CommittedIsAnInode, NoFileIsNoInode
   DEF Init, IInv, OwnerInv, WriterInv, FillInv, PlaceInv, ReaderInv, NoStrayTemp, Final,
       NoFile, NewFile

\* Only a writer that creates its file changes what somebody owns.
LEMMA OwnerNext == TypeOK /\ OwnerInv /\ [Next]_vars => OwnerInv'
<1> SUFFICES ASSUME TypeOK, OwnerInv, [Next]_vars PROVE OwnerInv'
  OBVIOUS
<1> USE DEF TypeOK, OwnerInv
<1>1. CASE UNCHANGED temp
  BY <1>1
<1>2. ASSUME NEW w \in Writers, CreateTemp(w) PROVE OwnerInv'
  BY <1>2 DEF CreateTemp
<1> QED
  BY <1>1, <1>2 DEF Next, WriterStep, ReaderStep, EditBaseline, vars, writerVars,
     ReadBaseline, CheckPlace, WritePart, WriteRest, Chmod, CloseTemp, Rename, Fail,
     RemoveTemp, Kill, ParseBaseline, LookAtPlace, OpenManifest, ReadFirst, ReadRest,
     Compare, ReaderFails, RGoto

\* Steps that are no writer's leave the writers alone.
LEMMA OthersKeepWriters ==
  ASSUME [Next]_vars, \A w \in Writers : ~WriterStep(w)
  PROVE  UNCHANGED <<fileVars, writerVars>>
BY DEF Next, ReaderStep, EditBaseline, vars, ParseBaseline, LookAtPlace, OpenManifest,
   ReadFirst, ReadRest, Compare, ReaderFails, RGoto

LEMMA WriterNext == TypeOK /\ WriterInv /\ [Next]_vars => WriterInv'
<1> SUFFICES ASSUME TypeOK, WriterInv, [Next]_vars PROVE WriterInv'
  OBVIOUS
<1> USE DEF TypeOK, WriterPoints, WriterInv
<1>1. CASE \A w \in Writers : ~WriterStep(w)
  BY <1>1, OthersKeepWriters DEF writerVars
<1>2. ASSUME NEW w \in Writers, WriterStep(w) PROVE WriterInv'
  <2> USE DEF Goto, Exit
  <2>1. CASE ReadBaseline(w) BY <2>1 DEF ReadBaseline
  <2>2. CASE CheckPlace(w)   BY <2>2 DEF CheckPlace
  <2>3. CASE CreateTemp(w)   BY <2>3 DEF CreateTemp
  <2>4. CASE WritePart(w)    BY <2>4 DEF WritePart
  <2>5. CASE WriteRest(w)    BY <2>5 DEF WriteRest
  <2>6. CASE Chmod(w)        BY <2>6 DEF Chmod
  <2>7. CASE CloseTemp(w)    BY <2>7 DEF CloseTemp
  <2>8. CASE Rename(w)       BY <2>8 DEF Rename
  <2>9. CASE Fail(w)         BY <2>9 DEF Fail
  <2>10. CASE RemoveTemp(w)  BY <2>10 DEF RemoveTemp
  <2>11. CASE Kill(w)        BY <2>11 DEF Kill
  <2> QED BY <1>2, <2>1, <2>2, <2>3, <2>4, <2>5, <2>6, <2>7, <2>8, <2>9, <2>10, <2>11
          DEF WriterStep
<1> QED BY <1>1, <1>2

LEMMA FillNext ==
  TypeOK /\ OwnerInv /\ WriterInv /\ FillInv /\ [Next]_vars => FillInv'
<1> SUFFICES ASSUME TypeOK, OwnerInv, WriterInv, FillInv, [Next]_vars PROVE FillInv'
  OBVIOUS
<1> USE CommittedIsAnInode DEF TypeOK, WriterPoints, OwnerInv, WriterInv, FillInv
<1>1. CASE \A w \in Writers : ~WriterStep(w)
  BY <1>1, OthersKeepWriters DEF writerVars, fileVars
<1>2. ASSUME NEW w \in Writers, WriterStep(w) PROVE FillInv'
  <2> USE DEF Goto, Exit, fileVars, Contents
  <2>1. CASE ReadBaseline(w) BY <2>1 DEF ReadBaseline
  <2>2. CASE CheckPlace(w)   BY <2>2 DEF CheckPlace
  <2>3. CASE CreateTemp(w)   BY <2>3 DEF CreateTemp, NewFile
  <2>4. CASE WritePart(w)    BY <2>4 DEF WritePart
  <2>5. CASE WriteRest(w)    BY <2>5 DEF WriteRest
  <2>6. CASE Chmod(w)        BY <2>6 DEF Chmod
  <2>7. CASE CloseTemp(w)    BY <2>7 DEF CloseTemp
  <2>8. CASE Rename(w)       BY <2>8 DEF Rename
  <2>9. CASE Fail(w)         BY <2>9 DEF Fail
  <2>10. CASE RemoveTemp(w)  BY <2>10 DEF RemoveTemp
  <2>11. CASE Kill(w)        BY <2>11 DEF Kill
  <2> QED BY <1>2, <2>1, <2>2, <2>3, <2>4, <2>5, <2>6, <2>7, <2>8, <2>9, <2>10, <2>11
          DEF WriterStep
<1> QED BY <1>1, <1>2

-----------------------------------------------------------------------------
LEMMA FinalIsWhole ==
  ASSUME FillInv, NEW i \in Inodes, Final(i)
  PROVE  /\ file[i].size = "whole" /\ file[i].mode = "0644" /\ TextOf(i) = file[i].list
BY DEF FillInv, Final, TextOf

LEMMA FinalTextIsAList ==
  ASSUME FillInv, WriterInv, NEW i \in Inodes, Final(i)
  PROVE  TextOf(i) \in Lists
BY DEF FillInv, WriterInv, Final, TextOf

\* No step writes to a file that has been at the manifest's path.
LEMMA FinalStays ==
  ASSUME TypeOK, OwnerInv, WriterInv, [Next]_vars, NEW i \in Inodes, Final(i)
  PROVE  Final(i)' /\ file'[i] = file[i]
<1> USE CommittedIsAnInode DEF TypeOK, WriterPoints, OwnerInv, WriterInv, Final
<1>1. CASE \A w \in Writers : ~WriterStep(w)
  BY <1>1, OthersKeepWriters DEF writerVars, fileVars
<1>2. ASSUME NEW w \in Writers, WriterStep(w) PROVE Final(i)' /\ file'[i] = file[i]
  <2> USE DEF Goto, Exit, fileVars
  <2>1. CASE ReadBaseline(w) BY <2>1 DEF ReadBaseline
  <2>2. CASE CheckPlace(w)   BY <2>2 DEF CheckPlace
  <2>3. CASE CreateTemp(w)   BY <2>3 DEF CreateTemp
  <2>4. CASE WritePart(w)    BY <2>4 DEF WritePart
  <2>5. CASE WriteRest(w)    BY <2>5 DEF WriteRest
  <2>6. CASE Chmod(w)        BY <2>6 DEF Chmod
  <2>7. CASE CloseTemp(w)    BY <2>7 DEF CloseTemp
  <2>8. CASE Rename(w)       BY <2>8 DEF Rename
  <2>9. CASE Fail(w)         BY <2>9 DEF Fail
  <2>10. CASE RemoveTemp(w)  BY <2>10 DEF RemoveTemp
  <2>11. CASE Kill(w)        BY <2>11 DEF Kill
  <2> QED BY <1>2, <2>1, <2>2, <2>3, <2>4, <2>5, <2>6, <2>7, <2>8, <2>9, <2>10, <2>11
          DEF WriterStep
<1> QED BY <1>1, <1>2

\* The place and the results change together, in Rename.
LEMMA OnlyRenameInstalls ==
  ASSUME TypeOK, WriterInv, [Next]_vars, \A w \in Writers : ~Rename(w)
  PROVE  /\ manifest' = manifest
         /\ \A w \in Writers : outcome'[w] = "ok" <=> outcome[w] = "ok"
<1> USE DEF TypeOK, WriterPoints, WriterInv
<1>1. CASE \A w \in Writers : ~WriterStep(w)
  BY <1>1, OthersKeepWriters DEF writerVars, fileVars
<1>2. ASSUME NEW w \in Writers, WriterStep(w)
      PROVE  /\ manifest' = manifest
             /\ \A v \in Writers : outcome'[v] = "ok" <=> outcome[v] = "ok"
  <2> USE DEF Goto, Exit, fileVars
  <2>1. CASE ReadBaseline(w) BY <2>1 DEF ReadBaseline
  <2>2. CASE CheckPlace(w)   BY <2>2 DEF CheckPlace
  <2>3. CASE CreateTemp(w)   BY <2>3 DEF CreateTemp
  <2>4. CASE WritePart(w) \/ WriteRest(w) \/ Chmod(w)
    BY <2>4 DEF WritePart, WriteRest, Chmod
  <2>5. CASE CloseTemp(w)    BY <2>5 DEF CloseTemp
  <2>6. CASE Fail(w)         BY <2>6 DEF Fail
  <2>7. CASE RemoveTemp(w)   BY <2>7 DEF RemoveTemp
  <2>8. CASE Kill(w)         BY <2>8 DEF Kill
  <2> QED BY <1>2, <2>1, <2>2, <2>3, <2>4, <2>5, <2>6, <2>7, <2>8 DEF WriterStep
<1> QED BY <1>1, <1>2

\* A success keeps its file, its list and its result.
LEMMA SuccessStays ==
  ASSUME TypeOK, WriterInv, [Next]_vars, NEW v \in Writers, outcome[v] = "ok"
  PROVE  outcome'[v] = "ok" /\ temp'[v] = temp[v] /\ docs'[v] = docs[v]
<1> USE DEF TypeOK, WriterPoints, WriterInv
<1>1. CASE \A w \in Writers : ~WriterStep(w)
  BY <1>1, OthersKeepWriters DEF writerVars, fileVars
<1>2. ASSUME NEW w \in Writers, WriterStep(w)
      PROVE  outcome'[v] = "ok" /\ temp'[v] = temp[v] /\ docs'[v] = docs[v]
  BY <1>2 DEF WriterStep, Goto, Exit, ReadBaseline, CheckPlace, CreateTemp, WritePart,
     WriteRest, Chmod, CloseTemp, Rename, Fail, RemoveTemp, Kill
<1> QED BY <1>1, <1>2

LEMMA PlaceNext ==
  TypeOK /\ OwnerInv /\ WriterInv /\ PlaceInv /\ [Next]_vars => PlaceInv'
<1> SUFFICES ASSUME TypeOK, OwnerInv, WriterInv, PlaceInv, [Next]_vars PROVE PlaceInv'
  OBVIOUS
<1>1. CASE \A w \in Writers : ~Rename(w)
  <2>1. /\ manifest' = manifest
        /\ \A w \in Writers : outcome'[w] = "ok" <=> outcome[w] = "ok"
    BY <1>1, OnlyRenameInstalls
  <2>2. (manifest \in Inodes => Final(manifest))'
    BY <2>1, FinalStays DEF PlaceInv
  <2>3. ASSUME NEW w \in Writers, outcome'[w] = "ok"
        PROVE  \E v \in Writers : outcome'[v] = "ok" /\ manifest' = temp'[v]
    <3>1. PICK v \in Writers : outcome[v] = "ok" /\ manifest = temp[v]
      BY <2>1, <2>3 DEF PlaceInv
    <3> QED BY <2>1, <3>1, SuccessStays
  <2> QED BY <2>2, <2>3 DEF PlaceInv
<1>2. ASSUME NEW w \in Writers, Rename(w) PROVE PlaceInv'
  BY <1>2 DEF Rename, Exit, Goto, PlaceInv, Final, TypeOK
<1> QED BY <1>1, <1>2

LEMMA NoStrayNext ==
  TypeOK /\ OwnerInv /\ WriterInv /\ NoStrayTemp /\ [Next]_vars => NoStrayTemp'
<1> SUFFICES ASSUME TypeOK, OwnerInv, WriterInv, NoStrayTemp, [Next]_vars
             PROVE  NoStrayTemp'
  OBVIOUS
<1> USE NoFileIsNoInode DEF TypeOK, WriterPoints, OwnerInv, WriterInv, NoStrayTemp
<1>1. CASE \A w \in Writers : ~WriterStep(w)
  BY <1>1, OthersKeepWriters DEF writerVars, fileVars
<1>2. ASSUME NEW w \in Writers, WriterStep(w) PROVE NoStrayTemp'
  <2> USE DEF Goto, Exit, fileVars
  <2>1. CASE ReadBaseline(w) BY <2>1 DEF ReadBaseline
  <2>2. CASE CheckPlace(w)   BY <2>2 DEF CheckPlace
  <2>3. CASE CreateTemp(w)   BY <2>3 DEF CreateTemp
  <2>4. CASE WritePart(w) \/ WriteRest(w) \/ Chmod(w)
    BY <2>4 DEF WritePart, WriteRest, Chmod
  <2>5. CASE CloseTemp(w)    BY <2>5 DEF CloseTemp
  <2>6. CASE Rename(w)       BY <2>6 DEF Rename
  <2>7. CASE Fail(w)         BY <2>7 DEF Fail
  <2>8. CASE RemoveTemp(w)   BY <2>8 DEF RemoveTemp
  <2>9. CASE Kill(w)         BY <2>9 DEF Kill
  <2> QED BY <1>2, <2>1, <2>2, <2>3, <2>4, <2>5, <2>6, <2>7, <2>8, <2>9 DEF WriterStep
<1> QED BY <1>1, <1>2

\* Steps that are no reader's leave the readers alone.
LEMMA OthersKeepReaders ==
  ASSUME [Next]_vars, \A r \in Readers : ~ReaderStep(r)
  PROVE  UNCHANGED readerVars
BY DEF Next, WriterStep, EditBaseline, vars, Goto, Exit, ReadBaseline, CheckPlace, CreateTemp,
   WritePart, WriteRest, Chmod, CloseTemp, Rename, Fail, RemoveTemp, Kill

LEMMA ReadersKeepFiles ==
  ASSUME NEW r \in Readers, ReaderStep(r)
  PROVE  UNCHANGED <<fileVars, writerVars>>
BY DEF ReaderStep, ParseBaseline, LookAtPlace, OpenManifest, ReadFirst, ReadRest, Compare,
   ReaderFails, RGoto

\* A file that a reader holds open is final, and so is what was read from it.
LEMMA ReaderNext ==
  /\ TypeOK /\ OwnerInv /\ WriterInv /\ FillInv /\ PlaceInv /\ ReaderInv
  /\ [Next]_vars
  => ReaderInv'
<1> SUFFICES ASSUME TypeOK, OwnerInv, WriterInv, FillInv, PlaceInv, ReaderInv, [Next]_vars
             PROVE  ReaderInv'
  OBVIOUS
<1> USE DEF TypeOK, ReaderPoints, ReaderInv
<1>1. CASE \A r \in Readers : ~ReaderStep(r)
  <2>1. UNCHANGED readerVars
    BY <1>1, OthersKeepReaders
  <2>2. ASSUME NEW r \in Readers, open[r] \in Inodes
        PROVE  Final(open[r])' /\ TextOf(open[r])' = TextOf(open[r])
    BY <2>1, <2>2, FinalStays DEF readerVars, TextOf, Final
  <2> QED BY <2>1, <2>2 DEF readerVars
<1>2. ASSUME NEW r \in Readers, ReaderStep(r) PROVE ReaderInv'
  <2>1. UNCHANGED <<fileVars, writerVars>>
    BY <1>2, ReadersKeepFiles
  <2> USE <2>1, NoFileIsNoInode, MarksAreNoLists
      DEF RGoto, fileVars, writerVars, Final, TextOf
  <2>2. CASE ParseBaseline(r) BY <2>2 DEF ParseBaseline
  <2>3. CASE LookAtPlace(r)   BY <2>3 DEF LookAtPlace
  <2>4. CASE OpenManifest(r)
    <3>1. manifest \in Inodes /\ Final(manifest) /\ verdict[r] # "pass"
      BY <2>4 DEF OpenManifest, PlaceInv
    <3>2. open' = [open EXCEPT ![r] = manifest] /\ rpc' = [rpc EXCEPT ![r] = "read"]
          /\ got[r] = {} /\ UNCHANGED <<want, first, got, verdict>>
      BY <2>4 DEF OpenManifest
    <3> QED BY <3>1, <3>2
  <2>5. CASE ReadFirst(r)     BY <2>5 DEF ReadFirst
  <2>6. CASE ReadRest(r)      BY <2>6 DEF ReadRest
  <2>7. CASE Compare(r)
    <3>1. got[r] = {TextOf(open[r])} /\ open[r] \in Inodes
      BY <2>7 DEF Compare
    <3>2. verdict' = [verdict EXCEPT ![r] = verdict'[r]]
          /\ rpc' = [rpc EXCEPT ![r] = "exit"] /\ UNCHANGED <<want, open, first, got>>
      BY <2>7 DEF Compare
    <3>3. verdict'[r] = "pass" => want[r] \in got[r]
      BY <2>7 DEF Compare
    <3>4. verdict'[r] = "pass" => TextOf(open[r]) = want[r]
      BY <3>1, <3>3
    <3> QED BY <3>1, <3>2, <3>4
  <2>8. CASE ReaderFails(r)   BY <2>8 DEF ReaderFails
  <2> QED BY <1>2, <2>2, <2>3, <2>4, <2>5, <2>6, <2>7, <2>8 DEF ReaderStep
<1> QED BY <1>1, <1>2

LEMMA InvNext == TypeOK /\ IInv /\ [Next]_vars => TypeOK' /\ IInv'
BY TypeNext, OwnerNext, WriterNext, FillNext, PlaceNext, ReaderNext, NoStrayNext DEF IInv

LEMMA Invariance == Spec => [](TypeOK /\ IInv)
BY TypeInit, InvInit, InvNext, PTL DEF Spec

-----------------------------------------------------------------------------
\* For any number of runs, the variables hold values of their kinds.
THEOREM TypeCorrect == Spec => []TypeOK
BY Invariance, PTL

\* For any number of runs and whatever fails, a file at the manifest's path is
\* whole and readable.
THEOREM ManifestStaysWhole == Spec => []ManifestIsWhole
<1>1. IInv => ManifestIsWhole
  BY FinalIsWhole DEF IInv, PlaceInv, ManifestIsWhole
<1> QED BY <1>1, Invariance, PTL

\* For any number of runs, a run that has returned leaves no temporary file,
\* unless its removal failed.
THEOREM TempIsRemoved == Spec => []NoStrayTemp
BY Invariance, PTL DEF IInv

\* For any number of runs, reported success means that the list is in place.
THEOREM SuccessMeansInstalled == Spec => []SuccessIsInstalled
<1>1. IInv => SuccessIsInstalled
  <2> SUFFICES ASSUME IInv, NEW v \in Writers, outcome[v] = "ok",
                      \A w \in Writers : outcome[w] = "ok" => docs[w] = baseline
               PROVE  manifest \in Inodes /\ TextOf(manifest) = baseline
    BY DEF SuccessIsInstalled
  <2>1. PICK w \in Writers : outcome[w] = "ok" /\ manifest = temp[w]
    BY DEF IInv, PlaceInv
  <2> QED BY <2>1 DEF IInv, WriterInv, FillInv, TextOf
<1> QED BY <1>1, Invariance, PTL

\* For any number of runs, a check that passed compared with one manifest.
THEOREM PassComparesOneManifest == Spec => []PassIsOfOneManifest
<1>1. IInv => PassIsOfOneManifest
  BY DEF IInv, ReaderInv, PassIsOfOneManifest
<1> QED BY <1>1, Invariance, PTL

\* For any number of runs, only the success of a run replaces the manifest.
THEOREM OnlySuccessReplaces == Spec => ReplacedOnlyBySuccess
<1> DEFINE Success == \E w \in Writers :
                        /\ outcome[w] = "none" /\ outcome'[w] = "ok"
                        /\ manifest' = temp[w]
                        /\ file[temp[w]].list = docs[w]
<1>1. TypeOK /\ IInv /\ [Next]_vars => [manifest' # manifest => Success]_vars
  <2> SUFFICES ASSUME TypeOK, IInv, [Next]_vars, manifest' # manifest PROVE Success
    OBVIOUS
  <2>1. PICK w \in Writers : Rename(w)
    BY OnlyRenameInstalls DEF IInv
  <2> QED BY <2>1 DEF Rename, Exit, Goto, TypeOK, IInv, WriterInv, FillInv
<1> QED BY <1>1, Invariance, PTL DEF Spec, ReplacedOnlyBySuccess

-----------------------------------------------------------------------------
ValueOf == IF manifest \in Inodes THEN TextOf(manifest) ELSE "none"
SightOf == [r \in Readers |-> Seen(r)]

LEMMA RefinesInit == Init => Register!Init
BY CommittedIsAnInode, NoFileIsNoInode
   DEF Init, Register!Init, NoFile, AskedFor, Seen, TextOf, NewFile

\* Without Rename and OpenManifest neither the value nor a sight changes.
LEMMA ValueStays ==
  ASSUME TypeOK, IInv, [Next]_vars, manifest' = manifest
  PROVE  ValueOf' = ValueOf
BY FinalStays DEF ValueOf, TextOf, IInv, PlaceInv

LEMMA SightStays ==
  ASSUME TypeOK, IInv, [Next]_vars, open' = open
  PROVE  SightOf' = SightOf
<1>1. \A r \in Readers : Seen(r)' = Seen(r)
  BY FinalStays DEF Seen, TextOf, IInv, ReaderInv
<1> QED BY <1>1 DEF SightOf

\* A step that keeps docs, manifest, open and got is a stutter of the register.
LEMMA Stutters ==
  ASSUME TypeOK, IInv, [Next]_vars, UNCHANGED <<docs, manifest, open, got>>
  PROVE  UNCHANGED Register!vars
<1>1. AskedFor' = AskedFor
  BY DEF AskedFor
<1>2. ValueOf' = ValueOf /\ SightOf' = SightOf
  BY ValueStays, SightStays
<1> QED BY <1>1, <1>2 DEF Register!vars, ValueOf, SightOf

LEMMA RefinesNext == TypeOK /\ IInv /\ [Next]_vars => [Register!Next]_(Register!vars)
<1> SUFFICES ASSUME TypeOK, IInv, [Next]_vars PROVE [Register!Next]_(Register!vars)
  OBVIOUS
<1>1. CASE UNCHANGED <<docs, manifest, open, got>>
  BY <1>1, Stutters
<1>2. ASSUME NEW w \in Writers, ReadBaseline(w), docs' # docs
      PROVE  Register!Next
  <2>1. baseline \in Lists /\ docs' = [docs EXCEPT ![w] = baseline] /\ docs[w] = "none"
    BY <1>2 DEF ReadBaseline, IInv, WriterInv
  <2>2. AskedFor' = AskedFor \cup {baseline}
    BY <2>1, MarksAreNoLists DEF AskedFor, TypeOK
  <2>3. manifest' = manifest /\ open' = open /\ got' = got
    BY <1>2 DEF ReadBaseline, Goto, Exit, fileVars, readerVars
  <2>4. ValueOf' = ValueOf /\ SightOf' = SightOf
    BY <2>3, ValueStays, SightStays
  <2>5. Register!Ask(baseline)
    BY <2>2, <2>3, <2>4 DEF Register!Ask, ValueOf, SightOf
  <2> QED BY <2>1, <2>5 DEF Register!Next
<1>3. ASSUME NEW w \in Writers, Rename(w) PROVE Register!Next
  <2>1. /\ manifest' = temp[w] /\ temp[w] \in Inodes /\ docs[w] \in Lists
        /\ UNCHANGED <<file, docs, open, got>>
    BY <1>3 DEF Rename, Exit, Goto, readerVars, IInv, WriterInv
  <2>2. ValueOf' = docs[w]
    BY <1>3, <2>1 DEF ValueOf, TextOf, Rename, IInv, FillInv
  <2>3. docs[w] \in AskedFor /\ AskedFor' = AskedFor
    BY <2>1, MarksAreNoLists DEF AskedFor
  <2>4. SightOf' = SightOf
    BY <2>1, SightStays
  <2>5. Register!Install(docs[w])
    BY <2>1, <2>2, <2>3, <2>4 DEF Register!Install, ValueOf, SightOf
  <2> QED BY <2>1, <2>5 DEF Register!Next
<1>4. ASSUME NEW r \in Readers, OpenManifest(r) PROVE Register!Next
  <2>1. /\ manifest \in Inodes /\ open[r] = "none" /\ open[r] \notin Inodes
        /\ open' = [open EXCEPT ![r] = manifest]
        /\ UNCHANGED <<file, docs, manifest, got>>
    BY <1>4, NoFileIsNoInode
       DEF OpenManifest, RGoto, fileVars, writerVars, IInv, ReaderInv
  <2>2. ValueOf \in Lists
    BY <2>1, FinalTextIsAList DEF ValueOf, IInv, PlaceInv
  <2>3. SightOf[r] = {} /\ \A q \in Readers : Seen(q)' = IF q = r THEN {ValueOf} ELSE Seen(q)
    BY <2>1 DEF SightOf, Seen, ValueOf, TextOf, TypeOK
  <2>4. SightOf' = [SightOf EXCEPT ![r] = {ValueOf}]
    BY <2>3 DEF SightOf
  <2>5. AskedFor' = AskedFor /\ ValueOf' = ValueOf
    BY <2>1 DEF AskedFor, ValueOf, TextOf
  <2>6. Register!Look(r)
    BY <2>1, <2>2, <2>3, <2>4, <2>5 DEF Register!Look, ValueOf, SightOf
  <2> QED BY <2>6 DEF Register!Next
<1>5. ASSUME NEW r \in Readers, ReadRest(r) PROVE Register!Next
  <2>1. /\ open[r] \in Inodes /\ got[r] = {}
        /\ got' = [got EXCEPT ![r] = {TextOf(open[r])}]
        /\ UNCHANGED <<file, docs, manifest, open>>
    BY <1>5 DEF ReadRest, RGoto, fileVars, writerVars, IInv, ReaderInv
  <2>2. SightOf' = SightOf /\ SightOf[r] = {TextOf(open[r])}
    BY <2>1 DEF SightOf, Seen, TextOf
  <2>3. AskedFor' = AskedFor /\ ValueOf' = ValueOf
    BY <2>1 DEF AskedFor, ValueOf, TextOf
  <2>4. Register!Answer(r)
    BY <2>1, <2>2, <2>3 DEF Register!Answer, ValueOf, SightOf
  <2> QED BY <2>4 DEF Register!Next
<1>6. ASSUME ~UNCHANGED <<docs, manifest, open, got>>
      PROVE  \/ \E w \in Writers : (ReadBaseline(w) /\ docs' # docs) \/ Rename(w)
             \/ \E r \in Readers : OpenManifest(r) \/ ReadRest(r)
  BY <1>6 DEF Next, WriterStep, ReaderStep, EditBaseline, vars, fileVars, writerVars, readerVars,
     Goto, Exit, RGoto, ReadBaseline, CheckPlace, CreateTemp, WritePart, WriteRest, Chmod,
     CloseTemp, Fail, RemoveTemp, Kill, ParseBaseline, LookAtPlace, ReadFirst, Compare,
     ReaderFails
<1> QED BY <1>1, <1>2, <1>3, <1>4, <1>5, <1>6

\* For any number of runs, the files behave as one register of lists.
THEOREM Refinement == Spec => ImplementsManifestRegister
BY RefinesInit, RefinesNext, Invariance, PTL DEF Spec, Register!Spec, ImplementsManifestRegister

-----------------------------------------------------------------------------
(* The bundles.                                                            *)

IsEntry(line) == line.form = "entry" /\ Safe(line.path)

\* The first n lines are parsed: the entries are theirs, and without a finding no entry is unsafe.
ParsedUpTo(n) ==
  /\ Len(entries) <= n
  /\ \A i \in 1 .. n : IsEntry(sums[i]) => sums[i] \in Range(entries)
  /\ \A e \in Range(entries) : IsEntry(e) /\ \E i \in 1 .. n : e = sums[i]
  /\ ~findings => \A i \in 1 .. n : sums[i].form = "entry" => Safe(sums[i].path)

ParsedInv ==
  /\ pass \in {"root", "control"} => entries = <<>> /\ next = 1 /\ ~findings /\ ~ioError
  /\ pass = "parse" => next <= Len(sums) + 1 /\ ParsedUpTo(next - 1)
  /\ pass \in {"verify", "walk"} => ParsedUpTo(Len(sums))
  /\ pass = "done" /\ ~findings => ParsedUpTo(Len(sums))

ControlInv ==
  /\ pass # "root" /\ ~findings => tree[<<>>] = "dir"
  /\ pass \notin {"root", "control"} /\ ~findings =>
       IsRegular(README) /\ IsRegular(SHA256SUMS) /\ (tree[Signature] = "absent" \/ IsRegular(Signature))

Verified(e) == tree[e.path] = e.hash

VerifiedInv ==
  /\ pass = "verify" => next <= Len(entries) + 1
  /\ pass = "verify" /\ ~findings => \A k \in 1 .. next - 1 : Verified(entries[k])
  /\ pass \in {"walk", "done"} /\ ~findings => \A e \in Range(entries) : Verified(e)

IsListed(p) == \E e \in Range(entries) : e.path = p

WalkedInv == pass = "done" /\ ~findings => \A p \in RawEntries : IsRegular(p) /\ IsListed(p)

BundleInv == BundleTypeOK /\ ParsedInv /\ ControlInv /\ VerifiedInv /\ WalkedInv

\* A well-made bundle gives no finding, of itself.
CleanInv == WellMade /\ ~ioError => ~findings

-----------------------------------------------------------------------------
(* Sequences and paths.                                                    *)

\* The empty sequence of entries.
LEMMA NoEntries == <<>> \in Seq(Lines) /\ Len(<<>>) = 0 /\ Range(<<>>) = {}
<1>1. <<>> \in Seq(Lines) /\ Len(<<>>) = 0
  BY EmptySeq
<1>2. Range(<<>>) = {<<>>[i] : i \in 1 .. Len(<<>>)}
  BY <1>1, RangeEquality
<1>3. 1 .. Len(<<>>) = {}
  BY <1>1
<1> QED BY <1>1, <1>2, <1>3

\* What a line adds to the entries.
LEMMA ParsedAppends ==
  ASSUME NEW s \in Seq(Lines), NEW line \in Lines
  PROVE  /\ s \o Parsed(line) \in Seq(Lines)
         /\ Len(s \o Parsed(line)) <= Len(s) + 1
         /\ Range(s \o Parsed(line)) = Range(s) \cup IF IsEntry(line) THEN {line} ELSE {}
<1>1. CASE IsEntry(line)
  <2>1. Parsed(line) = <<line>>
    BY <1>1 DEF Parsed, IsEntry
  <2>2. <<line>> \in Seq(Lines) /\ Len(<<line>>) = 1 /\ Range(<<line>>) = {line}
    <3>1. <<line>> \in Seq(Lines) /\ Len(<<line>>) = 1 /\ <<line>>[1] = line
      OBVIOUS
    <3>2. Range(<<line>>) = {<<line>>[i] : i \in 1 .. Len(<<line>>)}
      BY <3>1, RangeEquality
    <3> QED BY <3>1, <3>2
  <2>3. /\ s \o <<line>> \in Seq(Lines) /\ Len(s \o <<line>>) = Len(s) + 1
        /\ Range(s \o <<line>>) = Range(s) \cup Range(<<line>>)
    BY <2>2, ConcatProperties, RangeConcatenation
  <2> QED BY <1>1, <2>1, <2>2, <2>3
<1>2. CASE ~IsEntry(line)
  <2>1. Parsed(line) = <<>>
    BY <1>2 DEF Parsed, IsEntry
  <2>2. s \o <<>> = s
    OBVIOUS
  <2> QED BY <1>2, <2>1, <2>2
<1> QED BY <1>1, <1>2

\* A path and its parents: prefixes, each with the shorter ones for its parents.
LEMMA PathParents ==
  ASSUME NEW p \in Paths
  PROVE  /\ p \in Seq(STRING)
         /\ \A n \in 0 .. Len(p) - 1 :
              /\ SubSeq(p, 1, n) \in Paths /\ Len(SubSeq(p, 1, n)) = n
              /\ Range(SubSeq(p, 1, n)) \subseteq Range(p)
              /\ Parents(SubSeq(p, 1, n)) = {SubSeq(p, 1, m) : m \in 0 .. n - 1}
<1>1. p \in Seq(STRING) /\ Parents(p) \subseteq Paths
  BY ConstantsAgree
<1>2. ASSUME NEW n \in 0 .. Len(p) - 1
      PROVE  /\ SubSeq(p, 1, n) \in Paths /\ Len(SubSeq(p, 1, n)) = n
             /\ Range(SubSeq(p, 1, n)) \subseteq Range(p)
             /\ Parents(SubSeq(p, 1, n)) = {SubSeq(p, 1, m) : m \in 0 .. n - 1}
  <2> DEFINE q == SubSeq(p, 1, n)
  <2>1. q \in Paths
    BY <1>1 DEF Parents
  <2>2. q \in Seq(STRING) /\ Len(q) = n /\ \A i \in 1 .. n : q[i] = p[i]
    BY <1>1
  <2>3. Range(q) \subseteq Range(p)
    <3>1. Range(q) = {q[i] : i \in 1 .. Len(q)} /\ Range(p) = {p[i] : i \in 1 .. Len(p)}
      BY <1>1, <2>2, RangeEquality
    <3> QED BY <1>1, <2>2, <3>1
  <2>4. ASSUME NEW m \in 0 .. n - 1 PROVE SubSeq(q, 1, m) = SubSeq(p, 1, m)
    BY <1>1, <2>2, <2>4
  <2>5. Parents(q) = {SubSeq(p, 1, m) : m \in 0 .. n - 1}
    BY <2>2, <2>4 DEF Parents
  <2> QED BY <2>1, <2>2, <2>3, <2>5
<1> QED BY <1>1, <1>2

\* A nonempty set of naturals has a least element.
LEMMA LeastOf ==
  ASSUME NEW N \in SUBSET Nat, N # {}
  PROVE  \E n \in N : \A m \in N : ~(m < n)
<1>1. PICK n \in N : \A m \in N : ~(<<m, n>> \in OpToRel(<, Nat))
  BY NatLessThanWellFounded, WFMin
<1>2. \A m \in N : m < n => <<m, n>> \in OpToRel(<, Nat)
  BY DEF OpToRel
<1> QED BY <1>1, <1>2

-----------------------------------------------------------------------------
(* The invariant.                                                          *)

\* It holds at first.
LEMMA BundleInitInv == BundleInit => BundleInv
<1> SUFFICES ASSUME BundleInit PROVE BundleInv
  OBVIOUS
<1>1. sums \in Seq(Lines) /\ Len(sums) \in Nat
  BY ConstantsAgree DEF BundleInit
<1>2. entries = <<>> /\ Range(entries) = {} /\ entries \in Seq(Lines)
  BY NoEntries DEF BundleInit
<1>3. BundleTypeOK
  <2>1. next \in 1 .. Len(sums) + 1
    BY <1>1 DEF BundleInit
  <2>2. \A e \in Range(entries) : e.form = "entry" /\ Safe(e.path)
    BY <1>2
  <2>3. pass \in {"root", "control", "parse", "verify", "walk", "done"} /\ {findings, ioError} \subseteq BOOLEAN
    BY DEF BundleInit
  <2>4. tree \in Trees /\ sums \in SumsFiles /\ opened \subseteq Paths
    BY DEF BundleInit
  <2> QED BY <1>2, <2>1, <2>2, <2>3, <2>4 DEF BundleTypeOK
<1> QED BY <1>2, <1>3 DEF BundleInit, BundleInv, ParsedInv, ControlInv, VerifiedInv, WalkedInv

\* The types of what the steps compute with.
LEMMA Typed ==
  ASSUME BundleTypeOK
  PROVE  /\ tree \in [Paths -> Special \cup FileContents]
         /\ sums \in Seq(Lines) /\ Len(sums) \in Nat /\ \A i \in 1 .. Len(sums) : sums[i] \in Lines
         /\ Len(entries) \in Nat /\ \A k \in 1 .. Len(entries) : entries[k] \in Range(entries)
         /\ \A e \in Range(entries) : e \in Lines /\ \E k \in 1 .. Len(entries) : e = entries[k]
         /\ findings \in BOOLEAN /\ ioError \in BOOLEAN /\ next \in Nat
<1>1. tree \in [Paths -> Special \cup FileContents] /\ sums \in Seq(Lines) /\ entries \in Seq(Lines)
  BY ConstantsAgree DEF BundleTypeOK
<1>2. Range(entries) = {entries[k] : k \in 1 .. Len(entries)}
  BY <1>1, RangeEquality
<1> QED BY <1>1, <1>2 DEF BundleTypeOK

\* A line is parsed.
LEMMA ParseLineInv ==
  ASSUME BundleInv, ParseLine
  PROVE  BundleInv'
<1> DEFINE line == sums[next]
<1>1. BundleTypeOK /\ ParsedUpTo(next - 1) /\ pass = "parse" /\ next \in 1 .. Len(sums)
  BY DEF BundleInv, ParseLine, ParsedInv, BundleTypeOK
<1>2. line \in Lines /\ entries \in Seq(Lines) /\ Len(entries) \in Nat
  BY <1>1, Typed DEF BundleTypeOK
<1>3. /\ entries' \in Seq(Lines) /\ Len(entries') <= Len(entries) + 1 /\ Len(entries') \in Nat
      /\ Range(entries') = Range(entries) \cup IF IsEntry(line) THEN {line} ELSE {}
  BY <1>2, ParsedAppends DEF ParseLine
<1>4. /\ UNCHANGED <<tree, sums, pass, opened, ioError>> /\ next' = next + 1
      /\ findings' = (findings \/ Complaint(line))
  BY DEF ParseLine
<1>5. BundleTypeOK'
  BY <1>1, <1>3, <1>4, Typed DEF BundleTypeOK, IsEntry
<1>6. ParsedUpTo(next - 1)'
  <2>1. Len(entries') <= next
    BY <1>1, <1>2, <1>3 DEF ParsedUpTo
  <2>2. \A i \in 1 .. next : IsEntry(sums[i]) => sums[i] \in Range(entries')
    BY <1>1, <1>3 DEF ParsedUpTo
  <2>3. \A e \in Range(entries') : IsEntry(e) /\ \E i \in 1 .. next : e = sums[i]
    BY <1>1, <1>3 DEF ParsedUpTo
  <2>4. ~findings' => \A i \in 1 .. next : sums[i].form = "entry" => Safe(sums[i].path)
    <3> SUFFICES ASSUME ~findings', NEW i \in 1 .. next, sums[i].form = "entry" PROVE Safe(sums[i].path)
      OBVIOUS
    <3>1. ~findings /\ ~Complaint(line)
      BY <1>4
    <3>2. CASE i = next
      BY <3>1, <3>2 DEF Complaint
    <3>3. CASE i \in 1 .. next - 1
      BY <1>1, <3>1, <3>3 DEF ParsedUpTo
    <3> QED BY <1>1, <3>2, <3>3
  <2>5. next' - 1 = next
    BY <1>1, <1>4
  <2> QED BY <1>4, <2>1, <2>2, <2>3, <2>4, <2>5 DEF ParsedUpTo
<1>7. ParsedInv'
  BY <1>1, <1>4, <1>6 DEF ParsedInv, ParsedUpTo
<1>8. ControlInv'
  BY <1>1, <1>4 DEF BundleInv, ControlInv, IsRegular
<1>9. VerifiedInv' /\ WalkedInv'
  BY <1>1, <1>4 DEF VerifiedInv, WalkedInv
<1> QED BY <1>5, <1>7, <1>8, <1>9 DEF BundleInv

\* An entry is verified, or fails to be.
LEMMA VerifyEntryInv ==
  ASSUME BundleInv, VerifyEntry
  PROVE  BundleInv'
<1> DEFINE e == entries[next]
<1>1. BundleTypeOK /\ ParsedUpTo(Len(sums)) /\ pass = "verify" /\ next \in 1 .. Len(entries)
  BY DEF BundleInv, VerifyEntry, ParsedInv, BundleTypeOK
<1>2. e \in Range(entries) /\ e \in Lines /\ e.path \in Paths /\ Len(entries) <= Len(sums)
  BY <1>1, Typed DEF Lines, ParsedUpTo
<1>3. /\ UNCHANGED <<tree, sums, pass, entries, ioError>> /\ next' = next + 1
      /\ opened' \subseteq opened \cup {e.path}
      /\ findings' \in BOOLEAN /\ (~findings' => ~findings /\ Verified(e))
  BY <1>1 DEF VerifyEntry, BundleTypeOK, Verified
<1>4. BundleTypeOK'
  <2>1. next' \in 1 .. Len(sums) + 1
    BY <1>1, <1>2, <1>3, Typed
  <2> QED BY <1>1, <1>2, <1>3, <2>1, Typed DEF BundleTypeOK
<1>5. ParsedInv' /\ ControlInv' /\ WalkedInv'
  BY <1>1, <1>3 DEF BundleInv, ParsedInv, ParsedUpTo, ControlInv, WalkedInv, IsRegular
<1>6. VerifiedInv'
  BY <1>1, <1>3, Typed DEF BundleInv, VerifiedInv, Verified
<1> QED BY <1>4, <1>5, <1>6 DEF BundleInv

\* The steps from one pass to the next.
LEMMA PassInv ==
  ASSUME BundleInv, CheckRoot \/ CheckControlFiles \/ ParseEnd \/ VerifyEnd \/ Walk
  PROVE  BundleInv'
<1>1. BundleTypeOK
  BY DEF BundleInv
<1>2. CASE CheckRoot
  <2>1. UNCHANGED <<tree, sums, next, entries, opened, ioError>> /\ findings' = (tree[<<>>] # "dir")
    BY <1>2 DEF CheckRoot
  <2>2. pass = "root" /\ pass' \in {"control", "done"} /\ (pass' = "done" => findings') /\ (pass' = "control" => ~findings')
    BY <1>2 DEF CheckRoot
  <2> QED BY <1>1, <2>1, <2>2 DEF BundleInv, BundleTypeOK, ParsedInv, ControlInv, VerifiedInv, WalkedInv
<1>3. CASE CheckControlFiles
  <2>1. UNCHANGED <<tree, sums, next, entries, opened, ioError>> /\ pass = "control" /\ pass' \in {"parse", "done"}
    BY <1>3 DEF CheckControlFiles
  <2>2. /\ findings' \in BOOLEAN /\ (pass' = "done" => findings')
        /\ ~findings' => IsRegular(README) /\ IsRegular(SHA256SUMS) /\ (tree[Signature] = "absent" \/ IsRegular(Signature))
    BY <1>3 DEF CheckControlFiles
  <2>3. entries = <<>> /\ next = 1 /\ ~findings
    BY <2>1 DEF BundleInv, ParsedInv
  <2>4. Range(entries) = {} /\ Len(entries) = 0
    BY <2>3, NoEntries
  <2>5. BundleTypeOK'
    BY <1>1, <2>1, <2>2 DEF BundleTypeOK
  <2>6. ParsedInv'
    BY <1>1, <2>1, <2>2, <2>3, <2>4, Typed DEF ParsedInv, ParsedUpTo
  <2>7. ControlInv'
    BY <2>1, <2>2, <2>3 DEF BundleInv, ControlInv, IsRegular
  <2>8. VerifiedInv' /\ WalkedInv'
    BY <2>1, <2>2 DEF VerifiedInv, WalkedInv
  <2> QED BY <2>5, <2>6, <2>7, <2>8 DEF BundleInv
<1>4. CASE ParseEnd
  <2>1. UNCHANGED <<tree, sums, entries, opened, ioError>> /\ pass = "parse" /\ pass' = "verify" /\ next' = 1
    BY <1>4 DEF ParseEnd
  <2>2. findings' \in BOOLEAN /\ (~findings' => ~findings)
    BY <1>1, <1>4 DEF ParseEnd, BundleTypeOK
  <2>3. next = Len(sums) + 1 /\ ParsedUpTo(Len(sums))
    BY <1>1, <1>4, Typed DEF BundleInv, ParseEnd, ParsedInv
  <2>4. BundleTypeOK'
    BY <1>1, <2>1, <2>2, Typed DEF BundleTypeOK
  <2>5. ParsedInv'
    BY <2>1, <2>2, <2>3 DEF ParsedInv, ParsedUpTo
  <2>6. ControlInv' /\ VerifiedInv' /\ WalkedInv'
    BY <1>1, <2>1, <2>2, Typed DEF BundleInv, ControlInv, VerifiedInv, WalkedInv, IsRegular
  <2> QED BY <2>4, <2>5, <2>6 DEF BundleInv
<1>5. CASE VerifyEnd
  <2>1. /\ UNCHANGED <<tree, sums, next, entries, opened, findings, ioError>>
        /\ pass = "verify" /\ pass' = "walk" /\ next > Len(entries)
    BY <1>5 DEF VerifyEnd
  <2>2. next = Len(entries) + 1
    BY <1>1, <2>1, Typed DEF BundleInv, VerifiedInv
  <2>3. ~findings => \A e \in Range(entries) : Verified(e)
    BY <1>1, <2>1, <2>2, Typed DEF BundleInv, VerifiedInv
  <2>4. BundleTypeOK' /\ ParsedInv'
    BY <1>1, <2>1 DEF BundleInv, BundleTypeOK, ParsedInv, ParsedUpTo
  <2>5. ControlInv' /\ VerifiedInv' /\ WalkedInv'
    BY <2>1, <2>3 DEF BundleInv, ControlInv, VerifiedInv, WalkedInv, IsRegular, Verified
  <2> QED BY <2>4, <2>5 DEF BundleInv
<1>6. CASE Walk
  <2>1. UNCHANGED <<tree, sums, next, entries, opened, ioError>> /\ pass = "walk" /\ pass' = "done"
    BY <1>6 DEF Walk
  <2>2. /\ findings' \in BOOLEAN
        /\ ~findings' => ~findings /\ \A p \in RawEntries : IsRegular(p) /\ IsListed(p)
    BY <1>1, <1>6 DEF Walk, BundleTypeOK, IsListed
  <2>3. BundleTypeOK' /\ ParsedInv'
    BY <1>1, <2>1, <2>2 DEF BundleInv, BundleTypeOK, ParsedInv, ParsedUpTo
  <2>4. ControlInv' /\ VerifiedInv'
    BY <2>1, <2>2 DEF BundleInv, ControlInv, VerifiedInv, IsRegular, Verified
  <2>5. RawEntries' = RawEntries
    BY <2>1 DEF RawEntries, Walked
  <2>6. WalkedInv'
    BY <2>1, <2>2, <2>5 DEF WalkedInv, IsRegular, IsListed
  <2> QED BY <2>3, <2>4, <2>6 DEF BundleInv
<1> QED BY <1>2, <1>3, <1>4, <1>5, <1>6

\* A failing operation is a finding, and where the check goes on it is as if nothing had been looked at.
LEMMA FailureInv ==
  ASSUME BundleInv, OperationFails
  PROVE  BundleInv'
<1>1. BundleTypeOK
  BY DEF BundleInv
<1>2. UNCHANGED <<tree, sums, entries, opened>> /\ findings' /\ findings' = TRUE /\ ioError' = TRUE
  BY DEF OperationFails
<1>3. CASE pass = "verify" /\ next <= Len(entries) /\ next' = next + 1 /\ UNCHANGED pass
  <2>1. ParsedUpTo(Len(sums)) /\ Len(entries) <= Len(sums)
    BY <1>3 DEF BundleInv, ParsedInv, ParsedUpTo
  <2>2. next' \in 1 .. Len(sums) + 1 /\ next' <= Len(entries) + 1
    BY <1>1, <1>3, <2>1, Typed DEF BundleTypeOK
  <2> QED BY <1>1, <1>2, <1>3, <2>1, <2>2
          DEF BundleInv, BundleTypeOK, ParsedInv, ParsedUpTo, ControlInv, VerifiedInv, WalkedInv
<1>4. CASE pass = "control" /\ pass' = "parse" /\ UNCHANGED next
  <2>1. entries = <<>> /\ next = 1
    BY <1>4 DEF BundleInv, ParsedInv
  <2>2. Range(entries) = {} /\ Len(entries) = 0
    BY <2>1, NoEntries
  <2>3. BundleTypeOK'
    BY <1>1, <1>2, <1>4 DEF BundleTypeOK
  <2>4. ParsedInv'
    BY <1>1, <1>2, <1>4, <2>1, <2>2, Typed DEF ParsedInv, ParsedUpTo
  <2> QED BY <1>2, <1>4, <2>3, <2>4 DEF BundleInv, ControlInv, VerifiedInv, WalkedInv
<1>5. CASE pass' = "done" /\ UNCHANGED next
  BY <1>1, <1>2, <1>5 DEF BundleInv, BundleTypeOK, ParsedInv, ControlInv, VerifiedInv, WalkedInv
<1> QED BY <1>3, <1>4, <1>5 DEF OperationFails

\* BundleInv is inductive.
THEOREM BundleInvariance == BundleSpec => []BundleInv
<1>1. BundleInv /\ [BundleNext]_bundleVars => BundleInv'
  <2> SUFFICES ASSUME BundleInv, [BundleNext]_bundleVars PROVE BundleInv'
    OBVIOUS
  <2>1. CASE UNCHANGED bundleVars
    <3>1. UNCHANGED <<tree, sums, pass, next, entries, opened, findings, ioError>>
      BY <2>1 DEF bundleVars
    <3> QED BY <3>1 DEF BundleInv, BundleTypeOK, ParsedInv, ParsedUpTo, ControlInv, VerifiedInv, Verified,
                        WalkedInv, RawEntries, Walked, IsListed, IsRegular
  <2> QED BY <2>1, ParseLineInv, VerifyEntryInv, PassInv, FailureInv DEF BundleNext
<1> QED BY <1>1, BundleInitInv, PTL DEF BundleSpec

-----------------------------------------------------------------------------
(* The theorems.                                                           *)

\* Without a finding, the way to a piece of evidence is by directories: the first symlink on it would be one.
LEMMA EvidenceIsWalked ==
  ASSUME BundleInv, Passed, NEW p \in Evidence
  PROVE  p \in RawEntries
<1>1. /\ BundleTypeOK /\ pass = "done" /\ ~findings /\ tree \in Trees
      /\ tree[<<>>] = "dir" /\ tree \in [Paths -> Special \cup FileContents]
      /\ IsRegular(README) /\ IsRegular(SHA256SUMS) /\ (tree[Signature] = "absent" \/ IsRegular(Signature))
  BY Typed DEF BundleInv, Passed, ControlInv, BundleTypeOK
<1>2. "dir" \notin FileContents /\ "absent" \notin FileContents /\ "link" \notin FileContents
  BY ConstantsAgree DEF Special
<1>3. p \in Paths /\ Safe(p) /\ IsRegular(p) /\ p \notin {README, SHA256SUMS, Signature} /\ Last(p) # Metadata
  BY DEF Evidence
<1>4. \A q \in Parents(p) : tree[q] \in {"dir", "link"}
  <2>1. tree[p] # "absent"
    BY <1>2, <1>3 DEF IsRegular
  <2> QED BY <1>1, <1>3, <2>1, ConstantsAgree
<1> DEFINE N == {n \in 0 .. Len(p) - 1 : tree[SubSeq(p, 1, n)] # "dir"}
<1>5. N = {}
  <2> SUFFICES ASSUME N # {} PROVE FALSE
    OBVIOUS
  <2>1. PICK n \in N : \A m \in N : ~(m < n)
    <3>1. N \in SUBSET Nat
      OBVIOUS
    <3> HIDE DEF N
    <3> QED BY <3>1, LeastOf
  <2> DEFINE q == SubSeq(p, 1, n)
  <2>2. n \in 0 .. Len(p) - 1 /\ tree[q] # "dir" /\ q \in Parents(p)
    BY <2>1 DEF Parents
  <2>3. tree[q] = "link"
    BY <1>4, <2>2
  <2>4. q \in Paths /\ Len(q) = n /\ Range(q) \subseteq Range(p) /\ Parents(q) = {SubSeq(p, 1, m) : m \in 0 .. n - 1}
    BY <1>3, <2>2, PathParents
  <2>5. \A r \in Parents(q) : tree[r] = "dir"
    <3> SUFFICES ASSUME NEW m \in 0 .. n - 1 PROVE tree[SubSeq(p, 1, m)] = "dir"
      BY <2>4
    <3>1. m \in 0 .. Len(p) - 1 /\ m < n
      BY <1>3, <2>2, PathParents
    <3> QED BY <2>1, <3>1
  <2>6. q # <<>>
    BY <1>1, <2>2
  <2> HIDE DEF q, N
  <2>7. Safe(q)
    BY <1>3, <2>4, <2>6 DEF Safe
  <2>8. ~IsRegular(q)
    BY <1>2, <2>3 DEF IsRegular
  <2>9. q \notin {README, SHA256SUMS, Signature}
    BY <1>1, <2>3, <2>8
  <2>10. Last(q) # Metadata
    BY <2>2, <2>3, <2>6 DEF Evidence
  <2>11. q \in RawEntries
    BY <2>3, <2>4, <2>5, <2>7, <2>9, <2>10 DEF RawEntries, Walked, ignoredBundleEntry, Metadata
  <2> QED BY <1>1, <2>8, <2>11 DEF BundleInv, WalkedInv
<1>6. \A q \in Parents(p) : tree[q] = "dir"
  BY <1>5 DEF Parents
<1> QED BY <1>2, <1>3, <1>6 DEF RawEntries, Walked, ignoredBundleEntry, Metadata, IsRegular

\* For any tree and any SHA256SUMS: a bundle that passes is pinned by its list, file by file.
THEOREM PassedBundlesArePinned == BundleSpec => []PassPinsEvidence
<1>1. BundleInv => PassPinsEvidence
  <2> SUFFICES ASSUME BundleInv, Passed
               PROVE  /\ \A p \in Evidence : \E e \in Listed : e.path = p
                      /\ \A e \in Listed : tree[e.path] = e.hash
    BY DEF PassPinsEvidence
  <2>1. BundleTypeOK /\ pass = "done" /\ ~findings /\ ParsedUpTo(Len(sums))
    BY DEF BundleInv, Passed, ParsedInv
  <2>2. sums \in Seq(Lines) /\ Range(sums) = {sums[i] : i \in 1 .. Len(sums)}
    BY <2>1, Typed, RangeEquality
  <2>3. Range(entries) = Listed
    <3>1. \A e \in Range(entries) : e \in Listed
      BY <2>1, <2>2 DEF ParsedUpTo, Listed, IsEntry
    <3>2. \A e \in Listed : e \in Range(entries)
      BY <2>1, <2>2 DEF ParsedUpTo, Listed, IsEntry
    <3> QED BY <3>1, <3>2
  <2>4. \A p \in Evidence : \E e \in Listed : e.path = p
    BY <2>1, <2>3, EvidenceIsWalked DEF BundleInv, WalkedInv, IsListed
  <2>5. \A e \in Listed : tree[e.path] = e.hash
    BY <2>1, <2>3 DEF BundleInv, VerifiedInv, Verified
  <2> QED BY <2>4, <2>5
<1> QED BY <1>1, BundleInvariance, PTL

\* Whatever SHA256SUMS says, the checker opens and hashes nothing outside the bundle and nothing through a symlink.
THEOREM OpensOnlyInside == BundleSpec => []ReadsInside
<1>1. BundleInit => ReadsInside
  BY DEF BundleInit, ReadsInside
<1>2. ASSUME BundleInv, ReadsInside, [BundleNext]_bundleVars PROVE ReadsInside'
  <2>1. CASE VerifyEntry
    <3> DEFINE e == entries[next]
    <3>1. BundleTypeOK /\ next \in 1 .. Len(entries) /\ UNCHANGED tree
      BY <1>2, <2>1 DEF BundleInv, BundleTypeOK, VerifyEntry
    <3>2. Safe(e.path)
      BY <3>1, Typed DEF BundleTypeOK
    <3>3. CASE lstatChecksumEntry(e.path) \in FileContents
      <4>1. opened' = opened \cup {e.path}
        BY <2>1, <3>3 DEF VerifyEntry
      <4>2. "absent" \notin FileContents
        BY ConstantsAgree DEF Special
      <4>3. IsRegular(e.path) /\ \A q \in Parents(e.path) : tree[q] = "dir"
        BY <3>3, <4>2 DEF lstatChecksumEntry, IsRegular
      <4> QED BY <1>2, <3>1, <3>2, <4>1, <4>3 DEF ReadsInside, Safe, IsRegular
    <3>4. CASE lstatChecksumEntry(e.path) \notin FileContents
      <4>1. UNCHANGED opened
        BY <2>1, <3>4 DEF VerifyEntry
      <4> QED BY <1>2, <3>1, <4>1 DEF ReadsInside, IsRegular
    <3> QED BY <3>3, <3>4
  <2>2. CASE ~VerifyEntry
    <3>1. UNCHANGED <<tree, opened>>
      BY <1>2, <2>2 DEF BundleNext, CheckRoot, CheckControlFiles, ParseLine, ParseEnd, VerifyEnd, Walk,
                        OperationFails, bundleVars
    <3> QED BY <1>2, <3>1 DEF ReadsInside, IsRegular
  <2> QED BY <2>1, <2>2
<1> QED BY <1>1, <1>2, BundleInvariance, PTL DEF BundleSpec

\* A parent of a safe path is the root or safe.
LEMMA SafeParents ==
  ASSUME NEW p \in Paths, Safe(p), NEW q \in Parents(p)
  PROVE  q \in Paths /\ (q = <<>> \/ Safe(q))
<1>1. PICK n \in 0 .. Len(p) - 1 : q = SubSeq(p, 1, n)
  BY DEF Parents
<1>2. q \in Paths /\ Range(q) \subseteq Range(p)
  BY <1>1, PathParents
<1> QED BY <1>2 DEF Safe

\* What a well-made list says of an entry: it is a regular file, with directories above it.
LEMMA ListedIsThere ==
  ASSUME BundleTypeOK, WellMade, NEW e \in Listed
  PROVE  /\ e \in Lines /\ Safe(e.path) /\ e.hash # BadHash
         /\ tree[e.path] = e.hash /\ lstatChecksumEntry(e.path) \in FileContents
<1>1. sums \in Seq(Lines) /\ tree \in Trees /\ tree \in [Paths -> Special \cup FileContents]
  BY Typed DEF BundleTypeOK
<1>2. e \in Lines /\ e.path \in Paths /\ e.hash \in FileContents \cup {BadHash}
  <2>1. Range(sums) = {sums[i] : i \in 1 .. Len(sums)}
    BY <1>1, RangeEquality
  <2>2. e \in Lines
    BY <1>1, <2>1 DEF Listed
  <2> QED BY <2>2 DEF Lines
<1>3. Safe(e.path) /\ tree[e.path] = e.hash
  BY DEF WellMade
<1>4. BadHash \notin Special /\ BadHash \notin FileContents /\ "absent" \notin FileContents
  BY ConstantsAgree DEF Special, BadHash
<1>5. tree[e.path] \in FileContents
  BY <1>1, <1>2, <1>3, <1>4
<1>6. \A q \in Parents(e.path) : tree[q] = "dir"
  <2> SUFFICES ASSUME NEW q \in Parents(e.path) PROVE tree[q] = "dir"
    OBVIOUS
  <2>1. tree[q] \in {"dir", "link"}
    BY <1>1, <1>2, <1>3, <1>4, <1>5, ConstantsAgree
  <2>2. q = <<>> \/ (Safe(q) /\ q \in Paths)
    BY <1>2, <1>3, SafeParents
  <2> QED BY <2>1, <2>2 DEF WellMade
<1> QED BY <1>2, <1>3, <1>4, <1>5, <1>6 DEF lstatChecksumEntry

\* No line of a well-made list is complained of: it is none of the earlier ones again.
LEMMA NoComplaint ==
  ASSUME BundleInv, WellMade, ParseLine
  PROVE  ~Complaint(sums[next])
<1> DEFINE line == sums[next]
<1>1. BundleTypeOK /\ ParsedUpTo(next - 1) /\ next \in 1 .. Len(sums)
  BY DEF BundleInv, ParseLine, ParsedInv, BundleTypeOK
<1>2. sums \in Seq(Lines) /\ DOMAIN sums = 1 .. Len(sums) /\ Range(sums) = {sums[i] : i \in 1 .. Len(sums)}
  BY <1>1, Typed, RangeEquality
<1>3. line \in Lines /\ line.form # "refused"
  BY <1>1, <1>2 DEF WellMade
<1>4. ASSUME line.form = "entry" PROVE Safe(line.path) /\ line.hash # BadHash
  BY <1>1, <1>2, <1>4, ListedIsThere DEF Listed
<1>5. ASSUME line.form = "entry", NEW e \in Range(entries), e.path = line.path PROVE FALSE
  <2>1. PICK i \in 1 .. next - 1 : e = sums[i]
    BY <1>1 DEF ParsedUpTo
  <2>2. e \in Listed /\ line \in Listed
    BY <1>1, <1>2, <1>5, <2>1 DEF ParsedUpTo, IsEntry, Listed
  <2>3. e.form = line.form /\ e.hash = line.hash /\ e \in Lines
    BY <1>1, <1>5, <2>2, ListedIsThere DEF Listed
  <2>4. e = line
    BY <1>3, <1>5, <2>3 DEF Lines
  <2>5. i \in DOMAIN sums /\ next \in DOMAIN sums /\ sums[i] = sums[next] /\ sums[i] \in Listed
    BY <1>1, <1>2, <2>1, <2>2, <2>4
  <2>6. i = next
    BY <2>5 DEF WellMade
  <2> QED BY <1>1, <2>1, <2>6
<1> QED BY <1>3, <1>4, <1>5 DEF Complaint

\* The entries of a well-made list are the listed ones, once they are parsed.
LEMMA EntriesAreListed ==
  ASSUME BundleTypeOK, ParsedUpTo(Len(sums)), WellMade
  PROVE  Range(entries) = Listed
<1>1. sums \in Seq(Lines) /\ Range(sums) = {sums[i] : i \in 1 .. Len(sums)}
  BY Typed, RangeEquality
<1>2. \A e \in Range(entries) : e \in Listed
  BY <1>1 DEF ParsedUpTo, Listed, IsEntry
<1>3. \A e \in Listed : e \in Range(entries)
  BY <1>1 DEF ParsedUpTo, Listed, IsEntry, WellMade
<1> QED BY <1>2, <1>3

\* No step gives a finding about a well-made bundle, but for a failing operation.
LEMMA CleanSteps ==
  ASSUME BundleInv, CleanInv, [BundleNext]_bundleVars
  PROVE  CleanInv'
<1>1. UNCHANGED <<tree, sums>>
  BY DEF BundleNext, CheckRoot, CheckControlFiles, ParseLine, ParseEnd, VerifyEntry, VerifyEnd, Walk,
         OperationFails, bundleVars
<1>2. WellMade' <=> WellMade
  BY <1>1 DEF WellMade, Listed, Evidence, IsRegular
<1> SUFFICES ASSUME WellMade, ~ioError' PROVE ~findings'
  BY <1>2 DEF CleanInv
<1>3. ~OperationFails /\ ~ioError
  BY DEF OperationFails, BundleNext, CheckRoot, CheckControlFiles, ParseLine, ParseEnd, VerifyEntry, VerifyEnd, Walk,
         bundleVars
<1>4. ~findings /\ BundleTypeOK
  BY <1>3 DEF CleanInv, BundleInv
<1>5. CASE CheckRoot
  BY <1>5 DEF CheckRoot, WellMade
<1>6. CASE CheckControlFiles
  <2>1. Safe(Signature) /\ Signature \in Paths
    <3>1. Signature \in Seq(STRING) /\ Len(Signature) = 1 /\ Signature[1] = "SHA256SUMS.sig"
      BY ConstantsAgree DEF Signature
    <3>2. Range(Signature) = {Signature[i] : i \in 1 .. Len(Signature)}
      BY <3>1, RangeEquality
    <3>3. \A x \in Range(Signature) : x = "SHA256SUMS.sig"
      BY <3>1, <3>2
    <3>4. ".." \notin Range(Signature) /\ Signature # <<>>
      BY <3>1, <3>3
    <3> QED BY <3>4, ConstantsAgree DEF Safe
  <2>2. tree[Signature] \in Special \cup FileContents /\ tree[Signature] \notin {"link", "other", "dir"}
    BY <1>4, <2>1, Typed DEF WellMade
  <2>3. tree[Signature] = "absent" \/ IsRegular(Signature)
    BY <2>2 DEF Special, IsRegular
  <2> QED BY <1>6, <2>3 DEF CheckControlFiles, WellMade
<1>7. CASE ParseLine
  BY <1>4, <1>7, NoComplaint DEF ParseLine
<1>8. CASE ParseEnd
  <2>1. ParsedUpTo(Len(sums))
    BY <1>4, <1>8, Typed DEF BundleInv, ParseEnd, ParsedInv, BundleTypeOK
  <2>2. Range(entries) # {}
    BY <1>4, <2>1, EntriesAreListed DEF WellMade
  <2> QED BY <1>4, <1>8, <2>2, NoEntries DEF ParseEnd
<1>9. CASE VerifyEntry
  <2> DEFINE e == entries[next]
  <2>1. ParsedUpTo(Len(sums)) /\ next \in 1 .. Len(entries)
    BY <1>4, <1>9 DEF BundleInv, VerifyEntry, ParsedInv, BundleTypeOK
  <2>2. e \in Listed
    BY <1>4, <2>1, Typed, EntriesAreListed
  <2>3. lstatChecksumEntry(e.path) \in FileContents /\ tree[e.path] = e.hash
    BY <1>4, <2>2, ListedIsThere
  <2> QED BY <1>4, <1>9, <2>3 DEF VerifyEntry
<1>10. CASE Walk
  <2> SUFFICES ASSUME NEW p \in RawEntries PROVE IsRegular(p) /\ \E e \in Range(entries) : e.path = p
    BY <1>4, <1>10 DEF Walk
  <2>1. /\ p \in Paths /\ Safe(p) /\ tree[p] \notin {"absent", "dir"} /\ \A q \in Parents(p) : tree[q] = "dir"
        /\ p \notin {README, SHA256SUMS, Signature} /\ Last(p) # ".DS_Store"
    BY DEF RawEntries, Walked, ignoredBundleEntry
  <2>2. IsRegular(p)
    BY <1>4, <2>1, Typed DEF WellMade, IsRegular, Special
  <2>3. p \in Evidence
    BY <2>1, <2>2 DEF Evidence, Metadata
  <2>4. Range(entries) = Listed
    BY <1>4, <1>10, EntriesAreListed DEF BundleInv, ParsedInv, Walk
  <2> QED BY <2>2, <2>3, <2>4 DEF WellMade
<1>11. CASE VerifyEnd \/ UNCHANGED bundleVars
  BY <1>4, <1>11 DEF VerifyEnd, bundleVars
<1> QED BY <1>3, <1>5, <1>6, <1>7, <1>8, <1>9, <1>10, <1>11 DEF BundleNext

\* For any tree of plain files and its complete list: unless an operation of the file system fails, the check passes.
THEOREM WellMadeBundlesPass == BundleSpec => []WellMadePasses
<1>1. BundleInit => CleanInv
  BY DEF BundleInit, CleanInv
<1>2. CleanInv => WellMadePasses
  BY DEF CleanInv, WellMadePasses
<1> QED BY <1>1, <1>2, CleanSteps, BundleInvariance, PTL DEF BundleSpec

=============================================================================
