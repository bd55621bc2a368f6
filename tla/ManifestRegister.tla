-------------------------- MODULE ManifestRegister --------------------------
(***************************************************************************)
(* What the summary-doc manifest promises those who read it: it is one     *)
(* register.  Its value changes at an instant to a list that a run of      *)
(* evidencebaseline --write-summary-docs was asked to write, and a reader  *)
(* gets the value the register had at one instant of its read.             *)
(*                                                                         *)
(* ManifestWrite, the file-level model of the code, implements this.       *)
(***************************************************************************)
CONSTANTS
  Lists,      \* the lists of summary docs
  NoList,     \* there is no manifest that a reader may open
  Readers

VARIABLES
  value,      \* the list in the manifest, or NoList
  asked,      \* the lists some run was asked to write
  sight,      \* sight[r]: what r saw when it looked, as a set of at most one list
  got         \* got[r]: what r was given, as a set of at most one list

vars == <<value, asked, sight, got>>

Init ==
  /\ value \in Lists \cup {NoList}
  /\ asked = {}
  /\ sight = [r \in Readers |-> {}]
  /\ got = [r \in Readers |-> {}]

Ask(l) ==
  /\ asked' = asked \cup {l}
  /\ UNCHANGED <<value, sight, got>>

Install(l) ==
  /\ l \in asked
  /\ value' = l
  /\ UNCHANGED <<asked, sight, got>>

Look(r) ==
  /\ sight[r] = {}
  /\ value \in Lists
  /\ sight' = [sight EXCEPT ![r] = {value}]
  /\ UNCHANGED <<value, asked, got>>

Answer(r) ==
  /\ sight[r] # {}
  /\ got[r] = {}
  /\ got' = [got EXCEPT ![r] = sight[r]]
  /\ UNCHANGED <<value, asked, sight>>

Next ==
  \/ \E l \in Lists : Ask(l) \/ Install(l)
  \/ \E r \in Readers : Look(r) \/ Answer(r)

Spec == Init /\ [][Next]_vars
=============================================================================
