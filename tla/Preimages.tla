----------------------------- MODULE Preimages -----------------------------
(***************************************************************************)
(* The strings that the package feeds to SHA-512 and HMAC (crypto.go,      *)
(* transcript.go, input.go, session.go), as functions of their parts.      *)
(* CPaceCore takes each hash to be a constructor of those parts; that is   *)
(* right only if no two lists of parts make one string, which is checked   *)
(* here over every pair of lists from a given set.                         *)
(*                                                                         *)
(* Domain separation strings and role labels are the same in every list    *)
(* and are left out, but for the one the zero padding has to account for.  *)
(***************************************************************************)
EXTENDS LengthValue, Integers

CONSTANTS
  Strings,      \* what a part of variable length may be
  Fixed,        \* what a part of fixed length may be: a share, K, the ISK
  DSI,          \* dsiRistretto255
  BlockSize     \* sha512BlockSize

\* Shares, K and the ISK have the length of the group and the hash.
ASSUME OneLength == \A a, b \in Fixed : Len(a) = Len(b)

ASSUME HashConstants ==
  /\ Strings \subseteq Seq(Byte) /\ Fixed \subseteq Seq(Byte)
  /\ DSI \in Seq(Byte) /\ BlockSize \in Nat

\* The comment at crypto.go:24: the length of the zero padding is one digit.
ASSUME PaddingIsShort == BlockSize < lengthValueLen(Len(DSI)) + 2 + Radix

VARIABLES
  use,          \* which string is formed
  parts,        \* what it is formed of
  text          \* the string, once it has been formed

hashing == <<use, parts, text>>

-----------------------------------------------------------------------------
\* Zero bytes up to the end of the first hash block, as far as prs leaves any.
zpad(prs) ==
  LET raw == BlockSize - lengthValueLen(Len(prs)) - lengthValueLen(Len(DSI)) - 1
  IN  [z \in 1 .. Max({raw, 0}) |-> 0]

generatorString(prs, ci, sid) == lvCat(<<DSI, prs, zpad(prs), ci, sid>>)
buildCI(initiatorID, responderID, context) == lvCat(<<initiatorID, responderID, context>>)
transcript(ya, ada, yb, adb) == lvCat(<<ya, ada>>) \o lvCat(<<yb, adb>>)
iskMaterial(sid, k, raw) == lvCat(<<sid, k>>) \o raw
macKeyInput(sid, isk) == sid \o isk
macInput(y, ad) == lvCat(<<y, ad>>)
exportInfo(label, context) == lvCat(<<label, context>>)

Uses == {"generator", "ci", "transcript", "isk", "macKey", "mac", "export"}

\* The lists of parts of each use.
Parts(u) ==
  CASE u \in {"generator", "ci"} -> Strings \X Strings \X Strings
    [] u = "transcript"          -> Fixed \X Strings \X Fixed \X Strings
    [] u = "isk"                 -> Strings \X Fixed \X (Fixed \X Strings)
    [] u = "macKey"              -> Strings \X Fixed
    [] u = "mac"                 -> Fixed \X Strings
    [] u = "export"              -> Strings \X Strings

Preimage(u, p) ==
  CASE u = "generator"  -> generatorString(p[1], p[2], p[3])
    [] u = "ci"         -> buildCI(p[1], p[2], p[3])
    [] u = "transcript" -> transcript(p[1], p[2], p[3], p[4])
    [] u = "isk"        -> iskMaterial(p[1], p[2], lvCat(p[3]))
    [] u = "macKey"     -> macKeyInput(p[1], p[2])
    [] u = "mac"        -> macInput(p[1], p[2])
    [] u = "export"     -> exportInfo(p[1], p[2])

-----------------------------------------------------------------------------
HashInit ==
  /\ use \in Uses
  /\ parts \in Parts(use)
  /\ text = <<>>

\* One call of the function that forms the string.
Form ==
  /\ text = <<>>
  /\ text' = Preimage(use, parts)
  /\ UNCHANGED <<use, parts>>

HashSpec == HashInit /\ [][Form]_hashing

-----------------------------------------------------------------------------
\* A hash input determines its parts: no other list of parts makes the string.
\* The raw concatenations in deriveISK and confirmationTag rest on the fixed
\* lengths of what follows or precedes them.
NoCollision ==
  text # <<>> => \A p \in Parts(use) \ {parts} : Preimage(use, p) # text

\* The password has the first hash block to itself: CI and the session id
\* begin exactly at the block boundary, or after a longer password.
PasswordFillsItsBlock ==
  use = "generator" /\ text # <<>> =>
    LET head == lvCat(<<DSI, parts[1], zpad(parts[1])>>)
        used == lengthValueLen(Len(DSI)) + lengthValueLen(Len(parts[1])) + 1
    IN  Len(head) = (IF used < BlockSize THEN BlockSize ELSE used)

\* What is hashed is laid out as the draft's security argument needs it.
PreimagesAreSound == NoCollision /\ PasswordFillsItsBlock
=============================================================================
