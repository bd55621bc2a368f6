---------------------------- MODULE MCByteLevel ----------------------------
(***************************************************************************)
(* The three models of the package at the level of bytes, side by side: a  *)
(* behaviour is one call, of the message decoder, of a function that forms *)
(* a hash input, or of sampleScalar.                                       *)
(*                                                                         *)
(* The decoder has digits 0 and 1 and a message of two fields, an exact    *)
(* one (like a share or a tag) and a capped one whose cap is the largest   *)
(* length that a prefix of MaxPrefix bytes can state (like no field of the *)
(* code, whose caps are smaller).  Hash inputs have the same digits, and   *)
(* strings with prefixes of one to three digits, some of which look like   *)
(* the encoding of others.  A scalar has two bytes of base 4, a mask of    *)
(* the top byte to one bit, and a group of eleven elements: three numbers  *)
(* are in the group and beyond the mask, five are beyond the group.        *)
(***************************************************************************)
EXTENDS MessageReader, Preimages, SampleScalar

MCStrings == {<<>>, <<0>>, <<1>>, <<1, 0>>, <<0, 0>>, <<2, 1>>, <<2, 1, 0>>, <<0, 0, 0, 0>>}
MCFixed == {<<0, 0>>, <<1, 0>>, <<0, 1>>}
MCDSI == <<0>>

MCHeader == <<3, 1, 2>>
MCMessageSpec == <<[length |-> 1, exact |-> TRUE], [length |-> 3, exact |-> FALSE]>>

\* Every body up to the longest valid one, and one byte more of some; every
\* kind of wrong header on a good body; a message over the aggregate cap.
GoodBody == <<1, 2, 0>>
MCBuffers ==
  {MCHeader \o body : body \in BoundedSeq(Byte, 7)} \cup
  {MCHeader \o <<1, 0, 3, 1, 0, 0, 0>> \o tail : tail \in {<<0>>, <<0, 0, 0>>}} \cup
  {header \o GoodBody : header \in {<<>>, <<3, 1>>, <<2, 1, 2>>, <<3, 0, 2>>, <<3, 1, 1>>}}

ReaderIdle == buf = <<>> /\ off = 0 /\ i = 0 /\ n = 0 /\ fields = <<>> /\ phase = "idle"
HashingIdle == use = "none" /\ parts = <<>> /\ text = <<>>
SamplingIdle == scratch = Zeros /\ filled = 0 /\ draws = <<>> /\ pc = "idle" /\ scalar = 0

MCInit ==
  \/ Init /\ HashingIdle /\ SamplingIdle
  \/ HashInit /\ ReaderIdle /\ SamplingIdle
  \/ SampleInit /\ ReaderIdle /\ HashingIdle

MCNext ==
  \/ Next /\ UNCHANGED <<hashing, sampling>>
  \/ ~HashingIdle /\ Form /\ UNCHANGED <<vars, sampling>>
  \/ SampleNext /\ UNCHANGED <<vars, hashing>>

MCSpec == MCInit /\ [][MCNext]_<<vars, hashing, sampling>>
=============================================================================
