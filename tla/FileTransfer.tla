---------------------------- MODULE FileTransfer ----------------------------
(***************************************************************************)
(* What the command lines do with a file, as operators on its contents:    *)
(* rrdt-cli/src/transport/send.rs takes it for one repeated byte or cuts   *)
(* it into streams, rrdt-cli/src/utils.rs joins the temporary files of the *)
(* streams, file.0, file.1, ..., which are a function here.                *)
(*                                                                         *)
(* A file is a sequence of bytes, and a byte the set of its bits that are  *)
(* 1: the exclusive or of bytes is 0 when each bit is in an even number.   *)
(***************************************************************************)
EXTENDS Naturals, Sequences, FiniteSets

CONSTANTS
  HeadLen,    \* bytes that try_compress looks at
  ChunkLen,   \* STREAM_CHUNK_SIZE
  Wrap,       \* 2^16, the values of TransportParams.streams
  NoFile      \* a file that does not exist

ASSUME FileConstants ==
  /\ HeadLen \in Nat \ {0} /\ ChunkLen \in Nat \ {0} /\ Wrap \in Nat \ {0}
  /\ NoFile \notin Seq(SUBSET Nat)

LesserLen(a, b) == IF a < b THEN a ELSE b

\* try_compress: the first bytes cancel out, which holds for an even number
\* of equal bytes and for many others.
TryCompress(file) ==
  LET head == SubSeq(file, 1, LesserLen(HeadLen, Len(file)))
      Ones(bit) == Cardinality({ i \in DOMAIN head : bit \in head[i] })
  IN head # <<>> /\ \A bit \in UNION { head[i] : i \in DOMAIN head } : Ones(bit) % 2 = 0

Repeated(byte, size) == [i \in 1..size |-> byte]

\* The streams that send() opens, and the bytes each carries.
StreamCount(file) ==
  Len(file) \div ChunkLen + (IF Len(file) % ChunkLen # 0 THEN 1 ELSE 0)

Part(file, id) ==
  SubSeq(file, id * ChunkLen + 1, LesserLen((id + 1) * ChunkLen, Len(file)))

\* What the peer is told: `stream_count as u16`.
Promised(file) == StreamCount(file) % Wrap
-----------------------------------------------------------------------------
\* A round of merge() fails when a file it appends to, removes or renames is
\* not there.
RoundPossible(disk, total) == \A i \in 0..(total - 1) : disk[i] # NoFile

\* Mutant: the neighbours are joined the wrong way round.
MutantNeighbours(disk, i) ==
  IF disk[i + 1] = NoFile THEN disk[i] ELSE disk[i + 1] \o disk[i]

\* merge_neighbour: file i + 1 is appended to file i if it exists, whether it
\* belongs to this transfer or not.
Neighbours(disk, i) ==
  IF disk[i + 1] = NoFile THEN disk[i] ELSE disk[i] \o disk[i + 1]

\* One round of the loop of merge(): neighbours are joined, the odd files are
\* removed, the even ones renamed to half their number.
MergeRound(disk, total) ==
  [i \in DOMAIN disk |->
     CASE 2 * i < total                  -> Neighbours(disk, 2 * i)
       [] total <= 2 * i /\ i < total    -> NoFile
       [] OTHER                          -> disk[i]]

=============================================================================
