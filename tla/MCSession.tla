----------------------------- MODULE MCSession -----------------------------
(* Session with files of a few bytes, of two bits each. *)
EXTENDS Session

X == {1}
Y == {2}
Z == {1, 2}

Transfer(contents, leftover, network) == [file |-> contents, left |-> leftover, faults |-> network]

\* Files that are empty, one repeated byte, bytes that cancel out, one stream
\* of one byte or of two, of which the first may arrive alone, two streams, and
\* three: their merging has two rounds, and the neighbour of the last file in
\* the first is one that may be left over.
MCTransfers ==
  LET both == {"loss", "copies"}
  IN { Transfer(<<>>, {}, both), Transfer(<<>>, {0}, both),
       Transfer(<<X, X, X, X>>, {}, both), Transfer(<<X, Y, Z>>, {}, both),
       Transfer(<<X>>, {0, 1}, both), Transfer(<<X, Y>>, {}, both \union {"parts"}),
       Transfer(<<X, X, Y>>, {}, {"loss"}),
       Transfer(<<X, X, Y, X, Z>>, {}, {}), Transfer(<<X, X, Y, X, Z>>, {0, 3}, {}) }

MCJunk == <<Z>>

=============================================================================
