---------------------------- MODULE ByteStream ----------------------------
(***************************************************************************)
(* What a TCP connection promises the two programs that share it: two      *)
(* streams of bytes, one each way.  A program adds to its stream until it  *)
(* ends it; the other reads the stream from its beginning, in order, and   *)
(* is told of the end only when it has read everything.                    *)
(*                                                                         *)
(* One step is what one endpoint does at once: a segment that arrives may  *)
(* take more of a pending write, answer a read and bring the end.          *)
(***************************************************************************)
EXTENDS Integers, Sequences

CONSTANTS Peer, Byte

VARIABLES wrote,   \* what each program has put into its stream
          read,    \* what each program has got from the other's stream
          ended,   \* each program has ended its stream
          eof      \* each program has been told the other stream ended

vars == <<wrote, read, ended, eof>>

Other(p) == CHOOSE q \in Peer : q # p

\* t is s with something added, or nothing.
Extends(t, s) == Len(s) <= Len(t) /\ \A i \in 1..Len(s) : t[i] = s[i]

Init ==
  /\ wrote = [p \in Peer |-> <<>>]
  /\ read = [p \in Peer |-> <<>>]
  /\ ended = [p \in Peer |-> FALSE]
  /\ eof = [p \in Peer |-> FALSE]

State ==
  /\ wrote \in [Peer -> Seq(Byte)]
  /\ read \in [Peer -> Seq(Byte)]
  /\ ended \in [Peer -> BOOLEAN]
  /\ eof \in [Peer -> BOOLEAN]

Writes(p) ==
  /\ Extends(wrote'[p], wrote[p])
  /\ ended[p] => ended'[p] /\ wrote'[p] = wrote[p]

Reads(p) ==
  /\ Extends(read'[p], read[p])
  /\ Extends(wrote[Other(p)], read'[p])
  /\ eof[p] => eof'[p] /\ read'[p] = read[p]
  /\ eof'[p] => ended[Other(p)] /\ read'[p] = wrote[Other(p)]

Step(p) ==
  /\ State'
  /\ Writes(p) /\ Reads(p)
  /\ \A q \in Peer \ {p} :
       /\ wrote'[q] = wrote[q] /\ read'[q] = read[q]
       /\ ended'[q] = ended[q] /\ eof'[q] = eof[q]

Next == \E p \in Peer : Step(p)

Spec == Init /\ [][Next]_vars

-----------------------------------------------------------------------------
\* What is read is the beginning of what was written, and all of it once the
\* end has been told.
Whole ==
  \A p \in Peer :
    /\ Extends(wrote[Other(p)], read[p])
    /\ eof[p] => ended[Other(p)] /\ read[p] = wrote[Other(p)]
=============================================================================
