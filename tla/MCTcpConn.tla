----------------------------- MODULE MCTcpConn -----------------------------
EXTENDS TcpConn

CONSTANTS a, b

MCISS == [p \in {a, b} |-> IF p = a THEN SeqSpace - 2 ELSE 5]

Script(o, w, r, s, c) ==
  [open |-> o, writes |-> w, read |-> r, shutdown |-> s, close |-> c]

Two(sa, sb) == [p \in {a, b} |-> IF p = a THEN sa ELSE sb]

\* A bulk transfer into a small window, closed once all is taken.
Bulk(writes) ==
  Two(Script("connect", writes, 0, FALSE, "early"),
      Script("listen", <<>>, 2, FALSE, "eof"))

\* A request with a shutdown, and its reply.
Request ==
  Two(Script("connect", <<1>>, 2, TRUE, "eof"),
      Script("listen", <<1>>, 2, FALSE, "eof"))

\* Both ends connect at once.
Simultaneous ==
  Two(Script("connect", <<1>>, 0, FALSE, "early"),
      Script("connect", <<>>, 2, FALSE, "eof"))

PassScripts == {Bulk(<<1, 2, 2>>), Request, Simultaneous}

LiveScripts == {Bulk(<<2, 3>>), Request, Simultaneous}
============================================================================
