----------------------------- MODULE MCMessages -----------------------------
(* Every kind of call, with arguments that are empty, that need two length    *)
(* bytes, and that do not fit.                                                *)
EXTENDS Messages

Req(cmd, args, recv) == [cmd |-> cmd, slot |-> 0, args |-> args, recv |-> recv]

Bytes(n) == [i \in 1 .. n |-> i % ByteBase]

\* With and without arguments; blocks that need one length digit, two, that are
\* empty, that do not fit into the argument buffer; an answer of BufSize bytes.
MCRequests ==
    {Req("reset", <<>>, 2),
     Req("reset", <<<<"timeout", 5>>, <<"message", Bytes(1)>>>>, 2),
     Req("set_protocol", <<<<"protocol", 1>>>>, 0),
     Req("transact", <<<<"request", <<>>>>>>, 5),
     Req("transact", <<<<"request", Bytes(5)>>>>, 3),
     Req("transact", <<<<"request", Bytes(8)>>>>, 3),
     Req("verify", <<<<"pin", Bytes(4)>>>>, 5),
     Req("mem_read", <<<<"address", 0>>, <<"count", 12>>>>, 12),
     Req("mem_read", <<<<"address", 6>>, <<"count", 2>>>>, 2),
     Req("mem_write", <<<<"address", 0>>, <<"data", Bytes(1)>>>>, 0)}

MCAnswers == {<<>>, Bytes(2), Bytes(5), Bytes(12)}
=============================================================================
