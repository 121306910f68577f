-------------------------------- MODULE MCPcsc -------------------------------
(* pcscd with two threads and a program that uses the CT-API library, at one  *)
(* reader with one slot.                                                      *)
EXTENDS Pcsc

MCThreads == {"p1", "p2", "a1"}
MCPrograms == {"pcscd", "app"}
MCProgramOf == [p1 |-> "pcscd", p2 |-> "pcscd", a1 |-> "app"]
Icc(dad, ins) == [dad |-> dad, ins |-> ins]
Ct(ins, unit, want) == [Terminal(ins, want, "T1") EXCEPT !.unit = unit]
MCParts == {<<5, 6>>, <<2, 3>>}
MCTransmits == {Icc("icc1", "binary")}
MCControls == {Ct("reset", 1, "atr"), Terminal("read", None, None) @@ [part |-> <<2, 3>>]}
MCLibraryCommands ==
    {Icc("icc2", "binary"), Icc("icc1", "kvk")}
    \cup {Terminal("select", None, None) @@ [file |-> f] : f \in {"hostcf"}}
    \cup {Terminal("read", None, None) @@ [part |-> p] : p \in MCParts}
=============================================================================
