------------------------------- MODULE CtFiles -------------------------------
(***************************************************************************)
(* The files a CT-API terminal shows an application: directories and the   *)
(* host's configuration, made up when they are read (src/ctapi/ctapi.c).   *)
(* A file is the sequence of blocks its generator puts one after the       *)
(* other; a byte is what it stands for.                                    *)
(***************************************************************************)
EXTENDS Naturals, Sequences, SequencesExt

CONSTANTS Slots,        \* the reader's card slots
          Parts         \* the parts of files that are read: offset and length

Files == {"mf", "ctcf", "ctdir", "icc", "hostcf", "hoststatus"}

\* What a directory lists, besides one file for every slot under "mf".
Entries(f) ==
    CASE f = "mf" -> <<"mf", "ctcf", "ctdir">> \o [i \in 1 .. Slots |-> "icc"]
      [] f \in {"ctcf", "ctdir"} -> <<"mf">>
      [] OTHER -> <<f>>

\* Bytes of a directory's entry, and of the host's configuration.
EntryBytes(f) == <<<<f, "high">>, <<f, "low">>, "01", "00", "00">>
HostBytes == <<<<"01", "06">>, <<"O", "p", "e", "n", "C", "T">>>>

Blocks(f) ==
    CASE f \in {"mf", "ctdir", "icc"} -> [i \in DOMAIN Entries(f) |-> EntryBytes(Entries(f)[i])]
      [] f = "hostcf" -> HostBytes
      [] OTHER -> <<>>

\* ctcf and hoststatus leave the size they should return as it was.
SizeKnown(f) == f \notin {"ctcf", "hoststatus"}

Smaller(a, b) == IF a < b THEN a ELSE b

Put_StartAgain(acc, block) ==
    LET skipped == Smaller(acc.start, Len(block))
        taken   == Smaller(acc.length, Len(block) - skipped)
    IN [start |-> acc.start, length |-> acc.length - taken,
        out |-> acc.out \o SubSeq(block, 1, taken), size |-> acc.size + Len(block)]

\* put: the reading position comes to a block.  Bytes before the start are
\* counted, and the data of the block does not move on with them.
Put(acc, block) ==
    LET skipped == Smaller(acc.start, Len(block))
        taken   == Smaller(acc.length, Len(block) - skipped)
    IN [start |-> acc.start - skipped, length |-> acc.length - taken,
        out |-> acc.out \o SubSeq(block, 1, taken), size |-> acc.size + Len(block)]

Generate(f, offset, len) ==
    FoldLeft(Put, [start |-> offset, length |-> len, out |-> <<>>, size |-> 0], Blocks(f))

\* CardTerminalFile_read; size is any number if the generator does not say.
ReadAnswers(f, offset, len) ==
    LET g == Generate(f, offset, len)
        sw(size) == IF offset > size THEN [data |-> <<>>, sw |-> "6b00"]
                    ELSE [data |-> g.out, sw |-> IF offset + len >= size THEN "9000" ELSE "6282"]
    IN IF SizeKnown(f) THEN {sw(g.size)} ELSE {sw(s) : s \in {0, offset + len + 1}}

Read == [f \in Files, part \in Parts |-> ReadAnswers(f, part[1], part[2])]

\* CardTerminalFile_select: the root and the host's files are found from anywhere, the
\* others in the current directory.
Selects(cwd, f) == f \in {"mf", "hostcf", "hoststatus"} \/ Contains(Entries(cwd), f)
=============================================================================
