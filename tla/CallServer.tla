----------------------------- MODULE CallServer -----------------------------
(***************************************************************************)
(* What a call of the client library promises: the command is carried out  *)
(* at most once, with the arguments the caller gave and no others, and the *)
(* caller gets as much of the card's answer to it as it has room for, or   *)
(* an error.  How command and answer travel is left to the implementation. *)
(***************************************************************************)
EXTENDS Naturals, Sequences

CONSTANTS Requests, Answers, NoRequest, Refused

VARIABLES request, carried, result

vars == <<request, carried, result>>

Init ==
    /\ request = NoRequest
    /\ carried = NoRequest
    /\ result = Refused

Ask(r) ==
    /\ request = NoRequest
    /\ request' = r
    /\ result' = Refused
    /\ UNCHANGED carried

\* A call that cannot even be sent, or a caller that ends between two calls.
Refuse ==
    /\ request = NoRequest
    /\ result' = Refused
    /\ UNCHANGED <<request, carried>>

\* The reader carries out what was asked, and answers a.
CarryOut(a) ==
    /\ request # NoRequest
    /\ carried = NoRequest
    /\ carried' = <<request, a>>
    /\ UNCHANGED <<request, result>>

Finish(v) ==
    /\ request # NoRequest
    /\ request' = NoRequest
    /\ carried' = NoRequest
    /\ result' = v

Fail == Finish(Refused)

Return(a) ==
    /\ carried = <<request, a>>
    /\ Finish(SubSeq(a, 1, IF Len(a) > request.recv THEN request.recv ELSE Len(a)))

\* Where the card answers nothing, the caller may find anything.
ReturnNothing ==
    /\ carried = <<request, <<>> >>
    /\ request' = NoRequest
    /\ carried' = NoRequest

Next ==
    \/ \E r \in Requests : Ask(r)
    \/ \E a \in Answers : CarryOut(a) \/ Return(a)
    \/ Refuse
    \/ Fail
    \/ ReturnNothing

Spec == Init /\ [][Next]_vars
=============================================================================
