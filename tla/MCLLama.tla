------------------------------ MODULE MCLLama ------------------------------
(***************************************************************************)
(* Small instances of LLama: goroutines that share a handle, or that have  *)
(* handles of their own; as many addresses as handles, or fewer so that a  *)
(* freed one is handed out again.                                          *)
(***************************************************************************)
EXTENDS LLama

AllShared == [t \in Thread |-> Handle]
LastHandle == CHOOSE h \in Handle : TRUE
FirstThread == CHOOSE t \in Thread : TRUE
\* The first goroutine owns every handle but one, the others own that one.
Owned == [t \in Thread |-> IF t = FirstThread THEN Handle \ {LastHandle} ELSE {LastHandle}]
\* The first goroutine has two handles, the others share one of them.
OneShared ==
    LET second == CHOOSE h \in Handle : h # LastHandle
    IN  [t \in Thread |-> IF t = FirstThread THEN {LastHandle, second} ELSE {LastHandle}]

JustShared == {AllShared}
SharedOrOwned == {OneShared, Owned}
=============================================================================
