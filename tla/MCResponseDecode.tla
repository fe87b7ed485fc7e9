-------------------------- MODULE MCResponseDecode --------------------------
(***************************************************************************)
(* Small instances of ResponseDecode for TLC.                              *)
(***************************************************************************)
EXTENDS ResponseDecode

\* Both halves of one beat with partial commands, and a full command.
Lo == [tag |-> 1, pos |-> "lo", partial |-> TRUE, cmds |-> 2]
Hi == [tag |-> 1, pos |-> "hi", partial |-> TRUE, cmds |-> 1]
F  == [tag |-> 2, pos |-> "lo", partial |-> FALSE, cmds |-> 1]

SomeHalves == {Lo, Hi, F}

\* The host asks to retry partial commands, or full ones.
OneKind == {{Lo, Hi}, {F}}

\* It asks to retry any command.
BothKinds == {{Lo, Hi, F}}
=============================================================================
