------------------------- MODULE MCPartialCommands -------------------------
(***************************************************************************)
(* Small instances of PartialCommands for TLC: a half has 16 bytes, so     *)
(* that a strobe has up to 8 commands and the FIFO is half full with 4.    *)
(***************************************************************************)
EXTENDS PartialCommands

\* Strobes with the most commands, with one of each length, with two gaps in
\* the middle, and with one byte.
Most == {1, 3, 5, 7, 9, 11, 13, 15}
Each == 1 .. 15
Gaps == (0 .. 15) \ {6, 9}
One  == {15}

\* The low half, the high half, and both halves.
SomeBeats == {[l |-> Most, h |-> {}], [l |-> {}, h |-> Gaps], [l |-> One, h |-> Each],
              [l |-> Each, h |-> Most]}
=============================================================================
