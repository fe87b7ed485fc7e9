----------------------------- MODULE MCSnapJob -----------------------------
(***************************************************************************)
(* Small instances of SnapJob for TLC.                                     *)
(***************************************************************************)
EXTENDS SnapJob

PollOnly   == {"poll"}
IrqOnly    == {"irq"}
EitherMode == {"poll", "irq"}
=============================================================================
