----------------------------- MODULE MCOrderMng -----------------------------
(***************************************************************************)
(* Small instances of the order manager for TLC.                           *)
(***************************************************************************)
EXTENDS OrderMngRefinement

\* Only one half of a beat is used: the control run.
OneHalf == {{"hi"}}

\* A beat with no strobe at all, which no command is sent for, and one that
\* waits for both halves.
NoneOrBoth == {{}, {"lo", "hi"}}
=============================================================================
