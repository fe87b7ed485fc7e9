---------------------------- MODULE HostProcess ----------------------------
(***************************************************************************)
(* A command line program that uses the card through libosnap: what every  *)
(* tool and every job program of the repository has in common.             *)
(*                                                                         *)
(* The operator starts one program after the other.  A program reads its   *)
(* command line, takes resources one by one (buffers, the card, the        *)
(* action), works, gives them back and exits; a step that fails jumps to a *)
(* label further down that gives back what was taken so far.  The module   *)
(* has the state of that process and the calls of the library; a module    *)
(* per family of programs extends it with the steps of each main().        *)
(***************************************************************************)
EXTENDS Naturals, FiniteSets, Sequences

CONSTANT NRun   \* bound: programs the operator starts

ASSUME HostProcessAssumption == NRun \in Nat

VARIABLES
    prog,   \* the program that runs or ran last
    pc,     \* its next step, "shell" when none runs
    opt,    \* its command line
    held,   \* what it holds: "card", "action" and buffers by their names
    exit,   \* how the last program ended, "none" while it runs
    runs    \* programs started so far

processVars == <<prog, pc, opt, held, exit, runs>>

Shell == "shell"

At(p, step) == prog = p /\ pc = step

ProcessInit(p) ==
    /\ prog = p /\ pc = Shell /\ opt = <<>> /\ held = {} /\ exit = "none" /\ runs = 0

-----------------------------------------------------------------------------
(* The steps of a process.                                                 *)

\* main() is entered with the command line o; the operating system has taken
\* back whatever an earlier program left.
Run(p, o, step) ==
    /\ pc = Shell /\ runs < NRun
    /\ prog' = p /\ opt' = o /\ pc' = step
    /\ held' = {} /\ exit' = "none" /\ runs' = runs + 1

Goto(step) == pc' = step /\ UNCHANGED <<prog, opt, held, exit, runs>>

\* Something is taken, or the call fails and the error label is next.
Take(r, step) ==
    /\ held' = held \cup {r} /\ pc' = step
    /\ UNCHANGED <<prog, opt, exit, runs>>

TakeOr(r, step, error) == Take(r, step) \/ Goto(error)

\* Any of the things in rs that are held are given back.
Drop(rs, step) ==
    /\ held' = held \ rs /\ pc' = step
    /\ UNCHANGED <<prog, opt, exit, runs>>

\* exit(code), with the last things given back on the way.
Exit(rs, code) ==
    /\ held' = held \ rs /\ pc' = Shell /\ exit' = code
    /\ UNCHANGED <<prog, opt, runs>>

-----------------------------------------------------------------------------
(* The calls of the library.                                               *)

\* snap_card_alloc_dev: NULL if there is no such device or no context on it.
CardAlloc(step, error) == TakeOr("card", step, error)

\* snap_attach_action: the flags are kept; with SNAP_ATTACH_IRQ it waits for
\* an interrupt, and oc-accel raises none for an attach.  Without the flag it
\* cannot fail on an open card.
AttachAction(step) == Take("action", step)
AttachWithIrq      == Goto("attach_wait")

DetachAction(step) == Drop({"action"}, step)

CardFree(step) == Drop({"card"}, step)

\* The 64-bit capability register as its fields: bits 0-7, 8, 16-31, 32-35,
\* 36-39.  The two DMA fields are powers of two.
CardIoctl(cap, cmd) ==
    CASE cmd = "GET_CARD_TYPE"    -> cap.card
      [] cmd = "GET_CARD_NAME"    -> cap.card
      [] cmd = "GET_NVME_ENABLED" -> IF cap.nvme THEN 1 ELSE 0
      [] cmd = "GET_SDRAM_SIZE"   -> cap.sdram
      [] cmd = "GET_DMA_ALIGN"    -> 2 ^ cap.align
      [] cmd = "GET_DMA_MIN_SIZE" -> 2 ^ cap.min

-----------------------------------------------------------------------------
\* A program has been started; before that the command line means nothing.
Ran == pc # Shell \/ exit # "none"

\* A program that runs has no exit code yet.
Running == pc # Shell => exit = "none"

=============================================================================
