---------------------------- MODULE HostPrograms ----------------------------
(***************************************************************************)
(* The programs of the repository that use a card, one started after the   *)
(* other: the register tools, the HLS copy jobs, the memory test and the   *)
(* jobs of the HDL example action, the traffic tests of the HDL engines.   *)
(*                                                                         *)
(* A card has one action, so the programs of a behaviour are all for that   *)
(* action: the register tools, or one of the others again and again.  The  *)
(* state of the other families stays as it was.  What an earlier program   *)
(* has left in an action or a memory is what the next one meets.           *)
(***************************************************************************)
EXTENDS RegisterTools, CopyJobs, MemoryTest, ExampleJobs, EngineJobs

hostVars == <<processVars, toolVars, copyVars, ddrVars, exampleVars, engineJobsVars>>

Tools    == {"snap_peek", "snap_poke", "oc_maint"}
Programs == Tools \cup CopyPrograms \cup {"snap_example_ddr", "snap_example"} \cup EnginePrograms

-----------------------------------------------------------------------------
(* The state of a family that is not there.                                *)

NoTools   == ToolInit /\ regs = [r \in Reg |-> Zero]
NoCopy    == CopyInit /\ card_mem[0] = CHOOSE j \in Junk : TRUE
NoDdr     == MemoryInit /\ cell = [b \in Blocks |-> b] /\ stuck = {}
NoExample == ExampleInit /\ sdram = CHOOSE s \in SDRAM : TRUE
NoEngine  == EngineInit

HostInit ==
    \/ ProcessInit("snap_peek") /\ ToolInit /\ NoCopy /\ NoDdr /\ NoExample /\ NoEngine
    \/ (\E p \in CopyPrograms : ProcessInit(p))
       /\ NoTools /\ CopyInit /\ NoDdr /\ NoExample /\ NoEngine
    \/ ProcessInit("snap_example_ddr") /\ NoTools /\ NoCopy /\ MemoryInit /\ NoExample /\ NoEngine
    \/ ProcessInit("snap_example") /\ NoTools /\ NoCopy /\ NoDdr /\ ExampleInit /\ NoEngine
    \/ (\E p \in EnginePrograms : ProcessInit(p))
       /\ NoTools /\ NoCopy /\ NoDdr /\ NoExample /\ EngineInit

-----------------------------------------------------------------------------
(* A step of a family leaves the others alone.                             *)

OfTools(A)   == prog \in Tools /\ A /\ UNCHANGED <<copyVars, ddrVars, exampleVars, engineJobsVars>>
OfCopy(A)    == prog \in CopyPrograms /\ A /\ UNCHANGED <<toolVars, ddrVars, exampleVars, engineJobsVars>>
OfDdr(A)     == prog = "snap_example_ddr" /\ A /\ UNCHANGED <<toolVars, copyVars, exampleVars, engineJobsVars>>
OfExample(A) == prog = "snap_example" /\ A /\ UNCHANGED <<toolVars, copyVars, ddrVars, engineJobsVars>>
OfEngine(A)  == prog \in EnginePrograms /\ A /\ UNCHANGED <<toolVars, copyVars, ddrVars, exampleVars>>

Operator ==
    \/ OfTools(ToolRun) \/ OfCopy(CopyStart) \/ OfDdr(DdrStart) \/ OfExample(ExampleStart)
    \/ OfEngine(EngineStart) \/ OfEngine(ChildKilled)

Process ==
    \/ OfTools(ToolStep) \/ OfCopy(CopySteps) \/ OfDdr(DdrStep) \/ OfExample(ExampleStep)
    \/ OfEngine(EngineStep)

ExampleEngine == OfExample(ExampleWorks)

Hardware == OfCopy(KernelStep) \/ ExampleEngine \/ OfEngine(EngineWorks)

HostNext == Operator \/ Process \/ Hardware

\* The operating system lets a process run, and the example action counts down
\* or copies to its end.  Nothing is assumed of the kernels and engines: the
\* programs that use them give up in time.
HostFairness == WF_hostVars(Process) /\ WF_hostVars(ExampleEngine)

HostSpec == HostInit /\ [][HostNext]_hostVars /\ HostFairness

-----------------------------------------------------------------------------
HostTypeOK ==
    /\ prog \in Programs /\ runs \in 0 .. NRun
    /\ held \subseteq {"card", "action", "ibuff", "obuff", "src", "dest"}
    /\ {regs[r] : r \in Reg} \cup {val} \subseteq Val /\ fixed \subseteq Reg
    /\ offs \in Nat /\ i \in 0 .. MaxCount /\ dump \in (-MaxDump - MaxCount) .. MaxDump
    /\ \A m \in {gbuf, dbuf} : DOMAIN m = Cells
    /\ DOMAIN card_mem = CardCells /\ DOMAIN stored \subseteq CardCells
    /\ kernel.left \in Nat /\ kernel.retc \in {"none", "SUCCESS", "FAILURE"}
    /\ block \in Blocks \cup {1} /\ iter \in 0 .. MaxIter /\ test_rc \in {-1, 0, 1, 11}
    /\ DOMAIN area = Areas /\ {engine.from, engine.to} \subseteq Areas
    /\ engine.next \subseteq {"count", "HH", "HD", "DH", "DD"}
    /\ turn \in Nat /\ leg \in 1 .. 2 /\ rc \in {0, 1, 62, 256}
    /\ \A e \in Engines : rd[e] \in {"idle", "own", "stale"} /\ wr[e] \in {"idle", "own", "stale", "both"}
    /\ \A e \in Engines : child[e].test \in 0 .. MaxTest \cup {1}

\* No program gives the card back before the action it has attached.  (Except
\* for snap_example_ddr, which a failed test takes past the detach.)
ActionBeforeCard ==
    [][("card" \in held /\ "card" \notin held' /\ pc # Shell /\ prog # "snap_example_ddr")
          => "action" \notin held']_hostVars

\* Whatever fails on the way, a program that ends by itself has given back what
\* it took: card, action and buffers.  (snap_example_ddr keeps the action, as
\* above.)
NothingKept ==
    pc = Shell /\ exit \notin {"none", "signal"} =>
        held = {} \/ (prog = "snap_example_ddr" /\ exit = "failure" /\ held = {"action"})

\* The wait for an interrupt that nobody raises: that of an attach with
\* SNAP_ATTACH_IRQ, and that of a copy of snap_example -I, whose action is not
\* told the handle.
WaitsForIrq ==
    \/ pc = "attach_wait"
    \/ pc = "children" /\ \E e \in Children : child[e].step = "attach_wait"
    \/ prog = "snap_example" /\ pc = "copy_wait" /\ opt.irq

\* Every program that is started ends, however long the action takes, or is in
\* one of those two waits.
ProgramEnds == (pc # Shell) ~> (pc = Shell \/ WaitsForIrq)
=============================================================================
