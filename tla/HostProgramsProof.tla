------------------------- MODULE HostProgramsProof -------------------------
(***************************************************************************)
(* The families of programs put together.  A step of one family leaves the *)
(* variables of the others alone, so the invariant of the whole is the     *)
(* conjunction of the families' invariants: each of them says of a program *)
(* of another family only that its own state is of its type and at rest.   *)
(***************************************************************************)
EXTENDS HostPrograms, ProgramsProof, CopyJobsProof

\* The invariant of the whole.  A program that runs has no exit code.
HostInv ==
    /\ prog \in Programs /\ runs \in 0 .. NRun /\ Running
    /\ ToolInv /\ CopyInv /\ DdrInv /\ ExampleInv /\ EngineInv

-----------------------------------------------------------------------------
(* The beginning.                                                          *)

\* Before the first program every family is in a state of its type, and says
\* nothing more.
LEMMA ToolBegins ==
    ASSUME ToolInit, pc = Shell, exit = "none", held = {}
    PROVE  ToolInv
  <1>1. Zero \in Val /\ Ones \in Val
    BY DEF Zero, Ones, Val, Half
  <1>2. ToolTypes
    <2>1. /\ 0 \in Reg /\ 0 \in 0 .. MaxCount /\ 1 \in (-MaxDump - MaxCount) .. MaxDump
      BY ToolBounds DEF Reg
    <2> QED
      BY <1>1, <2>1 DEF ToolInit, ToolTypes
  <1> QED
    BY <1>2 DEF ToolInv, ToolHeld, PeekInv, PokeInv, Ran

\* The kernel of the copy jobs is idle and the card holds what it holds.
LEMMA CopyBegins ==
    ASSUME CopyInit, pc = Shell, exit = "none", held = {}
    PROVE  CopyInv
  <1>1. DOMAIN gbuf = Cells /\ DOMAIN dbuf = Cells /\ DOMAIN card_mem = CardCells
    BY DEF CopyInit, Cells
  <1>2. DOMAIN obuff = {} /\ DOMAIN stored = {} /\ top = 0
    BY DEF CopyInit, Nothing
  <1>3. /\ ~kernel.busy /\ kernel.left = 0 /\ kernel.pos = 0 /\ kernel.retc = "none"
        /\ DOMAIN kernel = DOMAIN IdleKernel
    BY DEF CopyInit, IdleKernel
  <1>4. CopyTypes /\ StoredStays /\ Untouched
    BY <1>1, <1>2, <1>3 DEF CopyTypes, StoredStays, Untouched
  <1>5. CopyHeld
    BY DEF CopyHeld, WithBoth, WithCard, WithAction, Shell
  <1> QED
    BY <1>4, <1>5 DEF CopyInv, Ran

\* The memory under test is some memory, with at most one fault.
LEMMA DdrBegins ==
    ASSUME MemoryInit, pc = Shell, exit = "none", held = {}
    PROVE  DdrInv
  <1>1. cell \in [Blocks -> Blocks] /\ ddr = [c \in Blocks |-> ddr[c]] /\ reading \in BOOLEAN /\ test_late \in BOOLEAN
    <2>1. PICK x \in Blocks, y \in Blocks : cell = [b \in Blocks |-> IF b = x THEN y ELSE b]
      BY DEF MemoryInit
    <2>2. cell \in [Blocks -> Blocks]
      BY <2>1
    <2> QED
      BY <2>2 DEF MemoryInit
  <1>2. block \in Blocks \cup {1} /\ iter \in 0 .. MaxIter /\ test_rc \in {-1, 0, 1, 11}
    BY DdrBounds DEF MemoryInit, Blocks
  <1> QED
    BY <1>1, <1>2 DEF DdrInv, DdrTypes, DdrHeld, DdrLabels, Ran, Shell

\* The example action is idle.
LEMMA ExampleBegins ==
    ASSUME ExampleInit, pc = Shell, exit = "none", held = {}
    PROVE  ExampleInv
  <1>1. /\ engine = IdleEngine /\ irq = FALSE /\ area = [a \in Areas |-> "other"]
        /\ sdram \in SDRAM /\ turn = 0 /\ leg = 1 /\ rc = 1 /\ calm = TRUE /\ landed = 0
    BY DEF ExampleInit
  <1>2. engine \in EngineRecords /\ ~engine.busy /\ engine.next = {}
    BY <1>1 DEF IdleEngine, EngineRecords, Areas
  <1>3. ExampleTypes
    <2>1. sdram \in Nat /\ turn \in Nat /\ leg \in 1 .. 2 /\ rc \in {0, 1, 62, 256} /\ landed \in Nat
      BY <1>1, ExampleBounds
    <2>2. area = [a \in Areas |-> area[a]] /\ calm \in BOOLEAN /\ irq \in BOOLEAN
      BY <1>1
    <2> QED
      BY <1>2, <2>1, <2>2 DEF ExampleTypes
  <1>4. ExampleHeld
    BY DEF ExampleHeld, ExampleLabels, Shell
  <1> QED
    BY <1>2, <1>3, <1>4 DEF ExampleInv, EngineAwaited, EngineForeign, Ran

\* The register blocks are clear, the masters idle and no process is there.
LEMMA EngineBegins ==
    ASSUME EngineInit, pc = Shell, exit = "none", held = {}
    PROVE  EngineInv
  <1>1. Absent \in Child /\ Cleared \in Slave /\ Absent.step = "gone"
    BY EngineBounds DEF Absent, Child, ChildSteps, Cleared, Slave
  <1>2. EngineTypes
    BY <1>1 DEF EngineInit, EngineTypes, Master, WrMaster
  <1>3. \A e \in Engines : EngineOk(e)
    BY <1>1 DEF EngineInit, EngineOk, Unspoiled, FlagsEarned, Ran, Shell
  <1>4. EngineControl
    BY <1>1 DEF EngineInit, EngineControl, Ran, Shell, Children
  <1> QED
    BY <1>2, <1>3, <1>4 DEF EngineInv, EngineHeld

\* In each of the kinds of initial state all families begin.
LEMMA HostBegins == HostInit => HostInv
  <1> SUFFICES ASSUME HostInit PROVE HostInv
    OBVIOUS
  <1>1. /\ prog \in Programs /\ pc = Shell /\ exit = "none" /\ held = {} /\ runs = 0
        /\ ToolInit /\ CopyInit /\ MemoryInit /\ ExampleInit /\ EngineInit
    BY DEF HostInit, NoTools, NoCopy, NoDdr, NoExample, NoEngine, ProcessInit, Programs, Tools
  <1>2. 0 \in 0 .. NRun
    BY HostProcessAssumption DEF HostProcessAssumption
  <1> QED
    BY <1>1, <1>2, ToolBegins, CopyBegins, DdrBegins, ExampleBegins, EngineBegins DEF HostInv, Running, Shell

-----------------------------------------------------------------------------
(* A step of another family.                                               *)

\* While a program of another family runs, the tools and the registers keep
\* what they are, ...
LEMMA ToolRests ==
    ASSUME ToolInv, UNCHANGED toolVars, prog' \notin Tools
    PROVE  ToolInv'
  BY DEF ToolInv, ToolHeld, ToolTypes, PeekInv, PokeInv, ToolPrograms, Tools, toolVars, regVars, loopVars

\* ... the copy jobs, which were never started, ...
LEMMA CopyRests ==
    ASSUME CopyInv, UNCHANGED copyVars, prog \notin CopyPrograms, prog' \notin CopyPrograms
    PROVE  CopyInv'
  <1>1. UNCHANGED <<obuff, kernel, gbuf, dbuf, card_mem, top, stored>>
    BY DEF copyVars, bufferVars, kernelVars, historyVars
  <1> QED
    BY <1>1 DEF CopyInv, CopyHeld, CopyTypes, StoredStays, Untouched

\* ... the memory under test, ...
LEMMA DdrRests ==
    ASSUME DdrInv, UNCHANGED ddrVars, prog' # "snap_example_ddr"
    PROVE  DdrInv'
  BY DEF DdrInv, DdrHeld, DdrTypes, ddrVars, boardVars, testVars

\* ... the example action, which stays idle, ...
LEMMA ExampleRests ==
    ASSUME ExampleInv, UNCHANGED exampleVars, prog # "snap_example", prog' # "snap_example"
    PROVE  ExampleInv'
  BY DEF ExampleInv, ExampleHeld, ExampleTypes, EngineAwaited, EngineForeign, exampleVars

\* ... and the engines.
LEMMA EngineRests ==
    ASSUME EngineInv, UNCHANGED engineJobsVars, prog' \notin EnginePrograms
    PROVE  EngineInv'
  BY DEF EngineInv, EngineTypes, EngineHeld, engineJobsVars, engineVars, childVars, engineHistory

-----------------------------------------------------------------------------
(* The number of programs: each start counts one, no other step does.      *)

\* A start is only for an operator who has programs left.
Started == runs < NRun /\ runs' = runs + 1

\* Each main() that is entered is counted.
LEMMA StartsCount ==
    ASSUME ToolRun \/ CopyStart \/ DdrStart \/ ExampleStart \/ EngineStart
    PROVE  Started
  <1> USE DEF Run, Started
  <1>1. CASE ToolRun
    BY <1>1 DEF ToolRun, PeekRun, PokeRun, MaintRun
  <1>2. CASE CopyStart
    BY <1>2 DEF CopyStart, CopyRun
  <1>3. CASE DdrStart \/ ExampleStart
    BY <1>3 DEF DdrStart, DdrRun, ExampleStart, ExampleRun
  <1>4. CASE EngineStart
    BY <1>4 DEF EngineStart, EngineRun
  <1> QED
    BY <1>1, <1>2, <1>3, <1>4

\* No step of a process or of the hardware is counted.
LEMMA StepsDoNotCount ==
    ASSUME \/ ToolStep \/ CopySteps \/ KernelStep \/ DdrStep \/ ExampleStep \/ ExampleWorks
           \/ EngineStep \/ ChildKilled \/ EngineWorks
    PROVE  UNCHANGED runs
  <1> USE DEF Goto, Take, TakeOr, Drop, Exit, CardAlloc, AttachAction, AttachWithIrq, DetachAction,
              CardFree, processVars
  <1>1. CASE PeekOpen \/ PeekPass \/ PeekFails \/ PeekEnd
    BY <1>1 DEF PeekOpen, PeekPass, PeekFails, PeekEnd
  <1>2. CASE PokeOpen \/ PokeWrite \/ PokeReadBack \/ PokeNext \/ PokeEnd
    BY <1>2 DEF PokeOpen, PokeWrite, PokeReadBack, PokeNext, PokeEnd
  <1>3. CASE SnapOpen \/ SnapActionInfo \/ MaintEnd \/ \E cap \in Capabilities : SnapVersion(cap) \/ SnapShowCap(cap)
    BY <1>3 DEF SnapOpen, SnapActionInfo, MaintEnd, SnapVersion, SnapShowCap
  <1>4. CASE CopySteps
    <2>1. PICK p \in CopyPrograms : CopyStep(p)
      BY <1>4 DEF CopySteps, MemcopyStep, HelloworldStep, CopyPrograms
    <2>2. CASE Input(p) \/ Output(p) \/ OpenCard(p) \/ Attach(p) \/ Execute(p) \/ Wait(p)
      BY <2>2 DEF Input, Output, OpenCard, Attach, Execute, Wait
    <2>3. CASE Write(p) \/ Retc(p) \/ Verify(p) \/ Detach(p) \/ FreeCard(p) \/ FreeBuffers(p)
      BY <2>3 DEF Write, Retc, Verify, Detach, FreeCard, FreeBuffers
    <2> QED
      BY <2>1, <2>2, <2>3 DEF CopyStep
  <1>5. CASE KernelStep
    BY <1>5 DEF KernelStep, MemcopyRefuses, MemcopyBlock, UppercaseWord, KernelReturns
  <1>6. CASE DdrOpen \/ check_parms \/ get_mem \/ AttachLoop \/ ram_clear \/ DetachLoop \/ DdrExit
    BY <1>6 DEF DdrOpen, check_parms, get_mem, AttachLoop, ram_clear, DetachLoop, DdrExit
  <1>7. CASE Tests
    BY <1>7 DEF Tests, ram_test_ad, ram_test_rnd1, ram_test_rnd2, WriteBlock, ReadBlock
  <1>8. CASE ExampleStep
    BY <1>8 DEF ExampleStep, ExampleOpen, ExampleCheck, CountAttach, CountStart, CountWait, CountDetach,
                CopyLoop, AllocSource, AllocTarget, DoAction, CopyWait, CopyDetach, Compare, CopyFree,
                ExampleExit, action_wait_idle
  <1>9. CASE ExampleWorks \/ EngineWorks \/ ChildKilled
    BY <1>9 DEF ExampleWorks, EngineDone, EngineTakes, EngineWorks, ReadBurst, WriteBurst, ChildKilled, KillChild
  <1>10. CASE EngineStep
    BY <1>10 DEF EngineStep, SingleStep, AllGone, MultiOpen, MultiRun, run_single_engine, OpenEngine,
                 StartAndConfigure, WaitReady, WaitDone, CheckSingle, CheckMulti
  <1> QED
    BY <1>1, <1>2, <1>3, <1>4, <1>5, <1>6, <1>7, <1>8, <1>9, <1>10 DEF ToolStep, DdrStep

-----------------------------------------------------------------------------
(* The invariant.                                                          *)

\* A step of a family keeps the family's invariant, and the others rest.
LEMMA HostStep == HostInv /\ HostNext => HostInv'
  <1> SUFFICES ASSUME HostInv, HostNext PROVE HostInv'
    OBVIOUS
  <1>1. runs' \in 0 .. NRun
    <2>1. Started \/ UNCHANGED runs
      BY StartsCount, StepsDoNotCount
      DEF HostNext, Operator, Process, Hardware, ExampleEngine, OfTools, OfCopy, OfDdr, OfExample, OfEngine
    <2> QED
      BY <2>1, HostProcessAssumption DEF HostInv, Started, HostProcessAssumption
  <1> USE DEF HostInv, Programs, Tools, CopyPrograms, EnginePrograms
  <1>2. CASE OfTools(ToolRun) \/ OfTools(ToolStep)
    <2>1. ToolInv' /\ Running' /\ prog' \in ToolPrograms
      BY <1>2, ToolInvStep DEF OfTools, ToolStepOrRun, ToolPrograms
    <2>2. CopyInv' /\ DdrInv' /\ ExampleInv' /\ EngineInv'
      BY <1>2, <2>1, CopyRests, DdrRests, ExampleRests, EngineRests DEF OfTools, ToolPrograms
    <2> QED
      BY <1>1, <2>1, <2>2 DEF ToolPrograms
  <1>3. CASE OfCopy(CopyStart) \/ OfCopy(CopySteps) \/ OfCopy(KernelStep)
    <2>1. CopyInv' /\ Running' /\ prog' \in CopyPrograms
      BY <1>3, CopyInvStep DEF OfCopy
    <2>2. ToolInv' /\ DdrInv' /\ ExampleInv' /\ EngineInv'
      BY <1>3, <2>1, ToolRests, DdrRests, ExampleRests, EngineRests DEF OfCopy
    <2> QED
      BY <1>1, <2>1, <2>2
  <1>4. CASE OfDdr(DdrStart) \/ OfDdr(DdrStep)
    <2>1. DdrInv' /\ Running' /\ prog' = "snap_example_ddr"
      BY <1>4, DdrInvStep DEF OfDdr
    <2>2. ToolInv' /\ CopyInv' /\ ExampleInv' /\ EngineInv'
      BY <1>4, <2>1, ToolRests, CopyRests, ExampleRests, EngineRests DEF OfDdr
    <2> QED
      BY <1>1, <2>1, <2>2
  <1>5. CASE OfExample(ExampleStart) \/ OfExample(ExampleStep) \/ OfExample(ExampleWorks)
    <2>1. ExampleInv' /\ Running' /\ prog' = "snap_example"
      BY <1>5, ExampleInvStep DEF OfExample
    <2>2. ToolInv' /\ CopyInv' /\ DdrInv' /\ EngineInv'
      BY <1>5, <2>1, ToolRests, CopyRests, DdrRests, EngineRests DEF OfExample
    <2> QED
      BY <1>1, <2>1, <2>2
  <1>6. CASE OfEngine(EngineStart) \/ OfEngine(ChildKilled) \/ OfEngine(EngineStep) \/ OfEngine(EngineWorks)
    <2>1. EngineInv' /\ Running' /\ prog' \in EnginePrograms
      BY <1>6, EngineInvStep DEF OfEngine
    <2>2. ToolInv' /\ CopyInv' /\ DdrInv' /\ ExampleInv'
      BY <1>6, <2>1, ToolRests, CopyRests, DdrRests, ExampleRests DEF OfEngine
    <2> QED
      BY <1>1, <2>1, <2>2
  <1> QED
    BY <1>2, <1>3, <1>4, <1>5, <1>6 DEF HostNext, Operator, Process, Hardware, ExampleEngine

\* The invariant speaks of the variables of the model only.
LEMMA HostStutters == HostInv /\ UNCHANGED hostVars => HostInv'
  <1> SUFFICES ASSUME HostInv, UNCHANGED hostVars PROVE HostInv'
    OBVIOUS
  <1>1. UNCHANGED <<prog, pc, opt, held, exit, runs, toolVars, copyVars, ddrVars, exampleVars, engineJobsVars>>
    BY DEF hostVars, processVars
  <1>2. prog' \in Programs /\ runs' \in 0 .. NRun /\ Running'
    BY <1>1 DEF HostInv, Running
  <1>3. ToolInv'
    BY <1>1 DEF HostInv, ToolInv, ToolHeld, ToolTypes, PeekInv, PokeInv, Ran, Agrees, toolVars, regVars, loopVars
  <1>4. CopyInv'
    <2>1. UNCHANGED <<ibuff, obuff, file, retc, kernel, gbuf, dbuf, card_mem, top, want, stored>>
      BY <1>1 DEF copyVars, bufferVars, kernelVars, historyVars
    <2>2. CopyHeld' /\ CopyTypes' /\ StoredStays' /\ (Ran' <=> Ran)
      BY <1>1, <2>1 DEF HostInv, CopyInv, CopyHeld, CopyTypes, StoredStays, Ran
    <2>3. KernelControl => KernelControl'
      BY <1>1, <2>1 DEF KernelControl, CopyOptions
    <2>4. KernelPlace => KernelPlace'
      BY <1>1, <2>1 DEF KernelPlace, UsesCard, Fits
    <2>5. BuffersKnown => BuffersKnown'
      BY <1>1, <2>1 DEF BuffersKnown, OutputCells, SetSize
    <2>6. SourceKnown => SourceKnown'
      BY <1>1, <2>1 DEF SourceKnown, Fits
    <2>7. Moved => Moved'
      BY <1>1, <2>1 DEF Moved, JobDone, Landed, Converted, UsesCard, Fits
    <2>8. StoredApart => StoredApart'
      BY <1>1, <2>1 DEF StoredApart, JobWords
    <2>9. Verdicts => Verdicts'
      BY <1>1, <2>1 DEF Verdicts, Same, TrailingZeros, SetSize
    <2>10. Untouched => Untouched'
      BY <2>1 DEF Untouched
    <2> QED
      BY <1>1, <2>2, <2>3, <2>4, <2>5, <2>6, <2>7, <2>8, <2>9, <2>10 DEF HostInv, CopyInv
  <1>5. DdrInv'
    <2>1. UNCHANGED <<cell, stuck, ddr, block, reading, iter, test_rc, test_late>>
      BY <1>1 DEF ddrVars, boardVars, testVars
    <2>2. DdrHeld' /\ (Ran' <=> Ran)
      BY <1>1, <2>1 DEF HostInv, DdrInv, DdrHeld, Ran
    <2>3. DdrTypes'
      BY <1>1, <2>1 DEF HostInv, DdrInv, DdrTypes
    <2>4. DdrControl => DdrControl'
      BY <1>1, <2>1 DEF DdrControl, Tested, FirstBlock, EndBlock
    <2>5. (Apart' <=> Apart) /\ (Good' <=> Good) /\ (StuckKeep' <=> StuckKeep)
      BY <1>1, <2>1 DEF Apart, Good, NoneStuck, StuckKeep, Tested, FirstBlock, EndBlock, memset_ad
    <2>7. Addressed(FirstBlock .. block - 1)' <=> Addressed(FirstBlock .. block - 1)
      BY <1>1, <2>1 DEF Addressed, FirstBlock, memset_ad
    <2>8. Turned(FirstBlock .. block - 1)' <=> Turned(FirstBlock .. block - 1)
      BY <1>1, <2>1 DEF Turned, FirstBlock
    <2>9. DdrShows => DdrShows'
      BY <1>1, <2>1, <2>5, <2>7, <2>8 DEF DdrShows
    <2> QED
      BY <1>1, <2>2, <2>3, <2>4, <2>9 DEF HostInv, DdrInv
  <1>6. ExampleInv'
    BY <1>1 DEF HostInv, ExampleInv, ExampleHeld, ExampleTypes, EngineAwaited, EngineForeign, Ran, ExampleControl,
                CountInFlight, MemcpyControl, CopyInFlight, Counted, Counts, Compared, Delivered, Mode, LeftOut,
                SourceBuffer, TargetBuffer, HostSource, HostTarget, exampleVars
  <1>7. EngineInv'
    BY <1>1 DEF HostInv, EngineInv, EngineTypes, EngineHeld, EngineControl, EngineOk, Unspoiled, FlagsEarned,
                OutcomeEarned, Verified, Worked, Ran, Children, engineJobsVars, engineVars, childVars, engineHistory
  <1> QED
    BY <1>2, <1>3, <1>4, <1>5, <1>6, <1>7 DEF HostInv

\* The invariant holds in every reachable state: what the families promise
\* follows from it, below.
THEOREM HostInvariant == HostSpec => []HostInv
  <1>1. HostInv /\ [HostNext]_hostVars => HostInv'
    BY HostStep, HostStutters
  <1> QED
    BY HostBegins, <1>1, PTL DEF HostSpec

-----------------------------------------------------------------------------
(* What the programs hold.                                                 *)

\* The resources there are: the card, its action and the buffers.
HeldOnes == {"card", "action", "ibuff", "obuff", "src", "dest"}

\* Every resource a program holds is one of these, an action is held with
\* its card (but for snap_example_ddr), and a program that has ended by itself
\* holds nothing (but for snap_example_ddr).
HeldInOrder ==
    /\ held \subseteq HeldOnes
    /\ prog # "snap_example_ddr" /\ "action" \in held => "card" \in held
    /\ NothingKept

\* Each family says at which step of a program it holds what.
LEMMA HeldFollows == HostInv => HeldInOrder
  <1> SUFFICES ASSUME HostInv PROVE HeldInOrder
    OBVIOUS
  <1> USE DEF HeldInOrder, HeldOnes, NothingKept, Shell
  <1>1. CASE prog \in Tools
    <2>1. held \in {{}, {"card"}} /\ (pc = Shell => held = {})
      BY <1>1 DEF HostInv, ToolInv, ToolHeld, Tools, ToolPrograms
    <2> QED
      BY <1>1, <2>1 DEF Tools
  <1>2. CASE prog \in CopyPrograms
    <2>1. CopyHeld
      BY DEF HostInv, CopyInv
    <2>2. /\ held \subseteq {"card", "action", "ibuff", "obuff"}
          /\ "action" \in held => "card" \in held
          /\ pc = Shell => held = {}
      BY <1>2, <2>1 DEF CopyHeld, WithCard
    <2> QED
      BY <1>2, <2>2 DEF CopyPrograms
  <1>3. CASE prog = "snap_example_ddr"
    <2>1. DdrHeld
      BY DEF HostInv, DdrInv
    <2>2. held \subseteq HeldOnes
      BY <1>3, <2>1 DEF DdrHeld, DdrLabels
    <2>3. NothingKept
      BY <1>3, <2>1 DEF DdrHeld
    <2> QED
      BY <1>3, <2>2, <2>3
  <1>4. CASE prog = "snap_example"
    <2>1. ExampleHeld
      BY DEF HostInv, ExampleInv
    <2>2. SourceBuffer \subseteq {"src"} /\ TargetBuffer \subseteq {"dest"}
      BY DEF SourceBuffer, TargetBuffer
    <2>3. held \subseteq {"card", "action", "src", "dest"} /\ ("action" \in held => "card" \in held)
      BY <1>4, <2>1, <2>2 DEF ExampleHeld, ExampleLabels, CountLabels, MemcpyLabels
    <2>4. pc = Shell => held = {}
      BY <1>4, <2>1 DEF ExampleHeld
    <2> QED
      BY <1>4, <2>3, <2>4
  <1>5. CASE prog \in EnginePrograms
    BY <1>5 DEF HostInv, EngineInv, EngineHeld, EnginePrograms
  <1> QED
    BY <1>1, <1>2, <1>3, <1>4, <1>5 DEF HostInv, Programs

\* A program of another kind than snap_example_ddr is followed by one of its
\* own kind.
LEMMA OtherThanDdr == HostInv /\ HostNext /\ prog # "snap_example_ddr" => prog' # "snap_example_ddr"
  <1> SUFFICES ASSUME HostInv, HostNext, prog # "snap_example_ddr" PROVE prog' # "snap_example_ddr"
    OBVIOUS
  <1> USE DEF HostInv
  <1>1. CASE OfTools(ToolRun) \/ OfTools(ToolStep)
    BY <1>1, ToolInvStep DEF OfTools, ToolStepOrRun, ToolPrograms, Tools
  <1>2. CASE OfCopy(CopyStart) \/ OfCopy(CopySteps) \/ OfCopy(KernelStep)
    BY <1>2, CopyInvStep DEF OfCopy, CopyPrograms
  <1>3. CASE OfExample(ExampleStart) \/ OfExample(ExampleStep) \/ OfExample(ExampleWorks)
    BY <1>3, ExampleInvStep DEF OfExample
  <1>4. CASE OfEngine(EngineStart) \/ OfEngine(ChildKilled) \/ OfEngine(EngineStep) \/ OfEngine(EngineWorks)
    BY <1>4, EngineInvStep DEF OfEngine, EnginePrograms
  <1> QED
    BY <1>1, <1>2, <1>3, <1>4 DEF HostNext, Operator, Process, Hardware, ExampleEngine, OfDdr

-----------------------------------------------------------------------------
(* The results.                                                            *)

\* The state of every family is of its type in every reachable state.
THEOREM TypeCorrect == HostSpec => []HostTypeOK
  <1>1. HostInv => HostTypeOK
    <2> SUFFICES ASSUME HostInv PROVE HostTypeOK
      OBVIOUS
    <2>1. prog \in Programs /\ runs \in 0 .. NRun /\ held \subseteq HeldOnes
      BY HeldFollows DEF HostInv, HeldInOrder
    <2>2. /\ {regs[r] : r \in Reg} \cup {val} \subseteq Val /\ fixed \subseteq Reg
          /\ offs \in Nat /\ i \in 0 .. MaxCount /\ dump \in (-MaxDump - MaxCount) .. MaxDump
      BY DEF HostInv, ToolInv, ToolTypes
    <2>3. /\ \A m \in {gbuf, dbuf} : DOMAIN m = Cells
          /\ DOMAIN card_mem = CardCells /\ DOMAIN stored \subseteq CardCells
          /\ kernel.left \in Nat /\ kernel.retc \in {"none", "SUCCESS", "FAILURE"}
      BY DEF HostInv, CopyInv, CopyTypes
    <2>4. block \in Blocks \cup {1} /\ iter \in 0 .. MaxIter /\ test_rc \in {-1, 0, 1, 11}
      BY DEF HostInv, DdrInv, DdrTypes
    <2>5. /\ DOMAIN area = Areas /\ {engine.from, engine.to} \subseteq Areas
          /\ engine.next \subseteq {"count", "HH", "HD", "DH", "DD"}
          /\ turn \in Nat /\ leg \in 1 .. 2 /\ rc \in {0, 1, 62, 256}
      <3>1. ExampleTypes
        BY DEF HostInv, ExampleInv
      <3>2. DOMAIN From = {"count", "HH", "HD", "DH", "DD"}
        BY DEF From
      <3>3. /\ {engine.from, engine.to} \subseteq Areas
            /\ engine.next \subseteq {"count", "HH", "HD", "DH", "DD"}
        BY <3>1, <3>2 DEF ExampleTypes, EngineRecords
      <3>4. DOMAIN area = Areas
        BY <3>1 DEF ExampleTypes
      <3> QED
        BY <3>1, <3>3, <3>4 DEF ExampleTypes
    <2>6. \A e \in Engines : rd[e] \in {"idle", "own", "stale"} /\ wr[e] \in {"idle", "own", "stale", "both"}
      BY DEF HostInv, EngineInv, EngineTypes, Master, WrMaster
    <2>7. \A e \in Engines : child[e].test \in 0 .. MaxTest \cup {1}
      BY DEF HostInv, EngineInv, EngineTypes, Child
    <2> QED
      BY <2>1, <2>2, <2>3, <2>4, <2>5, <2>6, <2>7 DEF HostTypeOK, HeldOnes
  <1> QED
    BY HostInvariant, <1>1, PTL

\* Whatever fails on the way, a program that ends by itself has given back its
\* buffers, its action and its card.
THEOREM NothingIsKept == HostSpec => []NothingKept
  <1>1. HostInv => NothingKept
    BY HeldFollows DEF HeldInOrder
  <1> QED
    BY HostInvariant, <1>1, PTL

\* No program gives the card back while it holds the action.
THEOREM ActionFirst == HostSpec => ActionBeforeCard
  <1>1. HostInv /\ HeldInOrder' /\ [HostNext]_hostVars
          => [("card" \in held /\ "card" \notin held' /\ pc # Shell /\ prog # "snap_example_ddr")
                => "action" \notin held']_hostVars
    BY OtherThanDdr DEF HeldInOrder
  <1>2. HostInv => HeldInOrder
    BY HeldFollows
  <1> QED
    BY HostInvariant, <1>1, <1>2, PTL DEF HostSpec, ActionBeforeCard

\* When snap_peek ends with success, it has looked at all the registers it was
\* asked for, in their order, and each of them held what was asked for.
THEOREM PeeksRight == HostSpec => []PeekChecked
  <1>1. HostInv => PeekChecked
    BY PeekCheckedHolds DEF HostInv
  <1> QED
    BY HostInvariant, <1>1, PTL

\* snap_poke -r ends with success only if the register holds the value, and a
\* 64-bit one gives up only for a reason.
THEOREM PokesRight == HostSpec => []PokeVerified
  <1>1. HostInv => PokeVerified
    BY PokeVerifiedHolds DEF HostInv
  <1> QED
    BY HostInvariant, <1>1, PTL

\* A copy job that ends with success and writes a file has written its source,
\* whatever earlier jobs left in the kernel and on the card.
THEOREM CopiesRight == HostSpec => []CopyRight
  <1>1. HostInv => CopyRight
    BY CopyRightHolds DEF HostInv
  <1> QED
    BY HostInvariant, <1>1, PTL

\* What a job put on the card stays there until a later job is sent to the
\* same words.
THEOREM StoredOnCardStays == HostSpec => []StoredStays
  <1>1. HostInv => StoredStays
    BY DEF HostInv, CopyInv
  <1> QED
    BY HostInvariant, <1>1, PTL

\* The kernel stays within the buffers of the process, and they are there as
\* long as it can reach them.
THEOREM KernelKeepsToBuffers == HostSpec => []KernelInBuffers
  <1>1. HostInv => KernelInBuffers
    BY KernelInBuffersHolds DEF HostInv
  <1> QED
    BY HostInvariant, <1>1, PTL

\* -X accepts only a right copy with zeros behind it, and refuses a right one
\* only when the last word was not full.
THEOREM VerdictsRight == HostSpec => []VerifyVerdict
  <1>1. HostInv => VerifyVerdict
    BY VerifyVerdictHolds DEF HostInv
  <1> QED
    BY HostInvariant, <1>1, PTL

\* A memory that passes the test of snap_example_ddr is good as far as that
\* test can tell.
THEOREM TestFindsFaults == HostSpec => []FaultsFound
  <1>1. HostInv => FaultsFound
    BY FaultsFoundHolds DEF HostInv
  <1> QED
    BY HostInvariant, <1>1, PTL

\* A program of copies that succeeds has seen the result of each of them, if it
\* compares or always found the action idle and no count was started over a copy.
THEOREM CopiesLanded == HostSpec => []EveryCopyLanded
  <1>1. HostInv => EveryCopyLanded
    BY EveryCopyLandedHolds DEF HostInv
  <1> QED
    BY HostInvariant, <1>1, PTL

\* The example action copies from and to buffers that are allocated, unless the
\* process has given up on the job or started it over another one.
THEOREM DmaInBuffers == HostSpec => []NoDmaToFreed
  <1>1. HostInv => NoDmaToFreed
    BY NoDmaToFreedHolds DEF HostInv
  <1> QED
    BY HostInvariant, <1>1, PTL

\* A traffic test that succeeds has had each engine nobody spoiled do what it was
\* asked for; in hdl_multi_process a wrong read goes unnoticed only behind a
\* response error.
THEOREM EngineSuccess == HostSpec => []SuccessEarned
  <1>1. HostInv => SuccessEarned
    BY SuccessEarnedHolds DEF HostInv
  <1> QED
    BY HostInvariant, <1>1, PTL

=============================================================================
