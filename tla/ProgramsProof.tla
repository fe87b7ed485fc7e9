--------------------------- MODULE ProgramsProof ---------------------------
(***************************************************************************)
(* What the register tools, the memory test, the jobs of the example       *)
(* action and the traffic tests of the engines keep, each for itself: an   *)
(* inductive invariant per family, that the family's steps keep it, and    *)
(* the family's safety property from it.  HostProgramsProof puts the       *)
(* families together and states the properties of the whole specification. *)
(*                                                                         *)
(* An invariant has a part on what is held at which label, the types, and, *)
(* once a program of the family has been started, how far the program is.  *)
(***************************************************************************)
EXTENDS RegisterTools, MemoryTest, ExampleJobs, EngineJobs, TLAPS

-----------------------------------------------------------------------------
(* The register tools.                                                     *)


\* The bounds of the tools.
LEMMA ToolBounds == NReg \in Nat \ {0} /\ MaxCount \in Nat \ {0} /\ MaxDump \in Nat \ {0}
  BY RegisterToolsAssumption DEF RegisterToolsAssumption

USE ToolBounds

ToolPrograms == {"snap_peek", "snap_poke", "oc_maint"}

ToolLabels ==
    [snap_peek |-> {"args", "no_card", "loop", "failure", "data"},
     snap_poke |-> {"args", "no_card", "loop", "rd_back", "next", "failure"},
     oc_maint  |-> {"args", "no_card", "version", "info", "show", "close"}]

\* What a tool holds: the card between its open and its end.
ToolHeld ==
    prog \in ToolPrograms =>
        /\ pc \in ToolLabels[prog] \cup {Shell}
        /\ held = IF pc \in {"args", "no_card", Shell} THEN {} ELSE {"card"}

ToolStepOrRun == ToolRun \/ ToolStep

\* The tools hold the card between its open and their end.
LEMMA ToolHeldStep == ToolHeld /\ prog \in ToolPrograms /\ ToolStepOrRun => ToolHeld' /\ prog' \in ToolPrograms
  <1> SUFFICES ASSUME ToolHeld, prog \in ToolPrograms, ToolStepOrRun PROVE ToolHeld' /\ prog' \in ToolPrograms
    OBVIOUS
  <1> USE DEF ToolHeld, ToolPrograms, ToolLabels, Shell, At, Run, Goto, Take, TakeOr, Exit, CardAlloc
  <1>1. CASE ToolRun
    BY <1>1 DEF ToolRun, PeekRun, PokeRun, MaintRun
  <1>2. CASE PeekOpen \/ PeekPass \/ PeekFails \/ PeekEnd
    BY <1>2 DEF PeekOpen, PeekPass, PeekFails, PeekEnd
  <1>3. CASE PokeOpen \/ PokeWrite \/ PokeReadBack \/ PokeNext \/ PokeEnd
    BY <1>3 DEF PokeOpen, PokeWrite, PokeReadBack, PokeNext, PokeEnd
  <1>4. CASE SnapOpen \/ SnapActionInfo \/ MaintEnd
    BY <1>4 DEF SnapOpen, SnapActionInfo, MaintEnd
  <1>5. ASSUME NEW cap \in Capabilities, SnapVersion(cap) \/ SnapShowCap(cap)
        PROVE  ToolHeld' /\ prog' \in ToolPrograms
    <2>1. UNCHANGED <<prog, held>> /\ prog = "oc_maint" /\ pc \in {"version", "show"} /\ pc' \in {"info", "close"}
      BY <1>5 DEF SnapVersion, SnapShowCap
    <2> QED
      BY <2>1, <1>5
  <1> QED
    BY <1>1, <1>2, <1>3, <1>4, <1>5 DEF ToolStepOrRun, ToolStep

-----------------------------------------------------------------------------
(* The types of the tools, and the walk of snap_peek and snap_poke.        *)

Steps(o) == IF o.dump = 0 THEN 1 ELSE o.dump

\* The register looked at in the k-th place, and whether it is what was asked for.
Visit(o, k)  == o.offs + (IF k < Steps(o) THEN k - 1 ELSE Steps(o) - 1)
Agrees(o, r) == LET v == IF o.width = 32 THEN [regs[r] EXCEPT !.hi = 0] ELSE regs[r]
                IN  /\ "equal" \in o.check => v = o.want
                    /\ "not_equal" \in o.check => v # o.want

PeekInv ==
    prog = "snap_peek" /\ Ran =>
        /\ opt \in PeekOptions
        /\ seen \in Seq(Nat)
        /\ Len(seen) < Steps(opt) => offs = opt.offs + Len(seen) /\ i = 0
        /\ Len(seen) >= Steps(opt) => offs = opt.offs + Steps(opt) - 1 /\ i = Len(seen) - Steps(opt) + 1
        /\ dump = opt.dump - Len(seen)
        /\ i <= opt.count
        /\ \A k \in 1 .. Len(seen) : seen[k] = Visit(opt, k) /\ Agrees(opt, seen[k])
        /\ exit = "ok" => i >= opt.count

PokeInv ==
    prog = "snap_poke" /\ Ran =>
        /\ opt \in PokeOptions
        /\ offs = opt.offs /\ dump = 1 /\ i <= opt.count
        /\ pc = "args" => i = 0
        /\ pc \in {"rd_back", "next"} => i < opt.count /\ Mapped(offs)
        /\ opt.width = 32 => val.hi # opt.val.hi
        /\ opt.rd_back /\ (pc = "next" \/ (pc \in {"loop", Shell} /\ i > 0 /\ exit \in {"none", "ok"})) =>
             regs[offs] = opt.val /\ opt.width = 64
        /\ exit = "ok" => i >= opt.count
        /\ pc = "failure" /\ opt.width = 64 => ~Mapped(offs) \/ regs[offs] # opt.val

ToolTypes ==
    /\ regs \in [Reg -> Val] /\ val \in Val /\ fixed \subseteq Reg
    /\ offs \in Nat /\ i \in 0 .. MaxCount /\ dump \in (-MaxDump - MaxCount) .. MaxDump

ToolInv == ToolHeld /\ ToolTypes /\ PeekInv /\ PokeInv

\* The fields of a command line of snap_peek, ...
LEMMA PeekFields ==
    ASSUME NEW o \in PeekOptions
    PROVE  /\ o.offs \in Reg /\ o.width \in {32, 64} /\ o.count \in 0 .. MaxCount
           /\ o.dump \in 0 .. MaxDump /\ o.want \in Val /\ Steps(o) \in 1 .. MaxDump
  BY DEF PeekOptions, Val, Zero, Ones, Half, Steps

\* ... and of snap_poke.
LEMMA PokeFields ==
    ASSUME NEW o \in PokeOptions
    PROVE  /\ o.offs \in 0 .. NReg /\ o.width \in {32, 64} /\ o.count \in 0 .. MaxCount
           /\ o.rd_back \in BOOLEAN /\ o.val \in {Zero, Ones}
  BY DEF PokeOptions

\* A start of a tool establishes its own invariant.
LEMMA ToolRunStep == ToolTypes /\ ToolRun => ToolTypes' /\ PeekInv' /\ PokeInv'
  <1> SUFFICES ASSUME ToolTypes, ToolRun PROVE ToolTypes' /\ PeekInv' /\ PokeInv'
    OBVIOUS
  <1>0. /\ Ones \in Val /\ Not(Zero) \in Val /\ Not(Ones) \in Val
        /\ Not(Zero).hi # Zero.hi /\ Not(Ones).hi # Ones.hi
    BY DEF Ones, Zero, Not, Val, Half
  <1>1. ASSUME NEW o \in PeekOptions, PeekRun(o) PROVE ToolTypes' /\ PeekInv' /\ PokeInv'
    <2>1. /\ prog' = "snap_peek" /\ opt' = o /\ pc' = "args" /\ exit' = "none"
          /\ offs' = o.offs /\ val' = Ones /\ i' = 0 /\ dump' = o.dump /\ seen' = <<>>
          /\ regs' = regs /\ fixed' = fixed
      BY <1>1 DEF PeekRun, Run, regVars
    <2>2. ToolTypes'
      BY <2>1, <1>0, PeekFields DEF ToolTypes, Reg
    <2>3. PeekInv'
      BY <2>1, PeekFields DEF PeekInv, Reg
    <2>4. PokeInv'
      BY <2>1 DEF PokeInv
    <2> QED
      BY <2>2, <2>3, <2>4
  <1>2. ASSUME NEW o \in PokeOptions, PokeRun(o) PROVE ToolTypes' /\ PeekInv' /\ PokeInv'
    <2>1. /\ prog' = "snap_poke" /\ opt' = o /\ pc' = "args" /\ exit' = "none"
          /\ offs' = o.offs /\ val' = Not(o.val) /\ i' = 0 /\ dump' = 1 /\ seen' = <<>>
          /\ regs' = regs /\ fixed' = fixed
      BY <1>2 DEF PokeRun, Run, regVars
    <2>2. ToolTypes'
      BY <2>1, <1>0, PokeFields DEF ToolTypes
    <2>3. PokeInv'
      BY <2>1, <1>0, PokeFields DEF PokeInv, Shell
    <2>4. PeekInv'
      BY <2>1 DEF PeekInv
    <2> QED
      BY <2>2, <2>3, <2>4
  <1>3. ASSUME NEW o \in MaintOptions, MaintRun(o) PROVE ToolTypes' /\ PeekInv' /\ PokeInv'
    <2>1. /\ prog' = "oc_maint" /\ offs' = 0 /\ val' = Ones /\ i' = 0 /\ dump' = 1
          /\ regs' = regs /\ fixed' = fixed
      BY <1>3 DEF MaintRun, Run, regVars
    <2> QED
      BY <2>1, <1>0 DEF ToolTypes, PeekInv, PokeInv
  <1> QED
    BY <1>1, <1>2, <1>3 DEF ToolRun

\* The reads of snap_peek and the steps between them.
LEMMA PeekPassStep == ToolInv /\ Running /\ PeekPass => ToolTypes' /\ PeekInv' /\ PokeInv'
  <1> SUFFICES ASSUME ToolInv, Running, PeekPass PROVE ToolTypes' /\ PeekInv' /\ PokeInv'
    OBVIOUS
  <1> DEFINE n == Steps(opt)  k == Len(seen)
  <1>1. /\ prog = "snap_peek" /\ pc = "loop" /\ i < opt.count /\ Mapped(offs) /\ exit = "none"
        /\ prog' = "snap_peek" /\ pc' = "loop" /\ opt' = opt /\ exit' = "none"
        /\ regs' = regs /\ fixed' = fixed
        /\ ~PeekWrong(PeekRead(val)) /\ val' = PeekRead(val)
        /\ seen' = Append(seen, offs) /\ dump' = dump - 1
        /\ \/ dump' >= 1 /\ offs' = offs + 1 /\ i' = i
           \/ ~(dump' >= 1) /\ offs' = offs /\ i' = i + 1
    BY DEF PeekPass, At, Goto, regVars, Running, Shell
  <1>2. PeekInv /\ ToolTypes /\ opt \in PeekOptions
    BY <1>1 DEF ToolInv, PeekInv, Ran, Shell
  <1>3. /\ opt.offs \in Nat /\ opt.count \in 0 .. MaxCount /\ opt.dump \in 0 .. MaxDump
        /\ n \in 1 .. MaxDump /\ opt.width \in {32, 64} /\ offs \in Reg /\ offs \in Nat
    BY <1>1, <1>2, PeekFields DEF Mapped, Reg
  <1>4. /\ k \in Nat
        /\ k < n => offs = opt.offs + k /\ i = 0
        /\ k >= n => offs = opt.offs + n - 1 /\ i = k - n + 1
        /\ dump = opt.dump - k
    BY <1>1, <1>2 DEF PeekInv, Ran, Shell
  <1>5. /\ seen' \in Seq(Nat) /\ Len(seen') = k + 1 /\ seen'[k + 1] = offs
        /\ \A j \in 1 .. k : seen'[j] = seen[j]
    <2>1. seen \in Seq(Nat)
      BY <1>1, <1>2 DEF PeekInv, Ran, Shell
    <2> QED
      BY <1>1, <1>3, <2>1
  <1> HIDE DEF k
  <1>6. offs = Visit(opt, k + 1)
    <2>1. CASE k < n
      <3>1. k + 1 <= n
        BY <1>3, <1>4, <2>1
      <3> QED
        BY <1>3, <1>4, <2>1, <3>1 DEF Visit
    <2>2. CASE k >= n
      <3>1. ~(k + 1 < n)
        BY <1>3, <1>4, <2>2
      <3> QED
        BY <1>3, <1>4, <2>2, <3>1 DEF Visit
    <2> QED
      BY <1>3, <1>4, <2>1, <2>2
  <1>7. Agrees(opt, offs) /\ PeekRead(val) \in Val
    <2>0. regs[offs] \in Val
      BY <1>2, <1>3 DEF ToolTypes
    <2>1. PeekRead(val) = IF opt.width = 32 THEN [regs[offs] EXCEPT !.hi = 0] ELSE regs[offs]
      <3>1. [regs[offs] EXCEPT !.hi = 0] = [hi |-> 0, lo |-> regs[offs].lo]
        BY <2>0 DEF Val
      <3>2. [Read32(offs, val) EXCEPT !.hi = 0] = [hi |-> 0, lo |-> regs[offs].lo]
        BY DEF Read32
      <3> QED
        BY <3>1, <3>2 DEF PeekRead, Read64
    <2>2. PeekRead(val) \in Val
      BY <2>1, <2>0 DEF Val, Half
    <2> QED
      BY <1>1, <2>1, <2>2 DEF Agrees, PeekWrong
  <1>8. \A j \in 1 .. Len(seen') : seen'[j] = Visit(opt, j) /\ Agrees(opt, seen'[j])
    <2>1. \A j \in 1 .. k : seen[j] = Visit(opt, j) /\ Agrees(opt, seen[j])
      BY <1>1, <1>2 DEF PeekInv, Ran, Shell, k
    <2> QED
      BY <2>1, <1>4, <1>5, <1>6, <1>7
  <1>9. dump' = opt.dump - (k + 1) /\ (dump' >= 1 <=> k + 1 < n)
    BY <1>1, <1>3, <1>4 DEF Steps
  <1>a. /\ dump' >= 1 => offs' = offs + 1 /\ i' = i
        /\ ~(dump' >= 1) => offs' = offs /\ i' = i + 1
    BY <1>1
  <1>10. /\ k + 1 < n => offs' = opt.offs + (k + 1) /\ i' = 0
         /\ k + 1 >= n => offs' = opt.offs + n - 1 /\ i' = (k + 1) - n + 1
    <2>1. CASE k + 1 < n
      <3>1. k < n /\ offs' = offs + 1 /\ i' = i
        BY <2>1, <1>a, <1>3, <1>4, <1>9
      <3>2. i = 0 /\ offs = opt.offs + k
        BY <1>4, <3>1
      <3>3. offs' = opt.offs + (k + 1)
        BY <3>1, <3>2, <1>3, <1>4
      <3> QED
        BY <2>1, <3>1, <3>2, <3>3, <1>3, <1>4
    <2>2. CASE k + 1 >= n
      <3>1. offs' = offs /\ i' = i + 1
        BY <1>a, <1>3, <1>4, <1>9, <2>2
      <3>2. CASE k < n
        BY <3>1, <3>2, <2>2, <1>3, <1>4
      <3>3. CASE k >= n
        BY <3>1, <3>3, <2>2, <1>3, <1>4
      <3> QED
        BY <3>2, <3>3, <1>3, <1>4
    <2> QED
      BY <2>1, <2>2
  <1>11. i' <= opt.count /\ i' \in 0 .. MaxCount /\ offs' \in Nat
    BY <1>1, <1>2, <1>3 DEF ToolTypes
  <1>12. PeekInv'
    <2>0. opt' = opt /\ regs' = regs /\ exit' = "none"
      BY <1>1
    <2>1. \A j \in 1 .. Len(seen') : seen'[j] = Visit(opt', j) /\ Agrees(opt, seen[j])'
      <3> SUFFICES ASSUME NEW j \in 1 .. Len(seen')
                   PROVE  seen'[j] = Visit(opt', j) /\ Agrees(opt, seen[j])'
        OBVIOUS
      <3>1. seen'[j] = Visit(opt, j) /\ Agrees(opt, seen'[j])
        BY <1>8
      <3>2. Agrees(opt, seen[j])'
        BY <3>1, <2>0 DEF Agrees
      <3> QED
        BY <3>1, <3>2, <2>0
    <2>2. /\ Len(seen') < Steps(opt') => offs' = opt'.offs + Len(seen') /\ i' = 0
          /\ Len(seen') >= Steps(opt') => offs' = opt'.offs + Steps(opt') - 1 /\ i' = Len(seen') - Steps(opt') + 1
          /\ dump' = opt'.dump - Len(seen')
          /\ i' <= opt'.count
      BY <2>0, <1>5, <1>9, <1>10, <1>11 DEF n
    <2> QED
      BY <2>0, <1>2, <1>5, <2>1, <2>2 DEF PeekInv
  <1>13. ToolTypes'
    <2>1. dump' \in (-MaxDump - MaxCount) .. MaxDump
      <3>1. k + 1 <= n \/ k + 1 = n + i' - 1
        BY <1>3, <1>4, <1>10, <1>11
      <3>2. k + 1 <= opt.dump + 1 + MaxCount
        BY <3>1, <1>3, <1>4, <1>11 DEF Steps
      <3>3. dump' \in Int
        BY <1>3, <1>4, <1>9
      <3> QED
        BY <3>2, <3>3, <1>3, <1>4, <1>9
    <2> QED
      BY <1>1, <1>2, <1>7, <1>11, <2>1 DEF ToolTypes
  <1> QED
    BY <1>1, <1>12, <1>13 DEF PokeInv

\* The other steps of snap_peek look at no register.
LEMMA PeekStep ==
    ToolInv /\ Running /\ (PeekOpen \/ PeekPass \/ PeekFails \/ PeekEnd) =>
        ToolTypes' /\ PeekInv' /\ PokeInv'
  <1> SUFFICES ASSUME ToolInv, Running, PeekOpen \/ PeekFails \/ PeekEnd
               PROVE  ToolTypes' /\ PeekInv' /\ PokeInv'
    BY PeekPassStep
  <1>1. /\ prog = "snap_peek" /\ prog' = "snap_peek" /\ opt' = opt /\ UNCHANGED toolVars
        /\ pc # Shell
        /\ exit' = "ok" => i >= opt.count
    BY DEF PeekOpen, PeekFails, PeekEnd, At, Goto, Exit, CardAlloc, TakeOr, Take, Shell, Running
  <1>2. ToolTypes'
    BY <1>1 DEF ToolInv, ToolTypes, toolVars, regVars, loopVars
  <1>3. PeekInv'
    BY <1>1 DEF ToolInv, PeekInv, Ran, Agrees, toolVars, regVars, loopVars
  <1> QED
    BY <1>1, <1>2, <1>3 DEF PokeInv

\* The steps of snap_poke: what was written is read back before it is believed.
LEMMA PokeStep ==
    ToolInv /\ Running /\ (PokeOpen \/ PokeWrite \/ PokeReadBack \/ PokeNext \/ PokeEnd) =>
        ToolTypes' /\ PeekInv' /\ PokeInv'
  <1> SUFFICES ASSUME ToolInv, Running,
                      PokeOpen \/ PokeWrite \/ PokeReadBack \/ PokeNext \/ PokeEnd
               PROVE  ToolTypes' /\ PeekInv' /\ PokeInv'
    OBVIOUS
  <1>1. /\ prog = "snap_poke" /\ prog' = "snap_poke" /\ opt' = opt /\ pc # Shell
        /\ exit = "none" /\ fixed' = fixed
    BY DEF PokeOpen, PokeWrite, PokeReadBack, PokeNext, PokeEnd, At, Goto, Exit, CardAlloc, TakeOr,
           Take, Shell, Running, toolVars, regVars, loopVars
  <1>2. /\ PokeInv /\ ToolTypes /\ opt \in PokeOptions
        /\ opt.val \in Val /\ opt.width \in {32, 64} /\ opt.rd_back \in BOOLEAN
        /\ opt.count \in 0 .. MaxCount /\ i \in 0 .. MaxCount
    BY <1>1, PokeFields DEF ToolInv, PokeInv, Ran, Val, Zero, Ones, Half, ToolTypes
  <1>3. /\ offs = opt.offs /\ dump = 1 /\ i <= opt.count /\ offs \in Nat
        /\ pc = "args" => i = 0
        /\ pc \in {"rd_back", "next"} => i < opt.count /\ Mapped(offs)
        /\ opt.width = 32 => val.hi # opt.val.hi
        /\ opt.rd_back /\ (pc = "next" \/ (pc = "loop" /\ i > 0)) => regs[offs] = opt.val /\ opt.width = 64
        /\ pc = "failure" /\ opt.width = 64 => ~Mapped(offs) \/ regs[offs] # opt.val
    BY <1>1, <1>2 DEF PokeInv, Ran, ToolTypes
  <1>a. ASSUME ToolTypes', PokeInv' PROVE ToolTypes' /\ PeekInv' /\ PokeInv'
    BY <1>a, <1>1 DEF PeekInv
  <1>4. CASE PokeOpen
    <2>1. /\ UNCHANGED toolVars /\ i = 0 /\ exit' # "ok"
          /\ pc' \in {"loop", "no_card"} \/ (pc' = Shell /\ exit' = "failure")
      <3>1. UNCHANGED toolVars /\ pc = "args"
        BY <1>4 DEF PokeOpen, At
      <3>2. exit' \in {exit, "failure"} /\ (pc' \in {"loop", "no_card"} \/ (pc' = Shell /\ exit' = "failure"))
        BY <1>4 DEF PokeOpen, Goto, Exit, CardAlloc, TakeOr, Take
      <3> QED
        BY <1>1, <1>3, <3>1, <3>2
    <2>2. ToolTypes'
      BY <1>2, <2>1 DEF ToolTypes, toolVars, regVars, loopVars
    <2>3. PokeInv'
      BY <1>1, <1>2, <1>3, <2>1 DEF PokeInv, Shell, toolVars, regVars, loopVars
    <2> QED
      BY <1>a, <2>2, <2>3
  <1>5. CASE PokeEnd
    <2>1. /\ UNCHANGED toolVars /\ pc' = Shell
          /\ exit' = "failure" \/ (exit' = "ok" /\ pc = "loop" /\ i >= opt.count)
      BY <1>5 DEF PokeEnd, Exit
    <2>2. ToolTypes'
      BY <1>2, <2>1 DEF ToolTypes, toolVars, regVars, loopVars
    <2>3. PokeInv'
      BY <1>1, <1>2, <1>3, <2>1 DEF PokeInv, Shell, toolVars, regVars, loopVars
    <2> QED
      BY <1>a, <2>2, <2>3
  <1>6. CASE PokeWrite
    <2>1. /\ UNCHANGED <<offs, val, i, dump>> /\ exit' = "none"
          /\ \/ Mapped(offs) /\ pc' = IF opt.rd_back THEN "rd_back" ELSE "next"
             \/ ~Mapped(offs) /\ pc' = "failure"
          /\ pc = "loop" /\ i < opt.count
      BY <1>1, <1>6 DEF PokeWrite, At, Goto, loopVars, regVars
    <2>2. regs' \in [Reg -> Val]
      <3>1. Write32(offs, opt.val) \in [Reg -> Val]
        <4>1. ASSUME offs \in Reg PROVE [regs[offs] EXCEPT !.lo = opt.val.lo] \in Val
          <5>1. regs[offs] \in Val
            BY <4>1, <1>2 DEF ToolTypes
          <5>2. [regs[offs] EXCEPT !.lo = opt.val.lo] = [hi |-> regs[offs].hi, lo |-> opt.val.lo]
            BY <5>1 DEF Val
          <5> QED
            BY <5>1, <5>2, <1>2 DEF Val
        <4>2. regs \in [Reg -> Val]
          BY <1>2 DEF ToolTypes
        <4> QED
          BY <4>1, <4>2 DEF Write32
      <3>2. Write64(offs, opt.val) \in [Reg -> Val]
        BY <1>2 DEF Write64, ToolTypes
      <3> QED
        BY <3>1, <3>2, <1>2, <1>6 DEF PokeWrite, ToolTypes
    <2>3. ToolTypes'
      BY <1>1, <1>2, <2>1, <2>2 DEF ToolTypes
    <2>4. PokeInv'
      BY <1>1, <1>2, <1>3, <2>1 DEF PokeInv, Shell, Mapped
    <2> QED
      BY <1>a, <2>3, <2>4
  <1>7. CASE PokeReadBack
    <2>1. /\ UNCHANGED <<regs, offs, i, dump>> /\ exit' = "none" /\ pc = "rd_back"
          /\ val' = IF opt.width = 32 THEN Read32(offs, val) ELSE Read64(offs, val)
          /\ pc' = IF val' = opt.val THEN "next" ELSE "failure"
          /\ i < opt.count /\ offs \in Reg
      BY <1>1, <1>3, <1>7 DEF PokeReadBack, At, Goto, loopVars, regVars, Mapped
    <2>2. regs[offs] \in Val /\ val \in Val
      BY <1>2, <2>1 DEF ToolTypes, toolVars, regVars, loopVars
    <2>3. CASE opt.width = 32
      <3>1. val' = [hi |-> val.hi, lo |-> regs[offs].lo] /\ val'.hi # opt.val.hi
        BY <2>1, <2>3, <1>3 DEF Read32
      <3>2. val' \in Val /\ pc' = "failure"
        BY <2>1, <2>2, <3>1 DEF Val
      <3>3. ToolTypes'
        BY <1>1, <1>2, <2>1, <3>2 DEF ToolTypes
      <3>4. PokeInv'
        BY <1>1, <1>2, <1>3, <2>1, <3>1, <3>2, <2>3 DEF PokeInv, Shell
      <3> QED
        BY <1>a, <3>3, <3>4
    <2>4. CASE opt.width = 64
      <3>1. val' = regs[offs]
        BY <2>1, <2>4 DEF Read64
      <3>2. ToolTypes'
        BY <1>1, <1>2, <2>1, <2>2, <3>1 DEF ToolTypes
      <3>3. PokeInv'
        BY <1>1, <1>2, <1>3, <2>1, <3>1, <2>4 DEF PokeInv, Shell, Mapped
      <3> QED
        BY <1>a, <3>2, <3>3
    <2> QED
      BY <1>2, <2>3, <2>4
  <1>8. CASE PokeNext
    <2>1. /\ UNCHANGED <<regs, offs, val, dump>> /\ exit' = "none" /\ pc = "next" /\ pc' = "loop"
          /\ i' = i + 1
      BY <1>1, <1>8 DEF PokeNext, At, Goto, loopVars, regVars
    <2>2. i' <= opt.count /\ i' \in 0 .. MaxCount
      BY <1>2, <1>3, <2>1
    <2>3. ToolTypes'
      BY <1>1, <1>2, <2>1, <2>2 DEF ToolTypes
    <2>4. PokeInv'
      BY <1>1, <1>2, <1>3, <2>1, <2>2 DEF PokeInv, Shell, Mapped
    <2> QED
      BY <1>a, <2>3, <2>4
  <1> QED
    BY <1>4, <1>5, <1>6, <1>7, <1>8

\* oc_maint looks at no register.
LEMMA MaintStep ==
    ASSUME ToolInv,
           \/ SnapOpen \/ SnapActionInfo \/ MaintEnd
           \/ \E cap \in Capabilities : SnapVersion(cap) \/ SnapShowCap(cap)
    PROVE  ToolTypes' /\ PeekInv' /\ PokeInv'
  <1>1. prog = "oc_maint" /\ prog' = prog /\ UNCHANGED <<regVars, offs, val, i, dump>>
    <2>1. CASE SnapOpen \/ SnapActionInfo \/ MaintEnd
      BY <2>1 DEF SnapOpen, SnapActionInfo, MaintEnd, At, Goto, Exit, CardAlloc, TakeOr, Take,
                  toolVars, loopVars
    <2>2. ASSUME NEW cap \in Capabilities, SnapVersion(cap) \/ SnapShowCap(cap)
          PROVE  prog = "oc_maint" /\ prog' = prog /\ UNCHANGED <<regVars, offs, val, i, dump>>
      BY <2>2 DEF SnapVersion, SnapShowCap, At, Goto
    <2> QED
      BY <2>1, <2>2
  <1>2. ToolTypes'
    BY <1>1 DEF ToolInv, ToolTypes, regVars
  <1> QED
    BY <1>1, <1>2 DEF PeekInv, PokeInv

\* A process that runs has no exit code, before and after a step of a tool.
LEMMA ToolRunning == Running /\ ToolStepOrRun => Running'
  <1> SUFFICES ASSUME Running, ToolStepOrRun PROVE Running'
    OBVIOUS
  <1> USE DEF Running, Shell, At, Run, Goto, Take, TakeOr, Exit, CardAlloc
  <1>1. CASE ToolRun
    BY <1>1 DEF ToolRun, PeekRun, PokeRun, MaintRun
  <1>2. CASE PeekOpen \/ PeekPass \/ PeekFails \/ PeekEnd
    BY <1>2 DEF PeekOpen, PeekPass, PeekFails, PeekEnd
  <1>3. CASE PokeOpen \/ PokeWrite \/ PokeReadBack \/ PokeNext \/ PokeEnd
    BY <1>3 DEF PokeOpen, PokeWrite, PokeReadBack, PokeNext, PokeEnd
  <1>4. CASE SnapOpen \/ SnapActionInfo \/ MaintEnd
    BY <1>4 DEF SnapOpen, SnapActionInfo, MaintEnd
  <1>5. ASSUME NEW cap \in Capabilities, SnapVersion(cap) \/ SnapShowCap(cap) PROVE Running'
    <2>1. UNCHANGED exit /\ pc # Shell
      BY <1>5 DEF SnapVersion, SnapShowCap
    <2> QED
      BY <2>1
  <1> QED
    BY <1>1, <1>2, <1>3, <1>4, <1>5 DEF ToolStepOrRun, ToolStep

\* The invariant of the tools is kept by their steps.
LEMMA ToolInvStep ==
    ToolInv /\ Running /\ prog \in ToolPrograms /\ ToolStepOrRun => ToolInv' /\ Running' /\ prog' \in ToolPrograms
  BY ToolHeldStep, ToolRunStep, PeekStep, PokeStep, MaintStep, ToolRunning
  DEF ToolInv, ToolStepOrRun, ToolStep

\* What a successful snap_peek has looked at is the walk it was asked for.
LEMMA PeekCheckedHolds == ToolInv => PeekChecked
  <1> SUFFICES ASSUME ToolInv, prog = "snap_peek", exit = "ok", opt.count > 0
               PROVE  /\ seen = Walk(opt)
                      /\ \A k \in DOMAIN seen : Agrees(opt, seen[k])
    BY DEF PeekChecked, Agrees
  <1>1. /\ opt \in PeekOptions
        /\ seen \in Seq(Nat)
        /\ Len(seen) < Steps(opt) => i = 0
        /\ Len(seen) >= Steps(opt) => i = Len(seen) - Steps(opt) + 1
        /\ i <= opt.count /\ i >= opt.count /\ i \in Nat
        /\ \A k \in 1 .. Len(seen) : seen[k] = Visit(opt, k) /\ Agrees(opt, seen[k])
    BY DEF ToolInv, PeekInv, ToolTypes, Ran
  <1>2. Steps(opt) \in Nat /\ opt.count \in Nat /\ Len(seen) \in Nat
    BY <1>1, PeekFields
  <1>3. Len(seen) = Steps(opt) + opt.count - 1
    BY <1>1, <1>2
  <1>4. DOMAIN seen = 1 .. Steps(opt) + opt.count - 1 /\ seen = [k \in DOMAIN seen |-> seen[k]]
    BY <1>1, <1>3
  <1>5. seen = [k \in 1 .. Steps(opt) + opt.count - 1 |-> Visit(opt, k)]
    BY <1>1, <1>3, <1>4
  <1>6. Walk(opt) = [k \in 1 .. Steps(opt) + opt.count - 1 |-> Visit(opt, k)]
    BY DEF Walk, Visit, Steps
  <1> QED
    BY <1>1, <1>3, <1>4, <1>5, <1>6

\* What snap_poke says of a register is so.
LEMMA PokeVerifiedHolds == ToolInv /\ Running => PokeVerified
  <1> SUFFICES ASSUME ToolInv, Running, prog = "snap_poke", opt.rd_back, opt.count > 0
               PROVE  /\ exit = "ok" => regs[offs] = opt.val /\ opt.width = 64
                      /\ pc = "failure" /\ opt.width = 64 => ~Mapped(offs) \/ regs[offs] # opt.val
    BY DEF PokeVerified
  <1>1. CASE exit = "ok"
    <2>1. opt \in PokeOptions /\ PokeInv /\ Ran /\ i \in Nat
      BY <1>1 DEF ToolInv, PokeInv, Ran, ToolTypes
    <2>2. i >= opt.count /\ opt.count \in Nat
      BY <1>1, <2>1, PokeFields DEF PokeInv
    <2>3. i > 0
      BY <2>1, <2>2
    <2> QED
      BY <1>1, <2>1, <2>3 DEF PokeInv, Running
  <1>2. pc = "failure" /\ opt.width = 64 => ~Mapped(offs) \/ regs[offs] # opt.val
    BY DEF ToolInv, PokeInv, Ran, Shell
  <1> QED
    BY <1>1, <1>2

HIDE ToolBounds

-----------------------------------------------------------------------------
(* The memory test.  As long as no copy has timed out, a test that has     *)
(* passed shows its part of what the blocks and the cells are.             *)

\* What the memory test holds.
DdrLabels == {"open", "no_card", "parms", "src", "dest", "loop", "attach_wait", "clear", "ad", "nad",
              "rnd1", "rnd2", "detach", "free", "free_card", Shell}

DdrHeld ==
    prog = "snap_example_ddr" =>
        /\ pc \in DdrLabels
        /\ pc \in {"open", "no_card"} => held = {}
        /\ pc \in {"parms", "src"} => held = {"card"}
        /\ pc = "dest" => held = {"card", "src"}
        /\ pc \in {"loop", "attach_wait"} => held = {"card", "src", "dest"}
        /\ pc \in {"clear", "ad", "nad", "rnd1", "rnd2", "detach"} => held = {"card", "src", "dest", "action"}
        /\ pc = "free" => "card" \in held /\ held \subseteq {"card", "src", "dest", "action"}
        /\ pc = "free_card" => "card" \in held /\ held \subseteq {"card", "action"}
        /\ pc \in {"free", "free_card"} /\ "action" \in held => test_rc # 0
        /\ pc = Shell /\ exit # "signal" => held = {} \/ (exit = "failure" /\ held = {"action"})
        /\ pc = Shell /\ exit = "signal" => held = {"card"}

DdrTypes ==
    /\ cell \in [Blocks -> Blocks] /\ ddr = [c \in Blocks |-> ddr[c]]
    /\ block \in Blocks \cup {1} /\ reading \in BOOLEAN /\ test_late \in BOOLEAN
    /\ iter \in 0 .. MaxIter /\ test_rc \in {-1, 0, 1, 11}

\* What the tests show of the tested blocks, one after the other: no two of
\* them share a cell and differ in their data, and no cell is stuck.
Apart    == \A a, b \in Tested : cell[a] = cell[b] => a % Period = b % Period
NoneStuck  == \A b \in Tested : cell[b] \notin stuck
Good     == Apart /\ NoneStuck

\* The blocks that have been read hold their addresses; those that are stuck
\* still hold them while the complement is written.
Addressed(B) == \A b \in B : ddr[cell[b]] = memset_ad(b, FALSE)
Turned(B)     == \A b \in B : cell[b] \notin stuck
StuckKeep    == \A b \in Tested : cell[b] \in stuck => ddr[cell[b]] = memset_ad(b, FALSE)

DdrShows ==
    opt.buffer = "large" /\ ~test_late =>
        /\ pc = "ad" /\ reading => Addressed(FirstBlock .. block - 1)
        /\ pc = "nad" => Apart /\ StuckKeep
        /\ pc = "nad" /\ reading => Turned(FirstBlock .. block - 1)
        /\ pc \in {"rnd1", "rnd2", "detach"} => Good
        /\ pc \in {"loop", "free", "free_card"} /\ test_rc = 0 => Good
        /\ pc = Shell /\ exit = "ok" => Good

DdrControl ==
    /\ opt \in DdrOptions
    /\ pc \in {"src", "dest", "loop", "attach_wait", "clear", "ad", "nad", "rnd1", "rnd2", "detach"} =>
         FirstBlock < EndBlock /\ EndBlock <= NBlocks
    /\ pc \in {"clear", "ad", "nad", "rnd1", "rnd2", "detach"} => block \in Tested /\ iter >= 1
    /\ pc \in {"open", "parms", "src", "dest", "loop", "attach_wait", "detach"} => block = FirstBlock
    /\ pc \in {"open", "parms", "src", "dest", "loop", "attach_wait", "clear", "detach"} => ~reading
    /\ pc \in {"open", "parms", "src", "dest"} => test_rc = 1 /\ iter = 0
    /\ pc = "loop" => test_rc = IF iter = 0 THEN 1 ELSE 0
    /\ pc \in {"ad", "nad", "rnd1", "rnd2", "detach"} => test_rc = 0

DdrInv == DdrHeld /\ DdrTypes /\ (prog = "snap_example_ddr" /\ Ran => DdrControl /\ DdrShows)

\* The bounds of the memory test.
LEMMA DdrBounds ==
    /\ NBlocks \in Nat \ {0} /\ Period \in Nat \ {0} /\ MaxIter \in Nat \ {0}
  BY MemoryTestAssumption DEF MemoryTestAssumption

\* The fields of a command line of the memory test.
LEMMA DdrFields ==
    ASSUME NEW o \in DdrOptions
    PROVE  /\ o.start \in {0, 1} /\ o.end \in {0, 2, NBlocks + 1} /\ o.iter \in 1 .. MaxIter
           /\ o.buffer \in {"zero", "small", "large"} /\ o.irq \in BOOLEAN
  BY DEF DdrOptions

\* What the memory test holds is kept right by its steps.
LEMMA DdrHeldStep ==
    DdrHeld /\ prog = "snap_example_ddr" /\ (DdrStart \/ DdrStep) => DdrHeld' /\ prog' = "snap_example_ddr"
  <1> SUFFICES ASSUME DdrHeld, prog = "snap_example_ddr", DdrStart \/ DdrStep
               PROVE  DdrHeld' /\ prog' = "snap_example_ddr"
    OBVIOUS
  <1> USE DEF DdrHeld, DdrLabels, Shell, At, Run, Goto, Take, TakeOr, Drop, Exit, CardAlloc
  <1>1. CASE DdrStart
    BY <1>1 DEF DdrStart, DdrRun
  <1>2. CASE DdrOpen \/ get_mem
    BY <1>2 DEF DdrOpen, get_mem, ddrVars, testVars
  <1>3. CASE check_parms
    BY <1>3 DEF check_parms
  <1>4. CASE AttachLoop
    BY <1>4 DEF AttachLoop, AttachWithIrq, AttachAction
  <1>5. CASE ram_clear
    BY <1>5 DEF ram_clear
  <1>6. CASE Tests
    <2>1. /\ pc \in {"ad", "nad", "rnd1", "rnd2"} /\ UNCHANGED <<prog, held>>
          /\ pc' \in {"ad", "nad", "rnd1", "rnd2", "detach"} \/ (pc' = "free" /\ test_rc' # 0)
      BY <1>6 DEF Tests, ram_test_ad, ram_test_rnd1, ram_test_rnd2, WriteBlock, ReadBlock
    <2> QED
      BY <2>1
  <1>7. CASE DetachLoop
    BY <1>7 DEF DetachLoop, DetachAction
  <1>8. CASE DdrExit
    BY <1>8 DEF DdrExit, ddrVars, testVars
  <1> QED
    BY <1>1, <1>2, <1>3, <1>4, <1>5, <1>6, <1>7, <1>8 DEF DdrStep

\* A block that is tested, and the one that is next.
LEMMA NextTested ==
    ASSUME opt \in DdrOptions, block \in Tested, EndBlock <= NBlocks
    PROVE  /\ FirstBlock \in Nat /\ EndBlock \in Nat /\ block \in Nat /\ NextBlock \in Tested
           /\ FirstBlock \in Tested
           /\ LastBlock => NextBlock = FirstBlock
           /\ ~LastBlock => NextBlock = block + 1
           /\ Tested \subseteq Blocks
  <1>1. FirstBlock \in Nat /\ EndBlock \in Nat
    BY DdrBounds, DdrFields DEF FirstBlock, EndBlock
  <1>2. block \in Nat /\ FirstBlock <= block /\ block <= EndBlock - 1
    BY <1>1 DEF Tested
  <1>3. Tested \subseteq Blocks
    BY <1>1, DdrBounds DEF Tested, Blocks
  <1> QED
    BY <1>1, <1>2, <1>3 DEF NextBlock, LastBlock, Tested

\* What a copy to and from the card does, as long as none has timed out.
LEMMA WriteCopy ==
    ASSUME DdrTypes, NEW b \in Blocks, NEW data, CopyHD(b, data)
    PROVE  /\ ddr' = [c \in Blocks |-> ddr'[c]] /\ test_late' \in BOOLEAN
           /\ ~test_late' =>
                /\ ~test_late
                /\ \A c \in Blocks : ddr'[c] = IF c = cell[b] /\ c \notin stuck THEN data ELSE ddr[c]
  <1>1. cell[b] \in Blocks /\ ddr = [c \in Blocks |-> ddr[c]] /\ test_late \in BOOLEAN
    BY DEF DdrTypes
  <1>2. CASE test_late' = test_late /\ ddr' = IF cell[b] \in stuck THEN ddr ELSE [ddr EXCEPT ![cell[b]] = data]
    BY <1>1, <1>2
  <1>3. CASE test_late' = TRUE /\ ddr' = ddr
    BY <1>1, <1>3
  <1> QED
    BY <1>2, <1>3 DEF CopyHD

\* The same for the copy from the card.
LEMMA ReadCopy ==
    ASSUME DdrTypes, NEW b \in Blocks, CopyDH(b)
    PROVE  /\ test_late' \in BOOLEAN
           /\ ~test_late' => ~test_late /\ dest' = ddr[cell[b]]
  BY DEF DdrTypes, CopyDH

\* The step of a test in the terms of its data and of the loop over the blocks:
\* the write and the read of a block.
TestLabels == {"ad", "nad", "rnd1", "rnd2"}

Follow(test) == CASE test = "ad" -> "nad" [] test = "nad" -> "rnd1" [] test = "rnd1" -> "rnd2" [] OTHER -> "detach"

TestWrites ==
    /\ pc \in TestLabels /\ ~reading /\ pc' = pc
    /\ UNCHANGED <<prog, opt, held, exit, boardVars, iter, test_rc>>
    /\ \/ pc = "rnd2" /\ block' = block /\ reading' = TRUE
       \/ pc # "rnd2" /\ block' = NextBlock /\ reading' = LastBlock
    /\ \E data : (pc = "nad" => data = memset_ad(block, TRUE)) /\ CopyHD(block, data)

TestReads ==
    /\ pc \in TestLabels /\ reading
    /\ UNCHANGED <<prog, opt, held, exit, boardVars, ddr, iter>>
    /\ CopyDH(block)
    /\ \E expect : /\ pc = "ad" => expect = memset_ad(block, FALSE)
                   /\ pc = "nad" => expect = memset_ad(block, TRUE)
                   /\ test_rc' = memcmp2(dest', expect)
    /\ \/ test_rc' # 0 /\ pc' = "free"
       \/ test_rc' = 0 /\ LastBlock /\ pc' = Follow(pc) /\ block' = NextBlock /\ reading' = FALSE
       \/ test_rc' = 0 /\ ~LastBlock /\ pc' = pc /\ block' = NextBlock /\ reading' = (pc # "rnd2")
    /\ test_rc' # 0 => block' = FirstBlock /\ reading' = FALSE

\* Every step of a test is one of the two.
LEMMA TestStep == Tests => TestWrites \/ TestReads
  <1> SUFFICES ASSUME Tests PROVE TestWrites \/ TestReads
    OBVIOUS
  <1>1. CASE WriteBlock("ad", "nad", memset_ad(block, FALSE))
    BY <1>1 DEF WriteBlock, TestWrites, TestLabels, At, Goto
  <1>2. CASE WriteBlock("nad", "rnd1", memset_ad(block, TRUE))
    BY <1>2 DEF WriteBlock, TestWrites, TestLabels, At, Goto
  <1>3. CASE WriteBlock("rnd1", "rnd2", memset_rnd("random 1"))
    BY <1>3 DEF WriteBlock, TestWrites, TestLabels, At, Goto
  <1>4. CASE ram_test_rnd2 /\ ~reading
    BY <1>4 DEF ram_test_rnd2, TestWrites, TestLabels, At, Goto
  <1>5. CASE ReadBlock("ad", "nad", memset_ad(block, FALSE))
    BY <1>5 DEF ReadBlock, TestReads, TestLabels, Follow, At, Goto
  <1>6. CASE ReadBlock("nad", "rnd1", memset_ad(block, TRUE))
    BY <1>6 DEF ReadBlock, TestReads, TestLabels, Follow, At, Goto
  <1>7. CASE ReadBlock("rnd1", "rnd2", src)
    BY <1>7 DEF ReadBlock, TestReads, TestLabels, Follow, At, Goto
  <1>8. CASE ram_test_rnd2 /\ reading
    BY <1>8 DEF ram_test_rnd2, TestReads, TestLabels, Follow, At, Goto
  <1> QED
    BY <1>1, <1>2, <1>3, <1>4, <1>5, <1>6, <1>7, <1>8 DEF Tests, ram_test_ad, ram_test_rnd1

\* The part of the invariant that is about the control of the test.
LEMMA DdrControlStep ==
    ASSUME DdrInv, Running, prog = "snap_example_ddr", DdrStep
    PROVE  DdrTypes' /\ DdrControl'
  <1> USE DdrBounds DEF Shell
  <1>0. DdrTypes /\ DdrControl /\ pc # Shell /\ exit = "none" /\ Ran
    <2>1. pc # Shell
      <3>1. CASE Tests
        BY <3>1, TestStep DEF TestWrites, TestReads, TestLabels
      <3>2. CASE ~Tests
        BY <3>2 DEF DdrStep, DdrOpen, check_parms, get_mem, AttachLoop, ram_clear, DetachLoop, DdrExit, At
      <3> QED
        BY <3>1, <3>2
    <2> QED
      BY <2>1 DEF DdrInv, Running, Ran
  <1>o. opt \in DdrOptions /\ FirstBlock \in Nat /\ EndBlock \in Nat
    BY <1>0, DdrFields DEF DdrControl, FirstBlock, EndBlock
  <1>1. CASE DdrOpen \/ get_mem
    <2>1. /\ UNCHANGED <<opt, ddrVars>>
          /\ \/ pc = "open" /\ pc' \in {"parms", "no_card"}
             \/ pc = "src" /\ pc' \in {"dest", "free"}
             \/ pc = "dest" /\ pc' \in {"loop", "free"}
      BY <1>1 DEF DdrOpen, get_mem, CardAlloc, TakeOr, Take, Goto, At
    <2>2. FirstBlock' = FirstBlock /\ EndBlock' = EndBlock
      BY <2>1 DEF FirstBlock, EndBlock
    <2> QED
      BY <1>0, <2>1, <2>2 DEF DdrTypes, DdrControl, ddrVars, testVars, boardVars
  <1>2. CASE check_parms
    <2>1. /\ pc = "parms" /\ opt' = opt
          /\ UNCHANGED <<boardVars, ddr, block, reading, iter, test_late>>
          /\ \/ pc' = "free" /\ test_rc' = -1
             \/ pc' = Shell /\ test_rc' = test_rc
             \/ pc' = "src" /\ test_rc' = test_rc /\ FirstBlock < EndBlock /\ EndBlock <= NBlocks
      BY <1>2, <1>o DEF check_parms, At, Goto, Exit
    <2>2. FirstBlock' = FirstBlock /\ EndBlock' = EndBlock
      BY <2>1 DEF FirstBlock, EndBlock
    <2> QED
      BY <1>0, <2>1, <2>2 DEF DdrTypes, DdrControl, boardVars
  <1>3. CASE AttachLoop
    <2>1. /\ pc = "loop" /\ opt' = opt
          /\ UNCHANGED <<boardVars, ddr, block, reading, test_rc, test_late>>
          /\ \/ pc' = "free" /\ iter' = iter
             \/ pc' \in {"attach_wait", "clear"} /\ iter' = iter + 1 /\ iter < opt.iter
      BY <1>3 DEF AttachLoop, AttachWithIrq, AttachAction, At, Goto, Take
    <2>2. FirstBlock' = FirstBlock /\ EndBlock' = EndBlock /\ Tested' = Tested
      BY <2>1 DEF FirstBlock, EndBlock, Tested
    <2>3. iter' \in 0 .. MaxIter /\ (pc' = "clear" => iter' >= 1)
      BY <1>0, <1>o, <2>1, DdrFields DEF DdrTypes
    <2>4. FirstBlock < EndBlock => FirstBlock \in Tested
      BY <1>o DEF Tested
    <2> QED
      BY <1>0, <1>o, <2>1, <2>2, <2>3, <2>4 DEF DdrTypes, DdrControl, boardVars
  <1>4. CASE ram_clear
    <2>1. /\ pc = "clear" /\ opt' = opt
          /\ UNCHANGED <<boardVars, reading, iter>>
          /\ CopyHD(block, memset_pat) /\ block' = NextBlock
          /\ \/ LastBlock /\ pc' = "ad" /\ test_rc' = 0
             \/ ~LastBlock /\ pc' = "clear" /\ test_rc' = test_rc
      BY <1>4 DEF ram_clear, At, Goto
    <2>2. FirstBlock' = FirstBlock /\ EndBlock' = EndBlock /\ Tested' = Tested
      BY <2>1 DEF FirstBlock, EndBlock, Tested
    <2>3. block' \in Tested /\ block \in Tested /\ block \in Blocks
      BY <1>0, <1>o, <2>1, NextTested DEF DdrControl
    <2>4. ddr' = [c \in Blocks |-> ddr'[c]] /\ test_late' \in BOOLEAN
      BY <1>0, <2>1, <2>3, WriteCopy
    <2>5. block' \in Blocks /\ FirstBlock \in Blocks
      BY <1>0, <1>o, <2>1, <2>2, <2>3, NextTested DEF DdrControl
    <2>6. pc' = "ad" => block' = FirstBlock'
      BY <2>1, <2>2, <1>0, <1>o, NextTested DEF DdrControl
    <2> QED
      BY <1>0, <2>1, <2>2, <2>3, <2>4, <2>5 DEF DdrTypes, DdrControl, boardVars
  <1>5. CASE Tests
    <2>1. /\ pc \in TestLabels /\ opt' = opt
          /\ UNCHANGED <<boardVars, iter>>
          /\ block' \in {block, NextBlock, FirstBlock}
          /\ reading' \in BOOLEAN
          /\ test_rc' \in {0, 11} \/ test_rc' = test_rc
          /\ \/ pc' = pc /\ (test_rc' = test_rc \/ test_rc' = 0)
             \/ pc' = "free"
             \/ pc' \in {"nad", "rnd1", "rnd2", "detach"} /\ test_rc' = 0 /\ block' = NextBlock /\ LastBlock
                /\ reading' = FALSE
      BY <1>5, TestStep DEF TestWrites, TestReads, TestLabels, Follow, LastBlock, memcmp2
    <2>2. FirstBlock' = FirstBlock /\ EndBlock' = EndBlock /\ Tested' = Tested
      BY <2>1 DEF FirstBlock, EndBlock, Tested
    <2>3. block' \in Tested /\ block \in Tested /\ block \in Blocks /\ (LastBlock => NextBlock = FirstBlock)
      BY <1>0, <1>o, <2>1, NextTested DEF DdrControl, TestLabels
    <2>4. ddr' = [c \in Blocks |-> ddr'[c]] /\ test_late' \in BOOLEAN
      <3>1. ASSUME NEW data, CopyHD(block, data) PROVE ddr' = [c \in Blocks |-> ddr'[c]] /\ test_late' \in BOOLEAN
        BY <3>1, <1>0, <2>3, WriteCopy
      <3>2. CASE CopyDH(block) /\ ddr' = ddr
        BY <3>2, <1>0, <2>3, ReadCopy DEF DdrTypes
      <3> QED
        BY <1>5, <3>1, <3>2, TestStep DEF TestWrites, TestReads
    <2>5. block' \in Blocks
      BY <1>0, <1>o, <2>1, <2>2, <2>3, NextTested DEF DdrControl, TestLabels
    <2> QED
      BY <1>0, <2>1, <2>2, <2>3, <2>4, <2>5 DEF DdrTypes, DdrControl, boardVars, TestLabels
  <1>6. CASE DetachLoop
    <2>1. UNCHANGED <<opt, ddrVars>> /\ pc = "detach" /\ pc' = "loop"
      BY <1>6 DEF DetachLoop, DetachAction, Drop, At
    <2>2. FirstBlock' = FirstBlock /\ EndBlock' = EndBlock /\ Tested' = Tested
      BY <2>1 DEF FirstBlock, EndBlock, Tested
    <2> QED
      BY <1>0, <2>1, <2>2 DEF DdrTypes, DdrControl, ddrVars, testVars, boardVars
  <1>7. CASE DdrExit
    <2>1. UNCHANGED <<opt, ddrVars>> /\ pc' \in {"free_card", Shell}
      BY <1>7 DEF DdrExit, Drop, Exit
    <2>2. FirstBlock' = FirstBlock /\ EndBlock' = EndBlock /\ Tested' = Tested
      BY <2>1 DEF FirstBlock, EndBlock, Tested
    <2> QED
      BY <1>0, <2>1, <2>2 DEF DdrTypes, DdrControl, ddrVars, testVars, boardVars
  <1> QED
    BY <1>1, <1>2, <1>3, <1>4, <1>5, <1>6, <1>7 DEF DdrStep

\* What the tests show of the memory stays so, and each test shows its part.
LEMMA DdrShowsStep ==
    ASSUME DdrInv, Running, prog = "snap_example_ddr", DdrStep
    PROVE  DdrShows'
  <1> USE DdrBounds DEF Shell
  <1>0. DdrTypes /\ DdrControl /\ DdrShows /\ DdrTypes' /\ DdrControl' /\ pc # Shell /\ exit = "none"
    <2>1. pc # Shell
      <3>1. CASE Tests
        BY <3>1, TestStep DEF TestWrites, TestReads, TestLabels
      <3>2. CASE ~Tests
        BY <3>2 DEF DdrStep, DdrOpen, check_parms, get_mem, AttachLoop, ram_clear, DetachLoop, DdrExit, At
      <3> QED
        BY <3>1, <3>2
    <2> QED
      BY <2>1, DdrControlStep DEF DdrInv, Running, Ran
  <1>o. opt \in DdrOptions /\ opt' = opt /\ UNCHANGED boardVars
    BY <1>0, TestStep DEF DdrControl, DdrStep, DdrOpen, check_parms, get_mem, AttachLoop, ram_clear, TestWrites,
       TestReads, DetachLoop, DdrExit, Goto, Take, TakeOr, Drop, Exit, CardAlloc, AttachWithIrq, AttachAction,
       DetachAction, ddrVars
  <1>u. /\ FirstBlock' = FirstBlock /\ EndBlock' = EndBlock /\ Tested' = Tested
        /\ cell' = cell /\ stuck' = stuck /\ Apart' = Apart /\ NoneStuck' = NoneStuck /\ Good' = Good
    BY <1>o DEF FirstBlock, EndBlock, Tested, boardVars, Apart, NoneStuck, Good
  <1>s. SUFFICES ASSUME opt.buffer = "large", ~test_late'
                 PROVE  /\ (pc = "ad" /\ reading => Addressed(FirstBlock .. block - 1))'
                        /\ (pc = "nad" => Apart /\ StuckKeep)'
                        /\ (pc = "nad" /\ reading => Turned(FirstBlock .. block - 1))'
                        /\ (pc \in {"rnd1", "rnd2", "detach"} => Good)'
                        /\ (pc \in {"loop", "free", "free_card"} /\ test_rc = 0 => Good)'
                        /\ (pc = Shell /\ exit = "ok" => Good)'
    BY <1>o DEF DdrShows
  <1>1. CASE DdrOpen \/ get_mem \/ check_parms
    <2>1. /\ pc' \in {"parms", "no_card", "dest", "free", "loop", "src", Shell}
          /\ pc' \in {"free", "loop"} => test_rc' # 0
          /\ pc' = Shell => exit' = "signal"
      BY <1>0, <1>1 DEF DdrOpen, get_mem, check_parms, CardAlloc, TakeOr, Take, Goto, Exit, At, ddrVars, testVars,
                        DdrControl
    <2> QED
      BY <2>1, <1>u
  <1>2. CASE AttachLoop
    <2>1. /\ pc = "loop" /\ pc' \in {"free", "attach_wait", "clear"} /\ test_rc' = test_rc /\ test_late' = test_late
      BY <1>2 DEF AttachLoop, AttachWithIrq, AttachAction, At, Goto, Take
    <2> QED
      BY <2>1, <1>0, <1>u, <1>s DEF DdrShows
  <1>3. CASE ram_clear
    <2>1. pc' = "ad" \/ pc' = "clear"
      BY <1>3 DEF ram_clear, At, Goto
    <2>2. ~reading'
      BY <1>0, <1>3 DEF ram_clear, At, DdrControl
    <2> QED
      BY <2>1, <2>2
  <1>4. CASE Tests
    <2>0. /\ pc \in TestLabels /\ block \in Tested /\ block \in Blocks /\ cell[block] \in Blocks
          /\ FirstBlock \in Nat /\ EndBlock \in Nat /\ block \in Nat /\ Tested \subseteq Blocks
          /\ LastBlock => NextBlock = FirstBlock /\ EndBlock = block + 1
          /\ ~LastBlock => NextBlock = block + 1
      <3>1. pc \in TestLabels
        BY <1>4, TestStep DEF TestWrites, TestReads
      <3>2. block \in Tested /\ EndBlock <= NBlocks
        BY <3>1, <1>0 DEF DdrControl, TestLabels
      <3> QED
        BY <3>1, <3>2, <1>0, <1>o, NextTested DEF DdrTypes, LastBlock
    <2>d. DdrTypes
      BY <1>0
    <2>e. FirstBlock .. FirstBlock - 1 = {}
      BY <2>0
    <2>f. FirstBlock .. (block + 1) - 1 = (FirstBlock .. block - 1) \cup {block}
      <3>1. \A x : x \in FirstBlock .. (block + 1) - 1 <=> x \in (FirstBlock .. block - 1) \cup {block}
        BY <2>0 DEF Tested
      <3> QED
        BY <3>1
    <2>g. LastBlock => Tested = (FirstBlock .. block - 1) \cup {block}
      BY <2>0, <2>f DEF Tested
    <2>1. CASE TestWrites
      <3>1. /\ pc' = pc
            /\ \/ pc = "rnd2"
               \/ block' = NextBlock /\ reading' = LastBlock
        BY <2>1 DEF TestWrites
      <3>2. PICK data : (pc = "nad" => data = memset_ad(block, TRUE)) /\ CopyHD(block, data)
        BY <2>1 DEF TestWrites
      <3>3. /\ ~test_late
            /\ \A c \in Blocks : ddr'[c] = IF c = cell[block] /\ c \notin stuck THEN data ELSE ddr[c]
        BY <3>2, <2>0, <2>d, <1>s, WriteCopy
      <3>4. pc = "nad" => StuckKeep'
        <4> SUFFICES ASSUME pc = "nad", NEW b \in Tested, cell[b] \in stuck
                     PROVE  ddr'[cell[b]] = memset_ad(b, FALSE)
          BY <1>u DEF StuckKeep
        <4>1. ddr[cell[b]] = memset_ad(b, FALSE)
          BY <1>0, <1>s, <3>3 DEF DdrShows, StuckKeep
        <4>2. cell[b] \in Blocks
          BY <2>0, <2>d DEF DdrTypes
        <4> QED
          BY <4>1, <4>2, <3>3
      <3>5. pc # "rnd2" /\ reading' => FirstBlock' .. block' - 1 = {}
        BY <3>1, <2>0, <2>e, <1>u
      <3> QED
        BY <3>1, <3>3, <3>4, <3>5, <2>0, <1>0, <1>u, <1>s DEF DdrShows, Addressed, Turned, TestLabels
    <2>2. CASE TestReads
      <3>1. /\ ddr' = ddr /\ test_late' \in BOOLEAN /\ ~test_late /\ dest' = ddr[cell[block]]
        BY <2>0, <2>2, <2>d, <1>s, ReadCopy DEF TestReads
      <3>2. PICK expect : /\ pc = "ad" => expect = memset_ad(block, FALSE)
                          /\ pc = "nad" => expect = memset_ad(block, TRUE)
                          /\ test_rc' = memcmp2(dest', expect)
        BY <2>2 DEF TestReads
      <3>3. test_rc' = 0 => dest' = expect
        BY <3>2, <1>s DEF memcmp2
      <3>4. \/ test_rc' # 0 /\ pc' = "free"
            \/ test_rc' = 0 /\ LastBlock /\ pc' = Follow(pc) /\ reading' = FALSE
            \/ test_rc' = 0 /\ ~LastBlock /\ pc' = pc /\ block' = NextBlock
        BY <2>2 DEF TestReads
      <3>5. reading /\ cell' = cell
        BY <2>2, <1>u DEF TestReads
      <3>6. CASE test_rc' # 0
        BY <3>4, <3>6
      <3>7. CASE test_rc' = 0 /\ pc = "ad"
        <4>1. Addressed((FirstBlock .. block - 1) \cup {block})
          BY <3>1, <3>2, <3>3, <3>5, <3>7, <1>0, <1>s DEF DdrShows, Addressed
        <4>2. CASE LastBlock
          <5>1. Addressed(Tested)
            BY <4>1, <4>2, <2>g
          <5>2. Apart
            BY <5>1 DEF Apart, Addressed, memset_ad
          <5>3. StuckKeep'
            BY <5>1, <3>1, <1>u DEF StuckKeep, Addressed
          <5> QED
            BY <3>4, <3>7, <4>2, <5>2, <5>3, <1>u DEF Follow
        <4>3. CASE ~LastBlock
          <5>1. FirstBlock' .. block' - 1 = (FirstBlock .. block - 1) \cup {block}
            BY <3>4, <3>7, <4>3, <2>0, <2>f, <1>u
          <5>2. Addressed(FirstBlock .. block - 1)'
            BY <5>1, <4>1, <3>1, <3>5 DEF Addressed
          <5> QED
            BY <3>4, <3>7, <4>3, <5>2
        <4> QED
          BY <4>2, <4>3
      <3>8. CASE test_rc' = 0 /\ pc = "nad"
        <4>0. Apart /\ StuckKeep /\ Turned(FirstBlock .. block - 1)
          BY <3>1, <3>5, <3>8, <1>0, <1>s DEF DdrShows
        <4>1. cell[block] \notin stuck
          BY <4>0, <3>1, <3>2, <3>3, <3>8, <2>0 DEF StuckKeep, memset_ad
        <4>2. Turned((FirstBlock .. block - 1) \cup {block})
          BY <4>0, <4>1 DEF Turned
        <4>3. CASE LastBlock
          <5>1. NoneStuck
            BY <4>2, <4>3, <2>g DEF Turned, NoneStuck
          <5> QED
            BY <3>4, <3>8, <4>0, <4>3, <5>1, <1>u DEF Follow, Good
        <4>4. CASE ~LastBlock
          <5>1. FirstBlock' .. block' - 1 = (FirstBlock .. block - 1) \cup {block}
            BY <3>4, <3>8, <4>4, <2>0, <2>f, <1>u
          <5>2. Turned(FirstBlock .. block - 1)' /\ StuckKeep'
            BY <5>1, <4>0, <4>2, <3>1, <1>u DEF Turned, StuckKeep
          <5> QED
            BY <3>4, <3>8, <4>0, <4>4, <5>2, <1>u
        <4> QED
          BY <4>3, <4>4
      <3>9. CASE test_rc' = 0 /\ pc \in {"rnd1", "rnd2"}
        <4>1. Good
          BY <3>1, <3>9, <1>0, <1>s DEF DdrShows
        <4> QED
          BY <4>1, <3>4, <3>9, <1>u DEF Follow
      <3> QED
        BY <3>6, <3>7, <3>8, <3>9, <2>0 DEF TestLabels
    <2> QED
      BY <1>4, <2>1, <2>2, TestStep
  <1>5. CASE DetachLoop
    <2>1. pc = "detach" /\ pc' = "loop" /\ test_late' = test_late
      BY <1>5 DEF DetachLoop, DetachAction, Drop, At, ddrVars, testVars
    <2> QED
      BY <2>1, <1>0, <1>u, <1>s DEF DdrShows
  <1>6. CASE DdrExit
    <2>1. /\ test_late' = test_late /\ test_rc' = test_rc
          /\ \/ pc = "free" /\ pc' = "free_card"
             \/ pc = "free_card" /\ pc' = Shell /\ (exit' = "ok" => test_rc = 0)
             \/ pc' = Shell /\ exit' = "failure"
      BY <1>6 DEF DdrExit, Drop, Exit, ddrVars, testVars
    <2> QED
      BY <2>1, <1>0, <1>u, <1>s DEF DdrShows
  <1> QED
    BY <1>1, <1>2, <1>3, <1>4, <1>5, <1>6 DEF DdrStep

\* The start of a memory test establishes its own invariant.
LEMMA DdrStartStep ==
    DdrInv /\ Running /\ prog = "snap_example_ddr" /\ DdrStart => DdrInv' /\ Running'
  <1> SUFFICES ASSUME DdrInv, prog = "snap_example_ddr", DdrStart PROVE DdrInv' /\ Running'
    OBVIOUS
  <1> USE DdrBounds
  <1>1. PICK o \in DdrOptions : DdrRun(o)
    BY DEF DdrStart
  <1>2. /\ pc' = "open" /\ opt' = o /\ exit' = "none" /\ UNCHANGED <<boardVars, ddr>>
        /\ block' = o.start /\ reading' = FALSE /\ iter' = 0 /\ test_rc' = 1 /\ test_late' = FALSE
    BY <1>1 DEF DdrRun, Run
  <1>3. DdrTypes'
    <2>1. block' \in Blocks \cup {1} /\ iter' \in 0 .. MaxIter
      BY <1>2, DdrFields DEF Blocks
    <2>2. ddr' = [c \in Blocks |-> ddr'[c]] /\ cell' \in [Blocks -> Blocks]
      BY <1>2 DEF DdrInv, DdrTypes, boardVars
    <2> QED
      BY <1>2, <2>1, <2>2 DEF DdrTypes
  <1>4. DdrControl' /\ DdrShows'
    BY <1>2 DEF DdrControl, DdrShows, FirstBlock, Shell
  <1> QED
    BY <1>2, <1>3, <1>4, DdrHeldStep DEF DdrInv, Running

\* The invariant of the memory test is kept by its steps.
LEMMA DdrInvStep ==
    DdrInv /\ Running /\ prog = "snap_example_ddr" /\ (DdrStart \/ DdrStep) =>
        DdrInv' /\ Running' /\ prog' = "snap_example_ddr"
  <1> SUFFICES ASSUME DdrInv, Running, prog = "snap_example_ddr", DdrStep
               PROVE  DdrInv' /\ Running' /\ prog' = "snap_example_ddr"
    BY DdrStartStep, DdrHeldStep DEF DdrInv
  <1>1. Running'
    <2> USE DEF Running, Shell, At, Goto, Take, TakeOr, Drop, Exit, CardAlloc
    <2>1. CASE Tests
      BY <2>1, TestStep DEF TestWrites, TestReads, TestLabels
    <2>2. CASE DdrOpen \/ get_mem \/ check_parms \/ AttachLoop
      BY <2>2 DEF DdrOpen, get_mem, check_parms, AttachLoop, AttachWithIrq, AttachAction
    <2>3. CASE ram_clear \/ DetachLoop \/ DdrExit
      BY <2>3 DEF ram_clear, DetachLoop, DetachAction, DdrExit
    <2> QED
      BY <2>1, <2>2, <2>3 DEF DdrStep
  <1> QED
    BY <1>1, DdrHeldStep, DdrControlStep, DdrShowsStep DEF DdrInv

\* A memory test that passes has shown what it says.
LEMMA FaultsFoundHolds == DdrInv => FaultsFound
  BY DEF DdrInv, FaultsFound, Passed, Ran, DdrShows, Good, Apart, NoneStuck

-----------------------------------------------------------------------------
(* The jobs of the example action.  A job that nobody waits for any more,  *)
(* or that was started over another one, is lost: nothing is said of it.   *)

\* What snap_example holds: the buffers of the copy between their allocation
\* and their free.
SourceBuffer == IF HostSource THEN {"src"} ELSE {}
TargetBuffer == IF HostTarget THEN {"dest"} ELSE {}

CountLabels == {"attach_count", "count", "count_wait", "count_detach"}
MemcpyLabels == {"alloc_src", "alloc_dest", "do_action", "copy_wait", "copy_detach", "compare"}
ExampleLabels == {"open", "no_card", "check", "loop", "free", "exit1", Shell} \cup CountLabels \cup MemcpyLabels

ExampleHeld ==
    prog = "snap_example" =>
        /\ pc \in ExampleLabels
        /\ pc \in {"open", "no_card", Shell} => held = {}
        /\ pc \in {"check", "attach_count", "loop", "alloc_src", "exit1"} => held = {"card"}
        /\ pc \in {"count", "count_wait", "count_detach"} => held = {"card", "action"}
        /\ pc = "alloc_dest" => held = {"card"} \cup SourceBuffer
        /\ pc \in {"do_action", "compare"} => held = {"card"} \cup SourceBuffer \cup TargetBuffer
        /\ pc \in {"copy_wait", "copy_detach"} => held = {"card", "action"} \cup SourceBuffer \cup TargetBuffer
        /\ pc = "free" => "card" \in held /\ held \subseteq {"card", "src", "dest"}

\* A record of the example action.
EngineRecords == [busy : BOOLEAN, from : Areas, to : Areas, next : SUBSET DOMAIN From, lost : BOOLEAN, foul : BOOLEAN]

ExampleTypes ==
    /\ sdram \in Nat /\ area = [a \in Areas |-> area[a]]
    /\ engine \in EngineRecords /\ irq \in BOOLEAN
    /\ turn \in Nat /\ leg \in 1 .. 2 /\ rc \in {0, 1, 62, 256} /\ calm \in BOOLEAN /\ landed \in Nat

\* A job that is not lost is at work only while the process waits for it, and a
\* start is latched only over a job that is lost.
EngineAwaited ==
    /\ engine.busy /\ ~engine.lost => prog = "snap_example" /\ pc \in {"copy_wait", "count_wait"}
    /\ engine.next # {} => engine.lost
EngineForeign == prog # "snap_example" => ~engine.busy /\ engine.next = {}

\* The result of the copy is where it should be.
Delivered == area[To[Mode]] = area[From[Mode]]

CountInFlight == pc = "count_wait" /\ engine.busy /\ ~engine.lost => engine.from = engine.to

CopyInFlight ==
    /\ pc = "copy_wait" /\ engine.busy /\ ~engine.lost => engine.from = From[Mode] /\ engine.to = To[Mode]
    /\ calm /\ pc = "copy_wait" =>
          engine.next = {} /\ ~engine.lost /\ (engine.busy \/ engine.foul \/ Delivered)
    /\ calm /\ pc \in {"copy_detach", "compare"} /\ rc = 0 =>
          engine.next = {} /\ ~engine.busy /\ (engine.foul \/ Delivered)

\* Each copy is counted once, when its result is there.
Counts == Compared \/ (calm /\ ~engine.foul)

Counted ==
    /\ pc = "loop" => landed = turn
    /\ pc \in MemcpyLabels => landed = turn - 1
    /\ pc = "free" /\ rc = 0 => landed = turn
    /\ (pc = "exit1" /\ rc = 0) \/ (pc = Shell /\ exit = "ok") => landed = opt.iter

MemcpyControl ==
    /\ turn <= opt.iter
    /\ pc \in MemcpyLabels \cup {"free"} => turn >= 1
    /\ pc = "loop" /\ turn = 0 => rc # 0
    /\ pc \in {"alloc_src", "alloc_dest", "do_action", "copy_wait"} => rc = 0

ExampleControl ==
    /\ opt \in ExampleOptions
    /\ pc \in CountLabels => opt.action = "count"
    /\ pc \in MemcpyLabels \cup {"loop", "free"} => opt.action \notin {"count", "invalid"}
    /\ pc \in {"open", "check"} => rc = 1 /\ turn = 0 /\ landed = 0

ExampleInv ==
    /\ ExampleHeld /\ ExampleTypes /\ EngineAwaited /\ EngineForeign
    /\ prog = "snap_example" /\ Ran =>
        /\ ExampleControl /\ CountInFlight
        /\ opt.action # "count" => MemcpyControl /\ CopyInFlight /\ (~LeftOut /\ Counts => Counted)

\* The bounds of the example action.
LEMMA ExampleBounds ==
    /\ SDRAM \subseteq Nat /\ MaxCopy \in Nat \ {0} /\ MaxDelay \in Nat \ {0}
  BY ExampleJobsAssumption DEF ExampleJobsAssumption

\* The fields of a command line of snap_example.
LEMMA ExampleFields ==
    ASSUME NEW o \in ExampleOptions
    PROVE  /\ o.action \in {"count", "HH", "HD", "DH", "DD", "HDH", "invalid"}
           /\ o.blocks \in 0 .. 2 /\ o.base \in {0, 2} /\ o.iter \in Nat /\ o.delays \in Nat
           /\ o.irq \in BOOLEAN /\ o.aligned \in BOOLEAN
  BY ExampleBounds DEF ExampleOptions

\* The areas of a copy: host memory only if the action has a buffer there.
LEMMA ModeAreas ==
    ASSUME opt.action \in {"HH", "HD", "DH", "DD", "HDH"}
    PROVE  /\ From[Mode] \in Areas /\ To[Mode] \in Areas
           /\ From[Mode] # "dest" /\ To[Mode] # "src"
           /\ From[Mode] = "src" => HostSource
           /\ To[Mode] = "dest" => HostTarget
  BY DEF Mode, From, To, Areas, HostSource, HostTarget

\* The steps of snap_example by what they do to the control.
LEMMA ExampleHeldStep ==
    ASSUME ExampleHeld, prog = "snap_example", ExampleStart \/ ExampleStep
    PROVE  ExampleHeld' /\ prog' = "snap_example"
  <1> USE DEF ExampleHeld, ExampleLabels, CountLabels, MemcpyLabels, Shell, At, Run, Goto, Take, TakeOr, Drop, Exit,
              CardAlloc, exampleVars
  <1>1. CASE ExampleStart
    BY <1>1 DEF ExampleStart, ExampleRun
  <1>o. CASE ExampleStep
    <2>1. opt' = opt /\ SourceBuffer' = SourceBuffer /\ TargetBuffer' = TargetBuffer
      <3>1. opt' = opt
        BY <1>o DEF ExampleStep, ExampleOpen, ExampleCheck, CountAttach, CountStart, CountWait, CountDetach, CopyLoop,
           AllocSource, AllocTarget, DoAction, CopyWait, CopyDetach, Compare, CopyFree, ExampleExit,
           AttachAction, DetachAction, action_wait_idle
      <3> QED
        BY <3>1 DEF SourceBuffer, TargetBuffer, HostSource, HostTarget
    <2>2. CASE ExampleOpen \/ ExampleCheck \/ CountAttach \/ CountStart \/ CountWait \/ CountDetach \/ CopyLoop
      BY <2>2 DEF ExampleOpen, ExampleCheck, CountAttach, CountStart, CountWait, CountDetach, CopyLoop,
                  AttachAction, DetachAction, action_wait_idle
    <2>3. CASE AllocSource
      BY <2>1, <2>3 DEF AllocSource, SourceBuffer
    <2>4. CASE AllocTarget
      BY <2>1, <2>4 DEF AllocTarget, SourceBuffer, TargetBuffer
    <2>5. CASE DoAction \/ CopyWait \/ CopyDetach
      BY <2>1, <2>5 DEF DoAction, CopyWait, CopyDetach, AttachAction, DetachAction, action_wait_idle, SourceBuffer,
                        TargetBuffer
    <2>6. CASE Compare \/ CopyFree \/ ExampleExit
      BY <2>1, <2>6 DEF Compare, CopyFree, ExampleExit, SourceBuffer, TargetBuffer
    <2> QED
      BY <1>o, <2>2, <2>3, <2>4, <2>5, <2>6 DEF ExampleStep
  <1> QED
    BY <1>1, <1>o

\* What a start does to the action: an idle one begins, one at work latches it.
LEMMA StartIs ==
    ASSUME ExampleTypes, NEW m \in DOMAIN From, action_start(m)
    PROVE  /\ engine' \in EngineRecords /\ calm' \in BOOLEAN
           /\ engine.foul => engine'.foul
           /\ \/ /\ ~AtWork /\ calm' = calm /\ engine.next = {} /\ engine'.next = {}
                 /\ engine'.busy /\ ~engine'.lost /\ engine'.from = From[m] /\ engine'.to = To[m]
                 /\ engine'.foul = engine.foul
              \/ AtWork /\ ~calm' /\ engine'.lost
  <1>1. engine \in EngineRecords /\ calm \in BOOLEAN
    BY DEF ExampleTypes
  <1>2. From[m] \in Areas /\ To[m] \in Areas
    BY DEF From, To, Areas
  <1>3. CASE AtWork
    <2>1. PICK foul \in BOOLEAN : foul = (engine.foul \/ (m = "count" /\ (Copying \/ engine.next # {})))
      OBVIOUS
    <2>2. engine' = [engine EXCEPT !.next = @ \cup {m}, !.lost = TRUE, !.foul = foul]
      BY <1>3, <2>1 DEF action_start
    <2>3. engine' = [busy |-> engine.busy, from |-> engine.from, to |-> engine.to, next |-> engine.next \cup {m},
                     lost |-> TRUE, foul |-> foul]
      BY <1>1, <2>2 DEF EngineRecords
    <2>4. engine.next \cup {m} \in SUBSET DOMAIN From
      BY <1>1 DEF EngineRecords
    <2> QED
      BY <1>1, <1>3, <2>1, <2>3, <2>4 DEF EngineRecords, action_start
  <1>4. CASE ~AtWork
    <2>1. engine' = [engine EXCEPT !.busy = TRUE, !.lost = FALSE, !.from = From[m], !.to = To[m]]
      BY <1>4 DEF action_start
    <2>2. engine' = [busy |-> TRUE, from |-> From[m], to |-> To[m], next |-> engine.next,
                     lost |-> FALSE, foul |-> engine.foul]
      BY <1>1, <2>1 DEF EngineRecords
    <2>3. engine.next = {}
      BY <1>4 DEF AtWork
    <2> QED
      BY <1>1, <1>2, <1>4, <2>2, <2>3 DEF EngineRecords, action_start
  <1> QED
    BY <1>3, <1>4

\* The end of a wait changes nothing of the action but who cares for its job.
LEMMA WaitIs ==
    ASSUME ExampleTypes, NEW step, action_wait_idle(step)
    PROVE  /\ engine' \in EngineRecords /\ irq' \in BOOLEAN
           /\ engine'.busy = engine.busy /\ engine'.next = engine.next /\ engine'.foul = engine.foul
           /\ engine'.from = engine.from /\ engine'.to = engine.to
           /\ engine'.lost <=> engine.lost \/ engine.busy
           /\ \/ engine.busy /\ rc' = 62
              \/ ~engine.busy /\ rc' = 0
           /\ pc' = step /\ UNCHANGED <<prog, opt, held, exit, runs>>
  <1>1. engine \in EngineRecords
    BY DEF ExampleTypes
  <1>2. PICK lost \in BOOLEAN : lost = (engine.lost \/ engine.busy)
    OBVIOUS
  <1>3. engine' = [engine EXCEPT !.lost = lost]
    BY <1>2 DEF action_wait_idle
  <1>4. engine' = [busy |-> engine.busy, from |-> engine.from, to |-> engine.to, next |-> engine.next,
                   lost |-> lost, foul |-> engine.foul]
    BY <1>1, <1>3 DEF EngineRecords
  <1>5. /\ irq' = FALSE /\ rc' = IF engine.busy THEN 62 ELSE 0
        /\ pc' = step /\ UNCHANGED <<prog, opt, held, exit, runs>>
    BY DEF action_wait_idle, Goto
  <1> QED
    BY <1>1, <1>2, <1>4, <1>5 DEF EngineRecords

\* The rest of the invariant, which an action of the program keeps.
ExampleRest ==
    /\ ExampleTypes /\ EngineAwaited /\ EngineForeign
    /\ ExampleControl /\ CountInFlight
    /\ opt.action # "count" => MemcpyControl /\ CopyInFlight /\ (~LeftOut /\ Counts => Counted)

\* The steps of snap_example keep it.
LEMMA ExampleRestStep ==
    ASSUME ExampleInv, Running, prog = "snap_example", ExampleStep
    PROVE  ExampleRest' /\ Running'
  <1> USE DEF Shell
  <1>0. /\ pc # Shell /\ exit = "none" /\ prog' = prog /\ opt' = opt /\ sdram' = sdram
        /\ Running'
    <2> USE DEF At, Goto, Take, TakeOr, Drop, Exit, CardAlloc, exampleVars, Running
    <2>1. CASE ExampleOpen \/ ExampleCheck \/ CountAttach \/ CountStart \/ CountWait \/ CountDetach \/ CopyLoop
      BY <2>1 DEF ExampleOpen, ExampleCheck, CountAttach, CountStart, CountWait, CountDetach, CopyLoop,
                  AttachAction, DetachAction, action_wait_idle
    <2>2. CASE AllocSource \/ AllocTarget \/ DoAction \/ CopyWait \/ CopyDetach
      BY <2>2 DEF AllocSource, AllocTarget, DoAction, CopyWait, CopyDetach, AttachAction, DetachAction, action_wait_idle
    <2>3. CASE Compare \/ CopyFree \/ ExampleExit
      BY <2>3 DEF Compare, CopyFree, ExampleExit
    <2> QED
      BY <2>1, <2>2, <2>3 DEF ExampleStep
  <1>1. ExampleRest
    BY <1>0 DEF ExampleInv, ExampleRest, Ran
  <1>2. /\ LeftOut' = LeftOut /\ Refused' = Refused /\ HostSource' = HostSource /\ HostTarget' = HostTarget
        /\ Compared' = Compared
        /\ opt.iter \in Nat /\ turn \in Nat /\ landed \in Nat
        /\ opt.action \in {"count", "HH", "HD", "DH", "DD", "HDH", "invalid"}
        /\ engine \in EngineRecords /\ calm \in BOOLEAN /\ irq \in BOOLEAN
        /\ area = [a \in Areas |-> area[a]] /\ rc \in {0, 1, 62, 256}
        /\ sdram \in Nat /\ leg \in 1 .. 2
    BY <1>0, <1>1, ExampleFields
    DEF LeftOut, Refused, OnCard, HostSource, HostTarget, Compared, ExampleRest, ExampleControl, ExampleTypes
  <1> USE DEF MemcpyLabels, CountLabels
  <1>3. CASE ExampleOpen
    <2>1. UNCHANGED exampleVars /\ pc = "open" /\ pc' \in {"check", "no_card"} /\ exit' = exit
      BY <1>3 DEF ExampleOpen, At, CardAlloc, TakeOr, Take, Goto
    <2> QED
      BY <1>0, <1>1, <1>2, <2>1 DEF ExampleRest, ExampleTypes, EngineAwaited, EngineForeign, ExampleControl,
         CountInFlight, MemcpyControl, CopyInFlight, Counted, exampleVars
  <1>4. CASE ExampleCheck
    <2>1. /\ UNCHANGED <<area, engine, irq, turn, leg, calm, landed>> /\ exit' = exit /\ pc = "check"
          /\ \/ pc' = "exit1" /\ rc' \in {rc, 256}
             \/ pc' = "attach_count" /\ opt.action = "count" /\ rc' = rc
             \/ pc' = "loop" /\ opt.action \notin {"count", "invalid"} /\ rc' = rc
      BY <1>4 DEF ExampleCheck, At, Goto
    <2> QED
      BY <1>0, <1>1, <1>2, <2>1 DEF ExampleRest, ExampleTypes, EngineAwaited, EngineForeign, ExampleControl,
         CountInFlight, MemcpyControl, CopyInFlight, Counted
  <1>5. CASE CountAttach \/ CountDetach
    <2>1. /\ UNCHANGED exampleVars /\ exit' = exit /\ pc \in {"attach_count", "count_detach"}
          /\ pc' \in {"count", "exit1"}
      BY <1>5 DEF CountAttach, CountDetach, AttachAction, DetachAction, At, Take, Drop
    <2>2. opt.action = "count"
      BY <1>1, <2>1 DEF ExampleRest, ExampleControl
    <2> QED
      BY <1>0, <1>1, <1>2, <2>1, <2>2 DEF ExampleRest, ExampleTypes, EngineAwaited, EngineForeign, ExampleControl,
         CountInFlight, exampleVars
  <1>6. CASE CountStart
    <2>1. /\ UNCHANGED <<area, irq, leg, rc, landed>> /\ exit' = exit /\ pc = "count"
          /\ \/ turn' = turn + 1 /\ pc' = "count_wait" /\ action_start("count")
             \/ turn' = turn /\ engine' = engine /\ calm' = calm /\ pc' = "count_detach"
      BY <1>6 DEF CountStart, At, Goto
    <2>2. opt.action = "count" /\ (engine.busy => engine.lost) /\ (engine.next # {} => engine.lost)
      BY <1>1, <2>1 DEF ExampleRest, ExampleControl, EngineAwaited
    <2>3. /\ engine' \in EngineRecords /\ calm' \in BOOLEAN
          /\ engine'.busy /\ ~engine'.lost => pc' = "count_wait" /\ engine'.from = engine'.to
          /\ engine'.next # {} => engine'.lost
      <3>1. CASE engine' = engine /\ calm' = calm
        <4>1. engine' \in EngineRecords /\ calm' \in BOOLEAN
          BY <1>2, <3>1
        <4> QED
          BY <2>2, <3>1, <4>1
      <3>2. CASE pc' = "count_wait" /\ action_start("count")
        <4>1. "count" \in DOMAIN From /\ From["count"] = To["count"]
          BY DEF From, To
        <4>2. ExampleTypes
          BY <1>1 DEF ExampleRest
        <4>3. /\ engine' \in EngineRecords /\ calm' \in BOOLEAN
              /\ \/ /\ engine'.next = {} /\ engine'.from = From["count"] /\ engine'.to = To["count"]
                 \/ engine'.lost
          BY <3>2, <4>1, <4>2, StartIs
        <4> QED
          BY <3>2, <4>1, <4>3
      <3> QED
        BY <2>1, <3>1, <3>2
    <2>4. turn' \in Nat
      BY <1>2, <2>1
    <2>5. ExampleTypes'
      BY <1>0, <1>2, <2>1, <2>3, <2>4 DEF ExampleTypes
    <2>6. EngineAwaited' /\ EngineForeign' /\ CountInFlight' /\ ExampleControl'
      BY <1>0, <1>1, <2>1, <2>2, <2>3 DEF ExampleRest, EngineAwaited, EngineForeign, ExampleControl, CountInFlight
    <2> QED
      BY <1>0, <2>2, <2>5, <2>6 DEF ExampleRest
  <1>7. CASE CountWait
    <2>1. /\ UNCHANGED <<area, turn, leg, calm, landed>> /\ pc = "count_wait" /\ action_wait_idle("count")
      BY <1>7 DEF CountWait, At
    <2>2. /\ engine' \in EngineRecords /\ irq' \in BOOLEAN /\ rc' \in {0, 62} /\ pc' = "count"
          /\ engine'.busy => engine'.lost
          /\ engine'.next # {} => engine'.lost
      BY <1>1, <2>1, WaitIs DEF ExampleRest, EngineAwaited
    <2>3. opt.action = "count"
      BY <1>1, <2>1 DEF ExampleRest, ExampleControl
    <2> QED
      BY <1>0, <1>1, <1>2, <2>1, <2>2, <2>3 DEF ExampleRest, ExampleTypes, EngineAwaited, EngineForeign, ExampleControl,
         CountInFlight
  <1>8. CASE CopyLoop
    <2>1. /\ UNCHANGED <<area, engine, irq, calm, landed>> /\ exit' = exit /\ pc = "loop"
          /\ \/ turn >= opt.iter /\ pc' = "exit1" /\ turn' = turn /\ leg' = leg /\ rc' = rc
             \/ /\ turn < opt.iter /\ turn' = turn + 1 /\ leg' = 1
                /\ \/ pc' = "exit1" /\ rc' = 1
                   \/ LeftOut /\ pc' = "loop" /\ rc' = 0
                   \/ ~LeftOut /\ pc' = "alloc_src" /\ rc' = 0
      BY <1>2, <1>8 DEF CopyLoop, At, Goto
    <2>2. /\ opt.action \notin {"count", "invalid"} /\ turn <= opt.iter
          /\ ~LeftOut /\ Counts => landed = turn
          /\ turn = 0 => rc # 0
          /\ Counts' <=> Counts
      BY <1>1, <1>2, <2>1 DEF ExampleRest, ExampleControl, MemcpyControl, Counted, Counts
    <2> QED
      BY <1>0, <1>1, <1>2, <2>1, <2>2 DEF ExampleRest, ExampleTypes, EngineAwaited, EngineForeign, ExampleControl,
         CountInFlight, MemcpyControl, CopyInFlight, Counted
  <1>9. CASE AllocSource \/ AllocTarget
    <2>1. /\ UNCHANGED <<engine, irq, turn, leg, calm, landed>> /\ exit' = exit /\ pc \in {"alloc_src", "alloc_dest"}
          /\ \/ pc' \in {"alloc_dest", "do_action"} /\ rc' = rc
             \/ pc' \in {"exit1", "free"} /\ rc' = 1
      BY <1>9 DEF AllocSource, AllocTarget, At, Goto, Take
    <2>2. area' = [a \in Areas |-> area'[a]]
      <3>1. ASSUME NEW a, NEW v, area' = [area EXCEPT ![a] = v] PROVE area' = [x \in Areas |-> area'[x]]
        BY <3>1, <1>2
      <3>2. CASE area' = area
        BY <3>2, <1>2
      <3> QED
        BY <3>1, <3>2, <1>9 DEF AllocSource, AllocTarget
    <2>3. Counts' <=> Counts
      BY <1>2, <2>1 DEF Counts
    <2> QED
      BY <1>0, <1>1, <1>2, <2>1, <2>2, <2>3 DEF ExampleRest, ExampleTypes, EngineAwaited, EngineForeign, ExampleControl,
         CountInFlight, MemcpyControl, CopyInFlight, Counted
  <1>10. CASE DoAction
    <2>1. /\ UNCHANGED <<area, irq, turn, leg, rc, landed>> /\ exit' = exit /\ pc = "do_action" /\ pc' = "copy_wait"
          /\ action_start(Mode)
      BY <1>10 DEF DoAction, AttachAction, At, Take
    <2>2. opt.action \notin {"count", "invalid"} /\ Mode' = Mode /\ Mode \in DOMAIN From
      BY <1>0, <1>1, <1>2, <2>1 DEF ExampleRest, ExampleControl, Mode, From
    <2>3. /\ engine' \in EngineRecords /\ calm' \in BOOLEAN
          /\ engine.foul => engine'.foul
          /\ \/ /\ ~AtWork /\ calm' = calm /\ engine.next = {} /\ engine'.next = {}
                /\ engine'.busy /\ ~engine'.lost /\ engine'.from = From[Mode] /\ engine'.to = To[Mode]
                /\ engine'.foul = engine.foul
             \/ AtWork /\ ~calm' /\ engine'.lost
      BY <1>1, <2>1, <2>2, StartIs DEF ExampleRest
    <2>4. Counts' => Counts
      BY <1>2, <2>3 DEF Counts
    <2>5. EngineAwaited' /\ EngineForeign' /\ CountInFlight'
      <3>1. engine.next # {} => engine.lost
        BY <1>1 DEF ExampleRest, EngineAwaited
      <3> QED
        BY <1>0, <2>1, <2>3, <3>1 DEF EngineAwaited, EngineForeign, CountInFlight
    <2>8. CopyInFlight'
      BY <2>1, <2>2, <2>3 DEF CopyInFlight
    <2>6. ExampleTypes' /\ ExampleControl'
      BY <1>0, <1>1, <1>2, <2>1, <2>2, <2>3 DEF ExampleRest, ExampleTypes, ExampleControl
    <2>7. MemcpyControl' /\ (~LeftOut' /\ Counts' => Counted')
      BY <1>0, <1>1, <1>2, <2>1, <2>2, <2>4 DEF ExampleRest, MemcpyControl, Counted
    <2> QED
      BY <1>0, <2>5, <2>6, <2>7, <2>8 DEF ExampleRest
  <1>11. CASE CopyWait
    <2>1. UNCHANGED <<area, turn, leg, calm, landed>> /\ pc = "copy_wait" /\ action_wait_idle("copy_detach")
      BY <1>11 DEF CopyWait, At
    <2>2. /\ engine' \in EngineRecords /\ irq' \in BOOLEAN
          /\ engine'.busy = engine.busy /\ engine'.next = engine.next /\ engine'.foul = engine.foul
          /\ engine'.lost <=> engine.lost \/ engine.busy
          /\ \/ engine.busy /\ rc' = 62
             \/ ~engine.busy /\ rc' = 0
          /\ pc' = "copy_detach" /\ exit' = exit
      BY <1>1, <2>1, WaitIs DEF ExampleRest
    <2>3. /\ opt.action \notin {"count", "invalid"} /\ MemcpyControl /\ CopyInFlight
          /\ (~LeftOut /\ Counts => Counted)
      BY <1>1, <2>1 DEF ExampleRest, ExampleControl
    <2>4. (Delivered' <=> Delivered) /\ (Counts' <=> Counts)
      BY <1>0, <1>2, <2>1, <2>2 DEF Delivered, Mode, Counts
    <2>5. EngineAwaited' /\ EngineForeign' /\ CountInFlight'
      BY <1>0, <1>1, <2>1, <2>2 DEF ExampleRest, EngineAwaited, EngineForeign, CountInFlight
    <2>6. ExampleTypes' /\ ExampleControl'
      BY <1>0, <1>1, <1>2, <2>1, <2>2, <2>3 DEF ExampleRest, ExampleTypes, ExampleControl
    <2>7. MemcpyControl' /\ (~LeftOut' /\ Counts' => Counted')
      BY <1>0, <1>2, <2>1, <2>2, <2>3, <2>4 DEF MemcpyControl, Counted
    <2>8. CopyInFlight'
      BY <2>1, <2>2, <2>3, <2>4 DEF CopyInFlight
    <2> QED
      BY <1>0, <2>5, <2>6, <2>7, <2>8 DEF ExampleRest
  <1>12. CASE CopyDetach
    <2>1. /\ UNCHANGED <<area, engine, irq, turn, rc, calm, landed>> /\ exit' = exit /\ pc = "copy_detach"
          /\ \/ rc = 0 /\ leg' = 2 /\ pc' = "do_action"
             \/ leg' = leg /\ pc' = "compare"
      BY <1>12 DEF CopyDetach, DetachAction, At, Drop
    <2>2. (leg' = leg => (Delivered' <=> Delivered)) /\ (Counts' <=> Counts)
      BY <1>0, <1>2, <2>1 DEF Delivered, Mode, Counts
    <2> QED
      BY <1>0, <1>1, <1>2, <2>1, <2>2 DEF ExampleRest, ExampleTypes, EngineAwaited, EngineForeign,
         ExampleControl, CountInFlight, MemcpyControl, CopyInFlight, Counted
  <1>13. CASE Compare
    <2>1. /\ UNCHANGED <<area, engine, irq, turn, leg, calm>> /\ exit' = exit /\ pc = "compare" /\ pc' = "free"
          /\ rc # 0 => rc' # 0 /\ rc' \in {1, rc}
          /\ rc = 0 => rc' \in {0, 1}
          /\ rc = 0 /\ rc' = 0 /\ Compared => SameData
          /\ landed' = IF (~engine.busy /\ Delivered) \/ (Compared /\ SameData) THEN landed + 1 ELSE landed
      BY <1>13 DEF Compare, At, Goto, Arrived, Delivered
    <2>2. /\ opt.action \notin {"count", "invalid"} /\ MemcpyControl /\ CopyInFlight
          /\ (~LeftOut /\ Counts => Counted)
      BY <1>1, <2>1 DEF ExampleRest, ExampleControl
    <2>3. Counts' <=> Counts
      BY <1>2, <2>1 DEF Counts
    <2>4. rc' = 0 /\ Counts => landed' = landed + 1
      BY <2>1, <2>2 DEF Counts, CopyInFlight
    <2>5. (~LeftOut' /\ Counts' => Counted') /\ MemcpyControl' /\ CopyInFlight'
      BY <1>0, <1>2, <2>1, <2>2, <2>3, <2>4 DEF Counted, MemcpyControl, CopyInFlight
    <2> QED
      BY <1>0, <1>1, <1>2, <2>1, <2>2, <2>5 DEF ExampleRest, ExampleTypes, EngineAwaited, EngineForeign,
         ExampleControl, CountInFlight
  <1>14. CASE CopyFree \/ ExampleExit
    <2>1. /\ UNCHANGED exampleVars
          /\ \/ pc = "free" /\ pc' = (IF rc # 0 THEN "exit1" ELSE "loop") /\ exit' = exit
             \/ pc = "exit1" /\ pc' = Shell /\ exit' = (IF rc = 0 THEN "ok" ELSE "failure")
             \/ pc = "no_card" /\ pc' = Shell /\ exit' = "failure"
      BY <1>14 DEF CopyFree, ExampleExit, At, Drop, Exit
    <2>2. Counts' <=> Counts
      BY <1>2, <2>1 DEF Counts, exampleVars
    <2> QED
      BY <1>0, <1>1, <1>2, <2>1, <2>2 DEF ExampleRest, ExampleTypes, EngineAwaited, EngineForeign,
         ExampleControl, CountInFlight, MemcpyControl, CopyInFlight, Counted, exampleVars
  <1> QED
    BY <1>0, <1>3, <1>4, <1>5, <1>6, <1>7, <1>8, <1>9, <1>10, <1>11, <1>12, <1>13, <1>14 DEF ExampleStep

\* A step of the action is of no interest to what the process holds, and keeps
\* the control of the process.
LEMMA ExampleWorksHeld ==
    ASSUME ExampleInv, prog = "snap_example", ExampleWorks
    PROVE  /\ ExampleHeld' /\ UNCHANGED <<processVars, sdram, turn, leg, rc, calm, landed>>
           /\ Ran' = Ran /\ Mode' = Mode /\ LeftOut' = LeftOut /\ Compared' = Compared
           /\ Ran => ExampleControl'
           /\ Ran /\ opt.action # "count" => MemcpyControl'
  <1>1. UNCHANGED <<processVars, sdram, turn, leg, rc, calm, landed>>
    BY DEF ExampleWorks, EngineDone, EngineTakes
  <1>2. /\ UNCHANGED <<prog, pc, opt, held, exit, SourceBuffer, TargetBuffer>>
        /\ Ran' = Ran /\ Mode' = Mode /\ LeftOut' = LeftOut /\ Compared' = Compared
    BY <1>1 DEF processVars, SourceBuffer, TargetBuffer, HostSource, HostTarget, Ran, Mode, LeftOut, Compared
  <1>3. ExampleHeld'
    BY <1>2 DEF ExampleInv, ExampleHeld
  <1> QED
    BY <1>1, <1>2, <1>3 DEF ExampleInv, ExampleControl, MemcpyControl, MemcpyLabels, CountLabels

\* The action that ends its copy or its count.
LEMMA EngineDoneStep ==
    ASSUME ExampleInv, prog = "snap_example", EngineDone
    PROVE  ExampleInv'
  <1> USE DEF Shell
  <1>1. /\ engine.busy /\ engine' = [engine EXCEPT !.busy = FALSE]
        /\ engine \in EngineRecords /\ area = [a \in Areas |-> area[a]]
    BY DEF EngineDone, ExampleInv, ExampleTypes
  <1>2. engine' = [busy |-> FALSE, from |-> engine.from, to |-> engine.to, next |-> engine.next,
                   lost |-> engine.lost, foul |-> engine.foul]
    BY <1>1 DEF EngineRecords
  <1>3. /\ engine' \in EngineRecords /\ ~engine'.busy
        /\ UNCHANGED <<engine.from, engine.to, engine.next, engine.lost, engine.foul>>
    BY <1>1, <1>2 DEF EngineRecords
  <1>4. area' = [a \in Areas |-> area'[a]]
    BY <1>1 DEF EngineDone
  <1>5. irq' \in BOOLEAN
    BY DEF EngineDone, ExampleInv, ExampleTypes
  <1>6. /\ ExampleHeld' /\ UNCHANGED <<processVars, sdram, turn, leg, rc, calm, landed>>
        /\ Ran' = Ran /\ Mode' = Mode /\ LeftOut' = LeftOut /\ Compared' = Compared
        /\ Ran => ExampleControl'
        /\ Ran /\ opt.action # "count" => MemcpyControl'
    BY ExampleWorksHeld DEF ExampleWorks
  <1>7. ExampleTypes' /\ EngineAwaited' /\ EngineForeign' /\ CountInFlight'
    BY <1>3, <1>4, <1>5, <1>6
    DEF ExampleInv, ExampleTypes, EngineAwaited, EngineForeign, CountInFlight, processVars
  <1>8. ASSUME Ran, opt.action # "count" PROVE (CopyInFlight /\ (~LeftOut /\ Counts => Counted))'
    <2>1. UNCHANGED <<pc, opt, exit>> /\ CopyInFlight /\ (~LeftOut /\ Counts => Counted) /\ Counts' = Counts
      BY <1>3, <1>6, <1>8 DEF ExampleInv, processVars, Counts
    <2>2. Counted' = Counted
      BY <1>6, <2>1 DEF Counted
    <2>3. ASSUME calm', pc = "copy_wait" PROVE engine'.next = {} /\ ~engine'.lost /\ (engine'.foul \/ Delivered')
      <3>1. /\ engine.next = {} /\ ~engine.lost /\ engine.from = From[Mode] /\ engine.to = To[Mode]
            /\ "card" \in held
        BY <1>1, <1>6, <2>1, <2>3 DEF CopyInFlight, ExampleInv, ExampleHeld
      <3>2. CASE engine.foul
        BY <1>3, <3>1, <3>2
      <3>3. CASE ~engine.foul
        <4>1. area' = [area EXCEPT ![To[Mode]] = area[From[Mode]]]
          <5>1. {w \in {"other"} : engine.foul /\ Copying} = {}
            BY <3>3
          <5> QED
            BY <3>1, <5>1 DEF EngineDone
        <4>2. From[Mode] \in Areas /\ To[Mode] \in Areas
          BY <1>1, <3>1 DEF EngineRecords
        <4>3. Delivered'
          BY <1>1, <1>6, <4>1, <4>2 DEF Delivered
        <4> QED
          BY <1>3, <3>1, <4>3
      <3> QED
        BY <3>2, <3>3
    <2>4. calm' /\ pc \in {"copy_detach", "compare"} => rc # 0
      BY <1>1, <1>6, <2>1 DEF CopyInFlight
    <2>5. CopyInFlight'
      BY <1>3, <1>6, <2>1, <2>3, <2>4 DEF CopyInFlight
    <2> QED
      BY <1>6, <2>1, <2>2, <2>5
  <1>9. opt' = opt
    BY <1>6 DEF processVars
  <1> QED
    BY <1>6, <1>7, <1>8, <1>9 DEF ExampleInv

\* The action that takes the start it has latched.
LEMMA EngineTakesStep ==
    ASSUME ExampleInv, prog = "snap_example", EngineTakes
    PROVE  ExampleInv'
  <1> USE DEF Shell
  <1>1. PICK m, n \in engine.next :
            engine' = [engine EXCEPT !.busy = TRUE, !.next = {}, !.from = From[m], !.to = To[n]]
    BY DEF EngineTakes
  <1>2. /\ engine.next # {} /\ engine.lost /\ UNCHANGED <<area, irq>>
        /\ engine \in EngineRecords /\ area = [a \in Areas |-> area[a]] /\ irq \in BOOLEAN
    BY DEF EngineTakes, ExampleInv, ExampleTypes, EngineAwaited
  <1>3. engine' = [busy |-> TRUE, from |-> From[m], to |-> To[n], next |-> {}, lost |-> engine.lost,
                   foul |-> engine.foul]
    BY <1>1, <1>2 DEF EngineRecords
  <1>4. From[m] \in Areas /\ To[n] \in Areas
    <2>1. m \in DOMAIN From /\ n \in DOMAIN From
      BY <1>1, <1>2 DEF EngineRecords
    <2> QED
      BY <2>1 DEF From, To, Areas
  <1>5. engine' \in EngineRecords /\ engine'.lost /\ engine'.next = {} /\ engine'.foul = engine.foul
    BY <1>2, <1>3, <1>4 DEF EngineRecords
  <1>6. /\ ExampleHeld' /\ UNCHANGED <<processVars, sdram, turn, leg, rc, calm, landed>>
        /\ Ran' = Ran /\ Mode' = Mode /\ LeftOut' = LeftOut /\ Compared' = Compared
        /\ Ran => ExampleControl'
        /\ Ran /\ opt.action # "count" => MemcpyControl'
    BY ExampleWorksHeld DEF ExampleWorks
  <1>7. ExampleTypes' /\ EngineAwaited' /\ EngineForeign' /\ CountInFlight'
    BY <1>2, <1>5, <1>6
    DEF ExampleInv, ExampleTypes, EngineAwaited, EngineForeign, CountInFlight, processVars
  <1>8. ASSUME Ran, opt.action # "count" PROVE (CopyInFlight /\ (~LeftOut /\ Counts => Counted))'
    <2>1. UNCHANGED <<pc, opt, exit>> /\ CopyInFlight /\ (~LeftOut /\ Counts => Counted) /\ Counts' = Counts
      BY <1>5, <1>6, <1>8 DEF ExampleInv, processVars, Counts
    <2>2. Counted' = Counted
      BY <1>6, <2>1 DEF Counted
    <2>3. ~calm \/ pc \notin {"copy_wait", "copy_detach", "compare"} \/ rc # 0
      <3>1. rc = 0 \/ pc # "copy_wait"
        BY <1>8 DEF ExampleInv, MemcpyControl
      <3> QED
        BY <1>2, <2>1, <3>1 DEF CopyInFlight
    <2>4. pc = "copy_wait" => rc = 0
      BY <1>8 DEF ExampleInv, MemcpyControl
    <2>5. CopyInFlight'
      BY <1>5, <1>6, <2>1, <2>3, <2>4 DEF CopyInFlight
    <2> QED
      BY <1>6, <2>1, <2>2, <2>5
  <1>9. opt' = opt
    BY <1>6 DEF processVars
  <1> QED
    BY <1>6, <1>7, <1>8, <1>9 DEF ExampleInv

\* The start of snap_example establishes its own invariant.
LEMMA ExampleStartStep ==
    ASSUME ExampleInv, Running, prog = "snap_example", ExampleStart
    PROVE  ExampleInv' /\ Running'
  <1> USE DEF Shell
  <1>1. PICK o \in ExampleOptions : ExampleRun(o)
    BY DEF ExampleStart
  <1>2. /\ pc = Shell /\ pc' = "open" /\ opt' = o /\ exit' = "none" /\ prog' = "snap_example"
        /\ irq' = FALSE /\ turn' = 0 /\ leg' = 1 /\ rc' = 1 /\ calm' = TRUE /\ landed' = 0
        /\ UNCHANGED <<sdram, area, engine>>
    BY <1>1 DEF ExampleRun, Run
  <1>3. ExampleTypes /\ EngineAwaited
    BY DEF ExampleInv
  <1>4. ExampleTypes'
    <2>1. sdram' \in Nat /\ turn' \in Nat /\ leg' \in 1 .. 2 /\ rc' \in {0, 1, 62, 256} /\ landed' \in Nat
      BY <1>2, <1>3 DEF ExampleTypes
    <2>2. irq' \in BOOLEAN /\ calm' \in BOOLEAN
      BY <1>2
    <2>3. engine' \in EngineRecords /\ area' = [a \in Areas |-> area'[a]]
      <3>1. engine \in EngineRecords /\ area = [a \in Areas |-> area[a]]
        BY <1>3 DEF ExampleTypes
      <3> QED
        BY <1>2, <3>1
    <2> QED
      BY <2>1, <2>2, <2>3 DEF ExampleTypes
  <1>5. EngineAwaited' /\ EngineForeign' /\ CountInFlight'
    BY <1>2, <1>3 DEF EngineAwaited, EngineForeign, CountInFlight
  <1>6. ExampleControl' /\ MemcpyControl' /\ CopyInFlight' /\ Counted'
    BY <1>2, ExampleFields DEF ExampleControl, MemcpyControl, CopyInFlight, Counted, MemcpyLabels, CountLabels
  <1> QED
    BY <1>2, <1>5, <1>6, <1>4, ExampleHeldStep DEF ExampleInv, Running

\* The invariant of snap_example is kept by its steps and by the action.
LEMMA ExampleInvStep ==
    ASSUME ExampleInv, Running, prog = "snap_example", ExampleStart \/ ExampleStep \/ ExampleWorks
    PROVE  ExampleInv' /\ Running' /\ prog' = "snap_example"
  <1>1. CASE ExampleStart
    BY <1>1, ExampleStartStep, ExampleHeldStep DEF ExampleInv
  <1>2. CASE ExampleStep
    BY <1>2, ExampleRestStep, ExampleHeldStep DEF ExampleInv, ExampleRest
  <1>3. CASE ExampleWorks
    <2>1. UNCHANGED <<prog, pc, exit>>
      BY <1>3 DEF ExampleWorks, EngineDone, EngineTakes, processVars
    <2> QED
      BY <1>3, <2>1, EngineDoneStep, EngineTakesStep DEF Running, ExampleWorks
  <1> QED
    BY <1>1, <1>2, <1>3

\* A program of copies that succeeds has counted all of them.
LEMMA EveryCopyLandedHolds == ExampleInv /\ Running => EveryCopyLanded
  BY DEF ExampleInv, Running, EveryCopyLanded, Ran, Counted, Counts, Shell

\* The action copies to the buffers of the copy that is waited for.
LEMMA NoDmaToFreedHolds == ExampleInv /\ Running => NoDmaToFreed
  <1> SUFFICES ASSUME ExampleInv, Running, engine.busy, "card" \in held, ~engine.lost, engine.from # engine.to,
                      NEW a \in {engine.from, engine.to} \cap {"src", "dest"}
               PROVE  a \in held
    BY DEF NoDmaToFreed, Copying
  <1>1. prog = "snap_example" /\ pc = "copy_wait"
    <2>1. prog = "snap_example" /\ pc \in {"copy_wait", "count_wait"}
      BY DEF ExampleInv, EngineAwaited
    <2> QED
      BY <2>1 DEF ExampleInv, CountInFlight, Ran, Shell
  <1>2. /\ opt.action \notin {"count", "invalid"} /\ opt \in ExampleOptions
        /\ engine.from = From[Mode] /\ engine.to = To[Mode]
        /\ held = {"card", "action"} \cup SourceBuffer \cup TargetBuffer
    BY <1>1 DEF ExampleInv, ExampleControl, CopyInFlight, Ran, MemcpyLabels, ExampleHeld, Shell
  <1>3. opt.action \in {"HH", "HD", "DH", "DD", "HDH"}
    BY <1>2, ExampleFields
  <1> QED
    BY <1>2, <1>3, ModeAreas DEF SourceBuffer, TargetBuffer

-----------------------------------------------------------------------------
(* The engine jobs.  An engine is spoiled when the register block was left *)
(* in the middle of a test; nothing is said of it then.                    *)

\* The child of an engine and the registers of its block.
ChildSteps == {"open", "attach_wait", "start", "ready", "done", "check", "gone"}
Child      == [step : ChildSteps, rc : {0, 1, 2, 4, 8}, test : 0 .. MaxTest \cup {1}]
Slave      == [start : BOOLEAN, rd_done : BOOLEAN, wr_done : BOOLEAN, rd_error : BOOLEAN]
Master     == {"idle", "own", "stale"}
WrMaster   == Master \cup {"both"}
History    == {"rd", "wr", "bad", "hidden"}

EngineTypes ==
    /\ slave \in [Engines -> Slave]
    /\ rd \in [Engines -> Master] /\ wr \in [Engines -> WrMaster]
    /\ child \in [Engines -> Child]
    /\ target = [e \in Engines |-> target[e]]
    /\ spoiled \in [Engines -> BOOLEAN] /\ worked \in [Engines -> SUBSET History]

EngineHeld == prog \in EnginePrograms => held = {} /\ pc \in {"children", Shell}

\* On an engine that nobody spoiled the masters work for the process that is
\* there, and nothing is left of an earlier one.
Unspoiled(e) ==
    /\ rd[e] \in {"idle", "own"} /\ wr[e] \in {"idle", "own"}
    /\ child[e].step # "done" => rd[e] = "idle" /\ wr[e] = "idle" /\ slave[e] = Cleared

\* The flags say what the masters did.
FlagsEarned(e) ==
    child[e].step = "done" =>
        /\ slave[e].rd_done => "rd" \in worked[e]
        /\ slave[e].wr_done => "wr" \in worked[e]
        /\ "bad" \in worked[e] => slave[e].rd_error \/ "hidden" \in worked[e]

Worked(e) ==
    /\ {"rd", "wr"} \subseteq worked[e]
    /\ prog = "hdl_multi_process" /\ "bad" \in worked[e] => "hidden" \in worked[e]

Verified(e) == Worked(e) /\ (prog = "hdl_single_engine" /\ opt.wnum # 0 => target[e] = "expected")

OutcomeEarned(e) ==
    /\ child[e].step = "check" /\ child[e].rc = 0 => Worked(e)
    /\ child[e].step = "start" /\ child[e].rc = 0 => Verified(e)
    /\ child[e].step = "gone" /\ child[e].rc = 0 /\ (opt.rnum # 0 \/ opt.wnum # 0) => Verified(e)

EngineOk(e) == ~spoiled[e] => Unspoiled(e) /\ FlagsEarned(e) /\ (Ran /\ e \in Children => OutcomeEarned(e))

\* A program of one process has the first engine only, and all processes of a
\* program that has ended are gone.
EngineControl ==
    /\ Ran => opt \in IF prog = "hdl_single_engine" THEN SingleOptions ELSE MultiOptions
    /\ exit = "ok" => \A e \in Children : child[e].step = "gone" /\ child[e].rc = 0
    /\ pc = Shell => \A e \in Engines : child[e].step = "gone"
    /\ \A e \in Engines \ Children : child[e].step = "gone"

EngineInv ==
    /\ EngineTypes /\ EngineHeld
    /\ prog \in EnginePrograms => EngineControl /\ \A e \in Engines : EngineOk(e)

\* The bounds of the engine jobs.
LEMMA EngineBounds == NEngine \in Nat \ {0} /\ MaxTest \in Nat
  BY EngineJobsAssumption DEF EngineJobsAssumption

\* The fields of a command line of the engine jobs.
LEMMA EngineFields ==
    ASSUME NEW o, o \in SingleOptions \/ o \in MultiOptions
    PROVE  /\ o.rnum \in {0, 1} /\ o.wnum \in {0, 1} /\ o.irq \in BOOLEAN
           /\ o.tests \in Nat /\ (o.tests <= MaxTest \/ o.tests = 1)
  BY EngineBounds DEF SingleOptions, MultiOptions, Numbers

\* Nothing of the engine f changes.
SameEngine(f) == UNCHANGED <<slave[f], rd[f], wr[f], child[f], target[f], spoiled[f], worked[f]>>

\* An engine of which nothing changes keeps what it has.
LEMMA EngineFrame ==
    ASSUME NEW f \in Engines, UNCHANGED <<prog, opt>>, Ran' => Ran, SameEngine(f), EngineOk(f)
    PROVE  EngineOk(f)'
  BY DEF SameEngine, EngineOk, Unspoiled, FlagsEarned, OutcomeEarned, Verified, Worked, Children

\* The record of a child after a step of it, and of the register block.
LEMMA ChildGotoIs ==
    ASSUME EngineTypes, NEW e \in Engines, NEW s \in ChildSteps, NEW r \in {0, 1, 2, 4, 8}, ChildGoto(e, s, r)
    PROVE  /\ child'[e] = [step |-> s, rc |-> r, test |-> child[e].test]
           /\ child' \in [Engines -> Child]
           /\ \A f \in Engines \ {e} : child'[f] = child[f]
  <1> DEFINE c == child[e]  d == [c EXCEPT !.step = s, !.rc = r]
  <1>1. c \in Child /\ child \in [Engines -> Child]
    BY DEF EngineTypes
  <1>2. child' = [child EXCEPT ![e] = d]
    BY DEF ChildGoto
  <1>3. d = [step |-> s, rc |-> r, test |-> c.test]
    <2>1. d = [x \in {"step", "rc", "test"} |-> d[x]]
      BY <1>1 DEF Child
    <2>2. d.step = s /\ d.rc = r /\ d.test = c.test
      BY <1>1 DEF Child
    <2> HIDE DEF d
    <2> QED
      BY <2>1, <2>2
  <1> HIDE DEF d, c
  <1>4. d \in Child
    BY <1>1, <1>3 DEF Child
  <1>5. child'[e] = d /\ child' \in [Engines -> Child] /\ \A f \in Engines \ {e} : child'[f] = child[f]
    BY <1>1, <1>2, <1>4
  <1> QED
    BY <1>3, <1>5 DEF c

\* The record of a child that leaves.
LEMMA GoneIs ==
    ASSUME EngineTypes, NEW e \in Engines, NEW r, Gone(e, r)
    PROVE  /\ child'[e].step = "gone" /\ (child'[e].rc = 0 <=> r = 0)
           /\ child' \in [Engines -> Child]
           /\ \A f \in Engines \ {e} : child'[f] = child[f]
  <1> DEFINE c == [step |-> "gone", rc |-> IF r = 0 THEN 0 ELSE 1, test |-> 0]
  <1>1. child \in [Engines -> Child]
    BY DEF EngineTypes
  <1>2. c \in Child /\ c.step = "gone" /\ (c.rc = 0 <=> r = 0)
    BY EngineBounds DEF Child, ChildSteps
  <1>3. child' = [child EXCEPT ![e] = c]
    BY DEF Gone
  <1> HIDE DEF c
  <1> QED
    BY <1>1, <1>2, <1>3

\* A read burst of an engine.
LEMMA ReadBurstStep ==
    ASSUME EngineTypes, NEW e \in Engines, NEW last \in BOOLEAN, NEW error \in {"none", "data", "resp"},
           ReadBurst(e, last, error), EngineOk(e)
    PROVE  /\ EngineTypes' /\ EngineOk(e)'
           /\ \A f \in Engines \ {e} : SameEngine(f)
  <1> DEFINE wrong == IF error = "none" THEN slave[e].rd_error ELSE error = "data"
             s == slave[e]
             d == [s EXCEPT !.rd_error = wrong, !.rd_done = s.rd_done \/ last]
  <1>1. s \in Slave /\ slave \in [Engines -> Slave] /\ s.rd_error \in BOOLEAN /\ wrong \in BOOLEAN
    BY DEF EngineTypes, Slave
  <1>2. slave' = [slave EXCEPT ![e] = d]
    BY DEF ReadBurst
  <1> HIDE DEF wrong
  <1>3. d = [start |-> s.start, rd_done |-> s.rd_done \/ last, wr_done |-> s.wr_done, rd_error |-> wrong]
    <2>1. d = [x \in {"start", "rd_done", "wr_done", "rd_error"} |-> d[x]]
      BY <1>1 DEF Slave
    <2>2. d.start = s.start /\ d.rd_done = (s.rd_done \/ last) /\ d.wr_done = s.wr_done /\ d.rd_error = wrong
      BY <1>1 DEF Slave
    <2> HIDE DEF d
    <2> QED
      BY <2>1, <2>2
  <1> HIDE DEF d, s
  <1>4. d \in Slave
    BY <1>1, <1>3 DEF Slave
  <1>5. slave'[e] = d /\ slave' \in [Engines -> Slave] /\ \A f \in Engines \ {e} : slave'[f] = slave[f]
    BY <1>1, <1>2, <1>4
  <1>6. /\ rd[e] # "idle" /\ UNCHANGED <<processVars, wr, child, target, spoiled>>
        /\ rd' = [rd EXCEPT ![e] = IF last THEN "idle" ELSE rd[e]]
        /\ rd \in [Engines -> Master] /\ worked \in [Engines -> SUBSET History]
    BY DEF ReadBurst, EngineTypes, childVars
  <1>7. /\ rd' \in [Engines -> Master] /\ (last => rd'[e] = "idle") /\ (~last => rd'[e] = rd[e])
        /\ \A f \in Engines \ {e} : rd'[f] = rd[f]
    BY <1>6 DEF Master, WrMaster
  <1>8. /\ worked' \in [Engines -> SUBSET History]
        /\ \A f \in Engines \ {e} : worked'[f] = worked[f]
        /\ rd[e] = "own" /\ ~spoiled[e] =>
              /\ "rd" \in worked'[e] <=> "rd" \in worked[e] \/ last
              /\ "wr" \in worked'[e] <=> "wr" \in worked[e]
              /\ "bad" \in worked'[e] <=> "bad" \in worked[e] \/ error = "data"
              /\ "hidden" \in worked[e] /\ error # "data" => "hidden" \in worked'[e]
              /\ "bad" \in worked[e] /\ error = "resp" => "hidden" \in worked'[e]
    <2> DEFINE W == {w \in {"rd", "wr", "bad", "hidden"} :
                        \/ w \in worked[e] /\ (w = "hidden" => error # "data")
                        \/ w = "rd" /\ last
                        \/ w = "bad" /\ error = "data"
                        \/ w = "hidden" /\ error = "resp" /\ "bad" \in worked[e]}
               V == IF rd[e] # "own" \/ spoiled[e] THEN worked[e] ELSE W
    <2>1. worked' = [worked EXCEPT ![e] = V]
      BY DEF ReadBurst
    <2>2. V \in SUBSET History
      BY <1>6 DEF History
    <2>3. rd[e] = "own" /\ ~spoiled[e] => V = W
      OBVIOUS
    <2>4. /\ "rd" \in W <=> "rd" \in worked[e] \/ last
          /\ "wr" \in W <=> "wr" \in worked[e]
          /\ "bad" \in W <=> "bad" \in worked[e] \/ error = "data"
          /\ "hidden" \in worked[e] /\ error # "data" => "hidden" \in W
          /\ "bad" \in worked[e] /\ error = "resp" => "hidden" \in W
      OBVIOUS
    <2> HIDE DEF V, W
    <2>5. worked'[e] = V /\ worked' \in [Engines -> SUBSET History] /\ \A f \in Engines \ {e} : worked'[f] = worked[f]
      BY <1>6, <2>1, <2>2
    <2> QED
      BY <2>3, <2>4, <2>5
  <1>9. EngineTypes'
    BY <1>5, <1>6, <1>7, <1>8 DEF EngineTypes
  <1>10. \A f \in Engines \ {e} : SameEngine(f)
    BY <1>5, <1>6, <1>7, <1>8 DEF SameEngine
  <1>11. ASSUME ~spoiled[e] PROVE (Unspoiled(e) /\ FlagsEarned(e) /\ (Ran /\ e \in Children => OutcomeEarned(e)))'
    <2>1. /\ Unspoiled(e) /\ FlagsEarned(e) /\ child[e].step = "done" /\ rd[e] = "own"
      BY <1>6, <1>7, <1>11 DEF EngineOk, Unspoiled, Master, WrMaster
    <2>2. UNCHANGED <<child, wr>>
      BY <1>6
    <2>3. Unspoiled(e)'
      BY <1>7, <2>1, <2>2 DEF Unspoiled
    <2>4. /\ slave'[e].rd_done => slave[e].rd_done \/ last
          /\ slave'[e].wr_done => slave[e].wr_done
          /\ slave'[e].rd_error <=> wrong
      BY <1>3, <1>5 DEF s
    <2>5. "bad" \in worked'[e] => slave'[e].rd_error \/ "hidden" \in worked'[e]
      <3>1. "bad" \in worked[e] => slave[e].rd_error \/ "hidden" \in worked[e]
        BY <2>1 DEF FlagsEarned
      <3>2. CASE error = "none"
        BY <1>8, <1>11, <2>1, <2>4, <3>1, <3>2 DEF wrong
      <3>3. CASE error = "data"
        BY <2>4, <3>3 DEF wrong
      <3>4. CASE error = "resp"
        BY <1>8, <1>11, <2>1, <3>4
      <3> QED
        BY <3>2, <3>3, <3>4
    <2>6. FlagsEarned(e)'
      BY <1>8, <1>11, <2>1, <2>2, <2>4, <2>5 DEF FlagsEarned
    <2>7. OutcomeEarned(e)'
      BY <2>1, <2>2 DEF OutcomeEarned
    <2> QED
      BY <2>3, <2>6, <2>7
  <1> QED
    BY <1>6, <1>9, <1>10, <1>11 DEF EngineOk

\* The last write burst of an engine.
LEMMA WriteBurstStep ==
    ASSUME EngineTypes, NEW e \in Engines, NEW error \in BOOLEAN, WriteBurst(e, error), EngineOk(e)
    PROVE  /\ EngineTypes' /\ EngineOk(e)'
           /\ \A f \in Engines \ {e} : SameEngine(f)
  <1> DEFINE s == slave[e]
             d == [s EXCEPT !.wr_done = TRUE]
  <1>1. s \in Slave /\ slave \in [Engines -> Slave]
    BY DEF EngineTypes, Slave
  <1>2. slave' = [slave EXCEPT ![e] = d]
    BY DEF WriteBurst
  <1>3. d = [start |-> s.start, rd_done |-> s.rd_done, wr_done |-> TRUE, rd_error |-> s.rd_error]
    <2>1. d = [x \in {"start", "rd_done", "wr_done", "rd_error"} |-> d[x]]
      BY <1>1 DEF Slave
    <2>2. d.start = s.start /\ d.rd_done = s.rd_done /\ d.wr_done = TRUE /\ d.rd_error = s.rd_error
      BY <1>1 DEF Slave
    <2> HIDE DEF d
    <2> QED
      BY <2>1, <2>2
  <1> HIDE DEF d, s
  <1>4. d \in Slave
    BY <1>1, <1>3 DEF Slave
  <1>5. slave'[e] = d /\ slave' \in [Engines -> Slave] /\ \A f \in Engines \ {e} : slave'[f] = slave[f]
    BY <1>1, <1>2, <1>4
  <1>6. /\ wr[e] # "idle" /\ UNCHANGED <<processVars, rd, child, spoiled>>
        /\ wr' = [wr EXCEPT ![e] = "idle"] \/ (wr[e] = "both" /\ wr' = [wr EXCEPT ![e] = "own"])
        /\ wr \in [Engines -> WrMaster] /\ worked \in [Engines -> SUBSET History]
        /\ target = [x \in Engines |-> target[x]]
    BY DEF WriteBurst, EngineTypes
  <1>7. /\ wr' \in [Engines -> WrMaster] /\ (wr[e] # "both" => wr'[e] = "idle")
        /\ \A f \in Engines \ {e} : wr'[f] = wr[f]
    BY <1>6 DEF Master, WrMaster
  <1>8. /\ worked' \in [Engines -> SUBSET History]
        /\ worked[e] \subseteq worked'[e] /\ worked'[e] \subseteq worked[e] \cup {"wr"}
        /\ wr[e] = "own" /\ ~spoiled[e] => "wr" \in worked'[e]
        /\ \A f \in Engines \ {e} : worked'[f] = worked[f]
    <2> DEFINE W == worked[e] \cup {w \in {"wr"} : wr[e] = "own" /\ ~spoiled[e]}
    <2>1. worked' = [worked EXCEPT ![e] = W]
      BY DEF WriteBurst
    <2>2. /\ W \subseteq History /\ worked[e] \subseteq W /\ W \subseteq worked[e] \cup {"wr"}
          /\ wr[e] = "own" /\ ~spoiled[e] => "wr" \in W
      BY <1>6 DEF History
    <2> HIDE DEF W
    <2> QED
      BY <1>6, <2>1, <2>2
  <1>9. target' = [x \in Engines |-> target'[x]] /\ \A f \in Engines \ {e} : target'[f] = target[f]
    BY <1>6 DEF WriteBurst
  <1>10. EngineTypes'
    BY <1>5, <1>6, <1>7, <1>8, <1>9 DEF EngineTypes
  <1>11. \A f \in Engines \ {e} : SameEngine(f)
    BY <1>5, <1>6, <1>7, <1>8, <1>9 DEF SameEngine
  <1>12. ASSUME ~spoiled[e] PROVE (Unspoiled(e) /\ FlagsEarned(e) /\ (Ran /\ e \in Children => OutcomeEarned(e)))'
    <2>1. /\ Unspoiled(e) /\ FlagsEarned(e) /\ child[e].step = "done" /\ wr[e] = "own"
      BY <1>6, <1>7, <1>12 DEF EngineOk, Unspoiled, Master, WrMaster
    <2>2. UNCHANGED <<child, rd>>
      BY <1>6
    <2>3. Unspoiled(e)'
      BY <1>7, <2>1, <2>2 DEF Unspoiled
    <2>4. /\ slave'[e].rd_done => slave[e].rd_done
          /\ slave[e].rd_error => slave'[e].rd_error
      BY <1>3, <1>5 DEF s
    <2>5. /\ "bad" \in worked'[e] => "bad" \in worked[e]
          /\ "hidden" \in worked[e] => "hidden" \in worked'[e]
      BY <1>8
    <2>6. FlagsEarned(e)'
      BY <1>7, <1>8, <1>12, <2>1, <2>2, <2>4, <2>5 DEF FlagsEarned
    <2>7. OutcomeEarned(e)'
      BY <2>1, <2>2 DEF OutcomeEarned
    <2> QED
      BY <2>3, <2>6, <2>7
  <1> QED
    BY <1>6, <1>10, <1>11, <1>12 DEF EngineOk

\* The steps of a process on its engine: how main() gets there, ...
LEMMA OpenEngineStep ==
    ASSUME EngineTypes, EngineControl, Running, NEW p \in EnginePrograms, NEW e \in Engines, OpenEngine(p, e), EngineOk(e)
    PROVE  /\ EngineTypes' /\ EngineOk(e)' /\ \A f \in Engines \ {e} : SameEngine(f)
           /\ UNCHANGED processVars
  <1>1. /\ ChildOf(p, e, "open") /\ UNCHANGED <<processVars, engineVars, engineHistory>>
        /\ \/ Gone(e, -1) /\ UNCHANGED target
           \/ opt.rnum = 0 /\ opt.wnum = 0 /\ Gone(e, 0) /\ UNCHANGED target
           \/ get_action(e)
    BY DEF OpenEngine, LogFails
  <1>2. UNCHANGED <<prog, opt, slave, rd, wr, spoiled, worked>>
    BY <1>1 DEF processVars, engineVars, engineHistory
  <1>3. /\ child'[e].step \in {"attach_wait", "start", "gone"}
        /\ child'[e].rc = 0 => child'[e].step = "gone" /\ opt.rnum = 0 /\ opt.wnum = 0
        /\ child' \in [Engines -> Child] /\ \A f \in Engines \ {e} : child'[f] = child[f]
    <2>1. CASE get_action(e)
      <3>1. CASE opt.irq
        <4>1. ChildGoto(e, "attach_wait", 1)
          BY <2>1, <3>1 DEF get_action
        <4>2. "attach_wait" \in ChildSteps /\ 1 \in {0, 1, 2, 4, 8}
          BY DEF ChildSteps
        <4>3. /\ child'[e] = [step |-> "attach_wait", rc |-> 1, test |-> child[e].test]
              /\ child' \in [Engines -> Child] /\ \A f \in Engines \ {e} : child'[f] = child[f]
          BY <4>1, <4>2, ChildGotoIs
        <4> QED
          BY <4>3
      <3>2. CASE ~opt.irq
        <4>1. ChildGoto(e, "start", 1)
          BY <2>1, <3>2 DEF get_action
        <4>2. "start" \in ChildSteps /\ 1 \in {0, 1, 2, 4, 8}
          BY DEF ChildSteps
        <4>3. /\ child'[e] = [step |-> "start", rc |-> 1, test |-> child[e].test]
              /\ child' \in [Engines -> Child] /\ \A f \in Engines \ {e} : child'[f] = child[f]
          BY <4>1, <4>2, ChildGotoIs
        <4> QED
          BY <4>3
      <3> QED
        BY <3>1, <3>2
    <2>2. CASE Gone(e, -1)
      BY <2>2, GoneIs
    <2>3. CASE opt.rnum = 0 /\ opt.wnum = 0 /\ Gone(e, 0)
      BY <2>3, GoneIs
    <2> QED
      BY <1>1, <2>1, <2>2, <2>3
  <1>4. target' = [x \in Engines |-> target'[x]] /\ \A f \in Engines \ {e} : target'[f] = target[f]
    BY <1>1 DEF EngineTypes, get_action
  <1>5. EngineTypes'
    BY <1>2, <1>3, <1>4 DEF EngineTypes
  <1>6. \A f \in Engines \ {e} : SameEngine(f)
    BY <1>2, <1>3, <1>4 DEF SameEngine
  <1>7. EngineOk(e)'
    <2>1. child[e].step = "open"
      BY <1>1 DEF ChildOf
    <2> QED
      BY <1>2, <1>3, <2>1 DEF EngineOk, Unspoiled, FlagsEarned, OutcomeEarned
  <1> QED
    BY <1>1, <1>5, <1>6, <1>7

\* ... the start of a test, ...
LEMMA StartStep ==
    ASSUME EngineTypes, EngineControl, Running, NEW p \in EnginePrograms, NEW e \in Engines,
           StartAndConfigure(p, e), EngineOk(e)
    PROVE  /\ EngineTypes' /\ EngineOk(e)' /\ \A f \in Engines \ {e} : SameEngine(f)
           /\ UNCHANGED processVars
  <1>1. /\ ChildOf(p, e, "start") /\ UNCHANGED <<processVars, engineVars, target, engineHistory>>
        /\ \/ child[e].test < opt.tests /\ child' = [child EXCEPT ![e].step = "ready", ![e].test = child[e].test + 1]
           \/ Gone(e, child[e].rc)
    BY DEF StartAndConfigure
  <1>2. UNCHANGED <<prog, pc, exit, opt, slave, rd, wr, target, spoiled, worked>>
    BY <1>1 DEF processVars, engineVars, engineHistory
  <1>3. /\ child[e].step = "start" /\ Ran /\ e \in Children /\ opt.tests \in Nat /\ (opt.tests <= MaxTest \/ opt.tests = 1)
    BY <1>1, EngineFields DEF ChildOf, At, Ran, Shell, EngineControl
  <1>4. /\ \/ child'[e].step = "ready"
           \/ child'[e].step = "gone" /\ (child'[e].rc = 0 <=> child[e].rc = 0)
        /\ child' \in [Engines -> Child] /\ \A f \in Engines \ {e} : child'[f] = child[f]
    <2>1. CASE Gone(e, child[e].rc)
      BY <2>1, GoneIs
    <2>2. CASE child[e].test < opt.tests /\ child' = [child EXCEPT ![e].step = "ready", ![e].test = child[e].test + 1]
      <3> DEFINE c == child[e]  d == [c EXCEPT !.step = "ready", !.test = c.test + 1]
      <3>1. c \in Child /\ child \in [Engines -> Child]
        BY DEF EngineTypes
      <3>2. child' = [child EXCEPT ![e] = d]
        BY <2>2
      <3>3. d = [step |-> "ready", rc |-> c.rc, test |-> c.test + 1]
        <4>1. d = [x \in {"step", "rc", "test"} |-> d[x]]
          BY <3>1 DEF Child
        <4>2. d.step = "ready" /\ d.rc = c.rc /\ d.test = c.test + 1
          BY <3>1 DEF Child
        <4> HIDE DEF d
        <4> QED
          BY <4>1, <4>2
      <3>4. c.test + 1 \in 0 .. MaxTest \cup {1}
        BY <3>1, <2>2, <1>3, EngineBounds DEF Child
      <3> HIDE DEF d, c
      <3>5. d \in Child
        BY <3>1, <3>3, <3>4 DEF Child, ChildSteps
      <3> QED
        BY <3>1, <3>2, <3>3, <3>5
    <2> QED
      BY <1>1, <2>1, <2>2
  <1>5. EngineTypes' /\ \A f \in Engines \ {e} : SameEngine(f)
    BY <1>2, <1>4 DEF EngineTypes, SameEngine
  <1>6. EngineOk(e)'
    BY <1>2, <1>3, <1>4 DEF EngineOk, Unspoiled, FlagsEarned, OutcomeEarned, Verified, Worked
  <1> QED
    BY <1>1, <1>5, <1>6

\* The kick of an engine nobody spoiled starts its masters for the process.
LEMMA KickStep ==
    ASSUME EngineTypes, NEW e \in Engines, Kick(e)
    PROVE  /\ slave' \in [Engines -> Slave] /\ \A f \in Engines \ {e} : slave'[f] = slave[f]
           /\ rd' \in [Engines -> Master] /\ \A f \in Engines \ {e} : rd'[f] = rd[f]
           /\ wr' \in [Engines -> WrMaster] /\ \A f \in Engines \ {e} : wr'[f] = wr[f]
           /\ worked' \in [Engines -> SUBSET History] /\ \A f \in Engines \ {e} : worked'[f] = worked[f]
           /\ rd[e] = "idle" => rd'[e] \in {"idle", "own"}
           /\ wr[e] = "idle" => wr'[e] \in {"idle", "own"}
           /\ "bad" \notin worked'[e]
           /\ slave'[e].rd_done => slave[e].rd_done \/ opt.rnum = 0
           /\ slave'[e].wr_done => slave[e].wr_done \/ opt.wnum = 0
           /\ opt.rnum = 0 => "rd" \in worked'[e]
           /\ opt.wnum = 0 => "wr" \in worked'[e]
  <1> DEFINE s == slave[e]
             rdone == s.rd_done \/ (~s.start /\ opt.rnum = 0)
             wdone == s.wr_done \/ (~s.start /\ opt.wnum = 0)
             d == [s EXCEPT !.start = TRUE, !.rd_done = rdone, !.wr_done = wdone]
  <1>1. s \in Slave /\ slave \in [Engines -> Slave]
    BY DEF EngineTypes
  <1>2. slave' = [slave EXCEPT ![e] = d]
    BY DEF Kick
  <1>r. rdone \in BOOLEAN /\ wdone \in BOOLEAN /\ (rdone => s.rd_done \/ opt.rnum = 0) /\ (wdone => s.wr_done \/ opt.wnum = 0)
    BY <1>1 DEF Slave
  <1> HIDE DEF rdone, wdone
  <1>3. d = [start |-> TRUE, rd_done |-> rdone, wr_done |-> wdone, rd_error |-> s.rd_error]
    <2>1. d = [x \in {"start", "rd_done", "wr_done", "rd_error"} |-> d[x]]
      BY <1>1 DEF Slave
    <2>2. d.start = TRUE /\ d.rd_done = rdone /\ d.wr_done = wdone /\ d.rd_error = s.rd_error
      BY <1>1 DEF Slave
    <2> HIDE DEF d
    <2> QED
      BY <2>1, <2>2
  <1> HIDE DEF d, s
  <1>4. d \in Slave
    BY <1>1, <1>3, <1>r DEF Slave
  <1>5. slave'[e] = d /\ slave' \in [Engines -> Slave] /\ \A f \in Engines \ {e} : slave'[f] = slave[f]
    BY <1>1, <1>2, <1>4
  <1>6. /\ slave'[e].rd_done => slave[e].rd_done \/ opt.rnum = 0
        /\ slave'[e].wr_done => slave[e].wr_done \/ opt.wnum = 0
    BY <1>3, <1>5, <1>r DEF s
  <1>7. /\ rd' \in [Engines -> Master] /\ \A f \in Engines \ {e} : rd'[f] = rd[f]
        /\ wr' \in [Engines -> WrMaster] /\ \A f \in Engines \ {e} : wr'[f] = wr[f]
        /\ rd[e] = "idle" => rd'[e] \in {"idle", "own"}
        /\ wr[e] = "idle" => wr'[e] \in {"idle", "own"}
    <2>1. PICK r : rd' = [rd EXCEPT ![e] = r] /\ r \in Master /\ (rd[e] = "idle" => r \in {"idle", "own"})
      BY DEF Kick, EngineTypes, Master, WrMaster, Stale
    <2>2. PICK w : wr' = [wr EXCEPT ![e] = w] /\ w \in WrMaster /\ (wr[e] = "idle" => w \in {"idle", "own"})
      <3> DEFINE begin == IF ~slave[e].start /\ opt.wnum > 0 /\ wr[e] = "idle" THEN "own" ELSE Stale(wr[e])
                 taken == {m \in {"both"} : ~slave[e].start /\ opt.wnum > 0 /\ wr[e] # "idle"}
      <3>1. PICK w \in {begin} \cup taken : wr' = [wr EXCEPT ![e] = w]
        BY DEF Kick
      <3>2. begin \in WrMaster /\ (wr[e] = "idle" => begin \in {"idle", "own"})
        BY DEF EngineTypes, Master, WrMaster, Stale
      <3>3. w \in WrMaster /\ (wr[e] = "idle" => w \in {"idle", "own"})
        BY <3>1, <3>2 DEF Master, WrMaster
      <3> QED
        BY <3>1, <3>3
    <2> QED
      BY <2>1, <2>2 DEF EngineTypes
  <1>8. /\ worked' \in [Engines -> SUBSET History] /\ \A f \in Engines \ {e} : worked'[f] = worked[f]
        /\ "bad" \notin worked'[e]
        /\ opt.rnum = 0 => "rd" \in worked'[e]
        /\ opt.wnum = 0 => "wr" \in worked'[e]
    <2> DEFINE W == {w \in {"rd"} : opt.rnum = 0} \cup {w \in {"wr"} : opt.wnum = 0}
    <2>1. worked' = [worked EXCEPT ![e] = W] /\ worked \in [Engines -> SUBSET History]
      BY DEF Kick, EngineTypes
    <2>2. /\ W \subseteq History /\ "bad" \notin W
          /\ (opt.rnum = 0 => "rd" \in W) /\ (opt.wnum = 0 => "wr" \in W)
      BY DEF History
    <2> HIDE DEF W
    <2> QED
      BY <2>1, <2>2
  <1> QED
    BY <1>5, <1>6, <1>7, <1>8

\* The soft reset leaves an engine clear, or spoiled.
LEMMA SoftResetStep ==
    ASSUME EngineTypes, NEW e \in Engines, SoftReset(e)
    PROVE  /\ slave' \in [Engines -> Slave] /\ \A f \in Engines \ {e} : slave'[f] = slave[f]
           /\ rd' \in [Engines -> Master] /\ \A f \in Engines \ {e} : rd'[f] = rd[f]
           /\ wr' \in [Engines -> WrMaster] /\ \A f \in Engines \ {e} : wr'[f] = wr[f]
           /\ spoiled' \in [Engines -> BOOLEAN] /\ \A f \in Engines \ {e} : spoiled'[f] = spoiled[f]
           /\ slave'[e] = Cleared
           /\ ~spoiled'[e] => ~spoiled[e] /\ rd[e] = "idle" /\ wr[e] = "idle" /\ rd'[e] = "idle" /\ wr'[e] = "idle"
  <1>1. Cleared \in Slave
    BY DEF Cleared, Slave
  <1>2. slave' = [slave EXCEPT ![e] = Cleared] /\ slave \in [Engines -> Slave]
    BY DEF SoftReset, EngineTypes
  <1>3. /\ rd' \in [Engines -> Master] /\ \A f \in Engines \ {e} : rd'[f] = rd[f]
        /\ wr' \in [Engines -> WrMaster] /\ \A f \in Engines \ {e} : wr'[f] = wr[f]
        /\ rd[e] = "idle" => rd'[e] = "idle"
        /\ wr[e] = "idle" => wr'[e] = "idle"
    BY DEF SoftReset, Abandon, EngineTypes, Master, WrMaster, Stale
  <1>4. /\ spoiled' \in [Engines -> BOOLEAN] /\ \A f \in Engines \ {e} : spoiled'[f] = spoiled[f]
        /\ ~spoiled'[e] => ~spoiled[e] /\ rd[e] = "idle" /\ wr[e] = "idle"
    <2> DEFINE b == spoiled[e] \/ Busy(e)
    <2>1. spoiled' = [spoiled EXCEPT ![e] = b] /\ spoiled \in [Engines -> BOOLEAN] /\ b \in BOOLEAN
      BY DEF SoftReset, EngineTypes
    <2>2. ~b => ~spoiled[e] /\ rd[e] = "idle" /\ wr[e] = "idle"
      BY DEF Busy
    <2> HIDE DEF b
    <2> QED
      BY <2>1, <2>2
  <1> QED
    BY <1>1, <1>2, <1>3, <1>4

\* ... the wait for the ready bit and the kick, ...
LEMMA WaitReadyStep ==
    ASSUME EngineTypes, NEW p \in EnginePrograms, NEW e \in Engines, WaitReady(p, e), EngineOk(e)
    PROVE  /\ EngineTypes' /\ EngineOk(e)' /\ \A f \in Engines \ {e} : SameEngine(f)
           /\ UNCHANGED processVars
  <1>1. /\ child[e].step = "ready" /\ UNCHANGED <<processVars, target>>
        /\ \/ Kick(e) /\ ChildGoto(e, "done", 0) /\ UNCHANGED spoiled
           \/ SoftReset(e) /\ ChildGoto(e, "check", 2) /\ UNCHANGED worked
    BY DEF WaitReady, ChildOf
  <1>2. UNCHANGED <<opt, target>>
    BY <1>1 DEF processVars
  <1>3. CASE Kick(e) /\ ChildGoto(e, "done", 0) /\ UNCHANGED spoiled
    <2>1. "done" \in ChildSteps /\ 0 \in {0, 1, 2, 4, 8}
      BY DEF ChildSteps
    <2>2. /\ child'[e] = [step |-> "done", rc |-> 0, test |-> child[e].test]
          /\ child' \in [Engines -> Child] /\ \A f \in Engines \ {e} : child'[f] = child[f]
      BY <1>3, <2>1, ChildGotoIs
    <2>3. EngineTypes' /\ \A f \in Engines \ {e} : SameEngine(f)
      BY <1>2, <1>3, <2>2, KickStep DEF EngineTypes, SameEngine
    <2>4. ASSUME ~spoiled[e] PROVE (Unspoiled(e) /\ FlagsEarned(e) /\ OutcomeEarned(e))'
      <3>1. Unspoiled(e)
        BY <2>4 DEF EngineOk
      <3>2. /\ rd[e] = "idle" /\ wr[e] = "idle" /\ slave[e] = Cleared /\ ~slave[e].rd_done /\ ~slave[e].wr_done
        BY <1>1, <3>1 DEF Unspoiled, Cleared
      <3>3. child'[e].step = "done"
        BY <2>2
      <3>4. /\ rd'[e] \in {"idle", "own"} /\ wr'[e] \in {"idle", "own"} /\ "bad" \notin worked'[e]
            /\ slave'[e].rd_done => "rd" \in worked'[e]
            /\ slave'[e].wr_done => "wr" \in worked'[e]
        BY <1>3, <3>2, KickStep
      <3> QED
        BY <3>3, <3>4 DEF Unspoiled, FlagsEarned, OutcomeEarned
    <2>5. spoiled' = spoiled
      BY <1>3
    <2> QED
      BY <1>1, <2>3, <2>4, <2>5 DEF EngineOk
  <1>4. CASE SoftReset(e) /\ ChildGoto(e, "check", 2) /\ UNCHANGED worked
    <2>1. "check" \in ChildSteps /\ 2 \in {0, 1, 2, 4, 8}
      BY DEF ChildSteps
    <2>2. /\ child'[e] = [step |-> "check", rc |-> 2, test |-> child[e].test]
          /\ child' \in [Engines -> Child] /\ \A f \in Engines \ {e} : child'[f] = child[f]
      BY <1>4, <2>1, ChildGotoIs
    <2>3. EngineTypes' /\ \A f \in Engines \ {e} : SameEngine(f)
      BY <1>2, <1>4, <2>2, SoftResetStep DEF EngineTypes, SameEngine
    <2>4. child'[e].step = "check" /\ child'[e].rc = 2
      BY <2>2
    <2>5. EngineOk(e)'
      BY <1>4, <2>4, SoftResetStep DEF EngineOk, Unspoiled, FlagsEarned, OutcomeEarned
    <2> QED
      BY <1>1, <2>3, <2>5
  <1> QED
    BY <1>1, <1>3, <1>4

\* ... the wait for both flags, ...
LEMMA WaitDoneStep ==
    ASSUME EngineTypes, NEW p \in EnginePrograms, NEW e \in Engines, WaitDone(p, e), EngineOk(e)
    PROVE  /\ EngineTypes' /\ EngineOk(e)' /\ \A f \in Engines \ {e} : SameEngine(f)
           /\ UNCHANGED processVars
  <1> DEFINE error   == ReadError(e) /\ (p = "hdl_single_engine" => ~BothDone(e))
             outcome == IF error THEN 4 ELSE IF BothDone(e) THEN 0 ELSE 8
  <1>1. /\ prog = p /\ child[e].step = "done" /\ UNCHANGED <<processVars, target, worked>>
        /\ ChildGoto(e, "check", outcome) /\ SoftReset(e)
    BY DEF WaitDone, ChildOf, At
  <1>2. UNCHANGED <<prog, opt, target, worked>>
    BY <1>1 DEF processVars
  <1>3. "check" \in ChildSteps /\ outcome \in {0, 1, 2, 4, 8}
    BY DEF ChildSteps
  <1>4. outcome = 0 => BothDone(e) /\ (p # "hdl_single_engine" => ~ReadError(e))
    OBVIOUS
  <1> HIDE DEF outcome
  <1>5. /\ child'[e] = [step |-> "check", rc |-> outcome, test |-> child[e].test]
        /\ child' \in [Engines -> Child] /\ \A f \in Engines \ {e} : child'[f] = child[f]
    BY <1>1, <1>3, ChildGotoIs
  <1>6. EngineTypes' /\ \A f \in Engines \ {e} : SameEngine(f)
    BY <1>1, <1>2, <1>5, SoftResetStep DEF EngineTypes, SameEngine
  <1>7. child'[e].step = "check" /\ child'[e].rc = outcome
    BY <1>5
  <1>8. ASSUME ~spoiled'[e] PROVE (Unspoiled(e) /\ FlagsEarned(e) /\ OutcomeEarned(e))'
    <2>1. /\ ~spoiled[e] /\ slave'[e] = Cleared /\ rd'[e] = "idle" /\ wr'[e] = "idle"
      BY <1>1, <1>8, SoftResetStep
    <2>2. FlagsEarned(e)
      BY <2>1 DEF EngineOk
    <2>3. /\ outcome = 0 => {"rd", "wr"} \subseteq worked[e]
          /\ outcome = 0 /\ p # "hdl_single_engine" /\ "bad" \in worked[e] => "hidden" \in worked[e]
      BY <1>1, <1>4, <2>2 DEF FlagsEarned, BothDone, ReadError
    <2> QED
      BY <1>1, <1>2, <1>7, <2>1, <2>3 DEF Unspoiled, FlagsEarned, OutcomeEarned, Worked
  <1> QED
    BY <1>1, <1>6, <1>8 DEF EngineOk

\* ... what main() makes of the outcome, ...
LEMMA CheckStep ==
    ASSUME EngineTypes, EngineControl, Running, NEW e \in Engines, (e = 1 /\ CheckSingle) \/ CheckMulti(e), EngineOk(e)
    PROVE  /\ EngineTypes' /\ EngineOk(e)' /\ \A f \in Engines \ {e} : SameEngine(f)
           /\ UNCHANGED processVars
  <1>1. /\ child[e].step = "check" /\ e \in Children /\ pc # Shell
        /\ UNCHANGED <<processVars, engineVars, target, engineHistory>>
        /\ \/ prog = "hdl_single_engine" /\ child[e].rc = 0 /\ (opt.wnum # 0 => target[e] = "expected")
              /\ ChildGoto(e, "start", 0)
           \/ Gone(e, 4)
           \/ prog = "hdl_multi_process" /\ Gone(e, 5)
           \/ prog = "hdl_multi_process" /\ Gone(e, child[e].rc)
    BY DEF CheckSingle, CheckMulti, ChildOf, At, Shell
  <1>2. UNCHANGED <<prog, pc, exit, opt, slave, rd, wr, target, spoiled, worked>>
    BY <1>1 DEF processVars, engineVars, engineHistory
  <1>3. /\ \/ /\ prog = "hdl_single_engine" /\ child[e].rc = 0 /\ (opt.wnum # 0 => target[e] = "expected")
              /\ child'[e].step = "start"
           \/ child'[e].step = "gone" /\ child'[e].rc # 0
           \/ prog = "hdl_multi_process" /\ child'[e].step = "gone" /\ (child'[e].rc = 0 <=> child[e].rc = 0)
        /\ child' \in [Engines -> Child] /\ \A f \in Engines \ {e} : child'[f] = child[f]
    <2>1. CASE /\ prog = "hdl_single_engine" /\ child[e].rc = 0 /\ (opt.wnum # 0 => target[e] = "expected")
               /\ ChildGoto(e, "start", 0)
      <3>1. "start" \in ChildSteps /\ 0 \in {0, 1, 2, 4, 8}
        BY DEF ChildSteps
      <3>2. /\ child'[e] = [step |-> "start", rc |-> 0, test |-> child[e].test]
            /\ child' \in [Engines -> Child] /\ \A f \in Engines \ {e} : child'[f] = child[f]
        BY <2>1, <3>1, ChildGotoIs
      <3> QED
        BY <2>1, <3>2
    <2>2. CASE Gone(e, 4)
      BY <2>2, GoneIs
    <2>3. CASE Gone(e, 5)
      BY <2>3, GoneIs
    <2>4. CASE prog = "hdl_multi_process" /\ Gone(e, child[e].rc)
      BY <2>4, GoneIs
    <2> QED
      BY <1>1, <2>1, <2>2, <2>3, <2>4
  <1>4. EngineTypes' /\ \A f \in Engines \ {e} : SameEngine(f)
    BY <1>2, <1>3 DEF EngineTypes, SameEngine
  <1>5. EngineOk(e)'
    BY <1>1, <1>2, <1>3 DEF EngineOk, Unspoiled, FlagsEarned, OutcomeEarned, Verified, Worked, Ran
  <1> QED
    BY <1>1, <1>4, <1>5

\* ... and a signal.
LEMMA KillStep ==
    ASSUME EngineTypes, NEW p \in EnginePrograms, NEW e \in Engines, KillChild(p, e), EngineOk(e)
    PROVE  /\ EngineTypes' /\ EngineOk(e)' /\ \A f \in Engines \ {e} : SameEngine(f)
           /\ UNCHANGED processVars
  <1>1. /\ Gone(e, 9) /\ Abandon(e) /\ spoiled' = [spoiled EXCEPT ![e] = TRUE]
        /\ UNCHANGED <<processVars, slave, target, worked>>
    BY DEF KillChild
  <1>2. /\ rd' \in [Engines -> Master] /\ \A f \in Engines \ {e} : rd'[f] = rd[f]
        /\ wr' \in [Engines -> WrMaster] /\ \A f \in Engines \ {e} : wr'[f] = wr[f]
    BY <1>1 DEF Abandon, EngineTypes, Master, WrMaster, Stale
  <1>3. child' \in [Engines -> Child] /\ \A f \in Engines \ {e} : child'[f] = child[f]
    BY <1>1, GoneIs
  <1>4. spoiled' \in [Engines -> BOOLEAN] /\ spoiled'[e] /\ \A f \in Engines \ {e} : spoiled'[f] = spoiled[f]
    BY <1>1 DEF EngineTypes
  <1>5. EngineTypes' /\ \A f \in Engines \ {e} : SameEngine(f)
    BY <1>1, <1>2, <1>3, <1>4 DEF EngineTypes, SameEngine
  <1> QED
    BY <1>1, <1>4, <1>5 DEF EngineOk

\* A step of one engine or of its process keeps what the others have.
EngineMoves(e) ==
    \/ \E last \in BOOLEAN, error \in {"none", "data", "resp"} : ReadBurst(e, last, error)
    \/ \E error \in BOOLEAN : WriteBurst(e, error)
    \/ \E p \in EnginePrograms : OpenEngine(p, e) \/ run_single_engine(p, e) \/ KillChild(p, e)
    \/ (e = 1 /\ CheckSingle) \/ CheckMulti(e)

\* The engine that moves and the others, together.
LEMMA EngineMoveStep ==
    ASSUME EngineInv, Running, prog \in EnginePrograms, NEW e \in Engines, EngineMoves(e)
    PROVE  EngineInv' /\ Running' /\ prog' \in EnginePrograms
  <1>1. EngineTypes /\ EngineHeld /\ EngineControl /\ \A f \in Engines : EngineOk(f)
    BY DEF EngineInv
  <1>2. EngineTypes' /\ EngineOk(e)' /\ (\A f \in Engines \ {e} : SameEngine(f)) /\ UNCHANGED processVars
    <2>1. ASSUME NEW last \in BOOLEAN, NEW error \in {"none", "data", "resp"}, ReadBurst(e, last, error)
          PROVE  EngineTypes' /\ EngineOk(e)' /\ (\A f \in Engines \ {e} : SameEngine(f)) /\ UNCHANGED processVars
      <3>1. UNCHANGED processVars
        BY <2>1 DEF ReadBurst
      <3> QED
        BY <1>1, <2>1, <3>1, ReadBurstStep
    <2>2. ASSUME NEW error \in BOOLEAN, WriteBurst(e, error)
          PROVE  EngineTypes' /\ EngineOk(e)' /\ (\A f \in Engines \ {e} : SameEngine(f)) /\ UNCHANGED processVars
      <3>1. UNCHANGED processVars
        BY <2>2 DEF WriteBurst
      <3> QED
        BY <1>1, <2>2, <3>1, WriteBurstStep
    <2>3. ASSUME NEW p \in EnginePrograms, OpenEngine(p, e) \/ run_single_engine(p, e) \/ KillChild(p, e)
          PROVE  EngineTypes' /\ EngineOk(e)' /\ (\A f \in Engines \ {e} : SameEngine(f)) /\ UNCHANGED processVars
      BY <1>1, <2>3, OpenEngineStep, StartStep, WaitReadyStep, WaitDoneStep, KillStep DEF run_single_engine
    <2>4. CASE (e = 1 /\ CheckSingle) \/ CheckMulti(e)
      BY <1>1, <2>4, CheckStep
    <2> QED
      BY <2>1, <2>2, <2>3, <2>4 DEF EngineMoves
  <1>3. UNCHANGED <<prog, pc, opt, exit, held>>
    BY <1>2 DEF processVars
  <1>4. \A f \in Engines : EngineOk(f)'
    <2> SUFFICES ASSUME NEW f \in Engines PROVE EngineOk(f)'
      OBVIOUS
    <2>1. CASE f = e
      BY <1>2, <2>1
    <2>2. CASE f # e
      <3>1. Ran' => Ran
        BY <1>3 DEF Ran
      <3> QED
        BY <1>1, <1>2, <1>3, <2>2, <3>1, EngineFrame
    <2> QED
      BY <2>1, <2>2
  <1>5. child' = child \/ (pc # Shell /\ e \in Children)
    <2>1. CASE \E last \in BOOLEAN, error \in {"none", "data", "resp"} : ReadBurst(e, last, error)
      BY <2>1 DEF ReadBurst, childVars
    <2>2. CASE \E error \in BOOLEAN : WriteBurst(e, error)
      BY <2>2 DEF WriteBurst
    <2>3. CASE \E p \in EnginePrograms : OpenEngine(p, e) \/ run_single_engine(p, e) \/ KillChild(p, e)
      BY <2>3 DEF OpenEngine, run_single_engine, StartAndConfigure, WaitReady, WaitDone, KillChild, ChildOf, At, Shell
    <2>4. CASE (e = 1 /\ CheckSingle) \/ CheckMulti(e)
      BY <2>4 DEF CheckSingle, CheckMulti, ChildOf, At, Shell
    <2> QED
      BY <2>1, <2>2, <2>3, <2>4 DEF EngineMoves
  <1>6. EngineControl'
    <2>1. exit = "ok" => pc = Shell
      BY DEF Running
    <2>2. Children' = Children
      BY <1>3 DEF Children
    <2>3. \A f \in Engines \ Children : child'[f] = child[f]
      BY <1>2, <1>5 DEF SameEngine
    <2> QED
      BY <1>1, <1>3, <1>5, <2>1, <2>2, <2>3 DEF EngineControl, Ran
  <1> QED
    BY <1>1, <1>2, <1>3, <1>4, <1>6 DEF EngineInv, EngineHeld, Running

\* The end and the start of a program.
LEMMA AllGoneStep ==
    ASSUME EngineInv, Running, prog \in EnginePrograms, AllGone
    PROVE  EngineInv' /\ Running' /\ prog' \in EnginePrograms
  <1>1. /\ pc = "children" /\ \A e \in Children : child[e].step = "gone"
        /\ pc' = Shell /\ held' = held \ {} /\ UNCHANGED <<prog, opt>> /\ UNCHANGED engineJobsVars
        /\ exit' = IF \A e \in Children : child[e].rc = 0 THEN "ok" ELSE "failure"
    BY DEF AllGone, Exit
  <1>2. /\ EngineTypes /\ EngineHeld /\ EngineControl /\ \A f \in Engines : EngineOk(f)
        /\ Ran
    BY <1>1 DEF EngineInv, Ran, Shell
  <1>3. UNCHANGED <<slave, rd, wr, child, target, spoiled, worked>>
    BY <1>1 DEF engineJobsVars, engineVars, childVars, engineHistory
  <1>4. EngineTypes' /\ EngineHeld'
    BY <1>1, <1>2, <1>3 DEF EngineTypes, EngineHeld
  <1>5. \A f \in Engines : EngineOk(f)'
    BY <1>1, <1>2, <1>3, EngineFrame DEF SameEngine
  <1>6. EngineControl'
    <2>1. Children' = Children
      BY <1>1 DEF Children
    <2>2. \A e \in Engines : child[e].step = "gone"
      BY <1>1, <1>2 DEF EngineControl
    <2> QED
      BY <1>1, <1>2, <1>3, <2>1, <2>2 DEF EngineControl
  <1> QED
    BY <1>1, <1>4, <1>5, <1>6 DEF EngineInv, Running

\* The start of a traffic test.
LEMMA EngineStartStep ==
    ASSUME EngineInv, Running, prog \in EnginePrograms, EngineStart
    PROVE  EngineInv' /\ Running' /\ prog' \in EnginePrograms
  <1>1. PICK o : /\ EngineRun(prog, o)
                 /\ o \in IF prog = "hdl_single_engine" THEN SingleOptions ELSE MultiOptions
    BY DEF EngineStart
  <1>2. /\ pc = Shell /\ pc' = "children" /\ held' = {} /\ prog' = prog /\ opt' = o /\ exit' = "none"
        /\ child' = [e \in Engines |-> IF prog = "hdl_single_engine" /\ e # 1 THEN Absent
                                       ELSE [step |-> "open", rc |-> 1, test |-> 0]]
        /\ worked' = [e \in Engines |-> {}] /\ target' = [e \in Engines |-> "zero"]
        /\ UNCHANGED <<slave, rd, wr, spoiled>>
    BY <1>1 DEF EngineRun, Run, engineVars
  <1>3. EngineTypes /\ EngineControl /\ \A f \in Engines : EngineOk(f)
    BY DEF EngineInv
  <1>4. /\ Absent \in Child /\ [step |-> "open", rc |-> 1, test |-> 0] \in Child
        /\ Absent.step = "gone"
    BY EngineBounds DEF Absent, Child, ChildSteps
  <1>5. child' \in [Engines -> Child] /\ worked' \in [Engines -> SUBSET History]
    BY <1>2, <1>4
  <1>6. EngineTypes'
    BY <1>2, <1>3, <1>5 DEF EngineTypes
  <1>7. \A e \in Engines : IF e \in Children THEN child'[e] = [step |-> "open", rc |-> 1, test |-> 0]
                                             ELSE child'[e] = Absent
    BY <1>2 DEF Children, EnginePrograms
  <1>8. \A e \in Engines : child'[e].step = IF e \in Children THEN "open" ELSE "gone"
    BY <1>4, <1>7
  <1>9. Children' = Children
    BY <1>2 DEF Children
  <1>10. \A e \in Engines : EngineOk(e)'
    BY <1>2, <1>3, <1>8, <1>9 DEF EngineOk, Unspoiled, FlagsEarned, OutcomeEarned, EngineControl
  <1>11. EngineControl'
    BY <1>1, <1>2, <1>8, <1>9 DEF EngineControl, Shell
  <1> QED
    BY <1>2, <1>6, <1>10, <1>11 DEF EngineInv, EngineHeld, Running

\* The invariant of the engine jobs is kept by every step of them.
LEMMA EngineInvStep ==
    ASSUME EngineInv, Running, prog \in EnginePrograms, EngineStart \/ ChildKilled \/ EngineStep \/ EngineWorks
    PROVE  EngineInv' /\ Running' /\ prog' \in EnginePrograms
  <1>1. 1 \in Engines
    BY EngineBounds DEF Engines
  <1>2. CASE ChildKilled
    BY <1>2, EngineMoveStep DEF ChildKilled, EngineMoves
  <1>3. CASE EngineWorks
    BY <1>3, EngineMoveStep DEF EngineWorks, EngineMoves
  <1>4. CASE SingleStep
    <2>1. EngineMoves(1)
      BY <1>4 DEF SingleStep, EngineMoves, EnginePrograms
    <2> QED
      BY <1>1, <2>1, EngineMoveStep
  <1>5. ASSUME NEW e \in Engines, MultiOpen(e) \/ MultiRun(e) \/ CheckMulti(e)
        PROVE  EngineInv' /\ Running' /\ prog' \in EnginePrograms
    <2>1. EngineMoves(e)
      BY <1>5 DEF MultiOpen, MultiRun, EngineMoves, EnginePrograms
    <2> QED
      BY <2>1, EngineMoveStep
  <1> QED
    BY <1>2, <1>3, <1>4, <1>5, AllGoneStep, EngineStartStep DEF EngineStep

\* A traffic test that succeeds has earned it.
LEMMA SuccessEarnedHolds == EngineInv => SuccessEarned
  <1> SUFFICES ASSUME EngineInv, prog \in EnginePrograms, exit = "ok", opt.rnum # 0 \/ opt.wnum # 0,
                      NEW e \in Children, ~spoiled[e]
               PROVE  /\ {"rd", "wr"} \subseteq worked[e]
                      /\ prog = "hdl_multi_process" /\ "bad" \in worked[e] => "hidden" \in worked[e]
                      /\ prog = "hdl_single_engine" /\ opt.wnum # 0 => target[e] = "expected"
    BY DEF SuccessEarned
  <1>1. e \in Engines
    BY EngineBounds DEF Children, Engines
  <1>2. EngineOk(e) /\ child[e].step = "gone" /\ child[e].rc = 0 /\ Ran
    BY <1>1 DEF EngineInv, EngineControl, Ran
  <1> QED
    BY <1>2 DEF EngineOk, OutcomeEarned, Verified, Worked
=============================================================================
