---------------------------- MODULE ExampleJobs ----------------------------
(***************************************************************************)
(* snap_example: the HDL example action counts down a delay (action 1) or  *)
(* copies between host and card memory (actions 2 to 6), started and       *)
(* waited for with snap_action_start and snap_action_completed.            *)
(*                                                                         *)
(* An area of memory is a pair of source or destination of a copy and      *)
(* holds one value as a whole: the pattern, what another run left, or      *)
(* something else.  Sizes and offsets are in 64-byte blocks.               *)
(*                                                                         *)
(* The action does not stop when the process gives up waiting for it, and  *)
(* nothing keeps the next copy or the next program from writing its        *)
(* registers and starting it again.  It latches one such start and takes   *)
(* it when it is back in its idle state, where its idle bit is seen for a  *)
(* moment: by a process that waits for the latched copy, too.              *)
(***************************************************************************)
EXTENDS HostProcess

CONSTANTS
    SDRAM,    \* card memories, in blocks (GET_SDRAM_SIZE): 0 is a card without
    MaxCopy,  \* bound: -i, the copies of one program
    MaxDelay  \* bound: delays of one program (-s, -e, -p)

ASSUME ExampleJobsAssumption ==
    SDRAM \subseteq Nat /\ SDRAM # {} /\ {MaxCopy, MaxDelay} \subseteq Nat \ {0}

VARIABLES
    sdram,   \* the memory of this card
    area,    \* what the areas of memory hold
    engine,  \* the job the action is busy with, and the start it has latched
    irq,     \* an interrupt of the action waits for the process
    turn,    \* copies or delays begun
    leg,     \* 2: the way back of a host to card to host copy
    rc,
    \* history
    calm,    \* this program has not started the action while it was at work
    landed   \* copies whose result was there when the program went on

exampleVars == <<sdram, area, engine, irq, turn, leg, rc, calm, landed>>

Areas == {"src", "dest", "low", "high"}

\* next: what the registers may tell a latched start to do.  lost: nobody waits
\* for the job any more, or another was started over it.  foul: data that a copy
\* has read and not written is still in the action.
IdleEngine == [busy |-> FALSE, from |-> "src", to |-> "src", next |-> {}, lost |-> FALSE, foul |-> FALSE]

ExampleInit ==
    /\ sdram \in SDRAM
    /\ area = [a \in Areas |-> "other"]
    /\ engine = IdleEngine /\ irq = FALSE
    /\ turn = 0 /\ leg = 1 /\ rc = 1 /\ calm = TRUE /\ landed = 0

-----------------------------------------------------------------------------
(* The action: jobs 2 to 5 copy from one area to another, 1 counts.        *)

From == [count |-> "src", HH |-> "src", HD |-> "src", DH |-> "low", DD |-> "low"]
To   == [count |-> "src", HH |-> "dest", HD |-> "low", DH |-> "dest", DD |-> "high"]

AtWork   == engine.busy \/ engine.next # {}
Copying  == engine.from # engine.to
OfHost   == Copying /\ ({engine.from, engine.to} \cap {"src", "dest"}) # {}
IrqArmed == pc = "count_wait" /\ opt.irq

\* Host memory is out of reach once the card is closed; of a job that is lost it
\* is open whether its addresses are mapped.  Its end raises the interrupt.
EngineDone ==
    /\ engine.busy
    /\ \/ /\ OfHost => "card" \in held
          /\ \E v \in {area[engine.from]} \cup {w \in {"other"} : engine.foul /\ Copying} :
                area' = [area EXCEPT ![engine.to] = v]
       \/ OfHost /\ ("card" \notin held \/ engine.lost) /\ area' = area
    /\ engine' = [engine EXCEPT !.busy = FALSE]
    /\ irq' = (irq \/ IrqArmed)
    /\ UNCHANGED <<processVars, sdram, turn, leg, rc, calm, landed>>

\* Back in IDLE with a start latched: the registers are read now, and may be in
\* part those of one program and in part those of the next.
EngineTakes ==
    /\ engine.next # {} /\ ~engine.busy
    /\ \E m, n \in engine.next :
          engine' = [engine EXCEPT !.busy = TRUE, !.next = {}, !.from = From[m], !.to = To[n]]
    /\ UNCHANGED <<processVars, sdram, area, irq, turn, leg, rc, calm, landed>>

ExampleWorks == EngineDone \/ EngineTakes

-----------------------------------------------------------------------------
(* The command line.  Action HDH is HD and then DH on the same area.       *)

ExampleOptions ==
    {o \in [action : {"count", "HH", "HD", "DH", "DD", "HDH", "invalid"}, blocks : 0 .. 2,
            base : {0, 2}, iter : 0 .. MaxCopy, delays : 1 .. MaxDelay, irq : BOOLEAN,
            aligned : BOOLEAN] :
        /\ o.action \in {"count", "invalid"} => o.blocks = 1 /\ o.base = 0 /\ o.iter = 1
        /\ o.action # "count" => o.delays = 1
        /\ o.irq \/ ~o.aligned => o.blocks = 1 /\ o.base = 0 /\ o.iter = 1 /\ o.delays = 1}

ExampleRun(o) ==
    /\ Run("snap_example", o, "open")
    /\ irq' = FALSE /\ turn' = 0 /\ leg' = 1 /\ rc' = 1 /\ calm' = TRUE /\ landed' = 0
    /\ UNCHANGED <<sdram, area, engine>>

ExampleOpen ==
    /\ At("snap_example", "open")
    /\ CardAlloc("check", "no_card")
    /\ UNCHANGED exampleVars

\* The alignment of buffer and size, and the switch over the actions.
ExampleCheck ==
    /\ At("snap_example", "check")
    /\ rc' = IF opt.aligned THEN rc ELSE 256
    /\ Goto(IF ~opt.aligned \/ opt.action = "invalid" THEN "exit1"
            ELSE IF opt.action = "count" THEN "attach_count" ELSE "loop")
    /\ UNCHANGED <<sdram, area, engine, irq, turn, leg, calm, landed>>

-----------------------------------------------------------------------------
(* The registers of a job and snap_action_start, then the wait.            *)

\* The start of an idle action takes effect before the next access of the
\* process.  A count over a copy makes the rest of the copy a fill, whose reads
\* are left behind in the action.
action_start(m) ==
    /\ engine' = IF AtWork
                 THEN [engine EXCEPT
                         !.next = @ \cup {m}, !.lost = TRUE,
                         !.foul = @ \/ (m = "count" /\ (Copying \/ engine.next # {}))]
                 ELSE [engine EXCEPT !.busy = TRUE, !.lost = FALSE, !.from = From[m], !.to = To[m]]
    /\ calm' = (calm /\ ~AtWork)

\* Without -I the idle bit is polled until the time is up.  With it the wait is
\* for an interrupt of the handle that was assigned, and has no timeout; only
\* action 1 assigns one.
Awaited == opt.irq => opt.action = "count" /\ irq

\* Mutant: a timeout is printed and 0 returned.
Mutaction_wait_idle(step) ==
    /\ Awaited /\ irq' = FALSE
    /\ rc' = 0
    /\ engine' = [engine EXCEPT !.lost = @ \/ engine.busy]
    /\ Goto(step)

\* action_wait_idle: 0 if the action was idle at the last look, or else ETIME.
action_wait_idle(step) ==
    /\ Awaited /\ irq' = FALSE
    /\ rc' = IF engine.busy THEN 62 ELSE 0
    /\ engine' = [engine EXCEPT !.lost = @ \/ engine.busy]
    /\ Goto(step)

CountAttach ==
    /\ At("snap_example", "attach_count")
    /\ AttachAction("count")
    /\ UNCHANGED exampleVars

\* for (delay = start; delay <= end; ...): rc is that of the last delay.
CountStart ==
    /\ At("snap_example", "count")
    /\ IF turn < opt.delays
       THEN turn' = turn + 1 /\ action_start("count") /\ Goto("count_wait")
       ELSE UNCHANGED <<turn, engine, calm>> /\ Goto("count_detach")
    /\ UNCHANGED <<sdram, area, irq, leg, rc, landed>>

CountWait ==
    /\ At("snap_example", "count_wait")
    /\ action_wait_idle("count")
    /\ UNCHANGED <<sdram, area, turn, leg, calm, landed>>

CountDetach ==
    /\ At("snap_example", "count_detach")
    /\ DetachAction("exit1")
    /\ UNCHANGED exampleVars

-----------------------------------------------------------------------------
(* memcpy_test                                                             *)

OnCard == opt.action # "HH"

\* The copy does not fit on the card, or the card has no memory at all.
Refused ==
    \/ opt.blocks = 0
    \/ OnCard /\ (sdram = 0 \/ opt.blocks > sdram \div 2 \/ opt.base + opt.blocks > sdram)

\* A card to card copy whose destination does not fit is left out, with rc 0.
LeftOut == opt.action = "DD" /\ opt.base + 2 * opt.blocks > sdram

CopyLoop ==
    /\ At("snap_example", "loop")
    /\ IF turn >= opt.iter
       THEN Goto("exit1") /\ UNCHANGED <<turn, leg, rc>>
       ELSE /\ turn' = turn + 1 /\ leg' = 1
            /\ rc' = IF Refused THEN 1 ELSE 0
            /\ Goto(IF Refused THEN "exit1" ELSE IF LeftOut THEN "loop" ELSE "alloc_src")
    /\ UNCHANGED <<sdram, area, engine, irq, calm, landed>>

\* The buffers the action needs; the source is filled with the pattern, the
\* destination holds what the heap has left there.
HostSource == opt.action \in {"HH", "HD", "HDH"}
HostTarget == opt.action \in {"HH", "DH", "HDH"}

AllocSource ==
    /\ At("snap_example", "alloc_src")
    /\ IF HostSource
       THEN \/ /\ Take("src", "alloc_dest")
               /\ area' = [area EXCEPT !["src"] = "pattern"] /\ rc' = rc
            \/ Goto("exit1") /\ rc' = 1 /\ area' = area
       ELSE Goto("alloc_dest") /\ UNCHANGED <<area, rc>>
    /\ UNCHANGED <<sdram, engine, irq, turn, leg, calm, landed>>

AllocTarget ==
    /\ At("snap_example", "alloc_dest")
    /\ IF HostTarget
       THEN \/ /\ Take("dest", "do_action") /\ rc' = rc
               /\ area' \in {area, [area EXCEPT !["dest"] = "other"]}
            \/ Goto("free") /\ rc' = 1 /\ area' = area
       ELSE Goto("do_action") /\ UNCHANGED <<area, rc>>
    /\ UNCHANGED <<sdram, engine, irq, turn, leg, calm, landed>>

\* do_action attaches, starts the copy, ...
Mode == IF opt.action # "HDH" THEN opt.action ELSE IF leg = 1 THEN "HD" ELSE "DH"

DoAction ==
    /\ At("snap_example", "do_action")
    /\ AttachAction("copy_wait")
    /\ action_start(Mode)
    /\ UNCHANGED <<sdram, area, irq, turn, leg, rc, landed>>

\* Mutant: the action is not waited for.
MutCopyWait ==
    /\ At("snap_example", "copy_wait")
    /\ rc' = 0 /\ Goto("copy_detach")
    /\ UNCHANGED <<sdram, area, engine, irq, turn, leg, calm, landed>>

CopyWait ==
    /\ At("snap_example", "copy_wait")
    /\ action_wait_idle("copy_detach")
    /\ UNCHANGED <<sdram, area, turn, leg, calm, landed>>

\* ... and detaches, whatever came of it; the way back follows.
CopyDetach ==
    /\ At("snap_example", "copy_detach")
    /\ LET back == opt.action = "HDH" /\ leg = 1 /\ rc = 0
       IN  leg' = (IF back THEN 2 ELSE leg) /\ DetachAction(IF back THEN "do_action" ELSE "compare")
    /\ UNCHANGED <<sdram, area, engine, irq, turn, rc, calm, landed>>

\* Only what came back to the host is compared, and only if nothing failed.
Compared == HostSource /\ HostTarget
SameData == area["src"] = area["dest"]
Arrived  == ~engine.busy /\ area[To[Mode]] = area[From[Mode]]

Compare ==
    /\ At("snap_example", "compare")
    /\ rc' = IF rc # 0 THEN (IF opt.action = "HDH" /\ leg = 1 THEN 1 ELSE rc)
             ELSE IF Compared /\ ~SameData THEN 1 ELSE 0
    /\ landed' = IF Arrived \/ (Compared /\ SameData) THEN landed + 1 ELSE landed
    /\ Goto("free")
    /\ UNCHANGED <<sdram, area, engine, irq, turn, leg, calm>>

\* The buffers are freed while the card is still open, after a timeout too.
CopyFree ==
    /\ At("snap_example", "free")
    /\ Drop({"src", "dest"}, IF rc # 0 THEN "exit1" ELSE "loop")
    /\ UNCHANGED exampleVars

ExampleExit ==
    /\ prog = "snap_example"
    /\ \/ pc = "exit1" /\ Exit({"card"}, IF rc = 0 THEN "ok" ELSE "failure")
       \/ pc = "no_card" /\ Exit({}, "failure")
    /\ UNCHANGED exampleVars

ExampleStart == \E o \in ExampleOptions : ExampleRun(o)

ExampleStep ==
    \/ ExampleOpen \/ ExampleCheck \/ CountAttach \/ CountStart \/ CountWait \/ CountDetach
    \/ CopyLoop \/ AllocSource \/ AllocTarget \/ DoAction \/ CopyWait \/ CopyDetach \/ Compare
    \/ CopyFree \/ ExampleExit

-----------------------------------------------------------------------------
\* A program of copies that succeeds has seen the result of every one of them
\* before it went on, though it compares only two of the five and a buffer may
\* hold the pattern from before: of HH and HDH always, of the others unless it
\* has started the action while that was still at work on a job somebody gave
\* up (the idle bit it sees may then be that job's), or a count was ever started
\* over a copy.  (Except for the copies it leaves out because the card is too
\* small.)
EveryCopyLanded ==
    /\ prog = "snap_example" /\ exit = "ok" /\ opt.action # "count" /\ ~LeftOut
    /\ Compared \/ (calm /\ ~engine.foul)
    => landed = opt.iter

\* The action copies from and to buffers that are allocated, unless the wait for
\* its job has timed out or the job was started over another one.
NoDmaToFreed ==
    engine.busy /\ "card" \in held /\ ~engine.lost /\ Copying =>
        ({engine.from, engine.to} \cap {"src", "dest"}) \subseteq held
=============================================================================
