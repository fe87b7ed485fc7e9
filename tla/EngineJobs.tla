----------------------------- MODULE EngineJobs -----------------------------
(***************************************************************************)
(* hdl_single_engine and hdl_multi_process: traffic tests of engines that  *)
(* read and write host memory.                                             *)
(*                                                                         *)
(* A process drives an engine of its own through a register block: start,  *)
(* configuration, wait for ready, kick, wait for the done flags, soft      *)
(* reset.  hdl_single_engine is one process that may repeat this;          *)
(* hdl_multi_process forks one process per engine and waits for them.      *)
(*                                                                         *)
(* The soft reset clears the register block and nothing else: a master     *)
(* that was still at work when the process gave up goes on and raises its  *)
(* flag later.  A read master takes no start before; a write master that   *)
(* has sent all its data does, and works for both kicks then.              *)
(***************************************************************************)
EXTENDS HostProcess, Integers

CONSTANTS
    NEngine,  \* engines of the multi process image
    MaxTest   \* bound: -c of hdl_single_engine

ASSUME EngineJobsAssumption == NEngine \in Nat \ {0} /\ MaxTest \in Nat

Engines == 1 .. NEngine

VARIABLES
    slave,    \* the register block of an engine
    rd, wr,   \* its masters
    child,    \* the process on it
    target,   \* the target buffer of that process
    \* history
    spoiled,  \* a process was killed on the engine, or reset it under a busy master
    worked    \* what the masters did for the last kick, on an engine that is not spoiled:
              \* all reads, all writes, a read that was wrong, and a response error after
              \* every such read

engineVars      == <<slave, rd, wr>>
childVars       == <<child, target>>
engineHistory   == <<spoiled, worked>>
engineJobsVars  == <<engineVars, childVars, engineHistory>>

Children == IF prog = "hdl_single_engine" THEN {1} ELSE Engines

-----------------------------------------------------------------------------
(* The register block: USER_CONTROL[0] and the flags of USER_STATUS.       *)
(* The ready bit, which comes 4096 cycles after the start, is left to the  *)
(* process that looks for it.                                              *)

Cleared == [start |-> FALSE, rd_done |-> FALSE, wr_done |-> FALSE, rd_error |-> FALSE]

\* A master is idle or sends bursts, for the last kick of the process on the
\* engine ("own"), for an earlier one ("stale") or, a write master, for "both".
Stale(m) == IF m = "idle" THEN m ELSE "stale"

Absent == [step |-> "gone", rc |-> 0, test |-> 0]

EngineInit ==
    /\ slave = [e \in Engines |-> Cleared]
    /\ rd = [e \in Engines |-> "idle"] /\ wr = [e \in Engines |-> "idle"]
    /\ child = [e \in Engines |-> Absent]
    /\ target = [e \in Engines |-> "zero"]
    /\ spoiled = [e \in Engines |-> FALSE]
    /\ worked = [e \in Engines |-> {}]

Busy(e) == rd[e] # "idle" \/ wr[e] # "idle"

\* The target buffer of the process is there, and is looked at in the end.
Watched(e) == prog = "hdl_single_engine" /\ child[e].step \notin {"open", "gone"}

\* A read burst, perhaps the last one, is compared with the pattern.  A flag of
\* rd_error is kept until the next error: a response error takes the place of a
\* data error, which is hidden then.
ReadBurst(e, last, error) ==
    /\ rd[e] # "idle" /\ (last \/ error # "none")
    /\ slave' = [slave EXCEPT ![e].rd_error = IF error = "none" THEN @ ELSE error = "data",
                              ![e].rd_done = @ \/ last]
    /\ rd' = [rd EXCEPT ![e] = IF last THEN "idle" ELSE @]
    /\ worked' = [worked EXCEPT ![e] =
          IF rd[e] # "own" \/ spoiled[e] THEN @
          ELSE {w \in {"rd", "wr", "bad", "hidden"} :
                   \/ w \in @ /\ (w = "hidden" => error # "data")
                   \/ w = "rd" /\ last
                   \/ w = "bad" /\ error = "data"
                   \/ w = "hidden" /\ error = "resp" /\ "bad" \in @}]
    /\ UNCHANGED <<processVars, wr, childVars, spoiled>>

\* The last write burst of a kick.  One that is answered with an error is not
\* there, but done.  One of an earlier kick goes where the registers, which may
\* have been cleared or set again, point by now.  A master that works for two
\* kicks may be done with both at once.
WriteBurst(e, error) ==
    /\ wr[e] # "idle"
    /\ wr' \in {[wr EXCEPT ![e] = m] : m \in {"idle"} \cup {n \in {"own"} : wr[e] = "both"}}
    /\ slave' = [slave EXCEPT ![e].wr_done = TRUE]
    /\ worked' = [worked EXCEPT ![e] = @ \cup {w \in {"wr"} : wr[e] = "own" /\ ~spoiled[e]}]
    /\ target' \in {[target EXCEPT ![e] = t] :
                      t \in {u \in {target[e]} : wr[e] # "own" \/ error} \cup
                            {u \in {"expected"} : wr[e] # "stale" /\ wr'[e] = "idle" /\ ~error} \cup
                            {u \in {"other"} : wr[e] # "own" /\ Watched(e)}}
    /\ UNCHANGED <<processVars, rd, child, spoiled>>

EngineWorks ==
    \E e \in Engines :
        \/ \E last \in BOOLEAN, error \in {"none", "data", "resp"} : ReadBurst(e, last, error)
        \/ \E error \in BOOLEAN : WriteBurst(e, error)

-----------------------------------------------------------------------------
(* The command lines.                                                      *)

Numbers == {n \in [rnum : {0, 1}, wnum : {0, 1}, irq : BOOLEAN] :
               n.irq => n.rnum = 1 /\ n.wnum = 1}

SingleOptions == {[rnum |-> n.rnum, wnum |-> n.wnum, irq |-> n.irq, tests |-> t] :
                     n \in Numbers, t \in 0 .. MaxTest}

\* Every process reads the same command line.  Bound: as many reads as writes.
MultiOptions ==
    {[rnum |-> n.rnum, wnum |-> n.wnum, irq |-> n.irq, tests |-> 1] :
        n \in {m \in Numbers : m.rnum = m.wnum}}

EngineRun(p, o) ==
    /\ Run(p, o, "children")
    /\ child' = [e \in Engines |-> IF p = "hdl_single_engine" /\ e # 1 THEN Absent
                                   ELSE [step |-> "open", rc |-> 1, test |-> 0]]
    /\ target' = [e \in Engines |-> "zero"]
    /\ worked' = [e \in Engines |-> {}]
    /\ UNCHANGED <<engineVars, spoiled>>

ChildOf(p, e, step) == At(p, "children") /\ e \in Children /\ child[e].step = step

ChildGoto(e, step, rc) == child' = [child EXCEPT ![e].step = step, ![e].rc = rc]

\* A process that is gone has an exit status that is 0 or not.
Gone(e, rc) == child' = [child EXCEPT ![e] = [step |-> "gone", rc |-> IF rc = 0 THEN 0 ELSE 1, test |-> 0]]

\* The log file of hdl_multi_process comes before everything else.
LogFails(p, e) == p = "hdl_multi_process" /\ Gone(e, -1)

\* As AttachAction, for a process that is not main; then the buffers: the
\* source has the pattern the engine expects, the target is cleared.
get_action(e) ==
    /\ ChildGoto(e, IF opt.irq THEN "attach_wait" ELSE "start", 1)
    /\ target' = [target EXCEPT ![e] = "zero"]

OpenEngine(p, e) ==
    /\ ChildOf(p, e, "open")
    /\ \/ LogFails(p, e) /\ UNCHANGED target
       \/ opt.rnum = 0 /\ opt.wnum = 0 /\ Gone(e, 0) /\ UNCHANGED target
       \/ opt.rnum + opt.wnum > 0 /\ Gone(e, -1) /\ UNCHANGED target
       \/ opt.rnum + opt.wnum > 0 /\ get_action(e)
    /\ UNCHANGED <<processVars, engineVars, engineHistory>>

-----------------------------------------------------------------------------
(* run_single_engine                                                       *)

\* SNAP_CONTROL and the configuration, if there is another test to do.  The
\* target buffer is not cleared again.
StartAndConfigure(p, e) ==
    /\ ChildOf(p, e, "start")
    /\ IF child[e].test < opt.tests
       THEN child' = [child EXCEPT ![e].step = "ready", ![e].test = @ + 1]
       ELSE Gone(e, child[e].rc)
    /\ UNCHANGED <<processVars, engineVars, target, engineHistory>>

\* What the masters are still at is nobody's any more.
Abandon(e) ==
    /\ rd' = [rd EXCEPT ![e] = Stale(@)] /\ wr' = [wr EXCEPT ![e] = Stale(@)]

\* 1 and 0 to SOFT_RESET.
SoftReset(e) ==
    /\ slave' = [slave EXCEPT ![e] = Cleared]
    /\ spoiled' = [spoiled EXCEPT ![e] = @ \/ Busy(e)]
    /\ Abandon(e)

\* USER_CONTROL[0] <= 1 starts an idle master with a number other than 0, if
\* the bit was 0 before; a number of 0 is done at once.  A write master whose
\* addresses and data are all sent is idle, though responses of an earlier kick
\* may still be to come.
Kick(e) ==
    LET edge == ~slave[e].start
        begin(m, n) == IF edge /\ n > 0 /\ m = "idle" THEN "own" ELSE Stale(m)
        taken == {m \in {"both"} : edge /\ opt.wnum > 0 /\ wr[e] # "idle"}
    IN  /\ rd' = [rd EXCEPT ![e] = begin(@, opt.rnum)]
        /\ wr' \in {[wr EXCEPT ![e] = m] : m \in {begin(wr[e], opt.wnum)} \cup taken}
        /\ slave' = [slave EXCEPT ![e].start = TRUE,
                                  ![e].rd_done = @ \/ (edge /\ opt.rnum = 0),
                                  ![e].wr_done = @ \/ (edge /\ opt.wnum = 0)]
        /\ worked' = [worked EXCEPT ![e] = {w \in {"rd"} : opt.rnum = 0} \cup {w \in {"wr"} : opt.wnum = 0}]

\* Up to 300 looks at the ready bit.
WaitReady(p, e) ==
    /\ ChildOf(p, e, "ready")
    /\ \/ /\ Kick(e) /\ ChildGoto(e, "done", 0)
          /\ UNCHANGED spoiled
       \/ /\ SoftReset(e) /\ ChildGoto(e, "check", 2)
          /\ UNCHANGED worked
    /\ UNCHANGED <<processVars, target>>

BothDone(e)  == slave[e].rd_done /\ slave[e].wr_done
ReadError(e) == slave[e].rd_error

\* The last look at the status, and the soft reset that every outcome ends
\* with.  hdl_single_engine looks for an error only while not both are done,
\* hdl_multi_process in the last status it has read.  Response errors of reads
\* and writes are not looked at.
\* Mutant: no soft reset after a success.
MutWaitDone(p, e) ==
    /\ ChildOf(p, e, "done")
    /\ LET error   == ReadError(e) /\ (p = "hdl_single_engine" => ~BothDone(e))
           outcome == IF error THEN 4 ELSE IF BothDone(e) THEN 0 ELSE 8
       IN  /\ ChildGoto(e, "check", outcome)
           /\ IF outcome = 0 THEN UNCHANGED <<slave, rd, wr, spoiled>> ELSE SoftReset(e)
    /\ UNCHANGED <<processVars, target, worked>>

WaitDone(p, e) ==
    /\ ChildOf(p, e, "done")
    /\ LET error   == ReadError(e) /\ (p = "hdl_single_engine" => ~BothDone(e))
           outcome == IF error THEN 4 ELSE IF BothDone(e) THEN 0 ELSE 8
       IN  ChildGoto(e, "check", outcome)
    /\ SoftReset(e)
    /\ UNCHANGED <<processVars, target, worked>>

-----------------------------------------------------------------------------
(* What main() makes of the outcome.  Detach, close and free change        *)
(* nothing here.                                                           *)

\* The data is compared after a success; the first failure ends the loop.
CheckSingle ==
    /\ ChildOf("hdl_single_engine", 1, "check")
    /\ IF child[1].rc = 0 /\ (opt.wnum # 0 => target[1] = "expected")
       THEN ChildGoto(1, "start", 0)
       ELSE Gone(1, 4)
    /\ UNCHANGED <<processVars, engineVars, target, engineHistory>>

\* The data is compared if rc is 1, which run_single_engine never returns.
CheckMulti(e) ==
    /\ ChildOf("hdl_multi_process", e, "check")
    /\ Gone(e, IF child[e].rc = 1 /\ opt.wnum # 0 /\ target[e] # "expected" THEN 5 ELSE child[e].rc)
    /\ UNCHANGED <<processVars, engineVars, target, engineHistory>>

\* A signal ends the process: the card is closed, the engine is not reset.
\* Bound: not if an engine is spoiled already.
KillChild(p, e) ==
    /\ ChildOf(p, e, "ready") \/ ChildOf(p, e, "done")
    /\ \A f \in Engines : ~spoiled[f]
    /\ Gone(e, 9)
    /\ spoiled' = [spoiled EXCEPT ![e] = TRUE]
    /\ Abandon(e)
    /\ UNCHANGED <<processVars, slave, target, worked>>

\* The return of main() of the one, the wait() loop of the other.
AllGone ==
    /\ pc = "children" /\ \A e \in Children : child[e].step = "gone"
    /\ Exit({}, IF \A e \in Children : child[e].rc = 0 THEN "ok" ELSE "failure")
    /\ UNCHANGED engineJobsVars

EnginePrograms == {"hdl_single_engine", "hdl_multi_process"}

EngineStart ==
    \/ prog = "hdl_single_engine" /\ \E o \in SingleOptions : EngineRun(prog, o)
    \/ prog = "hdl_multi_process" /\ \E o \in MultiOptions : EngineRun(prog, o)

run_single_engine(p, e) == StartAndConfigure(p, e) \/ WaitReady(p, e) \/ WaitDone(p, e)

SingleStep ==
    OpenEngine("hdl_single_engine", 1) \/ run_single_engine("hdl_single_engine", 1) \/ CheckSingle

\* hdl_multi_process has its own copy of the function and of what precedes it.
MultiRun(e)  == run_single_engine("hdl_multi_process", e)
MultiOpen(e) == OpenEngine("hdl_multi_process", e)

EngineStep ==
    \/ SingleStep \/ AllGone
    \/ \E e \in Engines : MultiOpen(e) \/ MultiRun(e) \/ CheckMulti(e)

ChildKilled == \E p \in EnginePrograms, e \in Engines : KillChild(p, e)

-----------------------------------------------------------------------------
\* A test that succeeds, on engines no process was killed on or gave up on, has
\* had every process's own reads and writes done by its own engine: no flag of
\* an earlier run is taken for it.  In hdl_multi_process a read that was wrong
\* goes unnoticed only if a response error came after it (in the other the
\* error may come too late to be looked at), and in hdl_single_engine the data
\* has reached the target buffer in one of the tests (in the other nothing is
\* compared).
SuccessEarned ==
    prog \in EnginePrograms /\ exit = "ok" /\ (opt.rnum # 0 \/ opt.wnum # 0) =>
        \A e \in Children :
            ~spoiled[e] =>
                /\ {"rd", "wr"} \subseteq worked[e]
                /\ prog = "hdl_multi_process" /\ "bad" \in worked[e] => "hidden" \in worked[e]
                /\ prog = "hdl_single_engine" /\ opt.wnum # 0 => target[e] = "expected"
=============================================================================
