------------------------------ MODULE SnapJob ------------------------------
(***************************************************************************)
(* A host process that runs jobs on an HLS action through libosnap, and    *)
(* the path by which the action's interrupt comes back.                    *)
(*                                                                         *)
(* The process is snap_action_sync_execute_job of software/lib/osnap.c:    *)
(* write the parameters word by word, start the action, wait for it by     *)
(* polling or by interrupt, read the results.  The action keeps running    *)
(* whatever becomes of the process: a call that times out or a process     *)
(* that is killed leaves it busy, and nothing in attach or set_regs looks. *)
(*                                                                         *)
(* The MMIO accesses of the library are single steps, so the action and    *)
(* the interrupt path move between any two of them.  An access to a mapped *)
(* in-range register does not fail.                                        *)
(***************************************************************************)
EXTENDS Naturals, Sequences

CONSTANTS
    NJob,       \* bound: jobs started in all
    NProc,      \* bound: processes that open the card, one after the other
    NFault,     \* bound: translation faults the driver reports
    NWord,      \* parameter words of a job (mmio_in)
    Flags,      \* the ways a process may wait: "poll", "irq" (action_flags)
    MayTimeout, \* TRUE: a poll may run into its timeout
    MayKill,    \* TRUE: a process may be killed at any point
    LateAnswer  \* TRUE: the host may answer an interrupt request only after
                \* the process has acted on the interrupt

ASSUME SnapJobAssumption ==
    /\ NJob \in Nat /\ NProc \in Nat /\ NFault \in Nat
    /\ NWord \in Nat \ {0}
    /\ Flags \subseteq {"poll", "irq"}
    /\ MayTimeout \in BOOLEAN /\ MayKill \in BOOLEAN /\ LateAnswer \in BOOLEAN

VARIABLES
    \* the process and struct snap_card
    pc,         \* where the library is
    flags,      \* card->flags
    proc,       \* the process, and the interrupt handle card->irq_ea it owns
    job,        \* the job of the current or last call
    word,       \* the parameter word to be written next
    ret,        \* what the last call returned
    got,        \* the results the last successful call read
    \* the driver
    events,     \* events the process has not read yet
    faults,     \* translation faults so far
    \* the registers of the action; a word holds the job it was written for
    params, ap_start, rd, input, out, ier, gie, isr, irq_src,
    \* action_wrapper and the interrupt FSM of the bridge
    seen,       \* interrupt_q: the level of the line was turned into a pulse
    path,       \* "idle", "busy": a request awaits its response,
                \* "stuck": ACK_INT while the line is held
    request,    \* the handle of the request under way to the host, 0: none
    \* history
    busyAtCall  \* the action was running when the current call began

hostVars   == <<flags, proc, job, word, ret, got, busyAtCall>>
paramVars  == <<params>>
kernelVars == <<ap_start, rd, input, out>>
irqVars    == <<ier, gie, isr>>
pathVars   == <<seen, path, request>>
driverVars == <<events, faults>>
vars == <<pc, hostVars, paramVars, kernelVars, irqVars, irq_src, pathVars, driverVars>>

Words == 1 .. NWord
Down  == "down"
Ready == "ready"

\* An event that is not an interrupt: its handle is no process's.
FaultEvent == 0

\* The high word of one handle with the low word of another: no process's.
Torn == NProc + 1

Init ==
    /\ pc = Down /\ flags = "poll" /\ proc = 0 /\ job = 0 /\ word = 1
    /\ ret = "none" /\ got = [w \in Words |-> 0] /\ busyAtCall = FALSE
    /\ events = <<>> /\ faults = 0
    /\ params = [w \in Words |-> 0]
    /\ ap_start = FALSE /\ rd = 0
    /\ input = [w \in Words |-> 0] /\ out = [w \in Words |-> 0]
    /\ ier = FALSE /\ gie = FALSE /\ isr = FALSE /\ irq_src = 0
    /\ seen = FALSE /\ path = "idle" /\ request = 0

-----------------------------------------------------------------------------
(* The interrupt path, as seen between MMIO accesses.                      *)

Line == gie /\ isr

\* What the path does when the line is at `line': a new level becomes one
\* request if the last request is answered, and is held back otherwise; a
\* line that falls lets the bridge leave ACK_INT.
Interrupt(line) ==
    \/ /\ line /\ ~seen /\ path = "idle"
       /\ seen' = TRUE /\ path' = "busy" /\ request' = irq_src
    \/ /\ line /\ (seen \/ path # "idle")
       /\ UNCHANGED pathVars
    \/ /\ ~line
       /\ seen' = FALSE /\ request' = request
       /\ path' = IF path = "stuck" THEN "idle" ELSE path

\* The response to the request: the bridge acknowledges, and stays in ACK_INT
\* while a second interrupt is held at the line.
Answered == IF Line /\ ~seen THEN "stuck" ELSE "idle"

\* The driver queues an interrupt for the process that owns its handle.
Deliver ==
    /\ request # 0
    /\ request' = 0
    /\ events' = IF request = proc /\ pc # Down THEN Append(events, request) ELSE events
    /\ path' = IF LateAnswer THEN path ELSE Answered
    /\ UNCHANGED <<pc, hostVars, paramVars, kernelVars, irqVars, irq_src, seen, faults>>

Answer ==
    /\ LateAnswer /\ path = "busy"
    /\ path' = Answered
    /\ UNCHANGED <<pc, hostVars, paramVars, kernelVars, irqVars, irq_src, seen, request, driverVars>>

-----------------------------------------------------------------------------
(* The action: an HLS kernel behind its control registers.                 *)

\* The kernel reads its parameters one by one while it runs.
KernelRead ==
    /\ ap_start /\ rd < NWord
    /\ input' = [input EXCEPT ![rd + 1] = params[rd + 1]]
    /\ rd' = rd + 1
    /\ UNCHANGED <<pc, hostVars, paramVars, ap_start, out, irqVars, irq_src, pathVars, driverVars>>

\* Done: the results are written, ap_start is cleared by the handshake, and
\* an enabled done interrupt is latched in the status register.
KernelDone ==
    /\ ap_start /\ rd = NWord
    /\ out' = input
    /\ ap_start' = FALSE
    /\ isr' = (isr \/ ier)
    /\ Interrupt(gie /\ isr')
    /\ UNCHANGED <<pc, hostVars, paramVars, rd, input, ier, gie, irq_src, driverVars>>

Idle == ~ap_start

\* The host reports a translation fault to the process that owns the context.
Fault ==
    /\ ap_start /\ pc # Down /\ faults < NFault
    /\ faults' = faults + 1
    /\ events' = Append(events, FaultEvent)
    /\ UNCHANGED <<pc, hostVars, paramVars, kernelVars, irqVars, irq_src, pathVars>>

-----------------------------------------------------------------------------
(* The process.                                                            *)

HwUnchanged == UNCHANGED <<kernelVars, irqVars, irq_src, pathVars>>

\* snap_card_alloc_dev and snap_attach_action: a new context, nothing of the
\* action's registers is touched.
Open(f) ==
    /\ pc = Down /\ proc < NProc
    /\ proc' = proc + 1
    /\ flags' = f
    /\ events' = <<>>
    /\ ret' = "none"
    /\ pc' = IF f = "irq" THEN "assign" ELSE Ready
    /\ HwUnchanged /\ UNCHANGED <<job, word, got, busyAtCall, params, faults>>

\* snap_action_assign_irq writes the high word of the handle, then the low
\* word; the high words of two handles may be the same.
AssignIrq ==
    /\ \/ pc = "assign" /\ pc' = "assign_low" /\ irq_src' \in {irq_src, Torn}
       \/ pc = "assign_low" /\ pc' = Ready /\ irq_src' = proc
    /\ UNCHANGED <<hostVars, paramVars, kernelVars, irqVars, pathVars, driverVars>>

\* set_regs refuses a job whose results do not fit, before it touches anything.
Refuse ==
    /\ pc = Ready /\ job < NJob
    /\ ret' = "EINVAL"
    /\ HwUnchanged /\ UNCHANGED <<pc, flags, proc, job, word, got, busyAtCall, params, driverVars>>

Call ==
    /\ pc = Ready /\ job < NJob
    /\ job' = job + 1
    /\ word' = 1
    /\ ret' = "none"
    /\ busyAtCall' = ap_start
    /\ pc' = "params"
    /\ HwUnchanged /\ UNCHANGED <<flags, proc, got, params, driverVars>>

\* Mutant: one word too many.
MutWriteParam ==
    /\ pc = "params" /\ word <= NWord + 1
    /\ params' = [params EXCEPT ![word] = job]
    /\ word' = word + 1
    /\ HwUnchanged
    /\ UNCHANGED <<pc, flags, proc, job, ret, got, busyAtCall, driverVars>>

WriteParam ==
    /\ pc = "params" /\ word <= NWord
    /\ params' = [params EXCEPT ![word] = job]
    /\ word' = word + 1
    /\ HwUnchanged
    /\ UNCHANGED <<pc, flags, proc, job, ret, got, busyAtCall, driverVars>>

\* Mutant: the ready channel is enabled, not the done channel.
MutStartIrq ==
    /\ pc = "params" /\ word > NWord /\ flags = "irq"
    /\ pc' = "irq_control"
    /\ HwUnchanged /\ UNCHANGED <<hostVars, paramVars, driverVars>>

\* snap_action_start
StartIrq ==
    /\ pc = "params" /\ word > NWord /\ flags = "irq"
    /\ ier' = TRUE
    /\ pc' = "irq_control"
    /\ UNCHANGED <<hostVars, paramVars, kernelVars, gie, isr, irq_src, pathVars, driverVars>>

EnableIrq ==
    /\ pc = "irq_control"
    /\ gie' = TRUE
    /\ Interrupt(isr)
    /\ pc' = "start"
    /\ UNCHANGED <<hostVars, paramVars, kernelVars, ier, isr, irq_src, driverVars>>

\* Writing ACTION_CONTROL_START to a running action changes nothing.
Start ==
    /\ \/ pc = "start"
       \/ pc = "params" /\ word > NWord /\ flags = "poll"
    /\ ap_start' = TRUE
    /\ rd' = IF ap_start THEN rd ELSE 0
    /\ pc' = IF flags = "irq" THEN "wait_irq" ELSE "poll"
    /\ UNCHANGED <<hostVars, paramVars, input, out, irqVars, irq_src, pathVars, driverVars>>

\* Mutant: the loop is left on the first read.
MutPoll ==
    /\ pc = "poll"
    /\ pc' = "results"
    /\ HwUnchanged /\ UNCHANGED <<hostVars, paramVars, driverVars>>

\* snap_action_completed, polling: leave the loop on the idle bit ...
Poll ==
    /\ pc = "poll" /\ Idle
    /\ pc' = "results"
    /\ HwUnchanged /\ UNCHANGED <<hostVars, paramVars, driverVars>>

TimedOut ==
    /\ ret' = "ETIMEDOUT"
    /\ pc' = Ready
    /\ UNCHANGED <<flags, proc, job, word, got, busyAtCall>>

\* ... or when the time is up, whatever the action did since the last look.
PollTimeout ==
    /\ pc = "poll" /\ MayTimeout
    /\ TimedOut
    /\ HwUnchanged /\ UNCHANGED <<paramVars, driverVars>>

\* hw_wait_irq: an interrupt of another handle is skipped, any other event
\* ends the wait, and snap_action_completed ignores which one it was.
WaitIrq ==
    /\ pc = "wait_irq" /\ events # <<>>
    /\ events' = Tail(events)
    /\ pc' = IF Head(events) \in {proc, FaultEvent} THEN "irq_status" ELSE pc
    /\ HwUnchanged /\ UNCHANGED <<hostVars, paramVars, faults>>

\* Mutant: the status bit is left as it is.
MutClearStatus ==
    /\ pc = "irq_status"
    /\ Interrupt(gie /\ isr)
    /\ pc' = "irq_app_off"
    /\ UNCHANGED <<hostVars, paramVars, kernelVars, irqVars, irq_src, driverVars>>

\* ACTION_IRQ_STATUS toggles on write.
ClearStatus ==
    /\ pc = "irq_status"
    /\ isr' = ~isr
    /\ Interrupt(gie /\ isr')
    /\ pc' = "irq_app_off"
    /\ UNCHANGED <<hostVars, paramVars, kernelVars, ier, gie, irq_src, driverVars>>

IrqAppOff ==
    /\ pc = "irq_app_off"
    /\ ier' = FALSE
    /\ pc' = "irq_control_off"
    /\ UNCHANGED <<hostVars, paramVars, kernelVars, gie, isr, irq_src, pathVars, driverVars>>

\* Mutant: the global enable stays on.
MutIrqControlOff ==
    /\ pc = "irq_control_off"
    /\ pc' = "check"
    /\ HwUnchanged /\ UNCHANGED <<hostVars, paramVars, driverVars>>

IrqControlOff ==
    /\ pc = "irq_control_off"
    /\ gie' = FALSE
    /\ Interrupt(FALSE)
    /\ pc' = "check"
    /\ UNCHANGED <<hostVars, paramVars, kernelVars, ier, isr, irq_src, driverVars>>

\* Mutant: the event is taken for the completion.
MutCheckIdle ==
    /\ pc = "check"
    /\ pc' = "results"
    /\ HwUnchanged /\ UNCHANGED <<hostVars, paramVars, driverVars>>

\* The one read of ACTION_CONTROL after an interrupt.
CheckIdle ==
    /\ pc = "check"
    /\ \/ Idle /\ pc' = "results" /\ UNCHANGED hostVars
       \/ ~Idle /\ TimedOut
    /\ HwUnchanged /\ UNCHANGED <<paramVars, driverVars>>

\* The action is idle, so the output registers do not move while they are read.
ReadResults ==
    /\ pc = "results"
    /\ got' = out
    /\ ret' = "ok"
    /\ pc' = Ready
    /\ HwUnchanged /\ UNCHANGED <<flags, proc, job, word, busyAtCall, paramVars, driverVars>>

\* snap_detach_action and snap_card_free, or the end of the process: the
\* context goes, the action and its interrupt enables stay as they are.
Leave ==
    /\ pc' = Down
    /\ events' = <<>>
    /\ HwUnchanged /\ UNCHANGED <<hostVars, paramVars, faults>>

Close == pc = Ready /\ Leave
Kill  == MayKill /\ pc \notin {Down, Ready} /\ Leave

Host ==
    \/ AssignIrq \/ WriteParam \/ StartIrq \/ EnableIrq \/ Start \/ Poll
    \/ WaitIrq \/ ClearStatus \/ IrqAppOff \/ IrqControlOff \/ CheckIdle \/ ReadResults

Action == KernelRead \/ KernelDone

Next ==
    \/ \E f \in Flags : Open(f)
    \/ Refuse \/ Call \/ Close \/ Kill \/ PollTimeout
    \/ Host \/ Action
    \/ Deliver \/ Answer \/ Fault

Spec == Init /\ [][Next]_vars

\* The process runs, the kernel finishes, the host delivers and answers.
Fairness == WF_vars(Host) /\ WF_vars(Action) /\ WF_vars(Deliver) /\ WF_vars(Answer)

FairSpec == Spec /\ Fairness

-----------------------------------------------------------------------------
Own == [w \in Words |-> job]

Locations == {Down, Ready, "assign", "assign_low", "params", "irq_control", "start", "poll",
              "wait_irq", "irq_status", "irq_app_off", "irq_control_off", "check", "results"}

TypeOK ==
    /\ pc \in Locations /\ flags \in {"poll", "irq"} /\ proc \in 0 .. NProc
    /\ job \in 0 .. NJob /\ word \in 1 .. NWord + 1
    /\ ret \in {"none", "ok", "EINVAL", "ETIMEDOUT"}
    /\ events \in Seq(0 .. NProc) /\ faults \in 0 .. NFault
    /\ params \in [Words -> 0 .. NJob] /\ input \in [Words -> 0 .. NJob]
    /\ out \in [Words -> 0 .. NJob] /\ got \in [Words -> 0 .. NJob]
    /\ rd \in 0 .. NWord /\ irq_src \in 0 .. Torn /\ request \in 0 .. Torn
    /\ ap_start \in BOOLEAN /\ ier \in BOOLEAN /\ gie \in BOOLEAN /\ isr \in BOOLEAN
    /\ seen \in BOOLEAN /\ busyAtCall \in BOOLEAN
    /\ path \in {"idle", "busy", "stuck"}

\* A call that returns success returns the results of its own job.  It holds
\* for processes that start every job on an idle action.
SuccessIsOwn == ret = "ok" => got = Own

\* The same with nothing assumed of earlier processes and calls: to find the
\* action idle when the call begins is enough, whatever stale interrupts,
\* status bits and enables were left behind.
IdleCallSucceedsOwn == ret = "ok" /\ ~busyAtCall => got = Own

\* Why: from the call to its return nobody else starts the action, so it stays
\* idle while the parameters are written, runs on them alone once it is
\* started, and is idle again only with the results of this job.
Started == {"poll", "wait_irq", "irq_status", "irq_app_off", "irq_control_off", "check", "results"}

CallInvariant ==
    /\ pc = "results" => Idle
    /\ ~busyAtCall =>
         /\ pc = "params" => Idle /\ \A w \in 1 .. word - 1 : params[w] = job
         /\ pc \in {"irq_control", "start"} => Idle /\ params = Own
         /\ pc \in Started => /\ params = Own
                              /\ Idle => out = Own
                              /\ ~Idle => \A w \in 1 .. rd : input[w] = job
         /\ ret = "ok" => got = Own

\* An interrupt-mode call waits without a timeout, so it does not report one.
NoIrqTimeout == flags = "irq" => ret # "ETIMEDOUT"

\* A call hands the action back as it found it: status clear, interrupts
\* disabled, no event left for the next call to mistake for its own.
HandBack ==
    pc = Ready => /\ ~isr /\ ~ier /\ ~gie /\ events = <<>>
                  /\ ~ap_start

\* A call returns, or its process is killed.
JobReturns == pc = "params" ~> pc \in {Ready, Down}
=============================================================================
