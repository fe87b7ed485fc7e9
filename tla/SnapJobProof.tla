---------------------------- MODULE SnapJobProof ----------------------------
(***************************************************************************)
(* Proofs about SnapJob, for any number of jobs, processes, parameter      *)
(* words and faults, with timeouts, kills and late answers allowed or not. *)
(***************************************************************************)
EXTENDS SnapJob, TLAPS

USE SnapJobAssumption DEF SnapJobAssumption

\* TypeOK in two halves: the provers treat truth values and the other data
\* best apart.
Bools ==
    /\ ap_start \in BOOLEAN /\ ier \in BOOLEAN /\ gie \in BOOLEAN /\ isr \in BOOLEAN
    /\ seen \in BOOLEAN /\ busyAtCall \in BOOLEAN

Data ==
    /\ pc \in Locations /\ flags \in {"poll", "irq"} /\ proc \in 0 .. NProc
    /\ job \in 0 .. NJob /\ word \in 1 .. NWord + 1
    /\ ret \in {"none", "ok", "EINVAL", "ETIMEDOUT"}
    /\ events \in Seq(0 .. NProc) /\ faults \in 0 .. NFault
    /\ params \in [Words -> 0 .. NJob] /\ input \in [Words -> 0 .. NJob]
    /\ out \in [Words -> 0 .. NJob] /\ got \in [Words -> 0 .. NJob]
    /\ rd \in 0 .. NWord /\ irq_src \in 0 .. Torn /\ request \in 0 .. Torn
    /\ path \in {"idle", "busy", "stuck"}

LEMMA TypeSplit == TypeOK <=> Bools /\ Data
  BY DEF TypeOK, Bools, Data

LEMMA TypeInit == Init => TypeOK
  <1> SUFFICES ASSUME Init PROVE Bools /\ Data
    BY TypeSplit
  <1>1. Bools
    BY DEF Init, Bools
  <1>2. Data
    BY DEF Init, Data, Words, Down, Ready, Locations, Torn
  <1> QED
    BY <1>1, <1>2

\* What the interrupt path does keeps its types.
LEMMA InterruptBools ==
    ASSUME NEW line, Bools, Interrupt(line)
    PROVE  seen' \in BOOLEAN
  BY DEF Interrupt, Bools, pathVars

LEMMA InterruptData ==
    ASSUME NEW line, Data, Interrupt(line)
    PROVE  path' \in {"idle", "busy", "stuck"} /\ request' \in 0 .. Torn
  BY DEF Interrupt, Data, pathVars

LEMMA BoolsStep == Bools /\ [Next]_vars => Bools'
  <1> USE DEF Bools, hostVars, paramVars, kernelVars, irqVars, pathVars, driverVars, HwUnchanged
  <1>1. ASSUME Bools, NEW f \in Flags, Open(f) PROVE Bools'
    BY <1>1 DEF Open
  <1>2. ASSUME Bools, Refuse \/ Call \/ Close \/ Kill \/ PollTimeout PROVE Bools'
    BY <1>2 DEF Refuse, Call, Close, Kill, Leave, PollTimeout, TimedOut
  <1>3. ASSUME Bools, AssignIrq \/ WriteParam \/ StartIrq \/ Start \/ Poll \/ IrqAppOff
        PROVE  Bools'
    BY <1>3 DEF AssignIrq, WriteParam, StartIrq, Start, Poll, IrqAppOff
  <1>4. ASSUME Bools, EnableIrq PROVE Bools'
    BY <1>4, InterruptBools DEF EnableIrq
  <1>5. ASSUME Bools, ClearStatus PROVE Bools'
    <2>1. seen' \in BOOLEAN
      BY <1>5, InterruptBools DEF ClearStatus
    <2> QED
      BY <2>1, <1>5 DEF ClearStatus
  <1>6. ASSUME Bools, IrqControlOff PROVE Bools'
    BY <1>6, InterruptBools DEF IrqControlOff
  <1>7. ASSUME Bools, WaitIrq \/ CheckIdle \/ ReadResults \/ KernelRead PROVE Bools'
    BY <1>7 DEF WaitIrq, CheckIdle, ReadResults, KernelRead, TimedOut
  <1>8. ASSUME Bools, KernelDone PROVE Bools'
    <2>1. seen' \in BOOLEAN
      BY <1>8, InterruptBools DEF KernelDone
    <2>2. isr' \in BOOLEAN
      BY <1>8 DEF KernelDone
    <2> QED
      BY <2>1, <2>2, <1>8 DEF KernelDone
  <1>9. ASSUME Bools, Deliver \/ Answer \/ Fault PROVE Bools'
    BY <1>9 DEF Deliver, Answer, Fault
  <1>10. ASSUME Bools, UNCHANGED vars PROVE Bools'
    BY <1>10 DEF vars
  <1> QED
    BY <1>1, <1>2, <1>3, <1>4, <1>5, <1>6, <1>7, <1>8, <1>9, <1>10 DEF Next, Host, Action

LEMMA AppendType ==
    ASSUME NEW S, NEW s \in Seq(S), NEW e \in S
    PROVE  Append(s, e) \in Seq(S)
  OBVIOUS

LEMMA DataStep == Data /\ [Next]_vars => Data'
  <1> USE DEF Data, hostVars, paramVars, kernelVars, irqVars, pathVars, driverVars,
              HwUnchanged, Down, Ready, Locations, FaultEvent, Torn
  <1>1. ASSUME Data, NEW f \in Flags, Open(f) PROVE Data'
    BY <1>1 DEF Open
  <1>2. ASSUME Data, Refuse \/ PollTimeout PROVE Data'
    BY <1>2 DEF Refuse, PollTimeout, TimedOut
  <1>3. ASSUME Data, Call PROVE Data'
    BY <1>3 DEF Call
  <1>4. ASSUME Data, Close \/ Kill PROVE Data'
    <2>1. Leave
      BY <1>4 DEF Close, Kill
    <2>2. events' \in Seq(0 .. NProc)
      BY <2>1 DEF Leave
    <2> QED
      BY <1>4, <2>1, <2>2 DEF Leave
  <1>5. ASSUME Data, AssignIrq \/ StartIrq \/ Start \/ Poll \/ IrqAppOff PROVE Data'
    <2>1. CASE AssignIrq
      BY <1>5, <2>1 DEF AssignIrq
    <2>2. CASE StartIrq \/ Poll \/ IrqAppOff
      BY <1>5, <2>2 DEF StartIrq, Poll, IrqAppOff
    <2>3. CASE Start
      <3>1. rd' \in 0 .. NWord /\ pc' \in Locations
        BY <1>5, <2>3 DEF Start
      <3> QED
        BY <1>5, <2>3, <3>1 DEF Start
    <2> QED
      BY <1>5, <2>1, <2>2, <2>3
  <1>6. ASSUME Data, WriteParam PROVE Data'
    <2>1. word \in Words /\ word' \in 1 .. NWord + 1
      BY <1>6 DEF WriteParam, Words
    <2>2. params' \in [Words -> 0 .. NJob]
      BY <1>6, <2>1 DEF WriteParam
    <2>3. UNCHANGED <<pc, flags, proc, job, ret, got, events, faults, input, out, rd,
                      irq_src, path, request>>
      BY <1>6 DEF WriteParam
    <2> QED
      BY <1>6, <2>1, <2>2, <2>3
  <1>7. ASSUME Data, EnableIrq \/ ClearStatus \/ IrqControlOff PROVE Data'
    <2>1. path' \in {"idle", "busy", "stuck"} /\ request' \in 0 .. Torn
      BY <1>7, InterruptData DEF EnableIrq, ClearStatus, IrqControlOff
    <2> QED
      BY <2>1, <1>7 DEF EnableIrq, ClearStatus, IrqControlOff
  <1>8. ASSUME Data, WaitIrq PROVE Data'
    BY <1>8 DEF WaitIrq
  <1>9. ASSUME Data, CheckIdle \/ ReadResults PROVE Data'
    BY <1>9 DEF CheckIdle, ReadResults, TimedOut
  <1>10. ASSUME Data, KernelRead PROVE Data'
    <2>1. rd + 1 \in Words /\ rd' \in 0 .. NWord
      BY <1>10 DEF KernelRead, Words
    <2>2. input' \in [Words -> 0 .. NJob]
      BY <1>10, <2>1 DEF KernelRead
    <2> QED
      BY <1>10, <2>1, <2>2 DEF KernelRead
  <1>11. ASSUME Data, KernelDone PROVE Data'
    <2>1. path' \in {"idle", "busy", "stuck"} /\ request' \in 0 .. Torn
      BY <1>11, InterruptData DEF KernelDone
    <2> QED
      BY <2>1, <1>11 DEF KernelDone
  <1>12. ASSUME Data, Deliver PROVE Data'
    <2>1. events' \in Seq(0 .. NProc)
      <3>1. events \in Seq(0 .. NProc) /\ proc \in 0 .. NProc
        BY <1>12
      <3>2. events' = Append(events, proc) \/ events' = events
        BY <1>12 DEF Deliver
      <3> QED
        BY <3>1, <3>2, AppendType
    <2>2. path' \in {"idle", "busy", "stuck"}
      BY <1>12 DEF Deliver, Answered
    <2> QED
      BY <1>12, <2>1, <2>2 DEF Deliver
  <1>13. ASSUME Data, Answer PROVE Data'
    BY <1>13 DEF Answer, Answered
  <1>14. ASSUME Data, Fault PROVE Data'
    <2>1. events' \in Seq(0 .. NProc)
      <3>1. 0 \in 0 .. NProc
        OBVIOUS
      <3> QED
        BY <1>14, <3>1 DEF Fault
    <2> QED
      BY <1>14, <2>1 DEF Fault
  <1>15. ASSUME Data, UNCHANGED vars PROVE Data'
    BY <1>15 DEF vars
  <1> QED
    BY <1>1, <1>2, <1>3, <1>4, <1>5, <1>6, <1>7, <1>8, <1>9, <1>10, <1>11, <1>12, <1>13,
       <1>14, <1>15
    DEF Next, Host, Action

LEMMA TypeStep == TypeOK /\ [Next]_vars => TypeOK'
  BY BoolsStep, DataStep, TypeSplit DEF TypeOK, Bools, Data

\* Every variable of the library, the driver and the action keeps its type.
THEOREM TypeCorrect == Spec => []TypeOK
  BY TypeInit, TypeStep, PTL DEF Spec

-----------------------------------------------------------------------------
(* A call that finds the action idle succeeds only with its own results.   *)
(* CallInvariant is inductive given TypeOK.  Its parts:                    *)

ResultsIdle == pc = "results" => Idle

Writing == pc = "params" => Idle /\ \A w \in 1 .. word - 1 : params[w] = job

Written == pc \in {"irq_control", "start"} => Idle /\ params = Own

Running == pc \in Started =>
              /\ params = Own
              /\ Idle => out = Own
              /\ ~Idle => \A w \in 1 .. rd : input[w] = job

Returned == ret = "ok" => got = Own

Parts == ResultsIdle /\ (~busyAtCall => Writing /\ Written /\ Running /\ Returned)

LEMMA CallParts == Parts => CallInvariant
  <1> SUFFICES ASSUME Parts PROVE CallInvariant
    OBVIOUS
  <1>1. pc = "results" => Idle
    BY DEF Parts, ResultsIdle
  <1>2. ASSUME ~busyAtCall
        PROVE  /\ pc = "params" => Idle /\ \A w \in 1 .. word - 1 : params[w] = job
               /\ pc \in {"irq_control", "start"} => Idle /\ params = Own
    BY <1>2 DEF Parts, Writing, Written
  <1>3. ASSUME ~busyAtCall
        PROVE  pc \in Started => /\ params = Own
                                 /\ Idle => out = Own
                                 /\ ~Idle => \A w \in 1 .. rd : input[w] = job
    BY <1>3 DEF Parts, Running
  <1>4. ASSUME ~busyAtCall PROVE ret = "ok" => got = Own
    BY <1>4 DEF Parts, Returned
  <1> QED
    BY <1>1, <1>2, <1>3, <1>4 DEF CallInvariant

\* A register file that holds the job in every word is the job's own.
LEMMA OwnWords ==
    ASSUME NEW S, NEW f \in [Words -> S], \A w \in 1 .. NWord : f[w] = job
    PROVE  f = Own
  BY DEF Own, Words

LEMMA CallInit == Init => Parts
  BY DEF Init, Parts, ResultsIdle, Writing, Written, Running, Returned, Idle, Own, Started, Down

\* A step that moves neither the process nor what the call depends on.
LEMMA CallFrame ==
    ASSUME Parts, UNCHANGED <<pc, job, word, ret, got, busyAtCall, params, ap_start, rd, input, out>>
    PROVE  Parts'
  BY DEF Parts, ResultsIdle, Writing, Written, Running, Returned, Idle, Own, Started

\* A step within the wait, and one to a place outside of the call.
LEMMA CallMove ==
    ASSUME Parts,
           UNCHANGED <<job, got, busyAtCall, params, ap_start, rd, input, out>>,
           ret' = ret \/ ret' # "ok",
           \/ pc \in Started /\ pc' \in Started \ {"results"}
           \/ pc' \in {Down, Ready, "assign", "assign_low"}
    PROVE  Parts'
  BY DEF Parts, ResultsIdle, Writing, Written, Running, Returned, Idle, Own, Started, Down, Ready

LEMMA CallStep == TypeOK /\ Parts /\ [Next]_vars => Parts'
  <1> USE DEF hostVars, paramVars, kernelVars, driverVars, HwUnchanged
  <1> SUFFICES ASSUME TypeOK, Parts, [Next]_vars PROVE Parts'
    OBVIOUS
  <1>1. ASSUME NEW f \in Flags, Open(f) PROVE Parts'
    <2>1. UNCHANGED <<job, got, busyAtCall, params, ap_start, rd, input, out>>
      BY <1>1 DEF Open
    <2>2. ret' # "ok" /\ pc' \in {Down, Ready, "assign", "assign_low"}
      BY <1>1 DEF Open
    <2> QED
      BY <2>1, <2>2, CallMove
  <1>2. ASSUME Refuse PROVE Parts'
    <2>1. UNCHANGED <<pc, job, got, busyAtCall, params, ap_start, rd, input, out>>
      BY <1>2 DEF Refuse
    <2>2. ret' # "ok" /\ pc' = Ready
      BY <1>2 DEF Refuse
    <2> QED
      BY <2>1, <2>2, CallMove
  <1>3. ASSUME Call PROVE Parts'
    <2>1. pc' = "params" /\ ret' = "none" /\ word' = 1
      BY <1>3 DEF Call
    <2>2. busyAtCall' = ap_start' /\ ap_start' = ap_start
      BY <1>3 DEF Call
    <2>3. ResultsIdle' /\ Written' /\ Running' /\ Returned'
      BY <2>1 DEF ResultsIdle, Written, Running, Returned, Started
    <2>4. ~busyAtCall' => Writing'
      BY <2>1, <2>2 DEF Writing, Idle
    <2> QED
      BY <2>3, <2>4 DEF Parts
  <1>4. ASSUME Close \/ Kill PROVE Parts'
    <2>1. UNCHANGED <<job, ret, got, busyAtCall, params, ap_start, rd, input, out>>
      BY <1>4 DEF Close, Kill, Leave
    <2>2. pc' = Down
      BY <1>4 DEF Close, Kill, Leave
    <2> QED
      BY <2>1, <2>2, CallMove
  <1>5. ASSUME PollTimeout PROVE Parts'
    <2>1. UNCHANGED <<job, got, busyAtCall, params, ap_start, rd, input, out>>
      BY <1>5 DEF PollTimeout, TimedOut
    <2>2. ret' # "ok" /\ pc' = Ready
      BY <1>5 DEF PollTimeout, TimedOut
    <2> QED
      BY <2>1, <2>2, CallMove
  <1>6. ASSUME AssignIrq PROVE Parts'
    <2>1. UNCHANGED <<job, ret, got, busyAtCall, params, ap_start, rd, input, out>>
      BY <1>6 DEF AssignIrq
    <2>2. pc' \in {Ready, "assign_low"}
      BY <1>6 DEF AssignIrq
    <2> QED
      BY <2>1, <2>2, CallMove
  <1>7. ASSUME WriteParam PROVE Parts'
    <2>1. pc = "params" /\ pc' = "params" /\ word \in Words /\ word' = word + 1
      BY <1>7 DEF WriteParam, TypeOK, Words
    <2>2. UNCHANGED <<job, ret, got, busyAtCall, ap_start>>
      BY <1>7 DEF WriteParam
    <2>3. params' = [params EXCEPT ![word] = job]
      BY <1>7 DEF WriteParam
    <2>4. ResultsIdle' /\ Written' /\ Running'
      BY <2>1 DEF ResultsIdle, Written, Running, Started
    <2>5. Returned => Returned'
      BY <2>2 DEF Returned, Own
    <2>6. ASSUME Writing PROVE Writing'
      <3>1. Idle'
        BY <2>1, <2>2, <2>6 DEF Writing, Idle
      <3>2. ASSUME NEW w \in 1 .. word' - 1 PROVE params'[w] = job'
        <4>1. w \in Words /\ w \in 1 .. word
          BY <2>1, <3>2 DEF Words
        <4>2. params \in [Words -> 0 .. NJob]
          BY DEF TypeOK
        <4>3. CASE w = word
          BY <4>1, <4>2, <4>3, <2>2, <2>3
        <4>4. CASE w # word
          <5>1. w \in 1 .. word - 1
            BY <4>1, <4>4, <2>1 DEF Words
          <5>2. params[w] = job
            BY <5>1, <2>1, <2>6 DEF Writing
          <5> QED
            BY <5>2, <4>1, <4>2, <4>4, <2>2, <2>3
        <4> QED
          BY <4>3, <4>4
      <3> QED
        BY <3>1, <3>2 DEF Writing
    <2> QED
      BY <2>2, <2>4, <2>5, <2>6 DEF Parts
  <1>8. ASSUME StartIrq PROVE Parts'
    <2>1. pc = "params" /\ pc' = "irq_control" /\ word > NWord
      BY <1>8 DEF StartIrq
    <2>2. UNCHANGED <<job, ret, got, busyAtCall, params, ap_start>>
      BY <1>8 DEF StartIrq
    <2>3. ResultsIdle' /\ Writing' /\ Running'
      BY <2>1 DEF ResultsIdle, Writing, Running, Started
    <2>4. Returned => Returned'
      BY <2>2 DEF Returned, Own
    <2>5. ASSUME Writing PROVE Written'
      <3>1. params = Own
        <4>1. \A w \in 1 .. NWord : params[w] = job
          BY <2>1, <2>5 DEF Writing, TypeOK
        <4> QED
          BY <4>1, OwnWords DEF TypeOK
      <3> QED
        BY <3>1, <2>1, <2>2, <2>5 DEF Writing, Written, Idle, Own
    <2> QED
      BY <2>2, <2>3, <2>4, <2>5 DEF Parts
  <1>9. ASSUME EnableIrq PROVE Parts'
    <2>1. pc = "irq_control" /\ pc' = "start"
      BY <1>9 DEF EnableIrq
    <2>2. UNCHANGED <<job, ret, got, busyAtCall, params, ap_start>>
      BY <1>9 DEF EnableIrq
    <2> QED
      BY <2>1, <2>2 DEF Parts, ResultsIdle, Writing, Written, Running, Returned, Idle, Own, Started
  <1>10. ASSUME Start PROVE Parts'
    <2>1. pc \in {"params", "start"} /\ (pc = "params" => word > NWord)
      BY <1>10 DEF Start
    <2>2. pc' \in {"wait_irq", "poll"} /\ ap_start' = TRUE /\ (~ap_start => rd' = 0)
      BY <1>10 DEF Start
    <2>3. UNCHANGED <<job, ret, got, busyAtCall, params>>
      BY <1>10 DEF Start
    <2>4. ResultsIdle' /\ Writing' /\ Written'
      BY <2>2 DEF ResultsIdle, Writing, Written
    <2>5. Returned => Returned'
      BY <2>3 DEF Returned, Own
    <2>6. ASSUME Writing, Written PROVE Running'
      <3>1. params = Own
        <4>1. CASE pc = "params"
          <5>1. \A w \in 1 .. NWord : params[w] = job
            BY <2>1, <4>1, <2>6 DEF Writing, TypeOK
          <5> QED
            BY <5>1, OwnWords DEF TypeOK
        <4>2. CASE pc = "start"
          BY <4>2, <2>6 DEF Written
        <4> QED
          BY <2>1, <4>1, <4>2
      <3>2. params' = Own'
        BY <3>1, <2>3 DEF Own
      <3>3. ~ap_start
        BY <2>1, <2>6 DEF Writing, Written, Idle
      <3>4. \A w \in 1 .. rd' : input'[w] = job'
        BY <3>3, <2>2
      <3> QED
        BY <3>2, <3>4, <2>2 DEF Running, Idle
    <2> QED
      BY <2>3, <2>4, <2>5, <2>6 DEF Parts
  <1>11. ASSUME Poll \/ CheckIdle PROVE Parts'
    <2>1. UNCHANGED <<job, got, busyAtCall, params, ap_start, rd, input, out>>
      BY <1>11 DEF Poll, CheckIdle, TimedOut
    <2>2. CASE pc' = "results"
      <3>1. Idle /\ pc \in Started /\ ret' = ret
        BY <1>11, <2>2 DEF Poll, CheckIdle, TimedOut, Started, Ready
      <3> QED
        BY <3>1, <2>1, <2>2
        DEF Parts, ResultsIdle, Writing, Written, Running, Returned, Idle, Own, Started
    <2>3. CASE pc' # "results"
      <3>1. pc' = Ready /\ ret' # "ok"
        BY <1>11, <2>3 DEF Poll, CheckIdle, TimedOut
      <3> QED
        BY <3>1, <2>1, CallMove
    <2> QED
      BY <2>2, <2>3
  <1>12. ASSUME WaitIrq \/ ClearStatus \/ IrqAppOff \/ IrqControlOff PROVE Parts'
    <2>1. UNCHANGED <<job, ret, got, busyAtCall, params, ap_start, rd, input, out>>
      BY <1>12 DEF WaitIrq, ClearStatus, IrqAppOff, IrqControlOff
    <2>2. pc \in Started /\ pc' \in Started \ {"results"}
      BY <1>12 DEF WaitIrq, ClearStatus, IrqAppOff, IrqControlOff, Started
    <2> QED
      BY <2>1, <2>2, CallMove
  <1>13. ASSUME ReadResults PROVE Parts'
    <2>1. pc = "results" /\ pc' = Ready /\ got' = out
      BY <1>13 DEF ReadResults
    <2>2. UNCHANGED <<job, busyAtCall>>
      BY <1>13 DEF ReadResults
    <2>3. ResultsIdle' /\ Writing' /\ Written' /\ Running'
      BY <2>1 DEF ResultsIdle, Writing, Written, Running, Started, Ready
    <2>4. ~busyAtCall => out = Own
      BY <2>1 DEF Parts, ResultsIdle, Running, Started
    <2>5. ~busyAtCall => Returned'
      BY <2>1, <2>2, <2>4 DEF Returned, Own
    <2> QED
      BY <2>2, <2>3, <2>5 DEF Parts
  <1>14. ASSUME KernelRead PROVE Parts'
    <2>1. ap_start /\ rd' = rd + 1 /\ rd \in 0 .. NWord /\ rd + 1 \in Words
      BY <1>14 DEF KernelRead, TypeOK, Words
    <2>2. UNCHANGED <<pc, job, word, ret, got, busyAtCall, params, ap_start, out>>
      BY <1>14 DEF KernelRead
    <2>3. input' = [input EXCEPT ![rd + 1] = params[rd + 1]] /\ input \in [Words -> 0 .. NJob]
      BY <1>14 DEF KernelRead, TypeOK
    <2>4. ASSUME Running PROVE Running'
      <3>1. SUFFICES ASSUME pc \in Started
                     PROVE  params = Own /\ \A w \in 1 .. rd + 1 : input'[w] = job
        BY <2>1, <2>2 DEF Running, Idle, Own, Started
      <3>2. params = Own /\ \A w \in 1 .. rd : input[w] = job
        BY <2>1, <2>4, <3>1 DEF Running, Idle
      <3>3. ASSUME NEW w \in 1 .. rd + 1 PROVE input'[w] = job
        <4>1. w \in Words
          BY <2>1 DEF Words
        <4>2. CASE w = rd + 1
          BY <2>3, <3>2, <4>1, <4>2 DEF Own
        <4>3. CASE w # rd + 1
          <5>1. w \in 1 .. rd
            BY <2>1, <4>3
          <5> QED
            BY <5>1, <2>3, <3>2, <4>1, <4>3
        <4> QED
          BY <4>2, <4>3
      <3> QED
        BY <3>2, <3>3
    <2> QED
      BY <2>2, <2>4 DEF Parts, ResultsIdle, Writing, Written, Returned, Idle, Own
  <1>15. ASSUME KernelDone PROVE Parts'
    <2>1. ap_start /\ rd = NWord /\ ap_start' = FALSE /\ out' = input
      BY <1>15 DEF KernelDone
    <2>2. UNCHANGED <<pc, job, word, ret, got, busyAtCall, params>>
      BY <1>15 DEF KernelDone
    <2>3. ASSUME Running PROVE Running'
      <3>1. SUFFICES ASSUME pc \in Started PROVE params = Own /\ input = Own
        BY <2>1, <2>2 DEF Running, Idle, Own, Started
      <3>2. params = Own /\ \A w \in 1 .. NWord : input[w] = job
        BY <2>1, <2>3, <3>1 DEF Running, Idle
      <3> QED
        BY <3>2, OwnWords DEF TypeOK
    <2>4. ResultsIdle' /\ (Writing => Writing') /\ (Written => Written') /\ (Returned => Returned')
      BY <2>1, <2>2 DEF ResultsIdle, Writing, Written, Returned, Idle, Own
    <2> QED
      BY <2>2, <2>3, <2>4 DEF Parts
  <1>16. ASSUME Deliver \/ Answer \/ Fault \/ UNCHANGED vars PROVE Parts'
    <2>1. UNCHANGED <<pc, job, word, ret, got, busyAtCall, params, ap_start, rd, input, out>>
      BY <1>16 DEF Deliver, Answer, Fault, vars
    <2> QED
      BY <2>1, CallFrame
  <1> QED
    BY <1>1, <1>2, <1>3, <1>4, <1>5, <1>6, <1>7, <1>8, <1>9, <1>10, <1>11, <1>12, <1>13,
       <1>14, <1>15, <1>16
    DEF Next, Host, Action

\* From the call to its return an action found idle holds this job's words
\* only, in every interleaving with kills, timeouts and late interrupts of
\* earlier calls.
THEOREM CallsIsolated == Spec => []CallInvariant
  <1>1. Init => TypeOK /\ Parts
    BY TypeInit, CallInit
  <1>2. TypeOK /\ Parts /\ [Next]_vars => (TypeOK /\ Parts)'
    BY TypeStep, CallStep
  <1>3. TypeOK /\ Parts => CallInvariant
    BY CallParts
  <1> QED
    BY <1>1, <1>2, <1>3, PTL DEF Spec

\* A call that found the action idle and reports success returns the results
\* of its own job.
THEOREM SuccessFromIdle == Spec => []IdleCallSucceedsOwn
  <1>1. CallInvariant => IdleCallSucceedsOwn
    BY DEF CallInvariant, IdleCallSucceedsOwn
  <1> QED
    BY <1>1, CallsIsolated, PTL

-----------------------------------------------------------------------------
(* Calm surroundings: no poll runs into its timeout, nobody is killed, the *)
(* host reports no translation fault and answers an interrupt as it        *)
(* delivers it.  Then every call hands the action back as it found it, so  *)
(* that the next one finds it idle.                                        *)

CalmSurroundings == MayTimeout = FALSE /\ MayKill = FALSE /\ LateAnswer = FALSE /\ NFault = 0

\* The states of the interrupt path: nothing under way; a request on its way
\* to the process; an event in its queue; an event that it has read.
Quiet   == ~isr /\ ~seen /\ path = "idle" /\ request = 0 /\ events = <<>>
Raised  == isr /\ seen /\ ~ap_start
Pending == Raised /\ path = "busy" /\ request = proc /\ events = <<>>
Told    == Raised /\ path = "idle" /\ request = 0 /\ events = <<proc>>
Taken   == Raised /\ path = "idle" /\ request = 0 /\ events = <<>>

\* Where the interrupts are enabled, by the library's place in a call.
DoneEnabled == {"irq_control", "start", "wait_irq", "irq_status", "irq_app_off"}
LineEnabled == {"start", "wait_irq", "irq_status", "irq_app_off", "irq_control_off"}
Unassigned  == {Down, "assign", "assign_low"}

Enables ==
    /\ ier <=> pc \in DoneEnabled
    /\ gie <=> pc \in LineEnabled

IrqPath ==
    /\ pc = "wait_irq" => (Quiet /\ ap_start) \/ Pending \/ Told
    /\ pc = "irq_status" => Taken
    /\ pc \notin {"wait_irq", "irq_status"} => Quiet

Control ==
    /\ ap_start => pc \in {"poll", "wait_irq"}
    /\ ~busyAtCall
    /\ ret # "ETIMEDOUT"

Handle ==
    /\ pc \in DoneEnabled \cup LineEnabled \cup {"check"} => flags = "irq"
    /\ flags = "irq" /\ pc \notin Unassigned => irq_src = proc
    /\ pc # Down => proc # 0

CalmInv == Enables /\ IrqPath /\ Control /\ Handle

\* Before the first process nothing is under way.
LEMMA CalmInit == Init => CalmInv
  BY DEF Init, CalmInv, Enables, IrqPath, Control, Handle, Quiet, DoneEnabled, LineEnabled, Unassigned,
         Down

\* A step of the process to a place where the interrupts are enabled as before
\* and nothing is under way.
LEMMA CalmMove ==
    ASSUME CalmInv, pc \notin {"wait_irq", "irq_status"}, pc' \notin {"wait_irq", "irq_status"},
           UNCHANGED <<ier, gie, isr, seen, path, request, events>>,
           pc \in DoneEnabled <=> pc' \in DoneEnabled, pc \in LineEnabled <=> pc' \in LineEnabled
    PROVE  Enables' /\ IrqPath'
  BY DEF CalmInv, Enables, IrqPath, Quiet

\* In calm surroundings every step keeps the call and the interrupt path in
\* step with each other.
LEMMA CalmStep ==
    ASSUME CalmSurroundings, TypeOK, CalmInv, [Next]_vars
    PROVE  CalmInv'
  <1> USE DEF Down, Ready
  <1>1. ASSUME NEW f \in Flags, Open(f) PROVE CalmInv'
    <2>1. pc = Down /\ pc' \in {"assign", Ready} /\ (f = "irq" => pc' = "assign")
      BY <1>1 DEF Open
    <2>2. UNCHANGED <<ier, gie, isr, seen, path, request, ap_start, busyAtCall, irq_src>> /\ events' = <<>>
      BY <1>1 DEF Open, HwUnchanged, kernelVars, irqVars, pathVars
    <2>3. proc' = proc + 1 /\ flags' = f /\ ret' = "none" /\ proc \in Nat
      BY <1>1 DEF Open, TypeOK
    <2>4. events' = events
      BY <2>1, <2>2 DEF CalmInv, IrqPath, Quiet
    <2>5. Enables' /\ IrqPath'
      BY <2>1, <2>2, <2>4, CalmMove DEF DoneEnabled, LineEnabled
    <2>6. Control'
      BY <2>1, <2>2, <2>3 DEF CalmInv, Control
    <2>7. Handle'
      BY <2>1, <2>3 DEF Handle, DoneEnabled, LineEnabled, Unassigned
    <2> QED
      BY <2>5, <2>6, <2>7 DEF CalmInv
  <1>2. ASSUME AssignIrq PROVE CalmInv'
    <2>1. \/ pc = "assign" /\ pc' = "assign_low"
          \/ pc = "assign_low" /\ pc' = Ready /\ irq_src' = proc
      BY <1>2 DEF AssignIrq
    <2>2. UNCHANGED <<ier, gie, isr, seen, path, request, ap_start, busyAtCall, events, flags, proc, ret>>
      BY <1>2 DEF AssignIrq, hostVars, kernelVars, irqVars, pathVars, driverVars
    <2>3. Enables' /\ IrqPath'
      BY <2>1, <2>2, CalmMove DEF DoneEnabled, LineEnabled
    <2>4. Control'
      BY <2>1, <2>2 DEF CalmInv, Control
    <2>5. Handle'
      BY <2>1, <2>2 DEF CalmInv, Handle, DoneEnabled, LineEnabled, Unassigned
    <2> QED
      BY <2>3, <2>4, <2>5 DEF CalmInv
  <1>3. ASSUME Refuse \/ Call \/ WriteParam PROVE CalmInv'
    <2>1. (pc = Ready /\ pc' \in {Ready, "params"}) \/ (pc = "params" /\ pc' = "params")
      BY <1>3 DEF Refuse, Call, WriteParam
    <2>2. UNCHANGED <<ier, gie, isr, seen, path, request, ap_start, events, flags, proc, irq_src>>
      BY <1>3 DEF Refuse, Call, WriteParam, HwUnchanged, kernelVars, irqVars, pathVars, driverVars
    <2>3. ret' = ret \/ ret' \in {"none", "EINVAL"}
      BY <1>3 DEF Refuse, Call, WriteParam
    <2>4. busyAtCall' = busyAtCall \/ busyAtCall' = ap_start
      BY <1>3 DEF Refuse, Call, WriteParam
    <2>5. ~ap_start
      BY <2>1 DEF CalmInv, Control
    <2>6. Enables' /\ IrqPath'
      BY <2>1, <2>2, CalmMove DEF DoneEnabled, LineEnabled
    <2>7. Control'
      BY <2>2, <2>3, <2>4, <2>5 DEF CalmInv, Control
    <2>8. Handle'
      BY <2>1, <2>2 DEF CalmInv, Handle, DoneEnabled, LineEnabled, Unassigned
    <2> QED
      BY <2>6, <2>7, <2>8 DEF CalmInv
  <1>4. ASSUME StartIrq PROVE CalmInv'
    <2>1. pc = "params" /\ pc' = "irq_control" /\ flags = "irq" /\ ier' = TRUE
      BY <1>4 DEF StartIrq
    <2>2. UNCHANGED <<gie, isr, seen, path, request, ap_start, events, flags, proc, irq_src, ret, busyAtCall>>
      BY <1>4 DEF StartIrq, hostVars, kernelVars, pathVars, driverVars
    <2>3. Enables' /\ IrqPath'
      BY <2>1, <2>2 DEF CalmInv, Enables, IrqPath, Quiet, DoneEnabled, LineEnabled
    <2>4. Control' /\ Handle'
      BY <2>1, <2>2 DEF CalmInv, Control, Handle, DoneEnabled, LineEnabled, Unassigned
    <2> QED
      BY <2>3, <2>4 DEF CalmInv
  <1>5. ASSUME EnableIrq PROVE CalmInv'
    <2>1. pc = "irq_control" /\ pc' = "start" /\ gie' = TRUE
      BY <1>5 DEF EnableIrq
    <2>2. UNCHANGED <<ier, isr, ap_start, events, flags, proc, irq_src, ret, busyAtCall>>
      BY <1>5 DEF EnableIrq, hostVars, kernelVars, driverVars
    <2>3. Quiet
      BY <2>1 DEF CalmInv, IrqPath
    <2>4. seen' = FALSE /\ path' = path /\ request' = request
      BY <1>5, <2>3 DEF EnableIrq, Interrupt, Quiet
    <2>5. Enables' /\ IrqPath'
      BY <2>1, <2>2, <2>3, <2>4 DEF CalmInv, Enables, IrqPath, Quiet, DoneEnabled, LineEnabled
    <2>6. Control' /\ Handle'
      BY <2>1, <2>2 DEF CalmInv, Control, Handle, DoneEnabled, LineEnabled, Unassigned
    <2> QED
      BY <2>5, <2>6 DEF CalmInv
  <1>6. ASSUME Start PROVE CalmInv'
    <2>1. /\ pc = "start" \/ (pc = "params" /\ flags = "poll")
          /\ pc' = IF flags = "irq" THEN "wait_irq" ELSE "poll"
          /\ ap_start' = TRUE
      BY <1>6 DEF Start
    <2>2. UNCHANGED <<ier, gie, isr, seen, path, request, events, flags, proc, irq_src, ret, busyAtCall>>
      BY <1>6 DEF Start, hostVars, irqVars, pathVars, driverVars
    <2>3. pc = "start" => flags = "irq"
      BY DEF CalmInv, Handle, DoneEnabled
    <2>4. Quiet
      BY <2>1 DEF CalmInv, IrqPath
    <2>5. Enables' /\ IrqPath'
      BY <2>1, <2>2, <2>3, <2>4 DEF CalmInv, Enables, IrqPath, Quiet, DoneEnabled, LineEnabled
    <2>6. Control'
      BY <2>1, <2>2 DEF CalmInv, Control
    <2>7. Handle'
      BY <2>1, <2>2, <2>3 DEF CalmInv, Handle, DoneEnabled, LineEnabled, Unassigned
    <2> QED
      BY <2>5, <2>6, <2>7 DEF CalmInv
  <1>7. ASSUME Poll \/ CheckIdle \/ ReadResults \/ Close PROVE CalmInv'
    <2>1. \/ pc = "poll" /\ pc' = "results"
          \/ pc = "check" /\ pc' \in {"results", Ready} /\ (pc' = Ready => ap_start)
          \/ pc = "results" /\ pc' = Ready
          \/ pc = Ready /\ pc' = Down
      BY <1>7 DEF Poll, CheckIdle, ReadResults, Close, Leave, TimedOut, Idle
    <2>2. ~ap_start
      <3>1. CASE pc = "poll"
        BY <1>7, <3>1 DEF Poll, Idle, CheckIdle, ReadResults, Close
      <3>2. CASE pc # "poll"
        BY <2>1, <3>2 DEF CalmInv, Control
      <3> QED
        BY <3>1, <3>2
    <2>3. UNCHANGED <<ier, gie, isr, seen, path, request, ap_start, flags, proc, irq_src, busyAtCall>>
      BY <1>7 DEF Poll, CheckIdle, ReadResults, Close, Leave, TimedOut, HwUnchanged, hostVars, kernelVars,
                  irqVars, pathVars
    <2>4. ret' \in {ret, "ok"} /\ events' \in {events, <<>>}
      BY <1>7, <2>2 DEF Poll, CheckIdle, ReadResults, Close, Leave, TimedOut, Idle, hostVars, driverVars
    <2>5. events = <<>>
      BY <2>1 DEF CalmInv, IrqPath, Quiet
    <2>6. Enables' /\ IrqPath'
      BY <2>1, <2>3, <2>4, <2>5, CalmMove DEF DoneEnabled, LineEnabled
    <2>7. Control'
      BY <2>2, <2>3, <2>4 DEF CalmInv, Control
    <2>8. Handle'
      BY <2>1, <2>3 DEF CalmInv, Handle, DoneEnabled, LineEnabled, Unassigned
    <2> QED
      BY <2>6, <2>7, <2>8 DEF CalmInv
  <1>8. ASSUME WaitIrq PROVE CalmInv'
    <2>1. pc = "wait_irq" /\ events # <<>>
      BY <1>8 DEF WaitIrq
    <2>2. Told
      BY <2>1 DEF CalmInv, IrqPath, Quiet, Pending
    <2>3. Head(events) = proc /\ Tail(events) = <<>>
      BY <2>2 DEF Told
    <2>4. pc' = "irq_status" /\ events' = <<>>
      BY <1>8, <2>3 DEF WaitIrq
    <2>5. UNCHANGED <<ier, gie, isr, seen, path, request, ap_start, flags, proc, irq_src, ret, busyAtCall>>
      BY <1>8 DEF WaitIrq, HwUnchanged, hostVars, kernelVars, irqVars, pathVars
    <2>6. Taken'
      BY <2>2, <2>4, <2>5 DEF Told, Taken, Raised
    <2>7. Enables' /\ IrqPath'
      BY <2>1, <2>4, <2>5, <2>6 DEF CalmInv, Enables, IrqPath, DoneEnabled, LineEnabled
    <2>8. Control'
      BY <2>2, <2>5 DEF CalmInv, Control, Told, Raised
    <2>9. Handle'
      BY <2>1, <2>4, <2>5 DEF CalmInv, Handle, DoneEnabled, LineEnabled, Unassigned
    <2> QED
      BY <2>7, <2>8, <2>9 DEF CalmInv
  <1>9. ASSUME ClearStatus PROVE CalmInv'
    <2>1. pc = "irq_status" /\ pc' = "irq_app_off" /\ isr' = ~isr
      BY <1>9 DEF ClearStatus
    <2>2. Taken
      BY <2>1 DEF CalmInv, IrqPath
    <2>3. UNCHANGED <<ier, gie, events, ap_start, flags, proc, irq_src, ret, busyAtCall>>
      BY <1>9 DEF ClearStatus, hostVars, kernelVars, driverVars
    <2>4. ~isr' /\ seen' = FALSE /\ path' = path /\ request' = request
      BY <1>9, <2>2 DEF ClearStatus, Interrupt, Taken, Raised
    <2>5. Quiet'
      BY <2>2, <2>3, <2>4 DEF Quiet, Taken
    <2>6. Enables' /\ IrqPath'
      BY <2>1, <2>3, <2>5 DEF CalmInv, Enables, IrqPath, DoneEnabled, LineEnabled
    <2>7. Control'
      BY <2>2, <2>3 DEF CalmInv, Control, Taken, Raised
    <2>8. Handle'
      BY <2>1, <2>3 DEF CalmInv, Handle, DoneEnabled, LineEnabled, Unassigned
    <2> QED
      BY <2>6, <2>7, <2>8 DEF CalmInv
  <1>10. ASSUME IrqAppOff \/ IrqControlOff PROVE CalmInv'
    <2>1. \/ pc = "irq_app_off" /\ pc' = "irq_control_off" /\ ier' = FALSE /\ gie' = gie
          \/ pc = "irq_control_off" /\ pc' = "check" /\ gie' = FALSE /\ ier' = ier
      BY <1>10 DEF IrqAppOff, IrqControlOff
    <2>2. UNCHANGED <<isr, events, ap_start, flags, proc, irq_src, ret, busyAtCall>>
      BY <1>10 DEF IrqAppOff, IrqControlOff, hostVars, kernelVars, driverVars
    <2>3. Quiet
      BY <2>1 DEF CalmInv, IrqPath
    <2>4. ~seen' /\ path' = path /\ request' = request
      BY <1>10, <2>3 DEF IrqAppOff, IrqControlOff, Interrupt, Quiet, pathVars
    <2>5. Enables' /\ IrqPath'
      BY <2>1, <2>2, <2>3, <2>4 DEF CalmInv, Enables, IrqPath, Quiet, DoneEnabled, LineEnabled
    <2>6. Control'
      BY <2>1, <2>2 DEF CalmInv, Control
    <2>7. Handle'
      BY <2>1, <2>2 DEF CalmInv, Handle, DoneEnabled, LineEnabled, Unassigned
    <2> QED
      BY <2>5, <2>6, <2>7 DEF CalmInv
  <1>11. ASSUME KernelRead PROVE CalmInv'
    <2>1. UNCHANGED <<pc, ier, gie, isr, seen, path, request, ap_start, events, flags, proc, irq_src, ret,
                      busyAtCall>>
      BY <1>11 DEF KernelRead, hostVars, irqVars, pathVars, driverVars
    <2> QED
      BY <2>1 DEF CalmInv, Enables, IrqPath, Control, Handle, Quiet, Pending, Told, Taken, Raised
  <1>12. ASSUME KernelDone PROVE CalmInv'
    <2>1. ap_start /\ ap_start' = FALSE /\ isr' = (isr \/ ier)
      BY <1>12 DEF KernelDone
    <2>2. UNCHANGED <<pc, ier, gie, events, flags, proc, irq_src, ret, busyAtCall>>
      BY <1>12 DEF KernelDone, hostVars, driverVars
    <2>3. pc \in {"poll", "wait_irq"} /\ Quiet
      BY <2>1 DEF CalmInv, Control, IrqPath, Pending, Told, Raised
    <2>4. CASE pc = "poll"
      <3>1. ~ier /\ ~gie
        BY <2>4 DEF CalmInv, Enables, DoneEnabled, LineEnabled
      <3>2. ~isr' /\ ~seen' /\ path' = path /\ request' = request
        BY <1>12, <2>1, <2>3, <3>1 DEF KernelDone, Interrupt, Quiet
      <3>3. Quiet'
        BY <2>2, <2>3, <3>2 DEF Quiet
      <3> QED
        BY <2>1, <2>2, <2>4, <3>3 DEF CalmInv, Enables, IrqPath, Control, Handle
    <2>5. CASE pc = "wait_irq"
      <3>1. ier /\ gie /\ flags = "irq" /\ irq_src = proc
        BY <2>5 DEF CalmInv, Enables, Handle, DoneEnabled, LineEnabled, Unassigned
      <3>2. isr'
        BY <2>1, <3>1
      <3>3. seen' = TRUE /\ path' = "busy" /\ request' = proc
        BY <1>12, <2>3, <3>1, <3>2 DEF KernelDone, Interrupt, Quiet, pathVars
      <3>4. Pending'
        BY <2>1, <2>2, <2>3, <3>2, <3>3 DEF Quiet, Pending, Raised
      <3> QED
        BY <2>1, <2>2, <2>5, <3>4 DEF CalmInv, Enables, IrqPath, Control, Handle
    <2> QED
      BY <2>3, <2>4, <2>5
  <1>13. ASSUME Deliver PROVE CalmInv'
    <2>1. request # 0
      BY <1>13 DEF Deliver
    <2>2. pc = "wait_irq" /\ Pending
      BY <2>1 DEF CalmInv, IrqPath, Quiet, Told, Taken
    <2>3. UNCHANGED <<pc, ier, gie, isr, seen, ap_start, flags, proc, irq_src, ret, busyAtCall>>
      BY <1>13 DEF Deliver, hostVars, kernelVars, irqVars
    <2>4. request' = 0 /\ events' = <<proc>> /\ path' = "idle"
      <3>1. events' = Append(events, request) /\ path' = Answered
        BY <1>13, <2>2 DEF Deliver, Pending, CalmSurroundings
      <3>2. Append(events, request) = <<proc>>
        BY <2>2 DEF Pending
      <3>3. Answered = "idle"
        BY <2>2 DEF Answered, Pending, Raised
      <3> QED
        BY <1>13, <3>1, <3>2, <3>3 DEF Deliver
    <2>5. Told'
      BY <2>2, <2>3, <2>4 DEF Told, Pending, Raised
    <2> QED
      BY <2>2, <2>3, <2>5 DEF CalmInv, Enables, IrqPath, Control, Handle
  <1>14. ASSUME UNCHANGED vars PROVE CalmInv'
    BY <1>14 DEF vars, hostVars, kernelVars, irqVars, pathVars, driverVars, CalmInv, Enables, IrqPath,
                 Control, Handle, Quiet, Pending, Told, Taken, Raised
  <1>15. ~Kill /\ ~PollTimeout /\ ~Answer
    BY DEF CalmSurroundings, Kill, PollTimeout, Answer
  <1>16. ~Fault
    BY DEF CalmSurroundings, Fault, TypeOK
  <1> QED
    BY <1>1, <1>2, <1>3, <1>4, <1>5, <1>6, <1>7, <1>8, <1>9, <1>10, <1>11, <1>12, <1>13, <1>14, <1>15, <1>16
    DEF Next, Host, Action

\* In calm surroundings the library's place in the call says what the action
\* and the interrupt path do.
THEOREM CalmCalls ==
    ASSUME CalmSurroundings
    PROVE  Spec => []CalmInv
  <1>1. TypeOK /\ CalmInv /\ [Next]_vars => CalmInv'
    BY CalmStep
  <1> QED
    BY CalmInit, <1>1, TypeCorrect, PTL DEF Spec

\* A call hands the action back idle, with the interrupts off, no status left
\* and no event in the queue.
THEOREM HandsBack ==
    ASSUME CalmSurroundings
    PROVE  Spec => []HandBack
  <1>1. CalmInv => HandBack
    BY DEF CalmInv, Enables, IrqPath, Control, Quiet, HandBack, Ready, DoneEnabled, LineEnabled
  <1> QED
    BY CalmCalls, <1>1, PTL

\* A call that waits for the interrupt does not report a timeout.
THEOREM IrqWaitsForDone ==
    ASSUME CalmSurroundings
    PROVE  Spec => []NoIrqTimeout
  <1>1. CalmInv => NoIrqTimeout
    BY DEF CalmInv, Control, NoIrqTimeout
  <1> QED
    BY CalmCalls, <1>1, PTL

\* Every call that succeeds returns its own results: it found the action idle.
THEOREM CalmSuccess ==
    ASSUME CalmSurroundings
    PROVE  Spec => []SuccessIsOwn
  <1>1. CalmInv /\ IdleCallSucceedsOwn => SuccessIsOwn
    BY DEF CalmInv, Control, IdleCallSucceedsOwn, SuccessIsOwn
  <1> QED
    BY CalmCalls, SuccessFromIdle, <1>1, PTL
=============================================================================
