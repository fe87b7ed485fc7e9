------------------------ MODULE ResponseDecodeProof ------------------------
(***************************************************************************)
(* Proofs about ResponseDecode, for any halves and any number of           *)
(* translations and retries: first for a host that asks for retries of any *)
(* of its commands, then, from the section on batches on, that each half   *)
(* is retried once and reported when it is answered, for a host that asks  *)
(* either for full commands again or for partial ones.                     *)
(***************************************************************************)
EXTENDS ResponseDecode, TLAPS, FiniteSetTheorems

-----------------------------------------------------------------------------
(* The invariant.                                                          *)

\* The entry of the retry queue that is being looked at.
Held == cstate \in {"RETRY_BACKOFF", "RETRY_NOW"} \/ (cstate = "RETRY_CHECK" /\ check > 0)

\* The queue is read when it has an entry, and the entry is looked at in the
\* cycles that follow.
QueueInv ==
    /\ wr_en_dly \/ cstate = "RETRY_RELEASE" => fifo # <<>>
    /\ dout # NoRsp <=> cstate = "RETRY_CHECK" /\ check = 0
    /\ Held => entry \in Responses

\* A batch under way has commands to send; one that is over has a half.
HalfInv ==
    /\ batch # NoHalf => to_send > 0
    /\ prt_rsp_pending => prt_half \in Partial

\* Where a half is: to be sent, with the host, on its way through the retry
\* queue, reported in this cycle, or finished.
Places(h) ==
    {p \in {"todo", "host", "rsp_in", "fifo", "dout", "entry", "retry", "report", "finished"} :
        CASE p = "todo"     -> h \in todo
          [] p = "host"     -> at_host[h] > 0
          [] p = "rsp_in"   -> rsp_in.kind \in RetryKinds /\ rsp_in.half = h
          [] p = "fifo"     -> \E i \in DOMAIN fifo : fifo[i].half = h
          [] p = "dout"     -> dout.half = h
          [] p = "entry"    -> Held /\ entry.half = h
          [] p = "retry"    -> dma_resp.code = "retry" /\ dma_resp.half = h
          [] p = "report"   -> dma_resp.code \in {"good", "bad"} /\ dma_resp.half = h
          [] p = "finished" -> h \in finished}

\* A full command is in one place, once.
FullOnce ==
    /\ \A h \in Full : /\ at_host[h] <= 1
                       /\ \A p, q \in Places(h) : p = q
    /\ \A i, j \in DOMAIN fifo : fifo[i].half \in Full /\ fifo[i].half = fifo[j].half => i = j

\* What went wrong with a full command is known from its report on.
FullFailed ==
    \A h \in Full :
        /\ h \in failed => h \in finished \/ dma_resp = [code |-> "bad", half |-> h]
        /\ dma_resp = [code |-> "bad", half |-> h] => h \in failed

DecodeInv == QueueInv /\ HalfInv /\ FullOnce /\ FullFailed

-----------------------------------------------------------------------------
(* A cycle.                                                                *)

\* No half is the one that stands for none.
LEMMA NoHalfIsNone ==
    /\ NoHalf \notin Halves /\ NoRsp \notin Responses
    /\ NoRsp.kind = "none" /\ NoRsp.half = NoHalf
    /\ Partial \subseteq Halves /\ Full \subseteq Halves /\ Partial \cap Full = {}
  <1>1. NoHalf \notin Halves
    BY RetryAssumption DEF RetryAssumption, NoHalf
  <1>2. NoRsp.kind = "none" /\ NoRsp.half = NoHalf
    BY DEF NoRsp
  <1>3. NoRsp \notin Responses
    BY <1>1, <1>2 DEF Responses
  <1> QED BY <1>1, <1>2, <1>3 DEF Partial, Full

\* What the latched response is.
LEMMA AnswerFacts ==
    ASSUME NEW rsp \in Answers, TypeOK
    PROVE  /\ rsp \in Responses \cup {NoRsp}
           /\ rsp # NoRsp => rsp.half \in Halves
           /\ rsp.kind \in Kinds \cup {"none"}
           /\ rsp.kind = "none" => rsp = NoRsp
           /\ rsp.kind \in RetryKinds \cup {"done", "failed"} =>
                 rsp.half \in Halves /\ at_host[rsp.half] > 0
           /\ rsp.kind \in XlateKinds => rsp.half \in Halves /\ in_xlate[rsp.half] > 0
           /\ rsp.kind \in RetryKinds => retries < MaxRetry
  <1> DEFINE G(k, h) == [kind |-> k, half |-> h]
  <1>1. regime \subseteq Halves
    BY DecodeAssumption DEF DecodeAssumption, TypeOK
  <1>2. CASE rsp = NoRsp
    BY <1>2, NoHalfIsNone DEF RetryKinds, XlateKinds
  <1>3. ASSUME NEW k \in {"done", "failed"}, NEW h \in Halves, at_host[h] > 0, rsp = G(k, h)
        PROVE  /\ rsp \in Responses /\ rsp # NoRsp /\ rsp.half = h /\ rsp.kind = k
               /\ rsp.kind \notin RetryKinds \cup XlateKinds \cup {"none"} /\ rsp.kind \in Kinds
    BY <1>3, NoHalfIsNone DEF Responses, Kinds, RetryKinds, XlateKinds
  <1>4. ASSUME NEW k \in RetryKinds, NEW h \in Halves, at_host[h] > 0, rsp = G(k, h)
        PROVE  /\ rsp \in Responses /\ rsp # NoRsp /\ rsp.half = h /\ rsp.kind = k
               /\ rsp.kind \notin XlateKinds \cup {"none"} /\ rsp.kind \in Kinds
    BY <1>4, NoHalfIsNone DEF Responses, Kinds, RetryKinds, XlateKinds
  <1>5. ASSUME NEW k \in XlateKinds, NEW h \in Halves, in_xlate[h] > 0, rsp = G(k, h)
        PROVE  /\ rsp \in Responses /\ rsp # NoRsp /\ rsp.half = h /\ rsp.kind = k
               /\ rsp.kind \notin RetryKinds \cup {"done", "failed", "none"} /\ rsp.kind \in Kinds
    BY <1>5, NoHalfIsNone DEF Responses, Kinds, RetryKinds, XlateKinds
  <1>6. CASE \E k \in {"done", "failed"}, h \in {g \in Halves : at_host[g] > 0} : rsp = G(k, h)
    <2>1. PICK k \in {"done", "failed"}, h \in {g \in Halves : at_host[g] > 0} : rsp = G(k, h)
      BY <1>6
    <2> HIDE DEF G
    <2> QED BY <2>1, <1>3
  <1>7. CASE \E k \in RetryKinds, h \in {g \in regime : at_host[g] > 0 /\ retries < MaxRetry} :
                rsp = G(k, h)
    <2>1. PICK k \in RetryKinds, h \in {g \in regime : at_host[g] > 0 /\ retries < MaxRetry} :
                  rsp = G(k, h)
      BY <1>7
    <2>2. h \in Halves /\ at_host[h] > 0 /\ retries < MaxRetry
      BY <1>1
    <2> HIDE DEF G
    <2> QED BY <2>1, <2>2, <1>4
  <1>8. CASE \E k \in XlateKinds, h \in {g \in Halves : in_xlate[g] > 0} : rsp = G(k, h)
    <2>1. PICK k \in XlateKinds, h \in {g \in Halves : in_xlate[g] > 0} : rsp = G(k, h)
      BY <1>8
    <2> HIDE DEF G
    <2> QED BY <2>1, <1>5
  <1> QED BY <1>2, <1>6, <1>7, <1>8 DEF Answers

\* The queue of the retries, whose entries are known.
LEMMA QueueStep ==
    ASSUME TypeOK, QueueInv, NEW rsp \in Answers, NEW full, NEW start, NEW prt_cmd,
           NEW elapsed \in BOOLEAN, Cycle(rsp, full, start, prt_cmd, elapsed)
    PROVE  QueueTypeOK' /\ QueueInv'
  <1>1. /\ QueueState(rty_rdy(rsp), elapsed) /\ QueueFifo(rsp) /\ XlateRam /\ Balance(rsp)
        /\ Repetition(rty_rdy(rsp), strobe_valid)
    BY DEF Cycle, Queue
  <1>2. QueueTypeOK
    BY DEF TypeOK
  <1>3. /\ cstate \in {"IDLE", "RETRY_RELEASE", "RETRY_CHECK", "RETRY_BACKOFF", "RETRY_NOW"}
        /\ check \in 0 .. 3 /\ wr_en_dly \in BOOLEAN
        /\ fifo \in Seq(Responses) /\ rsp_in \in Responses \cup {NoRsp}
        /\ dout \in Responses \cup {NoRsp} /\ entry \in Responses \cup {NoRsp}
    BY <1>2 DEF QueueTypeOK
  <1>4. /\ wr_en_dly \/ cstate = "RETRY_RELEASE" => fifo # <<>>
        /\ dout # NoRsp <=> cstate = "RETRY_CHECK" /\ check = 0
        /\ Held => entry \in Responses
    BY DEF QueueInv
  <1>5. AfterCheck \in {"IDLE", "RETRY_BACKOFF", "RETRY_NOW", "RETRY_CHECK"}
    BY <1>2 DEF AfterCheck, QueueTypeOK, XlateKinds
  <1>6. /\ cstate = "IDLE" => cstate' = IF LeaveIdle THEN "RETRY_RELEASE" ELSE "IDLE"
        /\ cstate = "RETRY_RELEASE" => cstate' = "RETRY_CHECK"
        /\ cstate = "RETRY_CHECK" => cstate' = IF check = 2 THEN AfterCheck ELSE "RETRY_CHECK"
        /\ cstate = "RETRY_BACKOFF" => cstate' = IF elapsed THEN "RETRY_NOW" ELSE "RETRY_BACKOFF"
        /\ cstate = "RETRY_NOW" => cstate' = IF rty_rdy(rsp) THEN "IDLE" ELSE "RETRY_NOW"
        /\ check' = IF cstate # "RETRY_CHECK" THEN 0 ELSE IF check < 3 THEN check + 1 ELSE 3
    BY <1>1 DEF QueueState
  <1>7. cstate' \in {"IDLE", "RETRY_RELEASE", "RETRY_CHECK", "RETRY_BACKOFF", "RETRY_NOW"}
    BY <1>3, <1>5, <1>6
  <1>8. check' \in 0 .. 3
    BY <1>3, <1>6
  <1> DEFINE wr_en == rsp_in.kind \in RetryKinds
             rest  == IF cstate = "RETRY_RELEASE" THEN Tail(fifo) ELSE fifo
  <1>9. /\ rsp_in' = rsp
        /\ fifo' = IF wr_en THEN Append(rest, rsp_in) ELSE rest
        /\ wr_en_dly' = wr_en
        /\ dout' = IF cstate = "RETRY_RELEASE" THEN Head(fifo) ELSE NoRsp
        /\ entry' = IF dout # NoRsp THEN dout ELSE entry
    BY <1>1 DEF QueueFifo
  <1>10. rest \in Seq(Responses)
    BY <1>3, <1>4
  <1>11. wr_en => rsp_in \in Responses
    BY <1>3, NoHalfIsNone DEF RetryKinds
  <1>12. cstate = "RETRY_RELEASE" => Head(fifo) \in Responses
    BY <1>3, <1>4
  <1> HIDE DEF rest
  <1>13. fifo' \in Seq(Responses) /\ (wr_en => fifo' # <<>>) /\ (~wr_en => fifo' = rest)
    BY <1>9, <1>10, <1>11
  <1>14. /\ rsp_in' \in Responses \cup {NoRsp} /\ dout' \in Responses \cup {NoRsp}
         /\ entry' \in Responses \cup {NoRsp} /\ wr_en_dly' \in BOOLEAN
    BY <1>3, <1>9, <1>12, AnswerFacts
  <1>15. cstate = "RETRY_CHECK" /\ check = 1 => entry.half.tag \in Tags
    BY <1>4 DEF Held, Responses, Tags
  <1>16. doutb' \in XlateKinds \cup {"none"}
    BY <1>1, <1>2, <1>15 DEF XlateRam, QueueTypeOK
  <1>17. ram_xlate_done' \in [Tags -> XlateKinds \cup {"none"}]
    <2>1. rsp_in.kind \in XlateKinds => rsp_in.half.tag \in Tags
      BY <1>3, NoHalfIsNone DEF XlateKinds, Responses, Tags
    <2> QED BY <1>1, <1>2, <2>1 DEF XlateRam, QueueTypeOK
  <1>18. xlate_pending_cnt' \in 0 .. PendingMod - 1
    BY <1>1, <1>2, RetryAssumption DEF Balance, QueueTypeOK, RetryAssumption
  <1>19. rep_retry_enable' \in BOOLEAN
    BY <1>1, <1>2 DEF Repetition, QueueTypeOK
  <1>20. QueueTypeOK'
    BY <1>7, <1>8, <1>13, <1>14, <1>16, <1>17, <1>18, <1>19 DEF QueueTypeOK
  <1>21. cstate' = "RETRY_RELEASE" => cstate = "IDLE" /\ LeaveIdle
    BY <1>3, <1>5, <1>6
  <1>22. LeaveIdle => fifo # <<>>
    <2>1. fifo = <<>> => Len(fifo) = 0
      BY <1>3
    <2> QED BY <2>1, <1>4 DEF LeaveIdle, fifo_retry_empty
  <1>23. wr_en_dly' \/ cstate' = "RETRY_RELEASE" => fifo' # <<>>
    <2>1. CASE wr_en
      BY <2>1, <1>13
    <2>2. CASE ~wr_en
      <3>1. ~wr_en_dly'
        BY <2>2, <1>9
      <3>2. cstate' = "RETRY_RELEASE" => fifo' = fifo /\ fifo # <<>>
        BY <2>2, <1>13, <1>21, <1>22 DEF rest
      <3> QED BY <3>1, <3>2
    <2> QED BY <2>1, <2>2
  <1>24. dout' # NoRsp <=> cstate = "RETRY_RELEASE"
    BY <1>9, <1>12, NoHalfIsNone
  <1>25. cstate' = "RETRY_CHECK" /\ check' = 0 <=> cstate = "RETRY_RELEASE"
    BY <1>3, <1>6
  <1>26. Held' => Held \/ dout # NoRsp
    BY <1>3, <1>4, <1>6 DEF Held
  <1>27. Held' => entry' \in Responses
    BY <1>3, <1>4, <1>9, <1>26
  <1> QED BY <1>20, <1>23, <1>24, <1>25, <1>27 DEF QueueInv

\* The types of the rest, and the batch.
LEMMA DecodeStep ==
    ASSUME TypeOK, QueueInv, HalfInv, NEW rsp \in Answers, NEW full, NEW start, NEW prt_cmd,
           NEW elapsed \in BOOLEAN, Cycle(rsp, full, start, prt_cmd, elapsed)
    PROVE  TypeOK' /\ HalfInv'
  <1>1. /\ rsp \in Responses \cup {NoRsp}
        /\ rsp.kind \in Kinds \cup {"none"} /\ (rsp.kind = "none" => rsp = NoRsp)
        /\ rsp # NoRsp => rsp.half \in Halves
        /\ rsp.kind \in RetryKinds \cup {"done", "failed"} =>
              rsp.half \in Halves /\ at_host[rsp.half] > 0
        /\ rsp.kind \in XlateKinds => rsp.half \in Halves /\ in_xlate[rsp.half] > 0
        /\ rsp.kind \in RetryKinds => retries < MaxRetry
    BY AnswerFacts
  <1>2. QueueTypeOK' /\ QueueInv'
    BY QueueStep
  <1>3. /\ Bookkeeper(rsp, prt_cmd) /\ BatchCode(rsp) /\ Report(rsp)
        /\ Sender(full, start, prt_cmd) /\ Host(rsp, full, prt_cmd) /\ History(rsp, full, start)
    BY DEF Cycle
  <1>4. prt_inflight_cnt' \in 0 .. 31
    <2>1. Number("valid" \in prt_cmd) \in {0, 1} /\ Number(Returned(rsp)) \in {0, 1}
      BY DEF Number
    <2>2. prt_inflight_cnt \in 0 .. 31
      BY DEF TypeOK
    <2> QED BY <2>1, <2>2, <1>3 DEF Bookkeeper
  <1>5. prt_commands_allout' \in BOOLEAN /\ prt_cmd_enable' \in BOOLEAN
    BY <1>3 DEF Bookkeeper
  <1>6. distance' \in 0 .. Distance
    BY <1>3 DEF Bookkeeper, Distance, Number, TypeOK
  <1>7. prt_rsp_pending' \in BOOLEAN /\ prt_rsp_retry' \in BOOLEAN /\ prt_rsp_failed' \in BOOLEAN
    BY <1>3 DEF BatchCode
  <1>8. prt_rsp_code' \in {"good", "bad"}
    BY <1>3 DEF BatchCode, TypeOK
  <1>9. response_partial(rsp) => rsp.half \in Partial
    BY <1>1, NoHalfIsNone DEF response_partial, Partial
  <1>10. prt_half' \in Partial \cup {NoHalf}
    BY <1>3, <1>9 DEF BatchCode, TypeOK
  <1>11. prt_rsp_pending' => prt_half' \in Partial
    <2>1. prt_rsp_last(rsp) => response_partial(rsp)
      BY DEF prt_rsp_last, Returned
    <2> QED BY <1>3, <1>9, <2>1 DEF BatchCode, HalfInv
  <1>12. dma_resp' \in [code: {"good", "bad", "retry"}, half: Halves] \cup {NoReport}
    <2>0. /\ rsp_full_valid(rsp) => ~rty_valid(rty_rdy(rsp)) /\ ~prt_valid(rsp)
          /\ rty_valid(rty_rdy(rsp)) => ~prt_valid(rsp)
      BY DEF rty_valid, rty_rdy, prt_valid, prt_rsp_available
    <2>1. CASE rsp_full_valid(rsp)
      <3>1. rsp.half \in Halves
        BY <2>1, <1>1 DEF rsp_full_valid
      <3>2. dma_resp' = [code |-> IF rsp.kind = "done" THEN "good" ELSE "bad", half |-> rsp.half]
        BY <2>0, <2>1, <1>3 DEF Report
      <3> QED BY <3>1, <3>2
    <2>2. CASE ~rsp_full_valid(rsp) /\ rty_valid(rty_rdy(rsp))
      <3>1. entry.half \in Halves
        BY <2>2 DEF rty_valid, QueueInv, Held, Responses
      <3>2. dma_resp' = [code |-> "retry", half |-> entry.half]
        BY <2>0, <2>2, <1>3 DEF Report
      <3> QED BY <3>1, <3>2
    <2>3. CASE ~rsp_full_valid(rsp) /\ ~rty_valid(rty_rdy(rsp)) /\ prt_valid(rsp)
      <3>1. prt_half \in Halves
        BY <2>3, NoHalfIsNone DEF prt_valid, prt_rsp_available, HalfInv
      <3> QED BY <2>3, <3>1, <1>3 DEF Report, TypeOK
    <2>4. CASE ~rsp_full_valid(rsp) /\ ~rty_valid(rty_rdy(rsp)) /\ ~prt_valid(rsp)
      BY <2>4, <1>3 DEF Report
    <2> QED BY <2>1, <2>2, <2>3, <2>4
  <1>13. dma_resp.code \in {"good", "bad", "retry"} => dma_resp.half \in Halves
    BY DEF TypeOK, NoReport
  <1>14. full \subseteq todo \cap Full /\ start \subseteq todo \cap Partial /\ prt_cmd \in PrtCmds
    BY <1>3 DEF Sender, Starts
  <1>15. todo' \subseteq Halves /\ finished' \subseteq Halves
    BY <1>3, <1>13 DEF Sender, TypeOK
  <1>16. strobe_valid' \in BOOLEAN
    BY <1>3 DEF Sender
  <1>17. batch' \in Partial \cup {NoHalf} /\ to_send' \in Nat /\ (batch' # NoHalf => to_send' > 0)
    <2>1. CASE start # {}
      <3>1. (CHOOSE h \in start : TRUE) \in Partial
        BY <2>1, <1>14
      <3>2. batch' \in Partial /\ to_send' = batch'.cmds
        BY <2>1, <3>1, <1>3 DEF Sender
      <3>3. batch'.cmds \in Nat \ {0}
        BY <3>2, NoHalfIsNone, RetryAssumption DEF RetryAssumption
      <3> QED BY <3>2, <3>3
    <2>2. CASE start = {}
      <3>1. /\ batch' = IF "last" \in prt_cmd THEN NoHalf ELSE batch
            /\ to_send' = to_send - Number("valid" \in prt_cmd)
        BY <2>2, <1>3 DEF Sender
      <3>2. batch \in Partial \cup {NoHalf} /\ to_send \in Nat /\ (batch # NoHalf => to_send > 0)
        BY DEF TypeOK, HalfInv
      <3>3. CASE prt_cmd = {}
        BY <3>1, <3>2, <3>3 DEF Number
      <3>4. CASE prt_cmd = {"valid", "last"} /\ batch # NoHalf /\ to_send = 1
        <4>1. Number("valid" \in prt_cmd) = 1
          BY <3>4 DEF Number
        <4>2. batch' = NoHalf /\ to_send' = 0
          BY <3>1, <3>4, <4>1
        <4> QED BY <4>2
      <3>5. CASE prt_cmd = {"valid"} /\ batch # NoHalf /\ to_send # 1
        <4>1. Number("valid" \in prt_cmd) = 1 /\ "last" \notin prt_cmd
          BY <3>5 DEF Number
        <4>2. batch' = batch /\ to_send' = to_send - 1
          BY <3>1, <4>1
        <4>3. to_send' \in Nat /\ to_send' > 0
          BY <3>2, <3>5, <4>2
        <4> QED BY <3>2, <4>2, <4>3
      <3> QED BY <1>14, <3>3, <3>4, <3>5 DEF PrtCmds
    <2> QED BY <2>1, <2>2
  <1>18. at_host' \in [Halves -> Nat] /\ in_xlate' \in [Halves -> Nat]
    <2>1. ASSUME NEW h \in Halves
          PROVE  /\ at_host[h] + Number(h \in full) + Number(h = batch /\ "valid" \in prt_cmd)
                       - Of(rsp, RetryKinds \cup {"done", "failed"}, h) \in Nat
                 /\ in_xlate[h] + Of(rsp, {"xlate_pending"}, h) - Of(rsp, XlateKinds, h) \in Nat
      <3>1. at_host[h] \in Nat /\ in_xlate[h] \in Nat
        BY DEF TypeOK
      <3>2. /\ Of(rsp, RetryKinds \cup {"done", "failed"}, h) \in {0, 1}
            /\ Of(rsp, {"xlate_pending"}, h) \in {0, 1} /\ Of(rsp, XlateKinds, h) \in {0, 1}
            /\ Number(h \in full) \in {0, 1} /\ Number(h = batch /\ "valid" \in prt_cmd) \in {0, 1}
        BY DEF Of, Number
      <3>3. Of(rsp, RetryKinds \cup {"done", "failed"}, h) = 1 => at_host[h] > 0
        BY <1>1 DEF Of, Number
      <3>4. Of(rsp, XlateKinds, h) = 1 => in_xlate[h] > 0
        BY <1>1 DEF Of, Number
      <3> DEFINE a == Of(rsp, RetryKinds \cup {"done", "failed"}, h)
                 b == Of(rsp, {"xlate_pending"}, h)
                 c == Of(rsp, XlateKinds, h)
                 d == Number(h \in full)
                 e == Number(h = batch /\ "valid" \in prt_cmd)
                 f == at_host[h]
                 g == in_xlate[h]
      <3>5. /\ f \in Nat /\ g \in Nat /\ a \in {0, 1} /\ b \in {0, 1} /\ c \in {0, 1}
            /\ d \in {0, 1} /\ e \in {0, 1} /\ (a = 1 => f > 0) /\ (c = 1 => g > 0)
        BY <3>1, <3>2, <3>3, <3>4
      <3> HIDE DEF a, b, c, d, e, f, g
      <3>6. f + d + e - a \in Nat /\ g + b - c \in Nat
        BY <3>5
      <3> QED BY <3>6 DEF a, b, c, d, e, f, g
    <2> QED BY <2>1, <1>3 DEF Host
  <1>19. retries' \in 0 .. MaxRetry /\ regime' \in Regimes
    BY <1>1, <1>3, DecodeAssumption DEF Host, Number, TypeOK, DecodeAssumption
  <1>20. asked' \in [Halves -> {"no", "wanted", "reported"}]
    BY <1>3 DEF History, TypeOK
  <1>21. failed' \subseteq Halves
    BY <1>1, <1>3 DEF History, TypeOK
  <1>22. TypeOK'
    BY <1>2, <1>4, <1>5, <1>6, <1>7, <1>8, <1>10, <1>12, <1>15, <1>16, <1>17, <1>18, <1>19,
       <1>20, <1>21 DEF TypeOK
  <1> QED BY <1>11, <1>17, <1>22 DEF HalfInv

-----------------------------------------------------------------------------
(* A full command.                                                         *)

\* A half is in one place: no two of the nine hold.
OnePlace(h) == \A p, q \in Places(h) : p = q

\* What it takes to be in each place.
LEMMA PlaceFacts ==
    ASSUME NEW h
    PROVE  /\ "todo" \in Places(h) <=> h \in todo
           /\ "host" \in Places(h) <=> at_host[h] > 0
           /\ "rsp_in" \in Places(h) <=> rsp_in.kind \in RetryKinds /\ rsp_in.half = h
           /\ "fifo" \in Places(h) <=> \E i \in DOMAIN fifo : fifo[i].half = h
           /\ "dout" \in Places(h) <=> dout.half = h
           /\ "entry" \in Places(h) <=> Held /\ entry.half = h
           /\ "retry" \in Places(h) <=> dma_resp.code = "retry" /\ dma_resp.half = h
           /\ "report" \in Places(h) <=> dma_resp.code \in {"good", "bad"} /\ dma_resp.half = h
           /\ "finished" \in Places(h) <=> h \in finished
           /\ Places(h) \subseteq {"todo", "host", "rsp_in", "fifo", "dout", "entry", "retry",
                                   "report", "finished"}
  BY DEF Places

\* What is in the queue after a cycle: the entry that is written, and what was
\* in it but for the one that is read.
LEMMA FifoMoves ==
    ASSUME TypeOK, QueueInv, FullOnce, NEW rsp \in Answers, NEW full, NEW start, NEW prt_cmd,
           NEW elapsed \in BOOLEAN, Cycle(rsp, full, start, prt_cmd, elapsed)
    PROVE  /\ \A i, j \in DOMAIN fifo' :
                 fifo'[i].half \in Full /\ fifo'[i].half = fifo'[j].half => i = j
           /\ \A h \in Full : (\E i \in DOMAIN fifo' : fifo'[i].half = h) =>
                 \/ rsp_in.kind \in RetryKinds /\ rsp_in.half = h
                 \/ /\ \E i \in DOMAIN fifo : fifo[i].half = h
                    /\ cstate = "RETRY_RELEASE" => Head(fifo).half # h
           /\ cstate = "RETRY_RELEASE" => \E i \in DOMAIN fifo : fifo[i] = Head(fifo)
  <1> DEFINE wr_en == rsp_in.kind \in RetryKinds
             rest  == IF cstate = "RETRY_RELEASE" THEN Tail(fifo) ELSE fifo
             off   == IF cstate = "RETRY_RELEASE" THEN 1 ELSE 0
  <1>1. fifo \in Seq(Responses) /\ rsp_in \in Responses \cup {NoRsp}
    BY DEF TypeOK, QueueTypeOK
  <1>2. cstate = "RETRY_RELEASE" => fifo # <<>>
    BY DEF QueueInv
  <1>3. fifo' = IF wr_en THEN Append(rest, rsp_in) ELSE rest
    BY DEF Cycle, Queue, QueueFifo
  <1>4. /\ rest \in Seq(Responses) /\ off \in Nat /\ Len(rest) + off = Len(fifo)
        /\ \A i \in 1 .. Len(rest) : rest[i] = fifo[i + off]
    <2>1. CASE cstate = "RETRY_RELEASE"
      <3>1. /\ Tail(fifo) \in Seq(Responses) /\ Len(Tail(fifo)) = Len(fifo) - 1
            /\ \A i \in 1 .. Len(Tail(fifo)) : Tail(fifo)[i] = fifo[i + 1]
        BY <1>1, <1>2, <2>1
      <3>2. Len(fifo) \in Nat
        BY <1>1
      <3> QED BY <2>1, <3>1, <3>2
    <2>2. CASE cstate # "RETRY_RELEASE"
      <3>1. rest = fifo /\ off = 0
        BY <2>2
      <3>2. Len(fifo) \in Nat /\ \A i \in 1 .. Len(fifo) : i + 0 = i
        BY <1>1
      <3> QED BY <1>1, <3>1, <3>2
    <2> QED BY <2>1, <2>2
  <1>5. wr_en => rsp_in \in Responses
    BY <1>1, NoHalfIsNone DEF RetryKinds
  <1>6. Len(fifo) \in Nat /\ DOMAIN fifo = 1 .. Len(fifo)
    BY <1>1
  <1>7. cstate = "RETRY_RELEASE" => Head(fifo) = fifo[1] /\ 1 \in DOMAIN fifo /\ off = 1
    <2>1. fifo # <<>> => Head(fifo) = fifo[1] /\ Len(fifo) # 0
      BY <1>1
    <2> QED BY <1>2, <1>6, <2>1
  <1>8. \A i, j \in DOMAIN fifo : fifo[i].half \in Full /\ fifo[i].half = fifo[j].half => i = j
    BY DEF FullOnce
  <1>9. ASSUME NEW h \in Full, rsp_in.kind \in RetryKinds, rsp_in.half = h, NEW i \in DOMAIN fifo
        PROVE  fifo[i].half # h
    <2>1. "rsp_in" \in Places(h)
      BY <1>9, PlaceFacts
    <2>2. fifo[i].half = h => "fifo" \in Places(h)
      BY <1>9, PlaceFacts
    <2> QED BY <2>1, <2>2 DEF FullOnce
  <1> HIDE DEF rest, off
  <1>10. /\ Len(rest) \in Nat
         /\ DOMAIN fifo' = 1 .. Len(rest) + (IF wr_en THEN 1 ELSE 0)
         /\ \A i \in DOMAIN fifo' : fifo'[i] = IF i = Len(rest) + 1 THEN rsp_in ELSE rest[i]
    <2>1. Len(rest) \in Nat
      BY <1>4
    <2>2. CASE wr_en
      <3>1. fifo' = Append(rest, rsp_in)
        BY <1>3, <2>2
      <3>2. /\ Len(Append(rest, rsp_in)) = Len(rest) + 1
            /\ DOMAIN Append(rest, rsp_in) = 1 .. Len(rest) + 1
            /\ \A i \in 1 .. Len(rest) : Append(rest, rsp_in)[i] = rest[i]
            /\ Append(rest, rsp_in)[Len(rest) + 1] = rsp_in
        BY <1>4, <1>5, <2>2
      <3> QED BY <2>1, <2>2, <3>1, <3>2
    <2>3. CASE ~wr_en
      <3>1. fifo' = rest /\ DOMAIN rest = 1 .. Len(rest)
        BY <1>3, <1>4, <2>3
      <3> QED BY <2>1, <2>3, <3>1
    <2> QED BY <2>2, <2>3
  <1>11. ASSUME NEW i \in DOMAIN fifo', i # Len(rest) + 1
         PROVE  i \in 1 .. Len(rest) /\ i + off \in DOMAIN fifo /\ fifo'[i] = fifo[i + off]
    <2>1. i \in 1 .. Len(rest)
      BY <1>10, <1>11
    <2>2. i + off \in DOMAIN fifo
      BY <2>1, <1>4, <1>6, <1>10
    <2> QED BY <2>1, <2>2, <1>4, <1>10, <1>11
  <1>12. ASSUME NEW i \in DOMAIN fifo', i = Len(rest) + 1
         PROVE  wr_en /\ fifo'[i] = rsp_in
    BY <1>10, <1>12
  <1>13. ASSUME NEW i \in DOMAIN fifo', NEW j \in DOMAIN fifo',
                fifo'[i].half \in Full, fifo'[i].half = fifo'[j].half
         PROVE  i = j
    <2>1. CASE i # Len(rest) + 1 /\ j # Len(rest) + 1
      <3>1. i + off = j + off
        BY <1>8, <1>11, <1>13, <2>1
      <3>2. i \in Nat /\ j \in Nat /\ off \in Nat
        BY <1>4, <1>11, <2>1
      <3> QED BY <3>1, <3>2
    <2>2. CASE i = Len(rest) + 1 /\ j # Len(rest) + 1
      <3>1. wr_en /\ fifo'[i] = rsp_in /\ fifo'[j] = fifo[j + off] /\ j + off \in DOMAIN fifo
        BY <1>11, <1>12, <2>2
      <3> QED BY <1>9, <1>13, <3>1
    <2>3. CASE i # Len(rest) + 1 /\ j = Len(rest) + 1
      <3>1. wr_en /\ fifo'[j] = rsp_in /\ fifo'[i] = fifo[i + off] /\ i + off \in DOMAIN fifo
        BY <1>11, <1>12, <2>3
      <3> QED BY <1>9, <1>13, <3>1
    <2> QED BY <2>1, <2>2, <2>3
  <1>14. ASSUME NEW h \in Full, NEW i \in DOMAIN fifo', fifo'[i].half = h
         PROVE  \/ rsp_in.kind \in RetryKinds /\ rsp_in.half = h
                \/ /\ \E k \in DOMAIN fifo : fifo[k].half = h
                   /\ cstate = "RETRY_RELEASE" => Head(fifo).half # h
    <2>1. CASE i = Len(rest) + 1
      BY <1>12, <1>14, <2>1
    <2>2. CASE i # Len(rest) + 1
      <3>1. i \in 1 .. Len(rest) /\ i + off \in DOMAIN fifo /\ fifo[i + off].half = h
        BY <1>11, <1>14, <2>2
      <3>2. ASSUME cstate = "RETRY_RELEASE", Head(fifo).half = h PROVE FALSE
        <4>1. 1 = i + 1
          BY <3>1, <3>2, <1>7, <1>8
        <4>2. i \in 1 .. Len(rest)
          BY <3>1
        <4> QED BY <4>1, <4>2, <1>10
      <3> QED BY <3>1, <3>2
    <2> QED BY <2>1, <2>2
  <1>15. cstate = "RETRY_RELEASE" => \E i \in DOMAIN fifo : fifo[i] = Head(fifo)
    BY <1>7
  <1> QED BY <1>13, <1>14, <1>15

\* Every cycle keeps each full command in one place, and its failure known.
LEMMA FullStep ==
    ASSUME TypeOK, DecodeInv, NEW rsp \in Answers, NEW full, NEW start, NEW prt_cmd,
           NEW elapsed \in BOOLEAN, Cycle(rsp, full, start, prt_cmd, elapsed)
    PROVE  FullOnce' /\ FullFailed'
  <1>1. QueueInv /\ HalfInv /\ FullOnce /\ FullFailed
    BY DEF DecodeInv
  <1>2. QueueInv' /\ TypeOK'
    BY <1>1, QueueStep, DecodeStep
  <1>3. /\ \A i, j \in DOMAIN fifo' :
              fifo'[i].half \in Full /\ fifo'[i].half = fifo'[j].half => i = j
        /\ \A h \in Full : (\E i \in DOMAIN fifo' : fifo'[i].half = h) =>
              \/ rsp_in.kind \in RetryKinds /\ rsp_in.half = h
              \/ /\ \E i \in DOMAIN fifo : fifo[i].half = h
                 /\ cstate = "RETRY_RELEASE" => Head(fifo).half # h
        /\ cstate = "RETRY_RELEASE" => \E i \in DOMAIN fifo : fifo[i] = Head(fifo)
    BY <1>1, FifoMoves
  <1>4. /\ rsp.kind \in Kinds \cup {"none"} /\ (rsp.kind = "none" => rsp.half = NoHalf)
        /\ rsp.kind \in RetryKinds \cup {"done", "failed"} => at_host[rsp.half] > 0
    BY AnswerFacts, NoHalfIsNone
  <1>5. /\ Report(rsp) /\ Sender(full, start, prt_cmd) /\ Host(rsp, full, prt_cmd)
        /\ History(rsp, full, start)
    BY DEF Cycle
  <1>6. full \subseteq todo \cap Full /\ start \subseteq todo \cap Partial
    BY <1>5 DEF Sender, Starts
  <1>7. ASSUME NEW h \in Full
        PROVE  /\ at_host'[h] <= 1 /\ OnePlace(h)'
               /\ h \in failed' => h \in finished' \/ dma_resp' = [code |-> "bad", half |-> h]
               /\ dma_resp' = [code |-> "bad", half |-> h] => h \in failed'
    <2> DEFINE sent   == h \in full
               again  == rsp.half = h /\ rsp.kind \in RetryKinds
               over   == rsp.half = h /\ rsp.kind \in {"done", "failed"}
               retry  == rty_valid(rty_rdy(rsp)) /\ entry.half = h
               read   == cstate = "RETRY_RELEASE" /\ Head(fifo).half = h
    <2>1. h \in Halves /\ h \notin Partial /\ h # NoHalf /\ h \notin start /\ ~h.partial
      BY <1>6, NoHalfIsNone DEF Full, Partial
    <2>2. at_host[h] \in {0, 1} /\ OnePlace(h)
      BY <1>1, <2>1 DEF FullOnce, OnePlace, TypeOK
    <2>3. /\ sent => h \in todo
          /\ again => at_host[h] > 0
          /\ over => at_host[h] > 0
          /\ ~(again /\ over)
      BY <1>4, <1>6 DEF RetryKinds
    <2>4. at_host'[h] = at_host[h] + Number(sent) - Number(again \/ over)
      <3>1. h # batch
        BY <2>1 DEF TypeOK
      <3>2. Number(h = batch /\ "valid" \in prt_cmd) = 0
        BY <3>1 DEF Number
      <3>3. Of(rsp, RetryKinds \cup {"done", "failed"}, h) = Number(again \/ over)
        BY DEF Of, Number
      <3>4. at_host'[h] = at_host[h] + Number(h \in full)
               + Number(h = batch /\ "valid" \in prt_cmd)
               - Of(rsp, RetryKinds \cup {"done", "failed"}, h)
        BY <1>5, <2>1 DEF Host
      <3>5. Number(sent) \in Nat /\ Number(again \/ over) \in Nat
        BY DEF Number
      <3> DEFINE a == Number(sent)
                 b == Number(again \/ over)
                 c == Number(h = batch /\ "valid" \in prt_cmd)
                 d == Of(rsp, RetryKinds \cup {"done", "failed"}, h)
      <3>6. a \in Nat /\ b \in Nat /\ c = 0 /\ d = b /\ at_host'[h] = at_host[h] + a + c - d
        BY <3>2, <3>3, <3>4, <3>5
      <3> HIDE DEF a, b, c, d
      <3>7. at_host'[h] = at_host[h] + a - b
        BY <2>2, <3>6
      <3> QED BY <3>7 DEF a, b
    <2>5. /\ "todo" \in Places(h) <=> h \in todo
          /\ "host" \in Places(h) <=> at_host[h] > 0
          /\ "rsp_in" \in Places(h) <=> rsp_in.kind \in RetryKinds /\ rsp_in.half = h
          /\ "fifo" \in Places(h) <=> \E i \in DOMAIN fifo : fifo[i].half = h
          /\ "dout" \in Places(h) <=> dout.half = h
          /\ "entry" \in Places(h) <=> Held /\ entry.half = h
          /\ "retry" \in Places(h) <=> dma_resp.code = "retry" /\ dma_resp.half = h
          /\ "report" \in Places(h) <=> dma_resp.code \in {"good", "bad"} /\ dma_resp.half = h
          /\ "finished" \in Places(h) <=> h \in finished
      BY PlaceFacts
    <2> DEFINE N == Places(h)'
    <2>6. /\ "todo" \in N <=> h \in todo'
          /\ "host" \in N <=> at_host'[h] > 0
          /\ "rsp_in" \in N <=> rsp_in'.kind \in RetryKinds /\ rsp_in'.half = h
          /\ "fifo" \in N <=> \E i \in DOMAIN fifo' : fifo'[i].half = h
          /\ "dout" \in N <=> dout'.half = h
          /\ "entry" \in N <=> Held' /\ entry'.half = h
          /\ "retry" \in N <=> dma_resp'.code = "retry" /\ dma_resp'.half = h
          /\ "report" \in N <=> dma_resp'.code \in {"good", "bad"} /\ dma_resp'.half = h
          /\ "finished" \in N <=> h \in finished'
          /\ N \subseteq {"todo", "host", "rsp_in", "fifo", "dout", "entry", "retry",
                          "report", "finished"}
      BY DEF Places
    <2>7. /\ ~sent \/ at_host[h] = 0
          /\ at_host'[h] \in {0, 1}
          /\ at_host'[h] > 0 => sent \/ (at_host[h] > 0 /\ ~again /\ ~over)
      <3>1. ~sent \/ at_host[h] = 0
        BY <2>2, <2>3, <2>5 DEF OnePlace
      <3>2. CASE sent
        <4>1. at_host[h] = 0 /\ Number(sent) = 1 /\ Number(again \/ over) = 0
          BY <2>2, <2>3, <3>1, <3>2 DEF Number
        <4>2. at_host'[h] = 1
          BY <2>4, <4>1
        <4> QED BY <3>1, <3>2, <4>2
      <3>3. CASE ~sent /\ (again \/ over)
        <4>1. at_host[h] = 1 /\ Number(sent) = 0 /\ Number(again \/ over) = 1
          BY <2>2, <2>3, <3>3 DEF Number
        <4>2. at_host'[h] = 0
          BY <2>4, <4>1
        <4> QED BY <3>1, <4>2
      <3>4. CASE ~sent /\ ~again /\ ~over
        <4>1. Number(sent) = 0 /\ Number(again \/ over) = 0
          BY <3>4 DEF Number
        <4>2. at_host'[h] = at_host[h]
          BY <2>2, <2>4, <4>1
        <4> QED BY <2>2, <3>1, <3>4, <4>2
      <3> QED BY <3>2, <3>3, <3>4
    <2>8. /\ "todo" \in N => "retry" \in Places(h) \/ ("todo" \in Places(h) /\ ~sent)
          /\ "finished" \in N => "finished" \in Places(h) \/ "report" \in Places(h)
          /\ "report" \in Places(h) \/ "finished" \in Places(h) => "finished" \in N
      BY <1>5, <2>1, <2>5, <2>6 DEF Sender
    <2>9. "rsp_in" \in N => again /\ "host" \in Places(h)
      <3>1. rsp_in' = rsp
        BY DEF Cycle, Queue, QueueFifo
      <3> QED BY <2>3, <2>5, <2>6, <3>1
    <2>10. "fifo" \in N => "rsp_in" \in Places(h) \/ ("fifo" \in Places(h) /\ ~read)
      BY <1>3, <2>5, <2>6
    <2>11. "dout" \in N => read /\ "fifo" \in Places(h)
      <3>1. dout' = IF cstate = "RETRY_RELEASE" THEN Head(fifo) ELSE NoRsp
        BY DEF Cycle, Queue, QueueFifo
      <3>2. dout'.half = h => read
        BY <2>1, <3>1, NoHalfIsNone
      <3> QED BY <1>3, <2>5, <2>6, <3>2
    <2>12. "entry" \in N => "dout" \in Places(h) \/ ("entry" \in Places(h) /\ ~retry)
      <3>1. entry' = IF dout # NoRsp THEN dout ELSE entry
        BY DEF Cycle, Queue, QueueFifo
      <3>2. dout # NoRsp <=> cstate = "RETRY_CHECK" /\ check = 0
        BY <1>1 DEF QueueInv
      <3>3. Held' /\ dout = NoRsp => Held /\ ~rty_valid(rty_rdy(rsp))
        <4>1. /\ cstate = "IDLE" => cstate' \in {"RETRY_RELEASE", "IDLE"}
              /\ cstate = "RETRY_RELEASE" => cstate' = "RETRY_CHECK" /\ check' = 0
              /\ cstate = "RETRY_NOW" /\ rty_rdy(rsp) => cstate' = "IDLE"
          BY DEF Cycle, Queue, QueueState
        <4>2. /\ cstate \in {"IDLE", "RETRY_RELEASE", "RETRY_CHECK", "RETRY_BACKOFF", "RETRY_NOW"}
              /\ check \in 0 .. 3
          BY DEF TypeOK, QueueTypeOK
        <4>3. cstate = "RETRY_CHECK" /\ check # 0 => check > 0
          BY <4>2
        <4> QED BY <4>1, <4>2, <4>3, <3>2 DEF Held, rty_valid
      <3> QED BY <2>5, <2>6, <3>1, <3>3
    <2>13. /\ rsp_full_valid(rsp) => ~rty_valid(rty_rdy(rsp)) /\ ~prt_valid(rsp)
           /\ rty_valid(rty_rdy(rsp)) => ~prt_valid(rsp)
           /\ rty_valid(rty_rdy(rsp)) => Held
           /\ prt_valid(rsp) => prt_half # h
      BY <1>1, <2>1 DEF rty_valid, rty_rdy, prt_valid, prt_rsp_available, Held, HalfInv
    <2>14. over => rsp_full_valid(rsp)
      BY <2>1 DEF rsp_full_valid, response_partial
    <2>15. /\ rsp_full_valid(rsp) => rsp.kind \in {"done", "failed"}
           /\ "report" \in N => over /\ "host" \in Places(h)
           /\ "retry" \in N => retry /\ "entry" \in Places(h)
           /\ over => dma_resp' = [code |-> IF rsp.kind = "done" THEN "good" ELSE "bad", half |-> h]
           /\ ~over => dma_resp' # [code |-> "bad", half |-> h]
      <3>1. rsp_full_valid(rsp) => rsp.kind \in {"done", "failed"}
        BY DEF rsp_full_valid
      <3>2. CASE rsp_full_valid(rsp)
        <4>1. dma_resp' = [code |-> IF rsp.kind = "done" THEN "good" ELSE "bad", half |-> rsp.half]
          BY <1>5, <2>13, <3>2 DEF Report
        <4> QED BY <2>3, <2>5, <2>6, <3>1, <3>2, <4>1
      <3>3. CASE rty_valid(rty_rdy(rsp))
        <4>1. dma_resp' = [code |-> "retry", half |-> entry.half]
          BY <1>5, <2>13, <3>3 DEF Report
        <4> QED BY <2>5, <2>6, <2>13, <2>14, <3>1, <3>3, <4>1
      <3>4. CASE prt_valid(rsp)
        <4>1. dma_resp' = [code |-> prt_rsp_code, half |-> prt_half]
          BY <1>5, <2>13, <3>4 DEF Report
        <4> QED BY <2>5, <2>6, <2>13, <2>14, <3>1, <3>4, <4>1
      <3>5. CASE ~rsp_full_valid(rsp) /\ ~rty_valid(rty_rdy(rsp)) /\ ~prt_valid(rsp)
        <4>1. dma_resp' = NoReport
          BY <1>5, <3>5 DEF Report
        <4>2. dma_resp'.half # h
          BY <2>1, <4>1 DEF NoReport
        <4> QED BY <2>6, <2>14, <3>1, <3>5, <4>2
      <3> QED BY <3>2, <3>3, <3>4, <3>5
    <2>16. "host" \in N => (sent /\ "todo" \in Places(h))
                           \/ ("host" \in Places(h) /\ ~again /\ ~over)
      BY <2>3, <2>5, <2>6, <2>7
    <2> HIDE DEF N, sent, again, over, retry, read
    <2>17. \A p, q \in N : p = q
      <3>1. \A p, q \in Places(h) : p = q
        BY <2>2 DEF OnePlace
      <3>2. ~(again /\ over)
        BY <2>3 DEF again, over
      <3> QED BY <3>1, <3>2, <2>6, <2>8, <2>9, <2>10, <2>11, <2>12, <2>15, <2>16
    <2>18. OnePlace(h)' <=> \A p, q \in N : p = q
      BY DEF OnePlace, N
    <2>19. h \in failed' <=> (h \in failed /\ ~sent) \/ (over /\ rsp.kind = "failed")
      BY <1>5, <2>1 DEF History, sent, over
    <2>20. h \in failed => "finished" \in Places(h) \/ "report" \in Places(h)
      BY <1>1, <2>5 DEF FullFailed
    <2>21. h \in failed' => h \in finished' \/ dma_resp' = [code |-> "bad", half |-> h]
      BY <2>6, <2>8, <2>15, <2>19, <2>20
    <2>22. dma_resp' = [code |-> "bad", half |-> h] => h \in failed'
      <3>1. dma_resp' = [code |-> "bad", half |-> h] => over
        BY <2>15
      <3>2. over => rsp.kind \in {"done", "failed"}
        BY DEF over
      <3>3. dma_resp' = [code |-> "bad", half |-> h] => rsp.kind = "failed"
        BY <2>15, <3>1, <3>2
      <3> QED BY <2>19, <3>1, <3>3
    <2>23. at_host'[h] <= 1
      BY <2>7
    <2> QED BY <2>17, <2>18, <2>21, <2>22, <2>23
  <1>8. FullOnce'
    BY <1>3, <1>7 DEF FullOnce, OnePlace, Full, Partial
  <1>9. FullFailed'
    BY <1>7 DEF FullFailed, Full, Partial
  <1> QED BY <1>8, <1>9

-----------------------------------------------------------------------------
(* The theorems.                                                           *)

\* The invariant holds after reset.
LEMMA DecodeStart == Init => TypeOK /\ DecodeInv
  <1>1. SUFFICES ASSUME Init PROVE TypeOK /\ DecodeInv
    OBVIOUS
  <1>2. QueueTypeOK
    <2>1. 0 \in 0 .. PendingMod - 1
      BY RetryAssumption DEF RetryAssumption
    <2>2. fifo = <<>> /\ fifo \in Seq(Responses)
      BY <1>1 DEF Init, QueueInit
    <2>3. /\ rsp_in = NoRsp /\ dout = NoRsp /\ entry = NoRsp /\ wr_en_dly = FALSE
          /\ doutb = "none" /\ cstate = "IDLE" /\ rep_retry_enable = FALSE
          /\ ram_xlate_done \in [Tags -> XlateKinds \cup {"none"}]
      BY <1>1 DEF Init, QueueInit
    <2>4. xlate_pending_cnt \in 0 .. PendingMod - 1 /\ check \in 0 .. 3
      BY <1>1, <2>1 DEF Init, QueueInit
    <2> QED BY <2>2, <2>3, <2>4 DEF QueueTypeOK
  <1>3. TypeOK
    <2>1. 0 \in 0 .. MaxRetry /\ 0 \in 0 .. 31 /\ 0 \in 0 .. Distance
      BY DecodeAssumption DEF DecodeAssumption, Distance
    <2>2. /\ at_host \in [Halves -> Nat] /\ in_xlate \in [Halves -> Nat]
          /\ asked \in [Halves -> {"no", "wanted", "reported"}]
      BY <1>1 DEF Init
    <2>3. /\ prt_inflight_cnt \in 0 .. 31 /\ distance \in 0 .. Distance /\ to_send \in Nat
          /\ retries \in 0 .. MaxRetry
      BY <1>1, <2>1 DEF Init
    <2> QED BY <1>1, <1>2, <2>2, <2>3 DEF Init, TypeOK
  <1>4. QueueInv /\ HalfInv
    <2>1. wr_en_dly = FALSE /\ cstate = "IDLE" /\ dout = NoRsp
      BY <1>1 DEF Init, QueueInit
    <2>2. batch = NoHalf /\ prt_rsp_pending = FALSE
      BY <1>1 DEF Init
    <2> QED BY <2>1, <2>2 DEF QueueInv, HalfInv, Held
  <1>5. ASSUME NEW h \in Full PROVE at_host[h] <= 1 /\ Places(h) = {"todo"} /\ h \notin failed
                                    /\ dma_resp # [code |-> "bad", half |-> h]
    <2>1. h \in Halves /\ h # NoHalf
      BY NoHalfIsNone
    <2>2. /\ at_host[h] = 0 /\ h \in todo /\ h \notin finished /\ failed = {}
          /\ dma_resp.code = "none" /\ dma_resp.half # h
          /\ rsp_in.half # h /\ dout.half # h /\ entry.half # h /\ fifo = <<>>
      BY <1>1, <2>1, NoHalfIsNone DEF Init, QueueInit, NoReport
    <2>3. Places(h) = {"todo"}
      BY <2>2, PlaceFacts
    <2> QED BY <2>2, <2>3
  <1>6. FullOnce /\ FullFailed
    <2>1. DOMAIN fifo = {}
      BY <1>1 DEF Init, QueueInit
    <2> QED BY <1>5, <2>1 DEF FullOnce, FullFailed
  <1> QED BY <1>3, <1>4, <1>6 DEF DecodeInv

\* Every cycle keeps the invariant.
LEMMA DecodeKeeps == TypeOK /\ DecodeInv /\ [Next]_vars => TypeOK' /\ DecodeInv'
  <1>1. ASSUME TypeOK, DecodeInv, Next PROVE TypeOK' /\ DecodeInv'
    <2>1. PICK rsp \in Answers, full \in AtMostOne(todo \cap Full), start \in AtMostOne(Starts),
               prt_cmd \in PrtCmds, elapsed \in BOOLEAN :
                  Cycle(rsp, full, start, prt_cmd, elapsed)
      BY <1>1 DEF Next
    <2>2. QueueInv /\ HalfInv
      BY <1>1 DEF DecodeInv
    <2>3. QueueInv' /\ TypeOK' /\ HalfInv'
      BY <1>1, <2>1, <2>2, QueueStep, DecodeStep
    <2>4. FullOnce' /\ FullFailed'
      BY <1>1, <2>1, FullStep
    <2> QED BY <2>3, <2>4 DEF DecodeInv
  <1>2. ASSUME TypeOK, DecodeInv, UNCHANGED vars PROVE TypeOK' /\ DecodeInv'
    <2>1. /\ UNCHANGED <<rsp_in, fifo, wr_en_dly, dout, entry, ram_xlate_done, doutb,
                         xlate_pending_cnt, cstate, check, last_rty, rep_retry_enable>>
          /\ UNCHANGED <<prt_inflight_cnt, prt_commands_allout, distance, prt_rsp_pending,
                         prt_rsp_retry, prt_rsp_failed, prt_cmd_enable, prt_rsp_code, prt_half>>
          /\ UNCHANGED <<dma_resp, todo, batch, to_send, strobe_valid, finished, at_host,
                         in_xlate, retries, regime, asked, failed>>
      BY <1>2 DEF vars, queueVars, batchVars, senderVars, hostVars
    <2>2. TypeOK'
      BY <1>2, <2>1 DEF TypeOK, QueueTypeOK
    <2>3. QueueInv' /\ HalfInv'
      BY <1>2, <2>1 DEF DecodeInv, QueueInv, HalfInv, Held
    <2>4. FullOnce' /\ FullFailed'
      <3>1. ASSUME NEW h PROVE Places(h)' = Places(h)
        BY <2>1 DEF Places, Held
      <3>2. FullOnce'
        BY <1>2, <2>1, <3>1 DEF DecodeInv, FullOnce
      <3>3. FullFailed'
        BY <1>2, <2>1 DEF DecodeInv, FullFailed
      <3> QED BY <3>2, <3>3
    <2> QED BY <2>2, <2>3, <2>4 DEF DecodeInv
  <1> QED BY <1>1, <1>2

\* The invariant holds in every state.
THEOREM DecodeInvariant == Spec => [](TypeOK /\ DecodeInv)
  <1>1. Init => TypeOK /\ DecodeInv
    BY DecodeStart
  <1>2. (TypeOK /\ DecodeInv) /\ [Next]_vars => (TypeOK /\ DecodeInv)'
    BY DecodeKeeps
  <1> QED BY <1>1, <1>2, PTL DEF Spec

\* Registers and counters keep their ranges: the retry queue is not read when
\* it is empty, the RAM of translations is read at the tag of an entry, and
\* what is reported is reported for a half.
THEOREM TypeCorrect == Spec => []TypeOK
  <1>1. TypeOK /\ DecodeInv => TypeOK
    OBVIOUS
  <1> QED BY <1>1, DecodeInvariant, PTL

\* A full command is in one place, once, on its way from the sender to the
\* host, through the retry queue and back: it is neither reported twice nor
\* retried while the host still has it, whatever else is retried.
THEOREM FullInOnePlace == Spec => []FullOnce
  <1>1. TypeOK /\ DecodeInv => FullOnce
    BY DEF DecodeInv
  <1> QED BY <1>1, DecodeInvariant, PTL

\* A full command is reported bad exactly when its response failed, and not
\* with what an earlier try or another command returned.
THEOREM FullCodeCorrect == Spec => []FullCode
  <1>1. TypeOK /\ DecodeInv => FullCode
    <2>1. SUFFICES ASSUME TypeOK, DecodeInv, dma_resp.code \in {"good", "bad"},
                          dma_resp.half \in Full
                   PROVE  dma_resp.code = "bad" <=> dma_resp.half \in failed
      BY DEF FullCode
    <2> DEFINE h == dma_resp.half
    <2>2. FullOnce /\ FullFailed
      BY <2>1 DEF DecodeInv
    <2>3. dma_resp = [code |-> dma_resp.code, half |-> h]
      BY <2>1 DEF TypeOK, NoReport
    <2>4. "report" \in Places(h)
      BY <2>1, PlaceFacts
    <2>5. h \notin finished
      BY <2>1, <2>2, <2>4, PlaceFacts DEF FullOnce
    <2>6. dma_resp.code = "bad" => h \in failed
      BY <2>1, <2>2, <2>3 DEF FullFailed
    <2>7. h \in failed => dma_resp.code = "bad"
      BY <2>1, <2>2, <2>5 DEF FullFailed
    <2> QED BY <2>6, <2>7
  <1> QED BY <1>1, DecodeInvariant, PTL

-----------------------------------------------------------------------------
(* A batch.                                                                *)

\* The commands of a half the host has.
Outstanding(h) == at_host[h] + in_xlate[h]

\* The half b has the batch, and no other half has partial commands out.  The
\* next batch is enabled, or has its strobe; the commands are sent; they are
\* all sent; they are all answered.
BatchIs(b) ==
    /\ b \in Partial \cup {NoHalf}
    /\ \A h \in Partial : h # b => Outstanding(h) = 0
    /\ prt_inflight_cnt = (IF b = NoHalf THEN 0 ELSE Outstanding(b) % 32)
    /\ prt_cmd_enable =>
         /\ distance = 0 /\ batch = b
         /\ strobe_valid <=> b # NoHalf
         /\ strobe_valid => to_send = b.cmds /\ Outstanding(b) = 0
    /\ ~prt_cmd_enable => b # NoHalf /\ ~strobe_valid
    /\ ~prt_cmd_enable /\ batch # NoHalf =>
         /\ batch = b /\ distance = 0 /\ ~prt_commands_allout
         /\ Outstanding(b) + to_send <= b.cmds
    /\ ~prt_cmd_enable /\ batch = NoHalf =>
         /\ prt_commands_allout /\ Outstanding(b) <= b.cmds
         /\ distance = 0 => Outstanding(b) > 0
         /\ distance > 0 => Outstanding(b) = 0 /\ prt_half = b

\* The commands a half has out are counted.
LEMMA OutstandingStep ==
    ASSUME TypeOK, NEW rsp \in Answers, NEW full, NEW start, NEW prt_cmd,
           NEW elapsed \in BOOLEAN, Cycle(rsp, full, start, prt_cmd, elapsed), NEW h \in Partial
    PROVE  /\ Outstanding(h) \in Nat /\ at_host[h] \in Nat /\ in_xlate[h] \in Nat
           /\ Outstanding(h)' = Outstanding(h) + Number(h = batch /\ "valid" \in prt_cmd)
                                    - Number(Returned(rsp) /\ rsp.half = h)
           /\ in_xlate'[h] = in_xlate[h] + Number(rsp.half = h /\ rsp.kind = "xlate_pending")
                                    - Number(rsp.half = h /\ rsp.kind \in XlateKinds)
           /\ rsp.half = h /\ rsp.kind \in XlateKinds => in_xlate[h] > 0
           /\ rsp.half = h => rsp.kind # "none" /\ Outstanding(h) > 0
  <1>1. /\ rsp.kind \in Kinds \cup {"none"} /\ (rsp.kind = "none" => rsp = NoRsp)
        /\ rsp.kind \in RetryKinds \cup {"done", "failed"} => at_host[rsp.half] > 0
        /\ rsp.kind \in XlateKinds => in_xlate[rsp.half] > 0
    BY AnswerFacts
  <1>2. h \in Halves /\ h # NoHalf /\ h \notin Full /\ h.partial
    BY NoHalfIsNone DEF Partial
  <1>3. /\ Sender(full, start, prt_cmd) /\ Host(rsp, full, prt_cmd)
    BY DEF Cycle
  <1>4. h \notin full
    BY <1>2, <1>3 DEF Sender
  <1>5. at_host[h] \in Nat /\ in_xlate[h] \in Nat
    BY <1>2 DEF TypeOK
  <1>6. rsp.half = h => rsp.kind # "none"
    BY <1>1, <1>2, NoHalfIsNone
  <1> DEFINE gone  == rsp.half = h /\ rsp.kind \in RetryKinds \cup {"done", "failed"}
             waits == rsp.half = h /\ rsp.kind = "xlate_pending"
             ends  == rsp.half = h /\ rsp.kind \in XlateKinds
             s     == Number(h = batch /\ "valid" \in prt_cmd)
  <1>7. /\ Number(h \in full) = 0
        /\ Of(rsp, RetryKinds \cup {"done", "failed"}, h) = Number(gone)
        /\ Of(rsp, {"xlate_pending"}, h) = Number(waits) /\ Of(rsp, XlateKinds, h) = Number(ends)
    BY <1>4 DEF Of, Number
  <1>8. /\ at_host'[h] = at_host[h] + Number(h \in full) + s
                            - Of(rsp, RetryKinds \cup {"done", "failed"}, h)
        /\ in_xlate'[h] = in_xlate[h] + Of(rsp, {"xlate_pending"}, h) - Of(rsp, XlateKinds, h)
    BY <1>2, <1>3 DEF Host
  <1>9. /\ Returned(rsp) /\ rsp.half = h <=> (gone /\ ~waits) \/ ends
        /\ waits => gone /\ ~ends
        /\ ends => ~gone
    BY <1>1, <1>2, <1>6 DEF Returned, response_partial, RetryKinds, XlateKinds, Kinds
  <1>10. (gone => at_host[h] > 0) /\ (ends => in_xlate[h] > 0)
    BY <1>1
  <1>11. rsp.half = h => gone \/ ends
    BY <1>1, <1>6 DEF Kinds
  <1> DEFINE r == Returned(rsp) /\ rsp.half = h
             a == at_host[h]
             x == in_xlate[h]
  <1>12. a \in Nat /\ x \in Nat /\ (rsp.half = h => a + x > 0)
    BY <1>5, <1>10, <1>11
  <1> DEFINE ng == Number(gone)
             nw == Number(waits)
             ne == Number(ends)
             nr == Number(r)
  <1>13. /\ ng \in {0, 1} /\ nw \in {0, 1} /\ ne \in {0, 1} /\ nr \in {0, 1} /\ s \in {0, 1}
         /\ nr = ng - nw + ne
    <2>1. CASE waits
      BY <1>9, <2>1 DEF Number
    <2>2. CASE ends
      BY <1>9, <2>2 DEF Number
    <2>3. CASE ~waits /\ ~ends
      BY <1>9, <2>3 DEF Number
    <2> QED BY <2>1, <2>2, <2>3
  <1>14. /\ at_host'[h] = a + s - ng /\ in_xlate'[h] = x + nw - ne
         /\ at_host'[h] + in_xlate'[h] = (a + x) + s - nr
    <2>1. at_host'[h] = a + 0 + s - ng /\ in_xlate'[h] = x + nw - ne
      BY <1>7, <1>8
    <2> HIDE DEF a, x, s, ng, nw, ne, nr
    <2> QED BY <2>1, <1>12, <1>13
  <1>15. /\ Outstanding(h) = a + x /\ Outstanding(h) \in Nat
         /\ Outstanding(h)' = at_host'[h] + in_xlate'[h]
    BY <1>12 DEF Outstanding
  <1> QED BY <1>5, <1>6, <1>10, <1>12, <1>13, <1>14, <1>15

\* Only the half that has the batch is answered, and not between two batches.
LEMMA PartialAnswer ==
    ASSUME TypeOK, NEW rsp \in Answers, NEW b, BatchIs(b), NEW h \in Partial, rsp.half = h
    PROVE  /\ h = b /\ Outstanding(b) > 0
           /\ ~prt_cmd_enable /\ ~strobe_valid /\ distance = 0
  <1>1. /\ rsp.kind \in Kinds \cup {"none"} /\ (rsp.kind = "none" => rsp = NoRsp)
        /\ rsp.kind \in RetryKinds \cup {"done", "failed"} => at_host[rsp.half] > 0
        /\ rsp.kind \in XlateKinds => in_xlate[rsp.half] > 0
    BY AnswerFacts
  <1>2. h \in Halves /\ h # NoHalf
    BY NoHalfIsNone
  <1>3. at_host[h] \in Nat /\ in_xlate[h] \in Nat
    BY <1>2 DEF TypeOK
  <1>4. rsp.kind # "none"
    BY <1>1, <1>2, NoHalfIsNone
  <1>5. at_host[h] > 0 \/ in_xlate[h] > 0
    BY <1>1, <1>4 DEF Kinds
  <1>6. Outstanding(h) > 0
    BY <1>3, <1>5 DEF Outstanding
  <1>7. h = b
    BY <1>6 DEF BatchIs
  <1>8. distance \in 0 .. Distance
    BY DEF TypeOK
  <1>9. Outstanding(b) > 0 /\ b # NoHalf
    BY <1>2, <1>6, <1>7
  <1>10. ~prt_cmd_enable
    BY <1>9 DEF BatchIs
  <1>11. distance = 0
    BY <1>8, <1>9, <1>10 DEF BatchIs
  <1> QED BY <1>7, <1>9, <1>10, <1>11 DEF BatchIs

\* How the batch goes on: its half keeps it, or a half gets it with the
\* strobe, or it is over and the next one is enabled.
BatchMoves(b, c, start) ==
    \/ /\ c = b /\ start = {} /\ ~strobe_valid'
       /\ prt_cmd_enable' <=> prt_cmd_enable /\ ~strobe_valid
    \/ /\ b = NoHalf /\ c \in Partial /\ start = {c} /\ prt_cmd_enable /\ ~strobe_valid
       /\ prt_cmd_enable' /\ strobe_valid'
    \/ /\ b # NoHalf /\ c = NoHalf /\ start = {} /\ ~prt_cmd_enable /\ distance = 1 /\ ~rty_busy
       /\ prt_cmd_enable' /\ ~strobe_valid'

\* A cycle keeps one batch.
LEMMA BatchStep ==
    ASSUME TypeOK, HalfInv, NEW rsp \in Answers, NEW full, NEW start \in AtMostOne(Starts),
           NEW prt_cmd, NEW elapsed \in BOOLEAN, Cycle(rsp, full, start, prt_cmd, elapsed),
           NEW b, BatchIs(b)
    PROVE  \E c : BatchIs(c)' /\ BatchMoves(b, c, start)
  <1> DEFINE valid == "valid" \in prt_cmd
             last  == "last" \in prt_cmd
             sent  == Number(valid)
             ret   == Number(Returned(rsp))
  <1>1. /\ prt_inflight_cnt' = (prt_inflight_cnt + 32 + sent - ret) % 32
        /\ prt_commands_allout' = (~prt_cmd_enable /\ (last \/ prt_commands_allout))
        /\ prt_rsp_last(rsp) => distance' = 9
        /\ ~prt_rsp_last(rsp) /\ distance = 1 => distance' = Number(rty_busy)
        /\ ~prt_rsp_last(rsp) /\ distance > 1 => distance' = distance - 1
        /\ ~prt_rsp_last(rsp) /\ distance = 0 => distance' = 0
        /\ prt_cmd_enable' = (~strobe_valid /\ ((distance = 1 /\ ~rty_busy) \/ prt_cmd_enable))
        /\ prt_half' = IF response_partial(rsp) THEN rsp.half ELSE prt_half
    <2>1. Bookkeeper(rsp, prt_cmd) /\ BatchCode(rsp)
      BY DEF Cycle
    <2> QED BY <2>1 DEF Bookkeeper, BatchCode, Distance
  <1>2. /\ prt_cmd \in PrtCmds
        /\ strobe_valid' = (start # {})
        /\ batch' = IF start # {} THEN CHOOSE h \in start : TRUE
                    ELSE IF last THEN NoHalf ELSE batch
        /\ to_send' = IF start # {} THEN batch'.cmds ELSE to_send - sent
    BY DEF Cycle, Sender
  <1>3. /\ b \in Partial \cup {NoHalf}
        /\ \A h \in Partial : h # b => Outstanding(h) = 0
        /\ prt_inflight_cnt = (IF b = NoHalf THEN 0 ELSE Outstanding(b) % 32)
        /\ prt_cmd_enable =>
             /\ distance = 0 /\ batch = b
             /\ strobe_valid <=> b # NoHalf
             /\ strobe_valid => to_send = b.cmds /\ Outstanding(b) = 0
        /\ ~prt_cmd_enable => b # NoHalf /\ ~strobe_valid
        /\ ~prt_cmd_enable /\ batch # NoHalf =>
             /\ batch = b /\ distance = 0 /\ ~prt_commands_allout
             /\ Outstanding(b) + to_send <= b.cmds
        /\ ~prt_cmd_enable /\ batch = NoHalf =>
             /\ prt_commands_allout /\ Outstanding(b) <= b.cmds
             /\ distance = 0 => Outstanding(b) > 0
             /\ distance > 0 => Outstanding(b) = 0 /\ prt_half = b
    BY DEF BatchIs
  <1>4. /\ batch \in Partial \cup {NoHalf} /\ to_send \in Nat /\ (batch # NoHalf => to_send > 0)
        /\ distance \in 0 .. 9 /\ prt_cmd_enable \in BOOLEAN /\ strobe_valid \in BOOLEAN
        /\ prt_commands_allout \in BOOLEAN
    BY DEF TypeOK, HalfInv, Distance
  <1>5. ASSUME NEW h \in Partial
        PROVE  /\ Outstanding(h) \in Nat
               /\ Outstanding(h)' = Outstanding(h) + Number(h = batch /\ valid)
                                        - Number(Returned(rsp) /\ rsp.half = h)
               /\ rsp.half = h => Outstanding(h) > 0
               /\ h.cmds \in 1 .. 32
    BY OutstandingStep, RetryAssumption, DecodeAssumption, NoHalfIsNone
       DEF RetryAssumption, DecodeAssumption
  <1>6. Returned(rsp) => rsp.half \in Partial
    BY AnswerFacts, NoHalfIsNone DEF Returned, response_partial, Partial
  <1>7. /\ response_partial(rsp) => rsp.half \in Partial
        /\ prt_rsp_last(rsp) <=> Returned(rsp) /\ prt_inflight_cnt = 1 /\ prt_commands_allout
        /\ Returned(rsp) => response_partial(rsp)
    BY AnswerFacts, NoHalfIsNone DEF Returned, response_partial, Partial, prt_rsp_last
  <1>8. /\ Returned(rsp) => ret = 1 /\ rsp.half = b /\ b \in Partial
        /\ ~Returned(rsp) => ret = 0
        /\ valid => sent = 1
        /\ ~valid => sent = 0
    <2>1. (Returned(rsp) => ret = 1) /\ (~Returned(rsp) => ret = 0)
      BY DEF Number
    <2>2. (valid => sent = 1) /\ (~valid => sent = 0)
      BY DEF Number
    <2>3. Returned(rsp) => rsp.half = b
      BY <1>3, <1>5, <1>6
    <2> QED BY <2>1, <2>2, <2>3, <1>6
  \* No other half gets commands, and none of its are returned.
  <1>9. ASSUME NEW h \in Partial, h # b, ~(h = batch /\ valid) PROVE Outstanding(h)' = 0
    <2>1. Number(h = batch /\ valid) = 0 /\ Number(Returned(rsp) /\ rsp.half = h) = 0
      BY <1>8, <1>9 DEF Number
    <2> QED BY <2>1, <1>3, <1>5, <1>9
  <1> HIDE DEF valid, last, sent, ret
  <1>10. batch = NoHalf \/ strobe_valid => ~valid /\ ~last
    BY <1>2 DEF PrtCmds, valid, last
  <1>11. prt_cmd_enable => \A h \in Partial : Outstanding(h) = 0 /\ ~(rsp.half = h)
    <2>1. ASSUME prt_cmd_enable, NEW h \in Partial PROVE Outstanding(h) = 0
      <3>1. CASE h # b
        BY <1>3, <3>1
      <3>2. CASE h = b
        <4>1. strobe_valid
          BY <1>3, <2>1, <3>2, NoHalfIsNone
        <4> QED BY <4>1, <1>3, <2>1, <3>2
      <3> QED BY <3>1, <3>2
    <2> QED BY <2>1, <1>5
  <1>12. start = {} \/ (\E h \in todo \cap Partial : start = {h})
    BY DEF AtMostOne, Starts
  <1>13. start # {} => prt_cmd_enable /\ ~strobe_valid /\ batch = NoHalf
    BY DEF AtMostOne, Starts
  <1>14. CASE prt_cmd_enable /\ ~strobe_valid
    <2>1. b = NoHalf /\ batch = NoHalf /\ distance = 0 /\ prt_inflight_cnt = 0
      BY <1>3, <1>14
    <2>2. ~Returned(rsp) /\ ~prt_rsp_last(rsp) /\ sent = 0 /\ ret = 0 /\ ~valid /\ ~last
      BY <1>6, <1>7, <1>8, <1>10, <1>11, <1>14, <2>1
    <2>3. prt_inflight_cnt' = 0 /\ distance' = 0 /\ prt_cmd_enable' = TRUE
      <3>1. (0 + 32 + 0 - 0) % 32 = 0
        OBVIOUS
      <3>2. prt_inflight_cnt' = (0 + 32 + 0 - 0) % 32
        BY <1>1, <2>1, <2>2
      <3>3. distance' = 0
        BY <1>1, <2>1, <2>2
      <3>4. prt_cmd_enable' = TRUE
        BY <1>1, <1>14
      <3> QED BY <3>1, <3>2, <3>3, <3>4
    <2>4. \A h \in Partial : Outstanding(h)' = 0
      BY <1>9, <2>1, <2>2, NoHalfIsNone
    <2>5. CASE start = {}
      <3>1. strobe_valid' = FALSE /\ batch' = NoHalf
        BY <1>2, <2>1, <2>2, <2>5
      <3>2. BatchIs(NoHalf)'
        BY <2>3, <2>4, <3>1 DEF BatchIs
      <3>3. BatchMoves(b, NoHalf, start)
        BY <1>14, <2>1, <2>3, <2>5, <3>1 DEF BatchMoves
      <3> QED BY <3>2, <3>3
    <2>6. CASE start # {}
      <3>1. PICK h \in todo \cap Partial : start = {h}
        BY <1>12, <2>6
      <3>2. (CHOOSE g \in {h} : TRUE) = h
        OBVIOUS
      <3>3. strobe_valid' = TRUE /\ batch' = h /\ to_send' = h.cmds /\ h # NoHalf
        BY <1>2, <2>6, <3>1, <3>2, NoHalfIsNone
      <3>4. Outstanding(h)' = 0 /\ 0 % 32 = 0
        BY <2>4, <3>1
      <3>5. BatchIs(h)'
        BY <2>3, <2>4, <3>1, <3>3, <3>4 DEF BatchIs
      <3>6. BatchMoves(b, h, start)
        BY <1>14, <2>1, <2>3, <3>1, <3>3 DEF BatchMoves
      <3> QED BY <3>5, <3>6
    <2> QED BY <2>5, <2>6
  <1>15. CASE prt_cmd_enable /\ strobe_valid
    <2>1. /\ b \in Partial /\ batch = b /\ distance = 0 /\ Outstanding(b) = 0
          /\ prt_inflight_cnt = 0 /\ to_send = b.cmds
      <3>1. b # NoHalf /\ Outstanding(b) = 0 /\ 0 % 32 = 0
        BY <1>3, <1>15
      <3> QED BY <3>1, <1>3, <1>15
    <2>2. ~Returned(rsp) /\ ~prt_rsp_last(rsp) /\ sent = 0 /\ ret = 0 /\ ~valid /\ ~last
      BY <1>6, <1>7, <1>8, <1>10, <1>11, <1>15
    <2>3. start = {} /\ strobe_valid' = FALSE /\ batch' = b /\ to_send' = b.cmds
      <3>1. start = {}
        BY <1>13, <1>15
      <3>2. to_send - 0 = b.cmds
        BY <1>4, <2>1
      <3> QED BY <1>2, <2>1, <2>2, <3>1, <3>2
    <2>4. prt_inflight_cnt' = 0 /\ distance' = 0 /\ prt_cmd_enable' = FALSE
          /\ prt_commands_allout' = FALSE
      <3>1. (0 + 32 + 0 - 0) % 32 = 0
        OBVIOUS
      <3>2. prt_inflight_cnt' = (0 + 32 + 0 - 0) % 32
        BY <1>1, <2>1, <2>2
      <3>3. distance' = 0
        BY <1>1, <2>1, <2>2
      <3>4. prt_cmd_enable' = FALSE /\ prt_commands_allout' = FALSE
        BY <1>1, <1>15
      <3> QED BY <3>1, <3>2, <3>3, <3>4
    <2>5. Outstanding(b)' = 0
      <3>1. /\ Number(b = batch /\ valid) = 0 /\ Number(Returned(rsp) /\ rsp.half = b) = 0
        BY <2>2 DEF Number
      <3> QED BY <3>1, <1>5, <2>1
    <2>6. \A h \in Partial : h # b => Outstanding(h)' = 0
      BY <1>9, <2>2
    <2>7. b # NoHalf /\ 0 + b.cmds <= b.cmds /\ 0 % 32 = 0
      BY <1>5, <2>1, NoHalfIsNone
    <2>8. BatchIs(b)'
      BY <2>1, <2>3, <2>4, <2>5, <2>6, <2>7 DEF BatchIs
    <2>9. BatchMoves(b, b, start)
      BY <1>15, <2>3, <2>4 DEF BatchMoves
    <2> QED BY <2>8, <2>9
  <1> DEFINE o == Outstanding(b)
             k == b.cmds
  <1>16. CASE ~prt_cmd_enable
    <2>1. b \in Partial /\ b # NoHalf /\ start = {} /\ ~strobe_valid /\ strobe_valid' = FALSE
      BY <1>2, <1>3, <1>13, <1>16
    <2>2. /\ o \in Nat /\ k \in 1 .. 32 /\ o <= k /\ (Returned(rsp) => o > 0)
          /\ prt_inflight_cnt = o % 32
      <3>1. o \in Nat /\ k \in 1 .. 32 /\ (Returned(rsp) => o > 0) /\ prt_inflight_cnt = o % 32
        BY <1>3, <1>5, <1>8, <2>1
      <3>2. CASE batch # NoHalf
        <4>1. o + to_send <= k
          BY <1>3, <1>16, <3>2
        <4> HIDE DEF o, k
        <4> QED BY <4>1, <3>1, <1>4
      <3>3. CASE batch = NoHalf
        BY <3>1, <3>3, <1>3, <1>16
      <3> QED BY <3>1, <3>2, <3>3
    <2>3. \A h \in Partial : h # b => Outstanding(h)' = 0
      <3>1. batch # b => batch = NoHalf /\ ~valid
        BY <1>3, <1>10, <1>16
      <3> QED BY <1>9, <3>1
    <2>4. Outstanding(b)' = o + sent - ret /\ (sent = 1 => valid /\ batch = b)
      <3>1. valid => batch = b
        BY <1>3, <1>10, <1>16
      <3>2. Number(b = batch /\ valid) = sent
        BY <3>1 DEF Number, sent
      <3>3. Number(Returned(rsp) /\ rsp.half = b) = ret
        BY <1>8 DEF Number
      <3> QED BY <3>1, <3>2, <3>3, <1>5, <1>8, <2>1
    <2>5. sent \in {0, 1} /\ ret \in {0, 1} /\ (ret = 1 => o > 0)
      BY <1>8, <2>2
    <2>6. prt_inflight_cnt' = Outstanding(b)' % 32
      <3>1. prt_inflight_cnt' = ((o % 32) + 32 + sent - ret) % 32
        BY <1>1, <2>2
      <3> HIDE DEF o, k
      <3>2. ((o % 32) + 32 + sent - ret) % 32 = (o + sent - ret) % 32
        BY <2>2, <2>5
      <3> QED BY <2>4, <3>1, <3>2
    <2>7. CASE batch # NoHalf
      <3>1. batch = b /\ distance = 0 /\ ~prt_commands_allout /\ o + to_send <= k
        BY <1>3, <1>16, <2>7
      <3>2. distance' = 0 /\ prt_cmd_enable' = FALSE
        <4>1. distance' = 0
          BY <1>1, <1>7, <3>1
        <4>2. distance # 1
          BY <3>1
        <4> QED BY <4>1, <4>2, <1>1, <1>16
      <3>3. CASE last
        <4>1. valid /\ to_send = 1
          BY <1>2, <2>1, <3>3 DEF PrtCmds, valid, last
        <4>2. batch' = NoHalf /\ prt_commands_allout' = TRUE
          BY <1>1, <1>2, <1>16, <2>1, <3>3
        <4>3. sent = 1
          BY <1>8, <4>1
        <4>4. Outstanding(b)' <= k /\ Outstanding(b)' > 0
          <5>1. Outstanding(b)' = o + 1 - ret /\ o + 1 <= k
            BY <2>4, <3>1, <4>1, <4>3
          <5> HIDE DEF o, k
          <5> QED BY <5>1, <2>2, <2>5
        <4>5. BatchIs(b)'
          BY <2>1, <2>3, <2>6, <3>2, <4>2, <4>4 DEF BatchIs
        <4> QED BY <4>5, <1>16, <2>1, <3>2 DEF BatchMoves
      <3>4. CASE ~last
        <4>1. batch' = b /\ to_send' = to_send - sent /\ prt_commands_allout' = FALSE
          BY <1>1, <1>2, <2>1, <3>1, <3>4
        <4>2. Outstanding(b)' + to_send' <= k
          <5> DEFINE n == Outstanding(b)'
          <5>1. n = o + sent - ret
            BY <2>4
          <5> HIDE DEF o, k, n
          <5>2. n + to_send' <= k
            BY <1>4, <2>2, <2>5, <3>1, <4>1, <5>1
          <5> QED BY <5>2 DEF n
        <4>3. BatchIs(b)'
          BY <2>1, <2>3, <2>6, <3>2, <4>1, <4>2 DEF BatchIs
        <4> QED BY <4>3, <1>16, <2>1, <3>2 DEF BatchMoves
      <3> QED BY <3>3, <3>4
    <2>8. CASE batch = NoHalf
      <3>1. ~valid /\ ~last /\ sent = 0 /\ batch' = NoHalf
        BY <1>2, <1>8, <1>10, <2>1, <2>8
      <3>2. prt_commands_allout /\ prt_commands_allout' = TRUE
        BY <1>1, <1>3, <1>16, <2>8
      <3>3. Outstanding(b)' <= k /\ (Outstanding(b)' = 0 <=> o = 0 \/ (ret = 1 /\ o = 1))
        <4>1. Outstanding(b)' = o + 0 - ret
          BY <2>4, <3>1
        <4> HIDE DEF o, k
        <4> QED BY <4>1, <2>2, <2>5
      <3>4. Outstanding(b)' \in Nat
        <4>1. Outstanding(b)' = o + 0 - ret
          BY <2>4, <3>1
        <4> HIDE DEF o, k
        <4> QED BY <4>1, <2>2, <2>5
      <3>5. CASE distance = 0
        <4>1. o > 0
          BY <1>3, <1>16, <2>8, <3>5
        <4>2. prt_inflight_cnt = 1 <=> o = 1
          <5> HIDE DEF o, k
          <5> QED BY <2>2
        <4>3. prt_cmd_enable' = FALSE
          <5>1. distance # 1
            BY <3>5
          <5> QED BY <5>1, <1>1, <1>16
        <4>4. CASE ret = 1 /\ o = 1
          <5>1. Returned(rsp) /\ rsp.half = b
            BY <1>8, <4>4
          <5>2. prt_rsp_last(rsp)
            BY <1>7, <3>2, <4>2, <4>4, <5>1
          <5>3. distance' = 9 /\ prt_half' = b
            BY <1>1, <1>7, <5>1, <5>2
          <5>4. Outstanding(b)' = 0
            BY <3>3, <4>4
          <5>5. BatchIs(b)'
            <6>1. prt_cmd_enable' = FALSE /\ strobe_valid' = FALSE /\ batch' = NoHalf
              BY <2>1, <3>1, <4>3
            <6> QED BY <2>1, <2>3, <2>6, <3>2, <3>3, <5>3, <5>4, <6>1 DEF BatchIs
          <5> QED BY <5>5, <1>16, <2>1, <4>3 DEF BatchMoves
        <4>5. CASE ~(ret = 1 /\ o = 1)
          <5>1. ~prt_rsp_last(rsp)
            BY <1>7, <1>8, <4>2, <4>5
          <5>2. distance' = 0
            BY <1>1, <3>5, <5>1
          <5>3. Outstanding(b)' > 0
            BY <3>3, <3>4, <4>1, <4>5
          <5>4. BatchIs(b)'
            <6>1. prt_cmd_enable' = FALSE /\ strobe_valid' = FALSE /\ batch' = NoHalf
              BY <2>1, <3>1, <4>3
            <6> QED BY <2>1, <2>3, <2>6, <3>2, <3>3, <5>2, <5>3, <6>1 DEF BatchIs
          <5> QED BY <5>4, <1>16, <2>1, <4>3 DEF BatchMoves
        <4> QED BY <4>4, <4>5
      <3>6. CASE distance # 0
        <4>1. o = 0 /\ prt_half = b /\ distance > 0
          BY <1>3, <1>4, <1>16, <2>8, <3>6
        <4>2. ~Returned(rsp) /\ ~prt_rsp_last(rsp) /\ ~response_partial(rsp)
          <5>1. ~response_partial(rsp)
            BY <1>3, <1>5, <1>7, <4>1
          <5> QED BY <5>1, <1>7
        <4>3. Outstanding(b)' = 0 /\ prt_half' = b
          BY <1>1, <3>3, <4>1, <4>2
        <4>4. CASE distance = 1 /\ ~rty_busy
          <5>1. distance' = 0 /\ prt_cmd_enable' = TRUE
            <6>1. Number(rty_busy) = 0
              BY <4>4 DEF Number
            <6> QED BY <6>1, <1>1, <2>1, <4>2, <4>4
          <5>2. prt_inflight_cnt' = 0
            <6>1. 0 % 32 = 0
              OBVIOUS
            <6> QED BY <6>1, <2>6, <4>3
          <5>3. \A h \in Partial : Outstanding(h)' = 0
            BY <2>3, <4>3
          <5>4. BatchIs(NoHalf)'
            BY <2>1, <3>1, <5>1, <5>2, <5>3 DEF BatchIs
          <5> QED BY <5>4, <1>16, <2>1, <4>4, <5>1 DEF BatchMoves
        <4>5. CASE ~(distance = 1 /\ ~rty_busy)
          <5>1. distance' > 0
            <6>1. distance = 1 => rty_busy /\ Number(rty_busy) = 1
              BY <4>5 DEF Number
            <6>2. distance # 1 => distance > 1 /\ distance - 1 > 0
              BY <1>4, <4>1
            <6> QED BY <6>1, <6>2, <1>1, <4>2
          <5>2. prt_cmd_enable' = FALSE
            BY <1>1, <1>16, <4>5
          <5>3. BatchIs(b)'
            <6>1. prt_cmd_enable' = FALSE /\ strobe_valid' = FALSE /\ batch' = NoHalf
                  /\ distance' # 0
              BY <2>1, <3>1, <5>1, <5>2
            <6> QED BY <2>1, <2>3, <2>6, <3>2, <3>3, <4>3, <6>1 DEF BatchIs
          <5> QED BY <5>3, <1>16, <2>1, <5>2 DEF BatchMoves
        <4> QED BY <4>4, <4>5
      <3> QED BY <3>5, <3>6
    <2> QED BY <2>7, <2>8
  <1> QED BY <1>4, <1>14, <1>15, <1>16

-----------------------------------------------------------------------------
(* What a cycle does to the queue, to the sender and to what is asked.     *)

\* The retry of the entry that is looked at is reported.
Retried(rsp) == rty_valid(rty_rdy(rsp))

\* Where the entries of the queue come from, when they are read and looked
\* at, and what is remembered of the half retried last.
LEMMA QueueCycle ==
    ASSUME TypeOK, QueueInv, NEW rsp \in Answers, NEW full, NEW start, NEW prt_cmd,
           NEW elapsed \in BOOLEAN, Cycle(rsp, full, start, prt_cmd, elapsed)
    PROVE  /\ rsp_in' = rsp
           /\ \A i \in DOMAIN fifo' : \/ rsp_in.kind \in RetryKinds /\ fifo'[i] = rsp_in
                                      \/ \E j \in DOMAIN fifo : fifo'[i] = fifo[j]
           /\ fifo' # <<>> => fifo # <<>> \/ rsp_in.kind \in RetryKinds
           /\ fifo = <<>> <=> DOMAIN fifo = {}
           /\ wr_en_dly' <=> rsp_in.kind \in RetryKinds
           /\ ~rty_busy /\ ~wr_en_dly => fifo = <<>>
           /\ dout' # NoRsp <=> cstate = "RETRY_RELEASE"
           /\ cstate = "RETRY_RELEASE" => \E i \in DOMAIN fifo : dout' = fifo[i]
           /\ cstate = "RETRY_RELEASE" => fifo # <<>> /\ dout' = Head(fifo)
           /\ entry' = IF dout # NoRsp THEN dout ELSE entry
           /\ dout # NoRsp <=> cstate = "RETRY_CHECK" /\ check = 0
           /\ cstate' = "RETRY_RELEASE" => cstate = "IDLE" /\ fifo # <<>> /\ xlate_pending_cnt = 0
           /\ cstate' = "RETRY_CHECK" /\ check' = 0 <=> cstate = "RETRY_RELEASE"
           /\ cstate' = "RETRY_CHECK" /\ check' = 1 => dout # NoRsp
           /\ cstate' = "RETRY_CHECK" /\ check' = 2 => cstate = "RETRY_CHECK" /\ check = 1
           /\ cstate' \in {"RETRY_BACKOFF", "RETRY_NOW"} =>
                /\ dout = NoRsp /\ ~Retried(rsp)
                /\ \/ cstate \in {"RETRY_BACKOFF", "RETRY_NOW"}
                   \/ cstate = "RETRY_CHECK" /\ check = 2 /\ ~Skipped
           /\ Retried(rsp) => /\ cstate = "RETRY_NOW" /\ dout = NoRsp /\ cstate' = "IDLE"
                              /\ last_rty' = Name(entry.half) /\ ~rep_retry_enable'
           /\ ~Retried(rsp) => /\ last_rty' = last_rty
                               /\ rep_retry_enable' => \/ strobe_valid
                                                       \/ ~entry.half.partial
                                                       \/ rep_retry_enable
           /\ Retried(rsp) => Held /\ entry \in Responses /\ entry.half \in Halves
           /\ Held' => dout # NoRsp \/ (Held /\ ~Retried(rsp))
  <1>1. /\ QueueState(rty_rdy(rsp), elapsed) /\ QueueFifo(rsp)
        /\ Repetition(rty_rdy(rsp), strobe_valid)
    BY DEF Cycle, Queue
  <1>2. /\ cstate \in {"IDLE", "RETRY_RELEASE", "RETRY_CHECK", "RETRY_BACKOFF", "RETRY_NOW"}
        /\ check \in 0 .. 3 /\ wr_en_dly \in BOOLEAN
        /\ fifo \in Seq(Responses) /\ rsp_in \in Responses \cup {NoRsp}
        /\ dout \in Responses \cup {NoRsp} /\ entry \in Responses \cup {NoRsp}
    BY DEF TypeOK, QueueTypeOK
  <1>3. /\ wr_en_dly \/ cstate = "RETRY_RELEASE" => fifo # <<>>
        /\ dout # NoRsp <=> cstate = "RETRY_CHECK" /\ check = 0
        /\ Held => entry \in Responses
    BY DEF QueueInv
  <1>4. AfterCheck \in {"IDLE", "RETRY_BACKOFF", "RETRY_NOW", "RETRY_CHECK"}
        /\ (Skipped => AfterCheck = "IDLE")
    BY DEF TypeOK, AfterCheck, QueueTypeOK, XlateKinds
  <1>5. /\ cstate = "IDLE" => cstate' = IF LeaveIdle THEN "RETRY_RELEASE" ELSE "IDLE"
        /\ cstate = "RETRY_RELEASE" => cstate' = "RETRY_CHECK"
        /\ cstate = "RETRY_CHECK" => cstate' = IF check = 2 THEN AfterCheck ELSE "RETRY_CHECK"
        /\ cstate = "RETRY_BACKOFF" => cstate' = IF elapsed THEN "RETRY_NOW" ELSE "RETRY_BACKOFF"
        /\ cstate = "RETRY_NOW" => cstate' = IF rty_rdy(rsp) THEN "IDLE" ELSE "RETRY_NOW"
        /\ check' = IF cstate # "RETRY_CHECK" THEN 0 ELSE IF check < 3 THEN check + 1 ELSE 3
    BY <1>1 DEF QueueState
  <1> DEFINE wr_en == rsp_in.kind \in RetryKinds
             rest  == IF cstate = "RETRY_RELEASE" THEN Tail(fifo) ELSE fifo
  <1>6. /\ rsp_in' = rsp
        /\ fifo' = IF wr_en THEN Append(rest, rsp_in) ELSE rest
        /\ wr_en_dly' = wr_en
        /\ dout' = IF cstate = "RETRY_RELEASE" THEN Head(fifo) ELSE NoRsp
        /\ entry' = IF dout # NoRsp THEN dout ELSE entry
    BY <1>1 DEF QueueFifo
  <1>7. /\ rest \in Seq(Responses)
        /\ \A i \in DOMAIN rest : \E j \in DOMAIN fifo : rest[i] = fifo[j]
        /\ fifo = <<>> => rest = <<>>
    <2>1. CASE cstate = "RETRY_RELEASE"
      <3>1. fifo # <<>>
        BY <1>3, <2>1
      <3>2. /\ Tail(fifo) \in Seq(Responses)
            /\ \A i \in DOMAIN Tail(fifo) : i + 1 \in DOMAIN fifo /\ Tail(fifo)[i] = fifo[i + 1]
        BY <1>2, <3>1
      <3> QED BY <2>1, <3>1, <3>2
    <2>2. CASE cstate # "RETRY_RELEASE"
      BY <1>2, <2>2
    <2> QED BY <2>1, <2>2
  <1>8. wr_en => rsp_in \in Responses
    BY <1>2, NoHalfIsNone DEF RetryKinds
  <1> HIDE DEF rest
  <1>9. \A i \in DOMAIN fifo' : \/ wr_en /\ fifo'[i] = rsp_in
                                \/ \E j \in DOMAIN fifo : fifo'[i] = fifo[j]
    <2>1. CASE wr_en
      <3>1. \A i \in DOMAIN Append(rest, rsp_in) :
                \/ Append(rest, rsp_in)[i] = rsp_in
                \/ i \in DOMAIN rest /\ Append(rest, rsp_in)[i] = rest[i]
        BY <1>7, <1>8, <2>1
      <3> QED BY <2>1, <3>1, <1>6, <1>7
    <2>2. CASE ~wr_en
      BY <2>2, <1>6, <1>7
    <2> QED BY <2>1, <2>2
  <1>10. fifo' # <<>> => fifo # <<>> \/ wr_en
    BY <1>6, <1>7
  <1>11. (fifo = <<>> <=> DOMAIN fifo = {}) /\ (fifo = <<>> <=> Len(fifo) = 0)
    BY <1>2
  <1>12. ~rty_busy /\ ~wr_en_dly => fifo = <<>>
    BY <1>11 DEF rty_busy, fifo_retry_empty
  <1>13. LeaveIdle => fifo # <<>> /\ xlate_pending_cnt = 0
    <2>1. ~wr_en_dly => (LeaveIdle => Len(fifo) # 0)
      BY DEF LeaveIdle, fifo_retry_empty
    <2> QED BY <2>1, <1>3, <1>11 DEF LeaveIdle
  <1>14. cstate = "RETRY_RELEASE" =>
            /\ fifo # <<>> /\ dout' = Head(fifo) /\ Head(fifo) \in Responses
            /\ \E i \in DOMAIN fifo : dout' = fifo[i]
    <2>1. fifo # <<>> => Head(fifo) \in Responses /\ 1 \in DOMAIN fifo /\ Head(fifo) = fifo[1]
      BY <1>2
    <2> QED BY <2>1, <1>3, <1>6
  <1>15. dout' # NoRsp <=> cstate = "RETRY_RELEASE"
    BY <1>6, <1>14, NoHalfIsNone
  <1>16. cstate' = "RETRY_RELEASE" => cstate = "IDLE" /\ LeaveIdle
    BY <1>2, <1>4, <1>5
  <1>17. /\ cstate' = "RETRY_CHECK" /\ check' = 0 <=> cstate = "RETRY_RELEASE"
         /\ cstate' = "RETRY_CHECK" /\ check' = 1 => cstate = "RETRY_CHECK" /\ check = 0
         /\ cstate' = "RETRY_CHECK" /\ check' = 2 => cstate = "RETRY_CHECK" /\ check = 1
    BY <1>2, <1>5
  <1>18. cstate' \in {"RETRY_BACKOFF", "RETRY_NOW"} =>
            /\ dout = NoRsp /\ ~Retried(rsp)
            /\ \/ cstate \in {"RETRY_BACKOFF", "RETRY_NOW"}
               \/ cstate = "RETRY_CHECK" /\ check = 2 /\ ~Skipped
    <2>1. Retried(rsp) <=> rty_rdy(rsp) /\ cstate = "RETRY_NOW"
      BY DEF Retried, rty_valid
    <2> QED BY <2>1, <1>2, <1>3, <1>4, <1>5
  <1>19. Retried(rsp) => cstate = "RETRY_NOW" /\ dout = NoRsp /\ cstate' = "IDLE"
    BY <1>3, <1>5 DEF Retried, rty_valid
  <1>20. /\ Retried(rsp) => last_rty' = Name(entry.half) /\ ~rep_retry_enable'
         /\ ~Retried(rsp) => /\ last_rty' = last_rty
                             /\ rep_retry_enable' => \/ strobe_valid
                                                     \/ ~entry.half.partial
                                                     \/ rep_retry_enable
    BY <1>1 DEF Repetition, Retried
  <1>21. Retried(rsp) => Held /\ entry \in Responses /\ entry.half \in Halves
    BY <1>3, <1>19 DEF Held, Responses
  <1>22. wr_en_dly' <=> wr_en
    BY <1>6
  <1>23. cstate' = "RETRY_CHECK" /\ check' = 1 => dout # NoRsp
    BY <1>3, <1>17
  <1>24. Held' => dout # NoRsp \/ (Held /\ ~Retried(rsp))
    <2>1. cstate = "RETRY_CHECK" /\ check # 0 => check > 0
      BY <1>2
    <2> QED BY <2>1, <1>2, <1>3, <1>5, <1>19 DEF Held
  <1> QED BY <1>3, <1>6, <1>9, <1>10, <1>11, <1>12, <1>13, <1>14, <1>15, <1>16, <1>17, <1>18,
             <1>19, <1>20, <1>21, <1>22, <1>23, <1>24

\* What is sent, and what is asked again.
LEMMA AskedCycle ==
    ASSUME TypeOK, QueueInv, HalfInv, NEW rsp \in Answers, NEW full,
           NEW start \in AtMostOne(Starts), NEW prt_cmd,
           NEW elapsed \in BOOLEAN, Cycle(rsp, full, start, prt_cmd, elapsed), NEW h \in Halves
    PROVE  /\ h \in full => h \in todo /\ h \in Full
           /\ h \in start => h \in todo /\ h \in Partial
           /\ h \in full \cup start => asked'[h] = "no"
           /\ h \notin full \cup start /\ Retried(rsp) /\ entry.half = h => asked'[h] = "reported"
           /\ h \notin full \cup start /\ ~(Retried(rsp) /\ entry.half = h) =>
                asked'[h] = IF /\ asked[h] = "no" /\ rsp.half = h
                               /\ rsp.kind \in XlateKinds \cup {"retry"}
                            THEN "wanted" ELSE asked[h]
           /\ asked[h] \in {"no", "wanted", "reported"}
           /\ h \in todo' => \/ h \in todo /\ h \notin full \cup start
                             \/ dma_resp = [code |-> "retry", half |-> h]
           /\ h \in finished' => \/ h \in finished
                                 \/ dma_resp.code \in {"good", "bad"} /\ dma_resp.half = h
           /\ batch' = h => h \in start \/ batch = h
           /\ h \in start => prt_cmd_enable /\ ~strobe_valid /\ batch = NoHalf
           /\ dma_resp'.half = h =>
                \/ dma_resp'.code = "retry" /\ Retried(rsp) /\ entry.half = h
                \/ dma_resp'.code \in {"good", "bad"} /\ rsp_full_valid(rsp) /\ rsp.half = h
                      /\ h \in Full /\ ~Retried(rsp)
                \/ dma_resp'.code \in {"good", "bad"} /\ prt_valid(rsp) /\ prt_half = h
                      /\ h \in Partial /\ ~Retried(rsp)
  <1>1. /\ Sender(full, start, prt_cmd) /\ History(rsp, full, start) /\ Report(rsp)
    BY DEF Cycle
  <1>2. h \in full => h \in todo /\ h \in Full
    BY <1>1 DEF Sender
  <1>3. /\ h \in start => h \in todo /\ h \in Partial
        /\ h \in start => prt_cmd_enable /\ ~strobe_valid /\ batch = NoHalf
    BY DEF AtMostOne, Starts
  <1>4. /\ h \in full \cup start => asked'[h] = "no"
        /\ h \notin full \cup start /\ Retried(rsp) /\ entry.half = h => asked'[h] = "reported"
        /\ h \notin full \cup start /\ ~(Retried(rsp) /\ entry.half = h) =>
             asked'[h] = IF /\ asked[h] = "no" /\ rsp.half = h
                            /\ rsp.kind \in XlateKinds \cup {"retry"}
                         THEN "wanted" ELSE asked[h]
    BY <1>1 DEF History, Retried
  <1>5. asked[h] \in {"no", "wanted", "reported"}
    BY DEF TypeOK
  <1>6. dma_resp.code = "retry" => dma_resp = [code |-> "retry", half |-> dma_resp.half]
    BY DEF TypeOK, NoReport
  <1>7. h \in todo' => \/ h \in todo /\ h \notin full \cup start
                       \/ dma_resp = [code |-> "retry", half |-> h]
    BY <1>1, <1>6 DEF Sender
  <1>8. h \in finished' => \/ h \in finished
                           \/ dma_resp.code \in {"good", "bad"} /\ dma_resp.half = h
    BY <1>1 DEF Sender
  <1>9. batch' = h => h \in start \/ batch = h
    <2>1. CASE start = {}
      BY <1>1, <2>1, NoHalfIsNone DEF Sender
    <2>2. CASE start # {}
      <3>1. (CHOOSE g \in start : TRUE) \in start
        BY <2>2
      <3> QED BY <1>1, <2>2, <3>1 DEF Sender
    <2> QED BY <2>1, <2>2
  <1>10. /\ rsp_full_valid(rsp) => ~Retried(rsp) /\ ~prt_valid(rsp)
         /\ Retried(rsp) => ~prt_valid(rsp)
    BY DEF Retried, rty_valid, rty_rdy, prt_valid, prt_rsp_available
  <1>11. dma_resp'.half = h =>
            \/ dma_resp'.code = "retry" /\ Retried(rsp) /\ entry.half = h
            \/ dma_resp'.code \in {"good", "bad"} /\ rsp_full_valid(rsp) /\ rsp.half = h
                  /\ h \in Full /\ ~Retried(rsp)
            \/ dma_resp'.code \in {"good", "bad"} /\ prt_valid(rsp) /\ prt_half = h
                  /\ h \in Partial /\ ~Retried(rsp)
    <2>1. CASE rsp_full_valid(rsp)
      <3>1. dma_resp' = [code |-> IF rsp.kind = "done" THEN "good" ELSE "bad", half |-> rsp.half]
        BY <1>1, <1>10, <2>1 DEF Report, Retried
      <3>2. rsp.kind \in {"done", "failed"} /\ (rsp.half = h => h \in Full)
        BY <2>1 DEF rsp_full_valid, response_partial, Full, Partial
      <3> QED BY <1>10, <2>1, <3>1, <3>2
    <2>2. CASE Retried(rsp)
      <3>1. dma_resp' = [code |-> "retry", half |-> entry.half]
        BY <1>1, <1>10, <2>2 DEF Report, Retried
      <3> QED BY <2>2, <3>1
    <2>3. CASE prt_valid(rsp)
      <3>1. dma_resp' = [code |-> prt_rsp_code, half |-> prt_half]
        BY <1>1, <1>10, <2>3 DEF Report, Retried
      <3>2. prt_rsp_code \in {"good", "bad"} /\ prt_half \in Partial
        BY <2>3 DEF TypeOK, HalfInv, prt_valid, prt_rsp_available
      <3> QED BY <1>10, <2>3, <3>1, <3>2
    <2>4. CASE ~rsp_full_valid(rsp) /\ ~Retried(rsp) /\ ~prt_valid(rsp)
      <3>1. dma_resp' = NoReport
        BY <1>1, <2>4 DEF Report, Retried
      <3> QED BY <3>1, NoHalfIsNone DEF NoReport
    <2> QED BY <2>1, <2>2, <2>3, <2>4
  <1> QED BY <1>2, <1>3, <1>4, <1>5, <1>7, <1>8, <1>9, <1>11

-----------------------------------------------------------------------------
(* A host that asks for one kind of command again.                         *)

\* The host asks either for full commands again or for partial ones.
OneKindAsked == \A R \in Regimes : R \subseteq Full \/ R \subseteq Partial

\* xlate_pending_cnt can tell how many translations are under way: fewer than
\* it has values, because the host asks for fewer, or because there are not as
\* many commands.
XlateCounted ==
    \/ MaxRetry < PendingMod
    \/ /\ IsFiniteSet(Full) /\ Cardinality(Full) < PendingMod
       /\ \A h \in Partial : h.cmds < PendingMod

\* Nothing is retried that the host does not ask for.
RegimeInv ==
    /\ \A h \in Halves : in_xlate[h] > 0 \/ asked[h] # "no" => h \in regime
    /\ rsp_in.kind \in RetryKinds => rsp_in.half \in regime
    /\ \A i \in DOMAIN fifo : fifo[i].half \in regime
    /\ dout # NoRsp => dout.half \in regime
    /\ entry # NoRsp => entry.half \in regime

\* The half that was retried last would be skipped.
Seen(h) == last_rty = Name(h) /\ ~rep_retry_enable

\* The entry that is looked at is wanted, or it will be skipped.
EntryWanted ==
    /\ cstate = "RETRY_CHECK" /\ check \in {1, 2} =>
          asked[entry.half] = "wanted" \/ Seen(entry.half)
    /\ cstate \in {"RETRY_BACKOFF", "RETRY_NOW"} => asked[entry.half] = "wanted"

\* The retry queue and the batch of b, while partial commands are retried.
\* Between two batches the queue is empty, but for the entry that was read
\* last; that one is out of the way before the strobe of the next batch allows
\* its half to be retried again.  The queue is read when the host has wanted
\* the half, and not while a translation is under way.
QueueOfBatch(b) ==
    /\ rsp_in.kind \in RetryKinds => rsp_in.half = b
    /\ \A i \in DOMAIN fifo : fifo[i].half = b
    /\ dout # NoRsp => dout.half = b
    /\ prt_cmd_enable => rsp_in.kind \notin RetryKinds /\ fifo = <<>> /\ dout = NoRsp
    /\ strobe_valid => asked[b] = "no" /\ (cstate = "RETRY_CHECK" => check > 1)
    /\ distance \in 1 .. 8 => rsp_in.kind \notin RetryKinds
    /\ distance \in 1 .. 7 => ~wr_en_dly
    /\ xlate_pending_cnt = IF b = NoHalf THEN 0 ELSE in_xlate[b]
    /\ b # NoHalf => in_xlate[b] <= retries
    /\ ~prt_cmd_enable =>
         /\ rsp_in.kind \in RetryKinds \/ fifo # <<>> => asked[b] # "no" \/ in_xlate[b] > 0
         /\ cstate = "RETRY_RELEASE" \/ dout # NoRsp => asked[b] # "no"
         /\ asked[b] = "reported" =>
              /\ Seen(b) /\ entry.half \in Partial
              /\ cstate \in {"RETRY_BACKOFF", "RETRY_NOW"} => entry.half = b
         /\ cstate = "RETRY_CHECK" /\ check \in {1, 2} => entry.half = b

\* A half is to be sent again when its retry was reported, and not before.
TodoInv ==
    \A h \in Partial :
        /\ dma_resp = [code |-> "retry", half |-> h] => h \notin todo /\ asked[h] = "reported"
        /\ asked[h] = "wanted" => h \notin todo
        /\ asked[h] = "no" /\ (batch = h \/ Outstanding(h) > 0) => h \notin todo

\* What the retry of partial commands needs.
BatchInv ==
    \E b : BatchIs(b) /\ (regime \subseteq Partial => QueueOfBatch(b) /\ EntryWanted)

\* Nothing comes into the queue that the host does not ask for.
LEMMA RegimeStep ==
    ASSUME TypeOK, QueueInv, HalfInv, RegimeInv, NEW rsp \in Answers, NEW full,
           NEW start \in AtMostOne(Starts), NEW prt_cmd,
           NEW elapsed \in BOOLEAN, Cycle(rsp, full, start, prt_cmd, elapsed)
    PROVE  /\ RegimeInv' /\ regime' = regime
           /\ rsp.kind \in RetryKinds \cup XlateKinds => rsp.half \in regime
  <1>1. Host(rsp, full, prt_cmd)
    BY DEF Cycle
  <1>2. regime' = regime
    BY <1>1 DEF Host
  <1>3. /\ rsp.kind \in RetryKinds \cup XlateKinds => rsp.half \in regime
    <2>1. rsp.kind \in XlateKinds => rsp.half \in regime
      BY AnswerFacts DEF RegimeInv
    <2>2. rsp.kind \in RetryKinds => rsp.half \in regime
      <3> DEFINE G(k, h) == [kind |-> k, half |-> h]
      <3>1. CASE rsp = NoRsp
        BY <3>1, NoHalfIsNone DEF RetryKinds
      <3>2. CASE \E k \in {"done", "failed"}, h \in {g \in Halves : at_host[g] > 0} : rsp = G(k, h)
        BY <3>2 DEF RetryKinds
      <3>3. CASE \E k \in RetryKinds, h \in {g \in regime : at_host[g] > 0 /\ retries < MaxRetry} :
                    rsp = G(k, h)
        BY <3>3
      <3>4. CASE \E k \in XlateKinds, h \in {g \in Halves : in_xlate[g] > 0} : rsp = G(k, h)
        BY <3>4 DEF RetryKinds, XlateKinds
      <3> QED BY <3>1, <3>2, <3>3, <3>4 DEF Answers
    <2> QED BY <2>1, <2>2
  <1>4. /\ rsp_in' = rsp
        /\ \A i \in DOMAIN fifo' : \/ rsp_in.kind \in RetryKinds /\ fifo'[i] = rsp_in
                                   \/ \E j \in DOMAIN fifo : fifo'[i] = fifo[j]
        /\ dout' # NoRsp => \E i \in DOMAIN fifo : dout' = fifo[i]
        /\ entry' = IF dout # NoRsp THEN dout ELSE entry
        /\ Retried(rsp) => entry \in Responses
    BY QueueCycle
  <1>5. ASSUME NEW h \in Halves, in_xlate'[h] > 0 PROVE h \in regime
    <2>1. in_xlate'[h] = in_xlate[h] + Of(rsp, {"xlate_pending"}, h) - Of(rsp, XlateKinds, h)
      BY <1>1 DEF Host
    <2>2. in_xlate[h] \in Nat
      BY DEF TypeOK
    <2>3. CASE rsp.half = h /\ rsp.kind = "xlate_pending"
      BY <2>3, <1>3 DEF RetryKinds
    <2>4. CASE ~(rsp.half = h /\ rsp.kind = "xlate_pending")
      <3>1. Of(rsp, {"xlate_pending"}, h) = 0 /\ Of(rsp, XlateKinds, h) \in {0, 1}
        BY <2>4 DEF Of, Number
      <3>2. in_xlate[h] > 0
        BY <1>5, <2>1, <2>2, <3>1
      <3> QED BY <3>2 DEF RegimeInv
    <2> QED BY <2>3, <2>4
  <1>6. ASSUME NEW h \in Halves, asked'[h] # "no" PROVE h \in regime
    <2>1. h \notin full \cup start
      BY <1>6, AskedCycle
    <2>2. CASE Retried(rsp) /\ entry.half = h
      BY <1>4, <2>2, NoHalfIsNone DEF RegimeInv
    <2>3. CASE ~(Retried(rsp) /\ entry.half = h)
      <3>1. asked'[h] = IF /\ asked[h] = "no" /\ rsp.half = h
                           /\ rsp.kind \in XlateKinds \cup {"retry"}
                        THEN "wanted" ELSE asked[h]
        BY <2>1, <2>3, AskedCycle
      <3>2. asked[h] # "no" \/ (rsp.half = h /\ rsp.kind \in XlateKinds \cup {"retry"})
        BY <1>6, <3>1
      <3> QED BY <1>3, <3>2 DEF RegimeInv, RetryKinds
    <2> QED BY <2>2, <2>3
  <1>7. /\ rsp_in'.kind \in RetryKinds => rsp_in'.half \in regime
        /\ \A i \in DOMAIN fifo' : fifo'[i].half \in regime
        /\ dout' # NoRsp => dout'.half \in regime
        /\ entry' # NoRsp => entry'.half \in regime
    BY <1>3, <1>4 DEF RegimeInv
  <1>8. RegimeInv'
    BY <1>2, <1>5, <1>6, <1>7 DEF RegimeInv
  <1> QED BY <1>2, <1>3, <1>8

\* A wanted half is not sent before its retry was reported.
LEMMA TodoStep ==
    ASSUME OneKindAsked, TypeOK, QueueInv, HalfInv, RegimeInv, BatchInv, TodoInv,
           NEW rsp \in Answers, NEW full,
           NEW start \in AtMostOne(Starts), NEW prt_cmd,
           NEW elapsed \in BOOLEAN, Cycle(rsp, full, start, prt_cmd, elapsed)
    PROVE  /\ TodoInv'
           /\ \A h \in Partial : Retried(rsp) /\ entry.half = h =>
                 asked[h] = "wanted" /\ regime \subseteq Partial
           /\ \A h \in Partial : h \in start =>
                 asked[h] # "wanted" /\ dma_resp # [code |-> "retry", half |-> h]
  <1>1. Retried(rsp) => cstate = "RETRY_NOW" /\ entry \in Responses
    BY QueueCycle
  <1>2. regime \in Regimes
    BY DEF TypeOK
  <1>3. ASSUME NEW h \in Partial, Retried(rsp), entry.half = h
        PROVE  asked[h] = "wanted" /\ regime \subseteq Partial
    <2>1. h \in regime
      BY <1>1, <1>3, NoHalfIsNone DEF RegimeInv
    <2>2. regime \subseteq Partial
      BY <1>2, <2>1, NoHalfIsNone DEF OneKindAsked
    <2>3. EntryWanted
      BY <2>2 DEF BatchInv
    <2> QED BY <1>1, <1>3, <2>2, <2>3 DEF EntryWanted
  <1>4. ASSUME NEW h \in Partial, h \in start
        PROVE  asked[h] # "wanted" /\ dma_resp # [code |-> "retry", half |-> h]
    <2>1. h \in todo
      BY <1>4 DEF AtMostOne, Starts
    <2> QED BY <2>1 DEF TodoInv
  <1>5. ASSUME NEW h \in Partial
        PROVE  /\ dma_resp' = [code |-> "retry", half |-> h] => h \notin todo' /\ asked'[h] = "reported"
               /\ asked'[h] = "wanted" => h \notin todo'
               /\ asked'[h] = "no" /\ (batch' = h \/ Outstanding(h)' > 0) => h \notin todo'
    <2>1. h \in Halves /\ h \notin full
      BY NoHalfIsNone, AskedCycle
    <2>2. /\ dma_resp = [code |-> "retry", half |-> h] => h \notin todo /\ asked[h] = "reported"
          /\ asked[h] = "wanted" => h \notin todo
          /\ asked[h] = "no" /\ (batch = h \/ Outstanding(h) > 0) => h \notin todo
      BY DEF TodoInv
    <2>3. /\ h \in start => h \in todo
          /\ h \in start => asked'[h] = "no"
          /\ h \notin start /\ Retried(rsp) /\ entry.half = h => asked'[h] = "reported"
          /\ h \notin start /\ ~(Retried(rsp) /\ entry.half = h) =>
               asked'[h] = IF /\ asked[h] = "no" /\ rsp.half = h
                              /\ rsp.kind \in XlateKinds \cup {"retry"}
                           THEN "wanted" ELSE asked[h]
          /\ h \in todo' => \/ h \in todo /\ h \notin start
                            \/ dma_resp = [code |-> "retry", half |-> h]
          /\ batch' = h => h \in start \/ batch = h
          /\ dma_resp'.half = h /\ dma_resp'.code = "retry" => Retried(rsp) /\ entry.half = h
      BY <2>1, AskedCycle
    <2>4. /\ rsp.half = h => Outstanding(h) > 0
          /\ Outstanding(h)' > 0 => Outstanding(h) > 0 \/ batch = h
      <3>1. /\ Outstanding(h) \in Nat
            /\ Outstanding(h)' = Outstanding(h) + Number(h = batch /\ "valid" \in prt_cmd)
                                    - Number(Returned(rsp) /\ rsp.half = h)
            /\ rsp.half = h => Outstanding(h) > 0
        BY OutstandingStep
      <3>2. h # batch => Number(h = batch /\ "valid" \in prt_cmd) = 0
        BY DEF Number
      <3>3. Number(Returned(rsp) /\ rsp.half = h) \in {0, 1}
        BY DEF Number
      <3> QED BY <3>1, <3>2, <3>3
    <2>5. dma_resp' = [code |-> "retry", half |-> h] => h \notin todo' /\ asked'[h] = "reported"
      <3>1. SUFFICES ASSUME dma_resp' = [code |-> "retry", half |-> h]
                     PROVE  h \notin todo' /\ asked'[h] = "reported"
        OBVIOUS
      <3>2. Retried(rsp) /\ entry.half = h
        BY <2>3, <3>1
      <3>3. asked[h] = "wanted"
        BY <1>3, <3>2
      <3> QED BY <2>2, <2>3, <3>2, <3>3
    <2>6. asked'[h] = "wanted" => h \notin todo'
      BY <2>2, <2>3, <2>4
    <2>7. asked'[h] = "no" /\ (batch' = h \/ Outstanding(h)' > 0) => h \notin todo'
      BY <2>2, <2>3, <2>4
    <2> QED BY <2>5, <2>6, <2>7
  <1>6. TodoInv'
    BY <1>5 DEF TodoInv, Partial
  <1> QED BY <1>3, <1>4, <1>6

\* Counting up and down without wrapping.
LEMMA CountMod ==
    ASSUME NEW m \in Nat \ {0}, NEW x \in Nat, x < m
    PROVE  x % m = x /\ (x + m) % m = x
  <1>1. x % m = x
    OBVIOUS
  <1>2. (x + m) % m = x
    OBVIOUS
  <1> QED BY <1>1, <1>2

\* The translations under way are counted.
LEMMA XlateOfBatch ==
    ASSUME XlateCounted, TypeOK, QueueInv, HalfInv, RegimeInv, NEW rsp \in Answers, NEW full,
           NEW start \in AtMostOne(Starts), NEW prt_cmd,
           NEW elapsed \in BOOLEAN, Cycle(rsp, full, start, prt_cmd, elapsed), TypeOK',
           NEW b, BatchIs(b), regime \subseteq Partial, QueueOfBatch(b),
           NEW c, BatchIs(c)', BatchMoves(b, c, start)
    PROVE  /\ xlate_pending_cnt' = IF c = NoHalf THEN 0 ELSE in_xlate'[c]
           /\ c # NoHalf => in_xlate'[c] <= retries'
  <1>1. /\ rsp.kind \in RetryKinds \cup XlateKinds =>
             rsp.half = b /\ b \in Partial /\ ~prt_cmd_enable /\ distance = 0
    <2>1. rsp.kind \in RetryKinds \cup XlateKinds => rsp.half \in Partial
      BY RegimeStep
    <2> QED BY <2>1, PartialAnswer
  <1>2. /\ xlate_pending_cnt' =
             CASE rsp.kind = "xlate_pending" -> (xlate_pending_cnt + 1) % PendingMod
               [] rsp.kind \in XlateKinds    -> (xlate_pending_cnt + PendingMod - 1) % PendingMod
               [] OTHER                      -> xlate_pending_cnt
        /\ retries' = retries + Number(rsp.kind \in RetryKinds)
    BY DEF Cycle, Queue, Balance, Host
  <1>3. ASSUME NEW h \in Partial
        PROVE  /\ in_xlate[h] \in Nat
               /\ in_xlate'[h] = in_xlate[h] + Number(rsp.half = h /\ rsp.kind = "xlate_pending")
                                    - Number(rsp.half = h /\ rsp.kind \in XlateKinds)
               /\ rsp.half = h /\ rsp.kind \in XlateKinds => in_xlate[h] > 0
    BY OutstandingStep
  <1>4. /\ xlate_pending_cnt = IF b = NoHalf THEN 0 ELSE in_xlate[b]
        /\ b # NoHalf => in_xlate[b] <= retries
    BY DEF QueueOfBatch
  <1>5. retries \in Nat /\ retries' \in 0 .. MaxRetry /\ MaxRetry \in Nat /\ PendingMod \in Nat \ {0}
    BY RetryAssumption, DecodeAssumption DEF TypeOK, RetryAssumption, DecodeAssumption
  <1>6. /\ rsp.kind = "xlate_pending" => rsp.kind \in RetryKinds /\ rsp.kind \notin XlateKinds
    BY DEF RetryKinds, XlateKinds
  <1>7. CASE c = b /\ b # NoHalf
    <2> DEFINE x == in_xlate[b]
               y == in_xlate'[b]
               n == xlate_pending_cnt'
    <2>1. b \in Partial /\ x \in Nat /\ x <= retries /\ xlate_pending_cnt = x
      <3>1. b \in Partial
        BY <1>7 DEF BatchIs
      <3> QED BY <1>3, <1>4, <1>7, <3>1
    <2>2. CASE rsp.kind = "xlate_pending"
      <3>1. y = x + 1 /\ retries' = retries + 1 /\ n = (x + 1) % PendingMod
        <4>1. Number(rsp.half = b /\ rsp.kind = "xlate_pending") = 1
          BY <1>1, <1>6, <2>2 DEF Number
        <4>2. Number(rsp.half = b /\ rsp.kind \in XlateKinds) = 0
          BY <1>6, <2>2 DEF Number
        <4>3. Number(rsp.kind \in RetryKinds) = 1
          BY <1>6, <2>2 DEF Number
        <4>4. y = x + 1 - 0
          BY <1>3, <2>1, <4>1, <4>2
        <4>5. n = (x + 1) % PendingMod
          BY <1>2, <1>6, <2>1, <2>2
        <4> QED BY <1>2, <2>1, <4>3, <4>4, <4>5
      <3>2. y <= retries' /\ y \in Nat
        <4> HIDE DEF x, y
        <4> QED BY <1>5, <2>1, <3>1
      <3>3. y < PendingMod
        <4>1. CASE MaxRetry < PendingMod
          <5> HIDE DEF y
          <5> QED BY <1>5, <3>2, <4>1
        <4>2. CASE \A h \in Partial : h.cmds < PendingMod
          <5> DEFINE o == Outstanding(b)'
                     k == b.cmds
                     a == at_host'[b]
          <5>1. o = a + y /\ a \in Nat
            BY <2>1, NoHalfIsNone DEF Outstanding, TypeOK
          <5>2. k < PendingMod /\ k \in Nat
            BY <2>1, <4>2, NoHalfIsNone, RetryAssumption DEF RetryAssumption
          <5>3. o <= k
            <6>1. ~prt_cmd_enable' /\ prt_cmd_enable' \in BOOLEAN
              BY <1>1, <1>6, <1>7, <2>2 DEF BatchMoves, TypeOK
            <6>2. CASE batch' # NoHalf
              <7> DEFINE t == to_send'
              <7>1. o + t <= k /\ t \in Nat
                BY <1>7, <6>1, <6>2 DEF BatchIs, TypeOK
              <7> HIDE DEF o, k, t, a, y
              <7>2. o \in Nat
                BY <3>2, <5>1
              <7> QED BY <5>2, <7>1, <7>2
            <6>3. CASE batch' = NoHalf
              BY <1>7, <6>1, <6>3 DEF BatchIs
            <6> QED BY <6>2, <6>3
          <5> HIDE DEF o, k, a, y
          <5> QED BY <1>5, <3>2, <5>1, <5>2, <5>3
        <4> QED BY <4>1, <4>2 DEF XlateCounted
      <3>4. n = y
        <4> HIDE DEF x, y, n
        <4> QED BY <1>5, <3>1, <3>2, <3>3, CountMod
      <3> QED BY <1>7, <3>2, <3>4
    <2>3. CASE rsp.kind \in XlateKinds
      <3>1. x > 0 /\ y = x - 1 /\ retries' >= retries /\ n = (x + PendingMod - 1) % PendingMod
        <4>1. Number(rsp.half = b /\ rsp.kind = "xlate_pending") = 0
          BY <1>6, <2>3 DEF Number
        <4>2. Number(rsp.half = b /\ rsp.kind \in XlateKinds) = 1
          BY <1>1, <2>3 DEF Number
        <4>3. Number(rsp.kind \in RetryKinds) \in {0, 1}
          BY DEF Number
        <4>4. y = x + 0 - 1 /\ x > 0
          BY <1>1, <1>3, <2>1, <2>3, <4>1, <4>2
        <4>5. n = (x + PendingMod - 1) % PendingMod
          BY <1>2, <1>6, <2>1, <2>3
        <4> QED BY <1>2, <1>5, <2>1, <4>3, <4>4, <4>5
      <3>2. x < PendingMod
        <4>1. x \in 0 .. PendingMod - 1
          BY <2>1 DEF TypeOK, QueueTypeOK
        <4> HIDE DEF x
        <4> QED BY <1>5, <4>1
      <3>3. n = y /\ y <= retries'
        <4> HIDE DEF x, y, n
        <4>1. y \in Nat /\ y < PendingMod /\ x + PendingMod - 1 = y + PendingMod
          BY <1>5, <2>1, <3>1, <3>2
        <4>2. n = y
          BY <1>5, <3>1, <4>1, CountMod
        <4> QED BY <1>5, <2>1, <3>1, <4>2
      <3> QED BY <1>7, <3>3
    <2>4. CASE rsp.kind # "xlate_pending" /\ rsp.kind \notin XlateKinds
      <3>1. y = x /\ retries' >= retries /\ n = x
        <4>1. Number(rsp.half = b /\ rsp.kind = "xlate_pending") = 0
          BY <2>4 DEF Number
        <4>2. Number(rsp.half = b /\ rsp.kind \in XlateKinds) = 0
          BY <2>4 DEF Number
        <4>3. Number(rsp.kind \in RetryKinds) \in {0, 1}
          BY DEF Number
        <4>4. y = x + 0 - 0
          BY <1>3, <2>1, <4>1, <4>2
        <4>5. n = x
          BY <1>2, <2>1, <2>4
        <4> QED BY <1>2, <1>5, <2>1, <4>3, <4>4, <4>5
      <3>2. n = y /\ y <= retries'
        <4> HIDE DEF x, y, n
        <4> QED BY <1>5, <2>1, <3>1
      <3> QED BY <1>7, <3>2
    <2> QED BY <2>2, <2>3, <2>4
  <1>8. CASE c = NoHalf
    <2>1. rsp.kind # "xlate_pending" /\ rsp.kind \notin XlateKinds
      <3>1. prt_cmd_enable \/ distance = 1 \/ b = NoHalf
        BY <1>8 DEF BatchMoves
      <3> QED BY <1>1, <1>6, <3>1, NoHalfIsNone
    <2>2. xlate_pending_cnt' = xlate_pending_cnt
      BY <1>2, <2>1
    <2>3. xlate_pending_cnt = 0
      <3>1. CASE b = NoHalf
        BY <1>4, <3>1
      <3>2. CASE b # NoHalf
        <4>1. ~prt_cmd_enable /\ distance = 1 /\ b \in Partial
          BY <1>8, <3>2 DEF BatchMoves, BatchIs
        <4>2. Outstanding(b) = 0
          <5>1. batch = NoHalf
            BY <4>1 DEF BatchIs
          <5> QED BY <4>1, <5>1 DEF BatchIs
        <4>3. at_host[b] \in Nat /\ in_xlate[b] \in Nat
          BY <4>1, OutstandingStep
        <4>4. in_xlate[b] = 0
          BY <4>2, <4>3 DEF Outstanding
        <4> QED BY <1>4, <3>2, <4>4
      <3> QED BY <3>1, <3>2
    <2> QED BY <1>8, <2>2, <2>3
  <1>9. CASE c # NoHalf /\ c # b
    <2>1. b = NoHalf /\ c \in Partial /\ prt_cmd_enable /\ prt_cmd_enable' /\ strobe_valid'
      BY <1>9 DEF BatchMoves
    <2>2. rsp.kind # "xlate_pending" /\ rsp.kind \notin XlateKinds
      BY <1>1, <1>6, <2>1
    <2>3. xlate_pending_cnt' = 0
      BY <1>2, <1>4, <2>1, <2>2
    <2>4. Outstanding(c)' = 0
      BY <2>1 DEF BatchIs
    <2>5. at_host'[c] \in Nat /\ in_xlate'[c] \in Nat
      BY <2>1, NoHalfIsNone DEF TypeOK
    <2>6. in_xlate'[c] = 0
      BY <2>4, <2>5 DEF Outstanding
    <2> QED BY <1>5, <1>9, <2>3, <2>6
  <1> QED BY <1>7, <1>8, <1>9

\* While partial commands are retried, the entries of the queue are of the
\* half that has the batch, and what is looked at is wanted.
LEMMA QueueOfBatchStep ==
    ASSUME OneKindAsked, XlateCounted, TypeOK, QueueInv, HalfInv, RegimeInv, BatchInv, TodoInv,
           NEW rsp \in Answers, NEW full, NEW start \in AtMostOne(Starts), NEW prt_cmd,
           NEW elapsed \in BOOLEAN, Cycle(rsp, full, start, prt_cmd, elapsed), TypeOK',
           NEW b, BatchIs(b), regime \subseteq Partial, QueueOfBatch(b), EntryWanted,
           NEW c, BatchIs(c)', BatchMoves(b, c, start)
    PROVE  QueueOfBatch(c)' /\ EntryWanted'
  <1> DEFINE again == rsp.kind \in RetryKinds
             queued == rsp_in.kind \in RetryKinds
             over  == c = NoHalf /\ distance = 1 /\ ~rty_busy /\ ~prt_cmd_enable
             quiet == prt_cmd_enable \/ over
  <1>1. /\ rsp.kind \in RetryKinds \cup XlateKinds => rsp.half \in Partial
        /\ rsp.kind \in RetryKinds \cup XlateKinds =>
             rsp.half = b /\ b \in Partial /\ ~prt_cmd_enable /\ distance = 0
    <2>1. rsp.kind \in RetryKinds \cup XlateKinds => rsp.half \in Partial
      BY RegimeStep
    <2> QED BY <2>1, PartialAnswer
  <1>2. /\ rsp_in' = rsp
        /\ \A i \in DOMAIN fifo' : \/ queued /\ fifo'[i] = rsp_in
                                   \/ \E j \in DOMAIN fifo : fifo'[i] = fifo[j]
        /\ fifo' # <<>> => fifo # <<>> \/ queued
        /\ fifo = <<>> <=> DOMAIN fifo = {}
        /\ wr_en_dly' <=> queued
        /\ ~rty_busy /\ ~wr_en_dly => fifo = <<>>
    BY QueueCycle
  <1>3. /\ dout' # NoRsp <=> cstate = "RETRY_RELEASE"
        /\ cstate = "RETRY_RELEASE" => \E i \in DOMAIN fifo : dout' = fifo[i]
        /\ cstate = "RETRY_RELEASE" => fifo # <<>>
        /\ entry' = IF dout # NoRsp THEN dout ELSE entry
        /\ dout # NoRsp <=> cstate = "RETRY_CHECK" /\ check = 0
        /\ cstate' = "RETRY_RELEASE" => cstate = "IDLE" /\ fifo # <<>> /\ xlate_pending_cnt = 0
        /\ cstate' = "RETRY_CHECK" /\ check' = 0 <=> cstate = "RETRY_RELEASE"
        /\ cstate' = "RETRY_CHECK" /\ check' = 1 => dout # NoRsp
        /\ cstate' = "RETRY_CHECK" /\ check' = 2 => cstate = "RETRY_CHECK" /\ check = 1
    BY QueueCycle
  <1>4. /\ cstate' \in {"RETRY_BACKOFF", "RETRY_NOW"} =>
             /\ dout = NoRsp /\ ~Retried(rsp)
             /\ \/ cstate \in {"RETRY_BACKOFF", "RETRY_NOW"}
                \/ cstate = "RETRY_CHECK" /\ check = 2 /\ ~Skipped
        /\ Retried(rsp) => /\ cstate = "RETRY_NOW" /\ dout = NoRsp /\ cstate' = "IDLE"
                           /\ last_rty' = Name(entry.half) /\ ~rep_retry_enable'
        /\ ~Retried(rsp) => /\ last_rty' = last_rty
                            /\ rep_retry_enable' => \/ strobe_valid
                                                    \/ ~entry.half.partial
                                                    \/ rep_retry_enable
        /\ Retried(rsp) => Held /\ entry \in Responses /\ entry.half \in Halves
    BY QueueCycle
  <1>5. QueueOfBatch(b)
    OBVIOUS
  <1>6. /\ queued => rsp_in.half = b
        /\ \A i \in DOMAIN fifo : fifo[i].half = b
        /\ dout # NoRsp => dout.half = b
        /\ prt_cmd_enable => ~queued /\ fifo = <<>> /\ dout = NoRsp
        /\ strobe_valid => asked[b] = "no" /\ (cstate = "RETRY_CHECK" => check > 1)
        /\ distance \in 1 .. 8 => ~queued
        /\ distance \in 1 .. 7 => ~wr_en_dly
        /\ xlate_pending_cnt = IF b = NoHalf THEN 0 ELSE in_xlate[b]
    BY <1>5 DEF QueueOfBatch
  <1>7. ~prt_cmd_enable =>
         /\ queued \/ fifo # <<>> => asked[b] # "no" \/ in_xlate[b] > 0
         /\ cstate = "RETRY_RELEASE" \/ dout # NoRsp => asked[b] # "no"
         /\ asked[b] = "reported" =>
              /\ Seen(b) /\ entry.half \in Partial
              /\ cstate \in {"RETRY_BACKOFF", "RETRY_NOW"} => entry.half = b
         /\ cstate = "RETRY_CHECK" /\ check \in {1, 2} => entry.half = b
    BY <1>5 DEF QueueOfBatch
  <1>8. /\ cstate = "RETRY_CHECK" /\ check \in {1, 2} =>
             asked[entry.half] = "wanted" \/ Seen(entry.half)
        /\ cstate \in {"RETRY_BACKOFF", "RETRY_NOW"} => asked[entry.half] = "wanted"
    BY DEF EntryWanted
  <1>9. /\ check \in 0 .. 3 /\ check' \in 0 .. 3 /\ distance \in 0 .. 9 /\ distance' \in 0 .. 9
        /\ prt_cmd_enable \in BOOLEAN /\ strobe_valid \in BOOLEAN
    BY DEF TypeOK, QueueTypeOK, Distance
  <1>10. /\ entry # NoRsp => entry.half \in Partial
         /\ dout # NoRsp => dout.half \in Partial
    BY DEF RegimeInv
  <1>11. /\ c = b \/ quiet
         /\ prt_cmd_enable' => quiet
         /\ strobe_valid' => prt_cmd_enable /\ ~strobe_valid /\ start = {c} /\ c \in Partial
         /\ ~prt_cmd_enable' => c = b /\ start = {} /\ (prt_cmd_enable => strobe_valid)
         /\ ~prt_cmd_enable => start = {}
         /\ c = b \/ b = NoHalf \/ c = NoHalf
         /\ ~prt_cmd_enable => ~strobe_valid
    BY DEF BatchMoves, BatchIs
  <1>12. (b \in Partial \cup {NoHalf}) /\ (~prt_cmd_enable => b \in Partial)
         /\ (strobe_valid => b \in Partial)
    BY DEF BatchIs
  <1> HIDE DEF again, queued, over
  \* Between two batches.
  <1>13. quiet => /\ fifo = <<>> /\ ~queued /\ fifo' = <<>> /\ cstate # "RETRY_RELEASE"
                  /\ dout' = NoRsp /\ cstate' # "RETRY_RELEASE" /\ ~again
    <2>1. over => fifo = <<>> /\ ~queued
      <3>1. over => distance = 1 /\ ~rty_busy
        BY DEF over
      <3>2. distance = 1 => distance \in 1 .. 8 /\ distance \in 1 .. 7
        OBVIOUS
      <3> QED BY <3>1, <3>2, <1>2, <1>6
    <2>2. quiet => fifo = <<>> /\ ~queued
      BY <1>6, <2>1
    <2>3. quiet => ~again
      <3>1. over => distance = 1
        BY DEF over
      <3> QED BY <3>1, <1>1 DEF again
    <2> QED BY <2>2, <2>3, <1>2, <1>3
  \* What is asked of the half that keeps the batch.
  <1>14. ASSUME NEW h \in Partial
         PROVE  /\ h \in Halves
                /\ h \in start => h \in todo /\ asked'[h] = "no" /\ asked[h] # "wanted"
                /\ h \notin start /\ Retried(rsp) /\ entry.half = h => asked'[h] = "reported"
                /\ h \notin start /\ ~(Retried(rsp) /\ entry.half = h) =>
                     asked'[h] = IF /\ asked[h] = "no" /\ rsp.half = h
                                    /\ rsp.kind \in XlateKinds \cup {"retry"}
                                 THEN "wanted" ELSE asked[h]
                /\ asked[h] \in {"no", "wanted", "reported"}
    <2>1. h \in Halves /\ h \notin Full
      BY NoHalfIsNone
    <2>2. h \notin full
      BY <2>1, AskedCycle
    <2>3. h \in start => h \in todo /\ asked[h] # "wanted"
      BY TodoStep DEF AtMostOne, Starts
    <2> QED BY <2>1, <2>2, <2>3, AskedCycle
  \* The half retried last stays so, until the strobe of the next batch.
  <1>15. ASSUME NEW h, Seen(h), ~Retried(rsp), ~strobe_valid, entry.half.partial PROVE Seen(h)'
    <2>1. last_rty = Name(h) /\ ~rep_retry_enable
      BY <1>15 DEF Seen
    <2>2. last_rty' = Name(h) /\ ~rep_retry_enable'
      BY <2>1, <1>4, <1>15
    <2> QED BY <2>2 DEF Seen
  <1>16. QueueOfBatch(c)'
    <2>1. rsp_in'.kind \in RetryKinds => rsp_in'.half = c
      BY <1>1, <1>2, <1>11, <1>13 DEF again
    <2>2. \A i \in DOMAIN fifo' : fifo'[i].half = c
      <3>1. CASE c = b
        BY <3>1, <1>2, <1>6
      <3>2. CASE c # b
        <4>1. fifo' = <<>>
          BY <1>11, <1>13, <3>2
        <4>2. DOMAIN fifo' = {}
          BY <4>1
        <4> QED BY <4>2
      <3> QED BY <3>1, <3>2
    <2>3. dout' # NoRsp => dout'.half = c
      BY <1>3, <1>6, <1>11, <1>13
    <2>4. prt_cmd_enable' => rsp_in'.kind \notin RetryKinds /\ fifo' = <<>> /\ dout' = NoRsp
      BY <1>2, <1>11, <1>13 DEF again
    <2>5. strobe_valid' => asked'[c] = "no" /\ (cstate' = "RETRY_CHECK" => check' > 1)
      <3>1. strobe_valid' => asked'[c] = "no"
        BY <1>11, <1>14
      <3>2. strobe_valid' /\ cstate' = "RETRY_CHECK" => check' # 0 /\ check' # 1
        BY <1>3, <1>6, <1>11, <1>13
      <3> QED BY <3>1, <3>2, <1>9
    <2>6. /\ distance' \in 1 .. 8 => rsp_in'.kind \notin RetryKinds
          /\ distance' \in 1 .. 7 => ~wr_en_dly'
      <3>1. /\ ~prt_rsp_last(rsp) /\ distance = 1 => distance' = Number(rty_busy)
            /\ ~prt_rsp_last(rsp) /\ distance > 1 => distance' = distance - 1
            /\ ~prt_rsp_last(rsp) /\ distance = 0 => distance' = 0
            /\ prt_rsp_last(rsp) => distance' = 9
        BY <1>9 DEF Cycle, Bookkeeper, Distance
      <3>2. /\ distance' \in 1 .. 8 => distance # 0
            /\ distance' \in 1 .. 7 => distance \in 1 .. 8
        BY <1>9, <3>1 DEF Number
      <3> QED BY <3>2, <1>1, <1>2, <1>6
    <2>7. /\ xlate_pending_cnt' = IF c = NoHalf THEN 0 ELSE in_xlate'[c]
          /\ c # NoHalf => in_xlate'[c] <= retries'
      BY XlateOfBatch
    <2>8. ASSUME ~prt_cmd_enable'
          PROVE  /\ rsp_in'.kind \in RetryKinds \/ fifo' # <<>> => asked'[c] # "no" \/ in_xlate'[c] > 0
                 /\ cstate' = "RETRY_RELEASE" \/ dout' # NoRsp => asked'[c] # "no"
                 /\ asked'[c] = "reported" =>
                      /\ Seen(c)' /\ entry'.half \in Partial
                      /\ cstate' \in {"RETRY_BACKOFF", "RETRY_NOW"} => entry'.half = c
                 /\ cstate' = "RETRY_CHECK" /\ check' \in {1, 2} => entry'.half = c
      <3>1. c = b /\ start = {} /\ b \in Partial /\ (prt_cmd_enable => strobe_valid)
        BY <1>11, <1>12, <2>8
      <3>2. /\ Retried(rsp) /\ entry.half = b => asked'[b] = "reported"
            /\ ~(Retried(rsp) /\ entry.half = b) =>
                 asked'[b] = IF /\ asked[b] = "no" /\ rsp.half = b
                                /\ rsp.kind \in XlateKinds \cup {"retry"}
                             THEN "wanted" ELSE asked[b]
            /\ asked[b] \in {"no", "wanted", "reported"}
        BY <1>14, <3>1
      <3>3. asked[b] # "no" => asked'[b] # "no"
        BY <3>2
      <3>4. CASE prt_cmd_enable
        <4>1. strobe_valid /\ asked[b] = "no" /\ (cstate = "RETRY_CHECK" => check > 1)
          BY <1>6, <3>1, <3>4
        <4>2. /\ fifo' = <<>> /\ dout' = NoRsp /\ cstate' # "RETRY_RELEASE" /\ ~again
              /\ cstate # "RETRY_RELEASE"
          BY <1>13, <3>4
        <4>3. asked'[b] # "reported"
          <5>1. ~(Retried(rsp) /\ entry.half = b)
            BY <1>4, <1>8, <4>1
          <5> QED BY <3>2, <4>1, <5>1
        <4>4. ~(cstate' = "RETRY_CHECK" /\ check' \in {1, 2})
          <5>1. dout = NoRsp
            BY <1>6, <3>4
          <5>2. ~(cstate = "RETRY_CHECK" /\ check = 1)
            BY <4>1
          <5> QED BY <5>1, <5>2, <1>3
        <4> QED BY <1>2, <3>1, <4>2, <4>3, <4>4 DEF again
      <3>5. CASE ~prt_cmd_enable
        <4>1. /\ queued \/ fifo # <<>> => asked[b] # "no" \/ in_xlate[b] > 0
              /\ cstate = "RETRY_RELEASE" \/ dout # NoRsp => asked[b] # "no"
              /\ asked[b] = "reported" =>
                   /\ Seen(b) /\ entry.half \in Partial
                   /\ cstate \in {"RETRY_BACKOFF", "RETRY_NOW"} => entry.half = b
              /\ cstate = "RETRY_CHECK" /\ check \in {1, 2} => entry.half = b
          BY <1>7, <3>5
        <4>2. ~strobe_valid
          BY <1>11, <3>5
        <4>3. /\ in_xlate[b] \in Nat
              /\ rsp.half = b /\ rsp.kind = "xlate_pending" => in_xlate'[b] > 0
              /\ ~(rsp.half = b /\ rsp.kind \in XlateKinds) /\ in_xlate[b] > 0 => in_xlate'[b] > 0
          <5> DEFINE p == Number(rsp.half = b /\ rsp.kind = "xlate_pending")
                     q == Number(rsp.half = b /\ rsp.kind \in XlateKinds)
                     x == in_xlate[b]
                     y == in_xlate'[b]
          <5>1. x \in Nat /\ y = x + p - q
            BY <3>1, OutstandingStep
          <5>2. /\ p \in {0, 1} /\ q \in {0, 1}
                /\ ~(rsp.half = b /\ rsp.kind \in XlateKinds) => q = 0
                /\ rsp.half = b /\ rsp.kind = "xlate_pending" => p = 1 /\ q = 0
            BY DEF Number, XlateKinds
          <5> HIDE DEF p, q, x, y
          <5>3. /\ rsp.half = b /\ rsp.kind = "xlate_pending" => y > 0
                /\ ~(rsp.half = b /\ rsp.kind \in XlateKinds) /\ x > 0 => y > 0
            BY <5>1, <5>2
          <5> QED BY <5>1, <5>3 DEF x, y
        <4>4. asked[b] = "no" /\ in_xlate[b] > 0 => asked'[b] # "no" \/ in_xlate'[b] > 0
          BY <3>2, <4>3
        <4>5. rsp_in'.kind \in RetryKinds \/ fifo' # <<>> => asked'[b] # "no" \/ in_xlate'[b] > 0
          <5>1. rsp_in'.kind \in RetryKinds => asked'[b] # "no" \/ in_xlate'[b] > 0
            <6>1. again => rsp.half = b /\ rsp.kind \in {"retry", "xlate_pending"}
              BY <1>1 DEF again, RetryKinds
            <6> QED BY <6>1, <1>2, <3>2, <4>3 DEF again
          <5> QED BY <5>1, <1>2, <3>3, <4>1, <4>4
        <4>6. cstate' = "RETRY_RELEASE" \/ dout' # NoRsp => asked'[b] # "no"
          <5>1. cstate' = "RETRY_RELEASE" => asked[b] # "no"
            <6>1. b # NoHalf
              BY <3>1, NoHalfIsNone
            <6>2. cstate' = "RETRY_RELEASE" => in_xlate[b] = 0 /\ fifo # <<>>
              BY <6>1, <1>3, <1>6
            <6> QED BY <6>2, <4>1, <4>3
          <5> QED BY <5>1, <1>3, <3>3, <4>1
        <4>7. cstate' = "RETRY_CHECK" /\ check' \in {1, 2} => entry'.half = b
          <5>1. cstate' = "RETRY_CHECK" /\ check' = 1 => entry'.half = b
            BY <1>3, <1>6
          <5>2. cstate' = "RETRY_CHECK" /\ check' = 2 => entry'.half = b
            <6>1. cstate = "RETRY_CHECK" /\ check = 1 => dout = NoRsp
              BY <1>3
            <6> QED BY <6>1, <1>3, <4>1
          <5> QED BY <5>1, <5>2
        <4>8. asked'[b] = "reported" =>
                 /\ Seen(b)' /\ entry'.half \in Partial
                 /\ cstate' \in {"RETRY_BACKOFF", "RETRY_NOW"} => entry'.half = b
          <5>1. CASE asked[b] = "reported"
            <6>1. Seen(b) /\ entry.half \in Partial /\ entry.half.partial
              BY <4>1, <5>1 DEF Partial
            <6>2. ~Retried(rsp)
              BY <1>4, <1>8, <4>1, <5>1
            <6>3. Seen(b)'
              BY <1>15, <4>2, <6>1, <6>2
            <6>4. entry'.half \in Partial
              BY <1>3, <1>6, <3>1, <6>1
            <6>5. cstate' \in {"RETRY_BACKOFF", "RETRY_NOW"} => entry'.half = b
              <7>1. cstate = "RETRY_CHECK" /\ check = 2 => Skipped
                BY <4>1, <6>1 DEF Skipped, Seen
              <7> QED BY <7>1, <1>3, <1>4, <4>1, <5>1
            <6> QED BY <6>3, <6>4, <6>5
          <5>2. CASE asked[b] # "reported" /\ asked'[b] = "reported"
            <6>1. Retried(rsp) /\ entry.half = b
              BY <3>2, <5>2
            <6>2. Seen(b)' /\ cstate' = "IDLE" /\ entry' = entry
              BY <1>3, <1>4, <6>1 DEF Seen
            <6> QED BY <3>1, <6>1, <6>2
          <5> QED BY <5>1, <5>2
        <4> QED BY <3>1, <4>5, <4>6, <4>7, <4>8
      <3> QED BY <3>4, <3>5, <1>9
    <2> QED BY <2>1, <2>2, <2>3, <2>4, <2>5, <2>6, <2>7, <2>8 DEF QueueOfBatch, Partial
  <1>17. EntryWanted'
    <2>0. PICK h : h = entry'.half
      OBVIOUS
    <2>1. ASSUME asked[h] = "wanted", h \in Partial, ~(Retried(rsp) /\ entry.half = h)
          PROVE  asked'[h] = "wanted"
      BY <2>1, <1>14
    <2>2. cstate' = "RETRY_CHECK" \/ cstate' \in {"RETRY_BACKOFF", "RETRY_NOW"} => ~Retried(rsp)
      BY <1>4
    <2>3. ASSUME cstate' = "RETRY_CHECK", check' = 1 PROVE asked'[h] = "wanted" \/ Seen(h)'
      <3>1. dout # NoRsp /\ h = dout.half /\ h = b /\ ~prt_cmd_enable /\ b \in Partial
        BY <1>3, <1>6, <1>12, <2>0, <2>3
      <3>2. asked[b] # "no" /\ ~strobe_valid
        BY <1>7, <1>11, <3>1
      <3>3. CASE asked[b] = "wanted"
        BY <2>1, <2>2, <2>3, <3>1, <3>3
      <3>4. CASE asked[b] = "reported"
        <4>1. Seen(b) /\ entry.half.partial
          BY <1>7, <3>1, <3>4 DEF Partial
        <4> QED BY <1>15, <2>2, <2>3, <3>1, <3>2, <4>1
      <3> QED BY <1>14, <3>1, <3>2, <3>3, <3>4
    <2>4. cstate' # "IDLE" /\ dout = NoRsp /\ Held => h = entry.half /\ h \in Partial /\ h.partial
      <3>1. Held => entry # NoRsp
        BY NoHalfIsNone DEF QueueInv
      <3> QED BY <3>1, <1>3, <1>10, <2>0 DEF Partial
    <2>5. ASSUME cstate' = "RETRY_CHECK", check' = 2 PROVE asked'[h] = "wanted" \/ Seen(h)'
      <3>1. cstate = "RETRY_CHECK" /\ check = 1 /\ dout = NoRsp
        BY <1>3, <2>5
      <3>2. Held
        BY <3>1 DEF Held
      <3>3. h = entry.half /\ h \in Partial /\ h.partial
        BY <2>4, <2>5, <3>1, <3>2
      <3>4. ~strobe_valid
        BY <1>6, <3>1
      <3>5. CASE asked[h] = "wanted"
        BY <2>1, <2>2, <2>5, <3>3, <3>5
      <3>6. CASE Seen(h)
        BY <1>15, <2>2, <2>5, <3>3, <3>4, <3>6
      <3> QED BY <1>8, <3>1, <3>3, <3>5, <3>6
    <2>6. ASSUME cstate' \in {"RETRY_BACKOFF", "RETRY_NOW"} PROVE asked'[h] = "wanted"
      <3>1. /\ dout = NoRsp /\ ~Retried(rsp)
            /\ \/ cstate \in {"RETRY_BACKOFF", "RETRY_NOW"}
               \/ cstate = "RETRY_CHECK" /\ check = 2 /\ ~Skipped
        BY <1>4, <2>6
      <3>2. Held
        BY <3>1 DEF Held
      <3>3. h = entry.half /\ h \in Partial
        BY <2>4, <2>6, <3>1, <3>2
      <3>4. asked[h] = "wanted"
        BY <1>8, <3>1, <3>3 DEF Skipped, Seen
      <3> QED BY <2>1, <2>6, <3>1, <3>3, <3>4
    <2>7. cstate' = "RETRY_CHECK" /\ check' \in {1, 2} =>
             asked'[h] = "wanted" \/ Seen(h)'
      BY <2>3, <2>5
    <2>8. cstate' \in {"RETRY_BACKOFF", "RETRY_NOW"} => asked'[h] = "wanted"
      BY <2>6
    <2> QED BY <2>0, <2>7, <2>8 DEF EntryWanted, Seen
  <1> QED BY <1>16, <1>17

-----------------------------------------------------------------------------
(* Full commands that are asked again.                                     *)

\* The full commands in translation.
InXlate == {h \in Full : in_xlate[h] > 0}

\* A full command in translation is in the queue, and is wanted when it is
\* read, which is when no translation is under way.
FullAsked ==
    \A h \in Full :
        /\ in_xlate[h] <= 1
        /\ in_xlate[h] > 0 => /\ "rsp_in" \in Places(h) \/ "fifo" \in Places(h)
                              /\ asked[h] = "no"
                              /\ ~(cstate = "RETRY_RELEASE" /\ Head(fifo).half = h)
        /\ "rsp_in" \in Places(h) \/ "fifo" \in Places(h) => asked[h] = "wanted" \/ in_xlate[h] > 0
        /\ "dout" \in Places(h) \/ "entry" \in Places(h) => asked[h] = "wanted"
        /\ "host" \in Places(h) \/ "report" \in Places(h) => asked[h] = "no"

\* Their translations are counted, while full commands are retried.
FullCounted ==
    regime \subseteq Full =>
        /\ IsFiniteSet(InXlate) /\ Cardinality(InXlate) <= retries
        /\ xlate_pending_cnt = Cardinality(InXlate)

\* An entry stays in the queue until it is read.
LEMMA FifoStays ==
    ASSUME TypeOK, QueueInv, NEW rsp \in Answers, NEW full, NEW start, NEW prt_cmd,
           NEW elapsed \in BOOLEAN, Cycle(rsp, full, start, prt_cmd, elapsed)
    PROVE  /\ rsp_in.kind \in RetryKinds => \E i \in DOMAIN fifo' : fifo'[i] = rsp_in
           /\ \A i \in DOMAIN fifo : (cstate = "RETRY_RELEASE" => fifo[i] # Head(fifo)) =>
                 \E j \in DOMAIN fifo' : fifo'[j] = fifo[i]
           /\ cstate' = "RETRY_RELEASE" => \E i \in DOMAIN fifo : Head(fifo') = fifo[i]
  <1> DEFINE wr_en == rsp_in.kind \in RetryKinds
             rest  == IF cstate = "RETRY_RELEASE" THEN Tail(fifo) ELSE fifo
  <1>1. fifo \in Seq(Responses) /\ rsp_in \in Responses \cup {NoRsp}
    BY DEF TypeOK, QueueTypeOK
  <1>2. cstate = "RETRY_RELEASE" => fifo # <<>>
    BY DEF QueueInv
  <1>3. fifo' = IF wr_en THEN Append(rest, rsp_in) ELSE rest
    BY DEF Cycle, Queue, QueueFifo
  <1>4. wr_en => rsp_in \in Responses
    BY <1>1, NoHalfIsNone DEF RetryKinds
  <1>5. /\ rest \in Seq(Responses)
        /\ \A i \in DOMAIN fifo : (cstate = "RETRY_RELEASE" => fifo[i] # Head(fifo)) =>
              \E j \in DOMAIN rest : rest[j] = fifo[i]
    <2>1. CASE cstate = "RETRY_RELEASE"
      <3>1. fifo # <<>>
        BY <1>2, <2>1
      <3>2. /\ Tail(fifo) \in Seq(Responses) /\ Head(fifo) = fifo[1]
            /\ \A i \in DOMAIN fifo : i # 1 => i - 1 \in DOMAIN Tail(fifo) /\ Tail(fifo)[i - 1] = fifo[i]
        BY <1>1, <3>1
      <3> QED BY <2>1, <3>2
    <2>2. CASE cstate # "RETRY_RELEASE"
      BY <1>1, <2>2
    <2> QED BY <2>1, <2>2
  <1> HIDE DEF rest
  <1>6. CASE wr_en
    <2>1. /\ Len(rest) + 1 \in DOMAIN Append(rest, rsp_in)
          /\ Append(rest, rsp_in)[Len(rest) + 1] = rsp_in
          /\ \A i \in DOMAIN rest : i \in DOMAIN Append(rest, rsp_in)
                                    /\ Append(rest, rsp_in)[i] = rest[i]
      BY <1>4, <1>5, <1>6
    <2>2. \A i \in DOMAIN rest : \E j \in DOMAIN fifo' : fifo'[j] = rest[i]
      BY <1>3, <1>6, <2>1
    <2>3. \E i \in DOMAIN fifo' : fifo'[i] = rsp_in
      BY <1>3, <1>6, <2>1
    <2>4. ASSUME cstate' = "RETRY_RELEASE" PROVE \E i \in DOMAIN fifo : Head(fifo') = fifo[i]
      <3>1. rest = fifo /\ fifo # <<>>
        BY <2>4, QueueCycle DEF rest
      <3>2. fifo' = Append(fifo, rsp_in)
        BY <1>3, <1>6, <3>1
      <3>3. Head(Append(fifo, rsp_in)) = fifo[1] /\ 1 \in DOMAIN fifo
        BY <1>1, <1>4, <1>6, <3>1
      <3> QED BY <3>2, <3>3
    <2> QED BY <1>5, <2>2, <2>3, <2>4
  <1>7. CASE ~wr_en
    <2>1. fifo' = rest
      BY <1>3, <1>7
    <2>2. ASSUME cstate' = "RETRY_RELEASE" PROVE \E i \in DOMAIN fifo : Head(fifo') = fifo[i]
      <3>1. rest = fifo /\ fifo # <<>>
        BY <2>2, QueueCycle DEF rest
      <3>2. Head(fifo) = fifo[1] /\ 1 \in DOMAIN fifo
        BY <1>1, <3>1
      <3> QED BY <2>1, <3>1, <3>2
    <2> QED BY <1>5, <1>7, <2>1, <2>2
  <1> QED BY <1>6, <1>7

\* The translations of a full command.
LEMMA FullXlate ==
    ASSUME TypeOK, NEW rsp \in Answers, NEW full, NEW start, NEW prt_cmd,
           NEW elapsed \in BOOLEAN, Cycle(rsp, full, start, prt_cmd, elapsed), NEW h \in Halves
    PROVE  /\ in_xlate[h] \in Nat
           /\ rsp.half = h /\ rsp.kind = "xlate_pending" => in_xlate'[h] = in_xlate[h] + 1
           /\ rsp.half = h /\ rsp.kind \in XlateKinds =>
                 in_xlate[h] > 0 /\ in_xlate'[h] = in_xlate[h] - 1
           /\ ~(rsp.half = h /\ rsp.kind \in XlateKinds \cup {"xlate_pending"}) =>
                 in_xlate'[h] = in_xlate[h]
  <1> DEFINE p == Of(rsp, {"xlate_pending"}, h)
             q == Of(rsp, XlateKinds, h)
             x == in_xlate[h]
             y == in_xlate'[h]
  <1>1. x \in Nat /\ y = x + p - q
    BY DEF TypeOK, Cycle, Host
  <1>2. rsp.half = h /\ rsp.kind \in XlateKinds => x > 0
    BY AnswerFacts
  <1>3. CASE rsp.half = h /\ rsp.kind = "xlate_pending"
    <2>1. p = 1 /\ q = 0 /\ rsp.kind \notin XlateKinds
      BY <1>3 DEF Of, Number, XlateKinds
    <2>2. y = x + 1
      <3> HIDE DEF p, q, x, y
      <3> QED BY <1>1, <2>1
    <2> QED BY <1>1, <1>3, <2>1, <2>2
  <1>4. CASE rsp.half = h /\ rsp.kind \in XlateKinds
    <2>1. p = 0 /\ q = 1 /\ rsp.kind # "xlate_pending"
      BY <1>4 DEF Of, Number, XlateKinds
    <2>2. y = x - 1
      <3> HIDE DEF p, q, x, y
      <3> QED BY <1>1, <2>1
    <2> QED BY <1>1, <1>2, <1>4, <2>1, <2>2
  <1>5. CASE ~(rsp.half = h /\ rsp.kind \in XlateKinds \cup {"xlate_pending"})
    <2>1. p = 0 /\ q = 0
      BY <1>5 DEF Of, Number
    <2>2. y = x
      <3> HIDE DEF p, q, x, y
      <3> QED BY <1>1, <2>1
    <2> QED BY <1>1, <1>5, <2>2
  <1> QED BY <1>3, <1>4, <1>5

\* A full command that is read from the queue is wanted.
LEMMA FullAskedStep ==
    ASSUME OneKindAsked, TypeOK, DecodeInv, RegimeInv, FullAsked, FullCounted,
           NEW rsp \in Answers, NEW full, NEW start \in AtMostOne(Starts), NEW prt_cmd,
           NEW elapsed \in BOOLEAN, Cycle(rsp, full, start, prt_cmd, elapsed)
    PROVE  FullAsked'
  <1>1. QueueInv /\ HalfInv /\ FullOnce
    BY DEF DecodeInv
  <1>2. SUFFICES ASSUME NEW h \in Full
                 PROVE  /\ in_xlate'[h] <= 1
                        /\ in_xlate'[h] > 0 =>
                              /\ "rsp_in" \in Places(h)' \/ "fifo" \in Places(h)'
                              /\ asked'[h] = "no"
                              /\ ~(cstate' = "RETRY_RELEASE" /\ Head(fifo').half = h)
                        /\ "rsp_in" \in Places(h)' \/ "fifo" \in Places(h)' =>
                              asked'[h] = "wanted" \/ in_xlate'[h] > 0
                        /\ "dout" \in Places(h)' \/ "entry" \in Places(h)' => asked'[h] = "wanted"
                        /\ "host" \in Places(h)' \/ "report" \in Places(h)' => asked'[h] = "no"
    BY DEF FullAsked, Full, Partial
  <1> DEFINE waits == rsp.half = h /\ rsp.kind = "xlate_pending"
             ends  == rsp.half = h /\ rsp.kind \in XlateKinds
             again == rsp.half = h /\ rsp.kind = "retry"
             over  == rsp.half = h /\ rsp.kind \in {"done", "failed"}
             retry == Retried(rsp) /\ entry.half = h
             read  == cstate = "RETRY_RELEASE" /\ Head(fifo).half = h
  <1>3. h \in Halves /\ h \notin Partial /\ h # NoHalf /\ h \notin start /\ h # batch
    BY NoHalfIsNone DEF AtMostOne, Starts, TypeOK
  <1> DEFINE T == "todo" \in Places(h)
             H == "host" \in Places(h)
             R == "rsp_in" \in Places(h)
             Q == "fifo" \in Places(h)
             D == "dout" \in Places(h)
             N == "entry" \in Places(h)
  <1>4. /\ ~(T /\ H) /\ ~(T /\ R) /\ ~(T /\ Q) /\ ~(T /\ D) /\ ~(T /\ N)
        /\ ~(H /\ R) /\ ~(H /\ Q) /\ ~(H /\ D) /\ ~(H /\ N)
        /\ ~(R /\ D) /\ ~(R /\ N) /\ ~(Q /\ D) /\ ~(Q /\ N) /\ ~(D /\ N)
    <2>1. \A p, q \in Places(h) : p = q
      BY <1>1 DEF FullOnce
    <2> QED BY <2>1
  <1>5. /\ in_xlate[h] <= 1
        /\ in_xlate[h] > 0 => (R \/ Q) /\ asked[h] = "no" /\ ~read
        /\ R \/ Q => asked[h] = "wanted" \/ in_xlate[h] > 0
        /\ D \/ N => asked[h] = "wanted"
        /\ H \/ "report" \in Places(h) => asked[h] = "no"
    BY DEF FullAsked
  <1>6. /\ in_xlate[h] \in Nat
        /\ waits => in_xlate'[h] = in_xlate[h] + 1
        /\ ends => in_xlate[h] > 0 /\ in_xlate'[h] = in_xlate[h] - 1
        /\ ~waits /\ ~ends => in_xlate'[h] = in_xlate[h]
    BY <1>3, FullXlate
  <1>7. /\ waits \/ again \/ over => H
        /\ waits => ~ends /\ ~again /\ ~over
        /\ ends => ~waits /\ ~again /\ ~over
        /\ again => ~over
    <2>1. rsp.kind \in RetryKinds \cup {"done", "failed"} => at_host[rsp.half] > 0
      BY AnswerFacts
    <2>2. waits \/ again \/ over => at_host[h] > 0
      BY <2>1 DEF RetryKinds
    <2> QED BY <2>2, PlaceFacts DEF XlateKinds
  <1>8. /\ h \in full => T
        /\ h \in full => asked'[h] = "no"
        /\ h \notin full /\ retry => asked'[h] = "reported"
        /\ h \notin full /\ ~retry =>
             asked'[h] = IF asked[h] = "no" /\ (ends \/ again) THEN "wanted" ELSE asked[h]
        /\ retry => N
    <2>1. /\ h \in full => h \in todo
          /\ h \in full => asked'[h] = "no"
          /\ h \notin full /\ retry => asked'[h] = "reported"
          /\ h \notin full /\ ~retry =>
               asked'[h] = IF /\ asked[h] = "no" /\ rsp.half = h
                              /\ rsp.kind \in XlateKinds \cup {"retry"}
                           THEN "wanted" ELSE asked[h]
      BY <1>1, <1>3, AskedCycle
    <2>2. Retried(rsp) => Held
      BY <1>1, QueueCycle
    <2>3. (T <=> h \in todo) /\ (N <=> Held /\ entry.half = h)
      BY PlaceFacts
    <2> QED BY <2>1, <2>2, <2>3
  <1> DEFINE R2 == "rsp_in" \in Places(h)'
             Q2 == "fifo" \in Places(h)'
             D2 == "dout" \in Places(h)'
             N2 == "entry" \in Places(h)'
             H2 == "host" \in Places(h)'
             O2 == "report" \in Places(h)'
  <1>9. /\ R2 <=> rsp_in'.kind \in RetryKinds /\ rsp_in'.half = h
        /\ Q2 <=> \E i \in DOMAIN fifo' : fifo'[i].half = h
        /\ D2 <=> dout'.half = h
        /\ N2 <=> Held' /\ entry'.half = h
        /\ H2 <=> at_host'[h] > 0
        /\ O2 <=> dma_resp'.code \in {"good", "bad"} /\ dma_resp'.half = h
    BY DEF Places
  <1>10. /\ R <=> rsp_in.kind \in RetryKinds /\ rsp_in.half = h
         /\ Q <=> \E i \in DOMAIN fifo : fifo[i].half = h
         /\ D <=> dout.half = h
         /\ N <=> Held /\ entry.half = h
         /\ H <=> at_host[h] > 0
    BY PlaceFacts
  <1>11. R2 <=> waits \/ again
    <2>1. rsp_in' = rsp
      BY <1>1, QueueCycle
    <2> QED BY <2>1, <1>9 DEF RetryKinds
  <1>12. Q2 => R \/ (Q /\ ~read)
    BY <1>1, <1>9, <1>10, FifoMoves
  <1>13. R \/ (Q /\ ~read) => Q2
    <2>1. /\ rsp_in.kind \in RetryKinds => \E i \in DOMAIN fifo' : fifo'[i] = rsp_in
          /\ \A i \in DOMAIN fifo : (cstate = "RETRY_RELEASE" => fifo[i] # Head(fifo)) =>
                \E j \in DOMAIN fifo' : fifo'[j] = fifo[i]
      BY <1>1, FifoStays
    <2> QED BY <2>1, <1>9, <1>10
  <1>14. D2 => read /\ Q
    <2>1. /\ dout' # NoRsp <=> cstate = "RETRY_RELEASE"
          /\ cstate = "RETRY_RELEASE" => \E i \in DOMAIN fifo : dout' = fifo[i]
          /\ cstate = "RETRY_RELEASE" => dout' = Head(fifo)
      BY <1>1, QueueCycle
    <2>2. D2 => dout' # NoRsp
      BY <1>3, <1>9, NoHalfIsNone
    <2> QED BY <2>1, <2>2, <1>9, <1>10
  <1>15. N2 => D \/ (N /\ ~retry)
    <2>1. /\ entry' = IF dout # NoRsp THEN dout ELSE entry
          /\ Held' => dout # NoRsp \/ (Held /\ ~Retried(rsp))
      BY <1>1, QueueCycle
    <2> QED BY <2>1, <1>9, <1>10
  <1>16. H2 => h \in full \/ (H /\ ~waits /\ ~again /\ ~over)
    <2> DEFINE a == Of(rsp, RetryKinds \cup {"done", "failed"}, h)
               f == Number(h \in full)
               v == Number(h = batch /\ "valid" \in prt_cmd)
               n == at_host[h]
               m == at_host'[h]
    <2>1. m = n + f + v - a
      BY <1>3 DEF Cycle, Host
    <2>2. v = 0 /\ (h \notin full => f = 0) /\ a \in {0, 1}
      BY <1>3 DEF Number, Of
    <2>3. waits \/ again \/ over => a = 1
      BY DEF Of, Number, RetryKinds
    <2>4. n \in Nat /\ n <= 1
      BY <1>1, <1>3 DEF TypeOK, FullOnce
    <2>5. H2 => m > 0
      BY <1>9
    <2>6. n > 0 => H
      BY <1>10
    <2> HIDE DEF a, f, v, n, m, H, H2, waits, again, over
    <2>7. m > 0 /\ h \notin full => n > 0 /\ a = 0
      BY <2>1, <2>2, <2>4
    <2> QED BY <2>3, <2>5, <2>6, <2>7
  <1>17. O2 => over
    <2>0. dma_resp'.half = h =>
             \/ dma_resp'.code = "retry"
             \/ rsp_full_valid(rsp) /\ rsp.half = h
             \/ h \in Partial
      BY <1>1, <1>3, AskedCycle
    <2>1. O2 => rsp_full_valid(rsp) /\ rsp.half = h
      BY <1>3, <1>9, <2>0
    <2> QED BY <2>1 DEF rsp_full_valid
  \* The queue is read when nothing is in translation.
  <1>18. cstate' = "RETRY_RELEASE" /\ Head(fifo').half = h => Q /\ in_xlate[h] = 0
    <2>1. SUFFICES ASSUME cstate' = "RETRY_RELEASE", Head(fifo').half = h
                   PROVE  Q /\ in_xlate[h] = 0
      OBVIOUS
    <2>2. PICK i \in DOMAIN fifo : Head(fifo') = fifo[i]
      BY <1>1, <2>1, FifoStays
    <2>3. Q /\ h \in regime
      BY <1>10, <2>1, <2>2 DEF RegimeInv
    <2>4. regime \subseteq Full
      BY <1>3, <2>3 DEF OneKindAsked, TypeOK
    <2>5. xlate_pending_cnt = 0
      BY <1>1, <2>1, QueueCycle
    <2>6. InXlate = {}
      BY <2>4, <2>5, FS_EmptySet DEF FullCounted
    <2> QED BY <1>6, <2>3, <2>6 DEF InXlate
  <1>19. Retried(rsp) /\ entry.half = h => N
    BY <1>8
  <1> HIDE DEF T, H, R, Q, D, N, R2, Q2, D2, N2, H2, O2, waits, ends, again, over, retry, read
  <1>20. asked[h] \in {"no", "wanted", "reported"}
    BY <1>3 DEF TypeOK
  <1>21. in_xlate'[h] <= 1
    BY <1>4, <1>5, <1>6, <1>7
  <1>22. in_xlate'[h] > 0 => R2 \/ Q2
    BY <1>4, <1>5, <1>6, <1>7, <1>11, <1>13
  <1>23. in_xlate'[h] > 0 => asked'[h] = "no"
    BY <1>4, <1>5, <1>6, <1>7, <1>8
  <1>24. in_xlate'[h] > 0 => ~(cstate' = "RETRY_RELEASE" /\ Head(fifo').half = h)
    BY <1>4, <1>5, <1>6, <1>7, <1>18
  <1>25. R2 \/ Q2 => asked'[h] = "wanted" \/ in_xlate'[h] > 0
    BY <1>4, <1>5, <1>6, <1>7, <1>8, <1>11, <1>12
  <1>26. D2 \/ N2 => asked'[h] = "wanted"
    BY <1>4, <1>5, <1>6, <1>8, <1>14, <1>15
  <1>27. H2 \/ O2 => asked'[h] = "no"
    BY <1>4, <1>5, <1>6, <1>7, <1>8, <1>16, <1>17
  <1> QED BY <1>21, <1>22, <1>23, <1>24, <1>25, <1>26, <1>27 DEF R2, Q2, D2, N2, H2, O2

\* The translations of full commands are counted.
LEMMA FullCountedStep ==
    ASSUME OneKindAsked, XlateCounted, TypeOK, DecodeInv, RegimeInv, FullAsked, FullCounted,
           NEW rsp \in Answers, NEW full, NEW start \in AtMostOne(Starts), NEW prt_cmd,
           NEW elapsed \in BOOLEAN, Cycle(rsp, full, start, prt_cmd, elapsed), TypeOK'
    PROVE  FullCounted'
  <1>1. QueueInv /\ HalfInv /\ FullOnce
    BY DEF DecodeInv
  <1>2. /\ regime' = regime
        /\ rsp.kind \in RetryKinds \cup XlateKinds => rsp.half \in regime
    BY <1>1, RegimeStep
  <1>3. SUFFICES ASSUME regime \subseteq Full
                 PROVE  /\ IsFiniteSet(InXlate') /\ Cardinality(InXlate') <= retries'
                        /\ xlate_pending_cnt' = Cardinality(InXlate')
    BY <1>2 DEF FullCounted, Full, Partial
  <1> DEFINE X == InXlate
             Y == InXlate'
             n == Cardinality(X)
             m == Cardinality(Y)
             g == rsp.half
  <1>4. IsFiniteSet(X) /\ n <= retries /\ xlate_pending_cnt = n
    BY <1>3 DEF FullCounted
  <1>5. n \in Nat
    BY <1>4, FS_CardinalityType
  <1>6. /\ xlate_pending_cnt' =
             CASE rsp.kind = "xlate_pending" -> (xlate_pending_cnt + 1) % PendingMod
               [] rsp.kind \in XlateKinds    -> (xlate_pending_cnt + PendingMod - 1) % PendingMod
               [] OTHER                      -> xlate_pending_cnt
        /\ retries' = retries + Number(rsp.kind \in RetryKinds)
    BY DEF Cycle, Queue, Balance, Host
  <1>7. /\ retries \in Nat /\ retries' \in 0 .. MaxRetry /\ MaxRetry \in Nat
        /\ PendingMod \in Nat \ {0} /\ xlate_pending_cnt < PendingMod
    <2>1. PendingMod \in Nat \ {0} /\ MaxRetry \in Nat
      BY RetryAssumption, DecodeAssumption DEF RetryAssumption, DecodeAssumption
    <2>2. xlate_pending_cnt \in 0 .. PendingMod - 1 /\ retries \in 0 .. MaxRetry
          /\ retries' \in 0 .. MaxRetry
      BY DEF TypeOK, QueueTypeOK
    <2> QED BY <2>1, <2>2
  <1>8. Y = {h \in Full : in_xlate'[h] > 0}
    BY DEF InXlate, Full, Partial
  <1>9. ASSUME NEW h \in Full
        PROVE  /\ in_xlate[h] \in {0, 1}
               /\ g = h /\ rsp.kind = "xlate_pending" =>
                    in_xlate[h] = 0 /\ in_xlate'[h] = in_xlate[h] + 1
               /\ g = h /\ rsp.kind \in XlateKinds =>
                    in_xlate[h] > 0 /\ in_xlate'[h] = in_xlate[h] - 1
               /\ ~(g = h /\ rsp.kind \in XlateKinds \cup {"xlate_pending"}) =>
                    in_xlate'[h] = in_xlate[h]
    <2>1. h \in Halves
      BY NoHalfIsNone
    <2>2. /\ in_xlate[h] \in Nat
          /\ g = h /\ rsp.kind = "xlate_pending" => in_xlate'[h] = in_xlate[h] + 1
          /\ g = h /\ rsp.kind \in XlateKinds =>
                in_xlate[h] > 0 /\ in_xlate'[h] = in_xlate[h] - 1
          /\ ~(g = h /\ rsp.kind \in XlateKinds \cup {"xlate_pending"}) =>
                in_xlate'[h] = in_xlate[h]
      BY <2>1, FullXlate
    <2>3. in_xlate[h] <= 1
      BY DEF FullAsked
    <2>4. in_xlate[h] > 0 => "rsp_in" \in Places(h) \/ "fifo" \in Places(h)
      BY DEF FullAsked
    <2>5. g = h /\ rsp.kind = "xlate_pending" => "host" \in Places(h)
      <3>1. rsp.kind \in RetryKinds => at_host[rsp.half] > 0
        BY AnswerFacts
      <3> QED BY <3>1, PlaceFacts DEF RetryKinds
    <2>6. \A p, q \in Places(h) : p = q
      BY <1>1 DEF FullOnce
    <2>7. g = h /\ rsp.kind = "xlate_pending" => ~(in_xlate[h] > 0)
      BY <2>4, <2>5, <2>6
    <2> QED BY <2>2, <2>3, <2>7
  <1>10. rsp.kind = "xlate_pending" => rsp.kind \in RetryKinds /\ rsp.kind \notin XlateKinds
    BY DEF RetryKinds, XlateKinds
  <1>11. CASE rsp.kind = "xlate_pending"
    <2>1. g \in Full
      BY <1>2, <1>3, <1>10, <1>11
    <2>2. \A h \in Full : in_xlate'[h] > 0 <=> in_xlate[h] > 0 \/ h = g
      BY <1>9, <1>10, <1>11
    <2>3. g \notin X
      BY <1>9, <1>11 DEF InXlate
    <2>4. Y = X \cup {g}
      BY <1>8, <2>1, <2>2 DEF InXlate
    <2>5. IsFiniteSet(Y) /\ m = n + 1
      BY <1>4, <2>3, <2>4, FS_AddElement
    <2>6. xlate_pending_cnt' = (n + 1) % PendingMod /\ retries' = retries + 1
      <3>1. Number(rsp.kind \in RetryKinds) = 1
        BY <1>10, <1>11 DEF Number
      <3> QED BY <3>1, <1>4, <1>6, <1>10, <1>11
    <2>7. m <= retries' /\ m \in Nat
      <3> HIDE DEF m, n
      <3> QED BY <1>4, <1>5, <1>7, <2>5, <2>6
    <2>8. m < PendingMod
      <3>1. CASE MaxRetry < PendingMod
        <4> HIDE DEF m
        <4> QED BY <1>7, <2>7, <3>1
      <3>2. CASE IsFiniteSet(Full) /\ Cardinality(Full) < PendingMod
        <4> DEFINE k == Cardinality(Full)
        <4>1. Y \subseteq Full
          BY <1>8
        <4>2. m <= k /\ k \in Nat
          BY <3>2, <4>1, FS_Subset, FS_CardinalityType
        <4> HIDE DEF m, k
        <4>3. k < PendingMod
          BY <3>2 DEF k
        <4> QED BY <1>7, <2>7, <4>2, <4>3
      <3> QED BY <3>1, <3>2 DEF XlateCounted
    <2>9. xlate_pending_cnt' = m
      <3> HIDE DEF m, n
      <3> QED BY <1>7, <2>5, <2>6, <2>7, <2>8, CountMod
    <2> QED BY <2>5, <2>7, <2>9
  <1>12. CASE rsp.kind \in XlateKinds
    <2>1. g \in Full
      BY <1>2, <1>3, <1>12
    <2>2. \A h \in Full : in_xlate'[h] > 0 <=> in_xlate[h] > 0 /\ h # g
      BY <1>9, <1>10, <1>12
    <2>3. g \in X
      BY <1>9, <1>12, <2>1 DEF InXlate
    <2>4. Y = X \ {g}
      BY <1>8, <2>1, <2>2 DEF InXlate
    <2>5. IsFiniteSet(Y) /\ m = n - 1 /\ m \in Nat
      <3>1. IsFiniteSet(Y) /\ m = n - 1
        BY <1>4, <2>3, <2>4, FS_RemoveElement
      <3> QED BY <3>1, FS_CardinalityType
    <2>6. xlate_pending_cnt' = (n + PendingMod - 1) % PendingMod /\ retries' >= retries
      <3>1. Number(rsp.kind \in RetryKinds) \in {0, 1}
        BY DEF Number
      <3>2. xlate_pending_cnt' = (n + PendingMod - 1) % PendingMod
        BY <1>4, <1>6, <1>10, <1>12
      <3> QED BY <3>1, <3>2, <1>6, <1>7
    <2>7. m <= retries' /\ xlate_pending_cnt' = m
      <3>1. n < PendingMod
        BY <1>4, <1>7
      <3> HIDE DEF m, n
      <3>2. m < PendingMod /\ n + PendingMod - 1 = m + PendingMod
        BY <1>5, <1>7, <2>5, <3>1
      <3>3. xlate_pending_cnt' = m
        BY <1>7, <2>5, <2>6, <3>2, CountMod
      <3> QED BY <1>4, <1>5, <1>7, <2>5, <2>6, <3>3
    <2> QED BY <2>5, <2>7
  <1>13. CASE rsp.kind # "xlate_pending" /\ rsp.kind \notin XlateKinds
    <2>1. \A h \in Full : in_xlate'[h] > 0 <=> in_xlate[h] > 0
      BY <1>9, <1>13
    <2>2. Y = X
      BY <1>8, <2>1 DEF InXlate
    <2>3. xlate_pending_cnt' = n /\ retries' >= retries
      <3>1. Number(rsp.kind \in RetryKinds) \in {0, 1}
        BY DEF Number
      <3>2. xlate_pending_cnt' = n
        BY <1>4, <1>6, <1>13
      <3> QED BY <3>1, <3>2, <1>6, <1>7
    <2>4. m = n
      BY <2>2
    <2>5. m <= retries'
      <3> HIDE DEF m, n
      <3> QED BY <1>4, <1>5, <1>7, <2>3, <2>4
    <2> QED BY <1>4, <2>2, <2>3, <2>5
  <1> QED BY <1>11, <1>12, <1>13

\* What the retries need.
RetryInv == RegimeInv /\ BatchInv /\ TodoInv /\ FullAsked /\ FullCounted

\* The invariant holds after reset.
LEMMA RetryStart == Init => RetryInv
  <1>1. SUFFICES ASSUME Init PROVE RetryInv
    OBVIOUS
  <1>2. /\ rsp_in = NoRsp /\ fifo = <<>> /\ dout = NoRsp /\ entry = NoRsp
        /\ xlate_pending_cnt = 0 /\ cstate = "IDLE" /\ wr_en_dly = FALSE
    BY <1>1 DEF Init, QueueInit
  <1>3. /\ prt_inflight_cnt = 0 /\ distance = 0 /\ prt_cmd_enable = TRUE /\ dma_resp = NoReport
        /\ batch = NoHalf /\ strobe_valid = FALSE /\ retries = 0
        /\ \A h \in Halves : at_host[h] = 0 /\ in_xlate[h] = 0 /\ asked[h] = "no"
    BY <1>1 DEF Init
  <1>4. ASSUME NEW h \in Partial PROVE Outstanding(h) = 0 /\ asked[h] = "no"
    BY <1>3, NoHalfIsNone DEF Outstanding
  <1>5. DOMAIN fifo = {}
    BY <1>2
  <1>6. NoRsp.kind \notin RetryKinds
    BY NoHalfIsNone DEF RetryKinds
  <1>7. RegimeInv
    BY <1>2, <1>3, <1>5, <1>6 DEF RegimeInv
  <1>8. BatchInv
    <2>1. BatchIs(NoHalf)
      BY <1>3, <1>4 DEF BatchIs
    <2>2. QueueOfBatch(NoHalf)
      BY <1>2, <1>3, <1>5, <1>6 DEF QueueOfBatch
    <2>3. EntryWanted
      BY <1>2 DEF EntryWanted
    <2> QED BY <2>1, <2>2, <2>3 DEF BatchInv
  <1>9. TodoInv
    <2>1. dma_resp.code = "none"
      BY <1>3 DEF NoReport
    <2>2. ASSUME NEW h \in Partial
          PROVE  /\ dma_resp # [code |-> "retry", half |-> h] /\ asked[h] = "no"
                 /\ batch # h /\ Outstanding(h) = 0
      <3>1. h # NoHalf
        BY NoHalfIsNone
      <3> QED BY <1>3, <1>4, <2>1, <3>1
    <2> QED BY <2>2 DEF TodoInv
  <1>10. ASSUME NEW h \in Full
         PROVE  /\ in_xlate[h] = 0 /\ asked[h] = "no"
                /\ "rsp_in" \notin Places(h) /\ "fifo" \notin Places(h)
                /\ "dout" \notin Places(h) /\ "entry" \notin Places(h)
    <2>1. h \in Halves /\ h # NoHalf
      BY NoHalfIsNone
    <2>2. dout.half # h /\ ~Held
      BY <1>2, <2>1, NoHalfIsNone DEF Held
    <2> QED BY <1>2, <1>3, <1>5, <1>6, <2>1, <2>2, PlaceFacts
  <1>11. FullAsked
    BY <1>10 DEF FullAsked
  <1>12. FullCounted
    <2>1. InXlate = {}
      BY <1>10 DEF InXlate
    <2> QED BY <1>2, <1>3, <2>1, FS_EmptySet DEF FullCounted
  <1> QED BY <1>7, <1>8, <1>9, <1>11, <1>12 DEF RetryInv

\* Every cycle keeps it, and reports the retry of a half that is wanted.
LEMMA RetryKeeps ==
    ASSUME OneKindAsked, XlateCounted, TypeOK, DecodeInv, RetryInv,
           NEW rsp \in Answers, NEW full, NEW start \in AtMostOne(Starts), NEW prt_cmd,
           NEW elapsed \in BOOLEAN, Cycle(rsp, full, start, prt_cmd, elapsed), TypeOK'
    PROVE  /\ RetryInv'
           /\ \A h \in Halves : dma_resp' = [code |-> "retry", half |-> h] => asked[h] = "wanted"
  <1>1. QueueInv /\ HalfInv /\ FullOnce
    BY DEF DecodeInv
  <1>2. RegimeInv /\ BatchInv /\ TodoInv /\ FullAsked /\ FullCounted
    BY DEF RetryInv
  <1>3. RegimeInv' /\ regime' = regime
    BY <1>1, <1>2, RegimeStep
  <1>4. BatchInv'
    <2>1. PICK b : BatchIs(b) /\ (regime \subseteq Partial => QueueOfBatch(b) /\ EntryWanted)
      BY <1>2 DEF BatchInv
    <2>2. PICK c : BatchIs(c)' /\ BatchMoves(b, c, start)
      BY <1>1, <2>1, BatchStep
    <2>3. regime \subseteq Partial => QueueOfBatch(c)' /\ EntryWanted'
      BY <1>1, <1>2, <2>1, <2>2, QueueOfBatchStep
    <2> QED BY <1>3, <2>2, <2>3 DEF BatchInv, Partial
  <1>5. /\ TodoInv'
        /\ \A h \in Partial : Retried(rsp) /\ entry.half = h => asked[h] = "wanted"
    BY <1>1, <1>2, TodoStep
  <1>6. FullAsked' /\ FullCounted'
    BY <1>2, FullAskedStep, FullCountedStep
  <1>7. ASSUME NEW h \in Halves, dma_resp' = [code |-> "retry", half |-> h]
        PROVE  asked[h] = "wanted"
    <2>1. Retried(rsp) /\ entry.half = h
      <3>1. dma_resp'.half = h =>
               \/ dma_resp'.code = "retry" /\ Retried(rsp) /\ entry.half = h
               \/ dma_resp'.code \in {"good", "bad"}
        BY <1>1, AskedCycle
      <3> QED BY <1>7, <3>1
    <2>2. CASE h \in Partial
      BY <1>5, <2>1, <2>2
    <2>3. CASE h \in Full
      <3>1. "entry" \in Places(h)
        BY <1>1, <2>1, QueueCycle, PlaceFacts
      <3> QED BY <1>2, <2>3, <3>1 DEF FullAsked
    <2> QED BY <2>2, <2>3 DEF Full
  <1> QED BY <1>3, <1>4, <1>5, <1>6, <1>7 DEF RetryInv

\* A step that changes nothing keeps it.
LEMMA RetryStutters == RetryInv /\ UNCHANGED vars => RetryInv'
  <1>1. SUFFICES ASSUME RetryInv, UNCHANGED vars PROVE RetryInv'
    OBVIOUS
  <1>2. /\ UNCHANGED <<rsp_in, fifo, wr_en_dly, dout, entry, ram_xlate_done, doutb,
                       xlate_pending_cnt, cstate, check, last_rty, rep_retry_enable>>
        /\ UNCHANGED <<prt_inflight_cnt, prt_commands_allout, distance, prt_rsp_pending,
                       prt_rsp_retry, prt_rsp_failed, prt_cmd_enable, prt_rsp_code, prt_half>>
        /\ UNCHANGED <<dma_resp, todo, batch, to_send, strobe_valid, finished, at_host,
                       in_xlate, retries, regime, asked, failed>>
    BY <1>1 DEF vars, queueVars, batchVars, senderVars, hostVars
  <1>3. RegimeInv'
    BY <1>1, <1>2 DEF RetryInv, RegimeInv
  <1>4. BatchInv'
    <2>1. ASSUME NEW b, BatchIs(b) PROVE BatchIs(b)'
      BY <1>2, <2>1 DEF BatchIs, Outstanding
    <2>2. ASSUME NEW b, QueueOfBatch(b) PROVE QueueOfBatch(b)'
      BY <1>2, <2>2 DEF QueueOfBatch, Seen
    <2>3. EntryWanted => EntryWanted'
      BY <1>2 DEF EntryWanted, Seen
    <2> QED BY <1>1, <1>2, <2>1, <2>2, <2>3 DEF RetryInv, BatchInv
  <1>5. TodoInv'
    BY <1>1, <1>2 DEF RetryInv, TodoInv, Outstanding
  <1>6. ASSUME NEW h PROVE Places(h)' = Places(h)
    BY <1>2 DEF Places, Held
  <1>7. FullAsked'
    BY <1>1, <1>2, <1>6 DEF RetryInv, FullAsked
  <1>8. FullCounted'
    <2>1. InXlate' = InXlate
      BY <1>2 DEF InXlate
    <2> QED BY <1>1, <1>2, <2>1 DEF RetryInv, FullCounted
  <1> QED BY <1>3, <1>4, <1>5, <1>7, <1>8 DEF RetryInv

\* The retries are in order, and the half that is retried is wanted.
THEOREM RetryInvariant ==
    ASSUME OneKindAsked, XlateCounted
    PROVE  Spec => [](TypeOK /\ DecodeInv /\ RetryInv)
  <1>1. Init => TypeOK /\ DecodeInv /\ RetryInv
    BY DecodeStart, RetryStart
  <1>2. (TypeOK /\ DecodeInv /\ RetryInv) /\ [Next]_vars => (TypeOK /\ DecodeInv /\ RetryInv)'
    <2>1. ASSUME TypeOK, DecodeInv, RetryInv, Next PROVE TypeOK' /\ DecodeInv' /\ RetryInv'
      <3>1. PICK rsp \in Answers, full \in AtMostOne(todo \cap Full), start \in AtMostOne(Starts),
                 prt_cmd \in PrtCmds, elapsed \in BOOLEAN :
                    Cycle(rsp, full, start, prt_cmd, elapsed)
        BY <2>1 DEF Next
      <3>2. TypeOK' /\ DecodeInv'
        BY <2>1, DecodeKeeps
      <3> QED BY <2>1, <3>1, <3>2, RetryKeeps
    <2> QED BY <2>1, DecodeKeeps, RetryStutters
  <1> QED BY <1>1, <1>2, PTL DEF Spec

\* The data bridge is told to repeat a half only when the host wants it again
\* and once, however many of its partial commands ask for it.
THEOREM RetriesOnce ==
    ASSUME OneKindAsked, XlateCounted
    PROVE  Spec => RetriedOnce
  <1> DEFINE Once == \A h \in Halves :
                        dma_resp' = [code |-> "retry", half |-> h] => asked[h] = "wanted"
  <1>1. (TypeOK /\ DecodeInv /\ RetryInv) /\ [Next]_vars => [Once]_vars
    <2>1. ASSUME TypeOK, DecodeInv, RetryInv, Next PROVE Once
      <3>1. PICK rsp \in Answers, full \in AtMostOne(todo \cap Full), start \in AtMostOne(Starts),
                 prt_cmd \in PrtCmds, elapsed \in BOOLEAN :
                    Cycle(rsp, full, start, prt_cmd, elapsed)
        BY <2>1 DEF Next
      <3>2. TypeOK'
        BY <2>1, DecodeKeeps
      <3> QED BY <2>1, <3>1, <3>2, RetryKeeps
    <2> QED BY <2>1
  <1> QED BY <1>1, RetryInvariant, PTL DEF Spec, RetriedOnce

-----------------------------------------------------------------------------
(* Reports.                                                                *)

\* The response of a batch is reported before the next batch is enabled.
ReportedInTime == prt_rsp_pending => ~prt_cmd_enable

\* A half with partial commands is sent and has not been reported.
Open(h) == batch = h \/ Outstanding(h) > 0 \/ (prt_rsp_pending /\ prt_half = h)

\* It is reported good or bad.
Reported(h) == dma_resp.half = h /\ dma_resp.code \in {"good", "bad"}

\* A batch is reported when none of its commands has to be repeated, and is
\* not asked again after that.
ReportInv ==
    /\ prt_rsp_pending => distance > 0
    /\ prt_rsp_retry => prt_rsp_pending \/ (~prt_cmd_enable /\ distance = 0)
    /\ \A h \in Partial :
         /\ Open(h) /\ ~prt_rsp_retry => asked[h] = "no" /\ h \notin todo /\ in_xlate[h] = 0
         /\ Open(h) => h \notin finished /\ ~Reported(h)
         /\ h \in finished \/ Reported(h) => h \notin todo /\ asked[h] = "no"
         /\ h \in finished => dma_resp.half # h

\* What the response of a batch does, if it is reported in time.
LEMMA ReportCycle ==
    ASSUME TypeOK, QueueInv, HalfInv, ReportedInTime, ReportedInTime', ReportInv,
           NEW rsp \in Answers, NEW full, NEW start \in AtMostOne(Starts), NEW prt_cmd,
           NEW elapsed \in BOOLEAN, Cycle(rsp, full, start, prt_cmd, elapsed),
           NEW b, BatchIs(b)
    PROVE  /\ prt_rsp_pending => /\ ~prt_cmd_enable /\ batch = NoHalf /\ start = {}
                                 /\ rsp.half \notin Partial /\ ~prt_rsp_last(rsp)
                                 /\ \A h \in Partial : Outstanding(h) = 0
           /\ prt_rsp_last(rsp) => rsp.half = b /\ b \in Partial /\ Outstanding(b) > 0
           /\ prt_rsp_pending' => prt_rsp_last(rsp) \/ (prt_rsp_pending /\ ~prt_rsp_available(rsp))
           /\ prt_rsp_last(rsp) => prt_half' = rsp.half
           /\ prt_rsp_pending => prt_half' = prt_half
           /\ ~prt_rsp_retry' /\ ~prt_rsp_available(rsp) =>
                 ~prt_rsp_retry /\ ~(rsp.half \in Partial /\ rsp.kind \in RetryKinds)
           /\ prt_rsp_available(rsp) => prt_rsp_pending /\ ~prt_rsp_pending'
           /\ prt_valid(rsp) => prt_rsp_available(rsp) /\ ~prt_rsp_retry
           /\ prt_rsp_pending' => distance' > 0
           /\ prt_rsp_retry' => prt_rsp_pending' \/ (~prt_cmd_enable' /\ distance' = 0)
  <1>1. /\ prt_rsp_last(rsp) => distance' = 9
        /\ ~prt_rsp_last(rsp) /\ distance = 1 => distance' = Number(rty_busy)
        /\ ~prt_rsp_last(rsp) /\ distance > 1 => distance' = distance - 1
        /\ ~prt_rsp_last(rsp) /\ distance = 0 => distance' = 0
        /\ distance = 1 /\ ~rty_busy /\ ~strobe_valid => prt_cmd_enable'
        /\ ~prt_cmd_enable /\ distance = 0 => ~prt_cmd_enable'
    <2>1. /\ prt_rsp_last(rsp) => distance' = 9
          /\ ~prt_rsp_last(rsp) /\ distance = 1 => distance' = Number(rty_busy)
          /\ ~prt_rsp_last(rsp) /\ distance > 1 => distance' = distance - 1
          /\ ~prt_rsp_last(rsp) /\ distance = 0 => distance' = 0
          /\ prt_cmd_enable' = (~strobe_valid /\ ((distance = 1 /\ ~rty_busy) \/ prt_cmd_enable))
      <3>1. Bookkeeper(rsp, prt_cmd)
        BY DEF Cycle
      <3> QED BY <3>1 DEF Bookkeeper, Distance
    <2>2. distance = 1 /\ ~rty_busy /\ ~strobe_valid => prt_cmd_enable'
      BY <2>1
    <2>3. ~prt_cmd_enable /\ distance # 1 => ~prt_cmd_enable'
      BY <2>1
    <2>4. distance = 0 => distance # 1
      OBVIOUS
    <2> QED BY <2>1, <2>2, <2>3, <2>4
  <1>2. /\ prt_rsp_pending' <=> prt_rsp_last(rsp) \/ (prt_rsp_pending /\ ~prt_rsp_available(rsp))
        /\ prt_rsp_retry' <=> /\ ~prt_rsp_available(rsp)
                              /\ \/ prt_rsp_retry
                                 \/ response_partial(rsp) /\ rsp.kind \in RetryKinds
        /\ prt_half' = IF response_partial(rsp) THEN rsp.half ELSE prt_half
    BY DEF Cycle, BatchCode
  <1>3. /\ response_partial(rsp) => rsp.half \in Partial
        /\ rsp.half \in Partial => response_partial(rsp)
        /\ prt_rsp_last(rsp) => response_partial(rsp)
    <2>1. rsp.kind \in Kinds \cup {"none"} /\ (rsp.kind = "none" => rsp = NoRsp)
          /\ (rsp # NoRsp => rsp.half \in Halves)
      BY AnswerFacts
    <2>2. rsp.half \in Partial => rsp.kind # "none" /\ rsp.half.partial
      BY <2>1, NoHalfIsNone DEF Partial
    <2>3. response_partial(rsp) => rsp.half \in Partial
      BY <2>1, NoHalfIsNone DEF response_partial, Partial
    <2> QED BY <2>2, <2>3 DEF response_partial, prt_rsp_last, Returned
  <1>4. rsp.half \in Partial => /\ rsp.half = b /\ Outstanding(b) > 0
                                /\ ~prt_cmd_enable /\ ~strobe_valid /\ distance = 0
    BY PartialAnswer
  <1>5. /\ distance \in 0 .. 9 /\ prt_rsp_pending \in BOOLEAN /\ batch \in Partial \cup {NoHalf}
    BY DEF TypeOK, Distance
  <1>6. prt_rsp_pending => ~prt_cmd_enable /\ distance > 0 /\ distance # 0
    BY <1>5 DEF ReportedInTime, ReportInv
  <1>7. prt_rsp_pending => batch = NoHalf /\ ~strobe_valid /\ start = {}
    <2>1. prt_rsp_pending => batch = NoHalf /\ ~strobe_valid
      BY <1>6 DEF BatchIs
    <2> QED BY <2>1, <1>6 DEF AtMostOne, Starts
  <1>8. prt_rsp_pending => \A h \in Partial : Outstanding(h) = 0
    <2>1. prt_rsp_pending => Outstanding(b) = 0
      BY <1>6, <1>7 DEF BatchIs
    <2> QED BY <2>1 DEF BatchIs
  <1>9. prt_rsp_pending => rsp.half \notin Partial /\ ~response_partial(rsp) /\ ~prt_rsp_last(rsp)
    BY <1>3, <1>4, <1>6
  <1>10. prt_rsp_available(rsp) => prt_rsp_pending /\ ~prt_rsp_pending'
    <2>1. prt_rsp_available(rsp) => prt_rsp_pending
      BY DEF prt_rsp_available
    <2> QED BY <2>1, <1>2, <1>9
  <1>11. prt_rsp_pending' => distance' > 0
    <2>1. CASE prt_rsp_last(rsp)
      BY <1>1, <2>1
    <2>2. ASSUME prt_rsp_pending', ~prt_rsp_last(rsp) PROVE distance' > 0
      <3>1. prt_rsp_pending
        BY <1>2, <2>2
      <3>2. CASE distance = 1
        <4>1. rty_busy
          BY <1>1, <1>7, <2>2, <3>1, <3>2 DEF ReportedInTime
        <4>2. Number(rty_busy) = 1
          BY <4>1 DEF Number
        <4> QED BY <1>1, <2>2, <3>2, <4>2
      <3>3. CASE distance # 1
        <4>1. distance > 1 /\ distance - 1 > 0
          BY <1>5, <1>6, <3>1, <3>3
        <4> QED BY <1>1, <2>2, <4>1
      <3> QED BY <3>2, <3>3
    <2> QED BY <2>1, <2>2
  <1>12. prt_rsp_retry' => prt_rsp_pending' \/ (~prt_cmd_enable' /\ distance' = 0)
    <2>1. SUFFICES ASSUME prt_rsp_retry', ~prt_rsp_pending'
                   PROVE  ~prt_cmd_enable' /\ distance' = 0
      OBVIOUS
    <2>2. ~prt_rsp_last(rsp) /\ ~prt_rsp_pending
      BY <1>2, <2>1
    <2>3. ~prt_cmd_enable /\ distance = 0
      <3>1. CASE prt_rsp_retry
        BY <2>2, <3>1 DEF ReportInv
      <3>2. CASE response_partial(rsp)
        BY <1>3, <1>4, <3>2
      <3> QED BY <1>2, <2>1, <3>1, <3>2
    <2> QED BY <1>1, <2>2, <2>3
  <1>13. prt_rsp_last(rsp) => rsp.half = b /\ b \in Partial /\ Outstanding(b) > 0
                              /\ prt_half' = rsp.half
    BY <1>2, <1>3, <1>4
  <1>14. prt_valid(rsp) => prt_rsp_available(rsp) /\ ~prt_rsp_retry
    BY DEF prt_valid
  <1>15. prt_rsp_pending => prt_half' = prt_half
    BY <1>2, <1>9
  <1>16. ~prt_rsp_retry' /\ ~prt_rsp_available(rsp) =>
             ~prt_rsp_retry /\ ~(rsp.half \in Partial /\ rsp.kind \in RetryKinds)
    BY <1>2, <1>3
  <1> QED BY <1>2, <1>6, <1>7, <1>8, <1>9, <1>10, <1>11, <1>12, <1>13, <1>14, <1>15, <1>16

\* A half stays asked as it is while its batch is under way and no command of
\* it has to be repeated.
LEMMA ReportStep ==
    ASSUME OneKindAsked, TypeOK, QueueInv, HalfInv, RegimeInv, BatchInv, TodoInv,
           ReportedInTime, ReportedInTime', ReportInv,
           NEW rsp \in Answers, NEW full, NEW start \in AtMostOne(Starts), NEW prt_cmd,
           NEW elapsed \in BOOLEAN, Cycle(rsp, full, start, prt_cmd, elapsed)
    PROVE  ReportInv'
  <1>1. PICK b : BatchIs(b)
    BY DEF BatchInv
  <1>2. /\ prt_rsp_pending => /\ ~prt_cmd_enable /\ batch = NoHalf /\ start = {}
                              /\ rsp.half \notin Partial /\ ~prt_rsp_last(rsp)
                              /\ \A h \in Partial : Outstanding(h) = 0
        /\ prt_rsp_last(rsp) => rsp.half = b /\ b \in Partial /\ Outstanding(b) > 0
        /\ prt_rsp_pending' => prt_rsp_last(rsp) \/ (prt_rsp_pending /\ ~prt_rsp_available(rsp))
        /\ prt_rsp_last(rsp) => prt_half' = rsp.half
        /\ prt_rsp_pending => prt_half' = prt_half
        /\ ~prt_rsp_retry' /\ ~prt_rsp_available(rsp) =>
              ~prt_rsp_retry /\ ~(rsp.half \in Partial /\ rsp.kind \in RetryKinds)
        /\ prt_rsp_available(rsp) => prt_rsp_pending /\ ~prt_rsp_pending'
        /\ prt_valid(rsp) => prt_rsp_available(rsp) /\ ~prt_rsp_retry
        /\ prt_rsp_pending' => distance' > 0
        /\ prt_rsp_retry' => prt_rsp_pending' \/ (~prt_cmd_enable' /\ distance' = 0)
    BY <1>1, ReportCycle
  <1>3. ASSUME NEW h \in Partial
        PROVE  /\ Open(h)' /\ ~prt_rsp_retry' =>
                     asked'[h] = "no" /\ h \notin todo' /\ in_xlate'[h] = 0
               /\ Open(h)' => h \notin finished' /\ ~Reported(h)'
               /\ h \in finished' \/ Reported(h)' => h \notin todo' /\ asked'[h] = "no"
               /\ h \in finished' => dma_resp'.half # h
    <2> DEFINE retry == Retried(rsp) /\ entry.half = h
               begun == h \in start
               told  == dma_resp = [code |-> "retry", half |-> h]
               ends  == rsp.half = h /\ rsp.kind \in XlateKinds
               again == rsp.half = h /\ rsp.kind \in RetryKinds
    <2>1. h \in Halves /\ h # NoHalf /\ h \notin Full
      BY NoHalfIsNone
    <2>2. /\ Open(h) /\ ~prt_rsp_retry => asked[h] = "no" /\ h \notin todo /\ in_xlate[h] = 0
          /\ Open(h) => h \notin finished /\ ~Reported(h)
          /\ h \in finished \/ Reported(h) => h \notin todo /\ asked[h] = "no"
          /\ h \in finished => dma_resp.half # h
      BY DEF ReportInv
    <2>3. /\ retry => asked[h] = "wanted"
          /\ told => h \notin todo /\ asked[h] = "reported"
      BY TodoStep DEF TodoInv
    <2>4. /\ begun => h \in todo /\ prt_cmd_enable /\ ~strobe_valid /\ batch = NoHalf
          /\ begun => asked'[h] = "no"
          /\ ~begun /\ retry => asked'[h] = "reported"
          /\ ~begun /\ ~retry =>
                asked'[h] = IF asked[h] = "no" /\ rsp.half = h
                               /\ rsp.kind \in XlateKinds \cup {"retry"}
                            THEN "wanted" ELSE asked[h]
          /\ h \in todo' => (h \in todo /\ ~begun) \/ told
          /\ h \in finished' => h \in finished \/ Reported(h)
          /\ batch' = h => begun \/ batch = h
      <3>1. h \notin full
        BY <2>1, AskedCycle
      <3> QED BY <2>1, <3>1, AskedCycle DEF Reported
    <2>5. dma_resp'.half = h =>
             \/ dma_resp'.code = "retry" /\ retry
             \/ prt_valid(rsp) /\ prt_half = h /\ ~Retried(rsp)
      <3>1. dma_resp'.half = h =>
               \/ dma_resp'.code = "retry" /\ Retried(rsp) /\ entry.half = h
               \/ dma_resp'.code \in {"good", "bad"} /\ rsp_full_valid(rsp) /\ rsp.half = h
                     /\ h \in Full /\ ~Retried(rsp)
               \/ dma_resp'.code \in {"good", "bad"} /\ prt_valid(rsp) /\ prt_half = h
                     /\ h \in Partial /\ ~Retried(rsp)
        BY <2>1, AskedCycle
      <3> QED BY <2>1, <3>1
    <2>6. Reported(h)' => prt_valid(rsp) /\ prt_half = h /\ ~Retried(rsp)
      BY <2>5 DEF Reported
    <2>7. /\ rsp.half = h => Outstanding(h) > 0
          /\ Outstanding(h)' > 0 => Outstanding(h) > 0 \/ batch = h
          /\ in_xlate[h] \in Nat
          /\ ends => in_xlate[h] > 0
          /\ in_xlate[h] = 0 /\ ~again => in_xlate'[h] = 0
          /\ prt_cmd_enable => in_xlate[h] = 0
      <3>1. /\ Outstanding(h) \in Nat /\ in_xlate[h] \in Nat /\ at_host[h] \in Nat
            /\ Outstanding(h)' = Outstanding(h) + Number(h = batch /\ "valid" \in prt_cmd)
                                    - Number(Returned(rsp) /\ rsp.half = h)
            /\ in_xlate'[h] = in_xlate[h] + Number(rsp.half = h /\ rsp.kind = "xlate_pending")
                                    - Number(rsp.half = h /\ rsp.kind \in XlateKinds)
            /\ rsp.half = h /\ rsp.kind \in XlateKinds => in_xlate[h] > 0
            /\ rsp.half = h => Outstanding(h) > 0
        BY OutstandingStep
      <3>2. h # batch => Number(h = batch /\ "valid" \in prt_cmd) = 0
        BY DEF Number
      <3>3. Number(Returned(rsp) /\ rsp.half = h) \in {0, 1}
        BY DEF Number
      <3>4. Outstanding(h)' > 0 => Outstanding(h) > 0 \/ batch = h
        BY <3>1, <3>2, <3>3
      <3>5. /\ ~again => Number(rsp.half = h /\ rsp.kind = "xlate_pending") = 0
            /\ ~ends => Number(rsp.half = h /\ rsp.kind \in XlateKinds) = 0
        BY DEF Number, RetryKinds
      <3>6. in_xlate[h] = 0 /\ ~again => in_xlate'[h] = 0
        BY <3>1, <3>5
      <3>7. prt_cmd_enable => in_xlate[h] = 0
        <4>1. prt_cmd_enable => Outstanding(h) = 0
          <5>1. CASE h # b
            BY <1>1, <5>1 DEF BatchIs
          <5>2. CASE h = b
            BY <1>1, <2>1, <5>2 DEF BatchIs
          <5> QED BY <5>1, <5>2
        <4> QED BY <4>1, <3>1 DEF Outstanding
      <3> QED BY <3>1, <3>4, <3>6, <3>7
    <2>8. again => rsp.half \in Partial /\ rsp.kind \in RetryKinds
      OBVIOUS
    <2>9. rsp.half = h /\ rsp.kind \in XlateKinds \cup {"retry"} => ends \/ again
      BY DEF RetryKinds
    <2>10. Open(h)' => begun \/ Open(h)
      <3>1. Outstanding(h)' > 0 => Open(h)
        BY <2>7 DEF Open
      <3>2. batch' = h => begun \/ Open(h)
        BY <2>4 DEF Open
      <3>3. prt_rsp_pending' /\ prt_half' = h => Open(h)
        BY <1>2 DEF Open
      <3> QED BY <3>1, <3>2, <3>3 DEF Open
    \* What is reported in this cycle is not open after it.
    <2>11. prt_rsp_available(rsp) => ~Open(h)'
      <3>1. SUFFICES ASSUME prt_rsp_available(rsp) PROVE ~Open(h)'
        OBVIOUS
      <3>2. prt_rsp_pending /\ ~prt_rsp_pending' /\ batch = NoHalf /\ start = {}
        BY <1>2, <3>1
      <3>3. ~(Outstanding(h)' > 0)
        <4>1. Outstanding(h) = 0
          BY <1>2, <3>2
        <4> QED BY <2>1, <2>7, <3>2, <4>1
      <3>4. batch' # h
        BY <2>1, <2>4, <3>2
      <3> QED BY <3>2, <3>3, <3>4 DEF Open
    <2>12. ~told => ~(h \in todo') \/ (h \in todo /\ ~begun)
      BY <2>4
    <2>13. Open(h)' /\ ~prt_rsp_retry' => asked'[h] = "no" /\ h \notin todo' /\ in_xlate'[h] = 0
      <3>1. CASE begun
        <4>1. in_xlate[h] = 0 /\ ~again
          <5>1. in_xlate[h] = 0 /\ Outstanding(h) = 0
            <6>1. prt_cmd_enable
              BY <2>4, <3>1
            <6>2. CASE h # b
              BY <1>1, <2>7, <6>1, <6>2 DEF BatchIs
            <6>3. CASE h = b
              BY <1>1, <2>1, <2>7, <6>1, <6>3 DEF BatchIs
            <6> QED BY <6>2, <6>3
          <5> QED BY <2>7, <5>1
        <4> QED BY <2>3, <2>4, <2>7, <3>1, <4>1
      <3>2. ASSUME ~begun, Open(h)', ~prt_rsp_retry'
            PROVE  asked'[h] = "no" /\ h \notin todo' /\ in_xlate'[h] = 0
        <4>1. Open(h) /\ ~prt_rsp_available(rsp)
          BY <2>10, <2>11, <3>2
        <4>2. ~prt_rsp_retry /\ ~again
          BY <1>2, <2>8, <3>2, <4>1
        <4>3. asked[h] = "no" /\ h \notin todo /\ in_xlate[h] = 0
          BY <2>2, <4>1, <4>2
        <4>4. ~retry /\ ~told /\ ~ends
          BY <2>3, <2>7, <4>3
        <4> QED BY <2>4, <2>7, <2>9, <3>2, <4>2, <4>3, <4>4
      <3> QED BY <3>1, <3>2
    <2>14. Open(h)' => h \notin finished' /\ ~Reported(h)'
      <3>1. SUFFICES ASSUME Open(h)' PROVE h \notin finished' /\ ~Reported(h)'
        OBVIOUS
      <3>2. ~Reported(h)'
        BY <1>2, <2>6, <2>11, <3>1
      <3>3. h \notin finished /\ ~Reported(h)
        <4>1. CASE begun
          BY <2>2, <2>4, <4>1
        <4>2. CASE Open(h)
          BY <2>2, <4>2
        <4> QED BY <2>10, <3>1, <4>1, <4>2
      <3> QED BY <2>4, <3>2, <3>3
    <2>15. h \in finished' \/ Reported(h)' => h \notin todo' /\ asked'[h] = "no"
      <3>1. CASE h \in finished \/ Reported(h)
        <4>1. h \notin todo /\ asked[h] = "no" /\ ~Open(h)
          BY <2>2, <3>1
        <4>2. rsp.half # h
          BY <2>7, <4>1 DEF Open
        <4>3. ~retry /\ ~told /\ ~begun
          BY <2>3, <2>4, <4>1
        <4> QED BY <2>4, <4>1, <4>2, <4>3
      <3>2. CASE Reported(h)'
        <4>1. prt_valid(rsp) /\ prt_half = h /\ ~Retried(rsp) /\ prt_rsp_pending /\ ~prt_rsp_retry
          BY <1>2, <2>6, <3>2
        <4>2. Open(h) /\ rsp.half # h /\ ~begun
          BY <1>2, <4>1 DEF Open
        <4>3. h \notin todo /\ asked[h] = "no"
          BY <2>2, <4>1, <4>2
        <4>4. ~told /\ ~retry
          BY <2>3, <4>3
        <4> QED BY <2>4, <4>2, <4>3, <4>4
      <3> QED BY <2>4, <3>1, <3>2
    <2>16. h \in finished' => dma_resp'.half # h
      <3>1. SUFFICES ASSUME h \in finished', dma_resp'.half = h PROVE FALSE
        OBVIOUS
      <3>2. h \in finished \/ Reported(h)
        BY <2>4, <3>1
      <3>3. asked[h] = "no" /\ ~Open(h)
        BY <2>2, <3>2
      <3>4. prt_valid(rsp) /\ prt_half = h
        BY <2>3, <2>5, <3>1, <3>3
      <3> QED BY <1>2, <3>3, <3>4 DEF Open
    <2> QED BY <2>13, <2>14, <2>15, <2>16
  <1> QED BY <1>2, <1>3 DEF ReportInv, Partial

\* The invariant holds after reset.
LEMMA ReportStart == Init => ReportInv
  <1>1. SUFFICES ASSUME Init PROVE ReportInv
    OBVIOUS
  <1>2. /\ batch = NoHalf /\ finished = {} /\ dma_resp = NoReport
        /\ prt_rsp_pending = FALSE /\ prt_rsp_retry = FALSE
        /\ \A h \in Halves : at_host[h] = 0 /\ in_xlate[h] = 0
    BY <1>1 DEF Init
  <1>3. ASSUME NEW h \in Partial
        PROVE  ~Open(h) /\ ~Reported(h) /\ dma_resp.half # h /\ h \notin finished
    <2>1. h \in Halves /\ h # NoHalf
      BY NoHalfIsNone
    <2>2. Outstanding(h) = 0
      BY <1>2, <2>1 DEF Outstanding
    <2> QED BY <1>2, <2>1, <2>2 DEF Open, Reported, NoReport
  <1> QED BY <1>2, <1>3 DEF ReportInv

\* A step that changes nothing keeps it.
LEMMA ReportStutters == ReportInv /\ UNCHANGED vars => ReportInv'
  <1>1. SUFFICES ASSUME ReportInv, UNCHANGED vars PROVE ReportInv'
    OBVIOUS
  <1>2. /\ UNCHANGED <<prt_inflight_cnt, prt_commands_allout, distance, prt_rsp_pending,
                       prt_rsp_retry, prt_rsp_failed, prt_cmd_enable, prt_rsp_code, prt_half>>
        /\ UNCHANGED <<dma_resp, todo, batch, to_send, strobe_valid, finished, at_host,
                       in_xlate, retries, regime, asked, failed>>
    BY <1>1 DEF vars, batchVars, senderVars, hostVars
  <1>3. \A h : Open(h)' = Open(h) /\ Reported(h)' = Reported(h)
    BY <1>2 DEF Open, Reported, Outstanding
  <1>4. \A h : in_xlate'[h] = in_xlate[h] /\ asked'[h] = asked[h]
    BY <1>2
  <1> QED BY <1>1, <1>2, <1>3, <1>4 DEF ReportInv

\* What the invariants say of a half that is reported.
LEMMA AnsweredWhenReported ==
    ASSUME TypeOK, DecodeInv, RetryInv, ReportInv
    PROVE  FinishedWhenAnswered
  <1> DEFINE h == dma_resp.half
  <1>1. SUFFICES ASSUME dma_resp.code \in {"good", "bad"}
                 PROVE  /\ at_host[h] = 0 /\ in_xlate[h] = 0
                        /\ h \notin todo /\ h # batch /\ h \notin finished
                        /\ asked[h] = "no"
    BY DEF FinishedWhenAnswered
  <1>2. h \in Halves
    BY <1>1 DEF TypeOK, NoReport
  <1>3. at_host[h] \in Nat /\ in_xlate[h] \in Nat /\ batch \in Partial \cup {NoHalf}
    BY <1>2 DEF TypeOK
  <1>4. CASE h \in Partial
    <2>1. Reported(h)
      BY <1>1 DEF Reported
    <2>2. h \notin todo /\ asked[h] = "no" /\ h \notin finished /\ ~Open(h)
      BY <1>4, <2>1 DEF ReportInv
    <2>3. batch # h /\ ~(Outstanding(h) > 0)
      BY <2>2 DEF Open
    <2>4. at_host[h] = 0 /\ in_xlate[h] = 0
      BY <1>3, <2>3 DEF Outstanding
    <2> QED BY <2>2, <2>3, <2>4
  <1>5. CASE h \in Full
    <2> HIDE DEF h
    <2>1. "report" \in Places(h)
      BY <1>1, PlaceFacts DEF h
    <2>2. \A p \in Places(h) : p = "report"
      BY <1>5, <2>1 DEF DecodeInv, FullOnce
    <2>3. /\ in_xlate[h] > 0 => "rsp_in" \in Places(h) \/ "fifo" \in Places(h)
          /\ asked[h] = "no"
      BY <1>5, <2>1 DEF RetryInv, FullAsked
    <2>4. ~(at_host[h] > 0) /\ h \notin todo /\ h \notin finished
      BY <2>2, PlaceFacts
    <2>5. h # batch
      BY <1>2, <1>3, <1>5, NoHalfIsNone
    <2> QED BY <1>3, <2>2, <2>3, <2>4, <2>5
  <1> QED BY <1>2, <1>4, <1>5 DEF Full

\* A half is reported good or bad when all its commands are answered and none
\* has to be repeated, if the response of each batch is reported before the
\* next batch is enabled.
THEOREM FinishesWhenAnswered ==
    ASSUME OneKindAsked, XlateCounted
    PROVE  Spec /\ []ReportedInTime => []FinishedWhenAnswered
  <1>1. Init => ReportInv
    BY ReportStart
  <1>2. TypeOK /\ DecodeInv /\ RetryInv /\ ReportedInTime /\ ReportedInTime' /\ ReportInv
            /\ [Next]_vars => ReportInv'
    <2>1. ASSUME TypeOK, DecodeInv, RetryInv, ReportedInTime, ReportedInTime', ReportInv, Next
          PROVE  ReportInv'
      <3>1. PICK rsp \in Answers, full \in AtMostOne(todo \cap Full), start \in AtMostOne(Starts),
                 prt_cmd \in PrtCmds, elapsed \in BOOLEAN :
                    Cycle(rsp, full, start, prt_cmd, elapsed)
        BY <2>1 DEF Next
      <3> QED BY <2>1, <3>1, ReportStep DEF DecodeInv, RetryInv
    <2> QED BY <2>1, ReportStutters
  <1>3. TypeOK /\ DecodeInv /\ RetryInv /\ ReportInv => FinishedWhenAnswered
    BY AnsweredWhenReported
  <1>4. Spec => [](TypeOK /\ DecodeInv /\ RetryInv)
    BY RetryInvariant
  <1> QED BY <1>1, <1>2, <1>3, <1>4, PTL DEF Spec
=============================================================================
