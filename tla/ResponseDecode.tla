--------------------------- MODULE ResponseDecode ---------------------------
(***************************************************************************)
(* brdg_response_decode of the write channel (MODE = 0) around its retry   *)
(* queue.  The response of a full command is reported in the next cycle,   *)
(* good or bad; a command to be repeated goes through the queue; the       *)
(* responses of the partial commands of a half are counted, and the half   *)
(* is reported once when the last of them is in.  One half at a time has   *)
(* partial commands (a batch); the next batch is enabled a few cycles      *)
(* after the end of this one, when the retry queue is empty.               *)
(*                                                                         *)
(* Around it are the sender (brdg_data_bridge and brdg_command_encode),    *)
(* which sends a half again when a retry is reported for it, and the host, *)
(* which answers commands in any order.                                    *)
(***************************************************************************)
EXTENDS RetryQueue, FiniteSets

CONSTANTS
    Regimes,     \* sets of halves: those the host may ask to retry in a run
    MaxRetry     \* bound: retries the host asks for in all

Partial == {h \in Halves : h.partial}
Full    == Halves \ Partial

ASSUME DecodeAssumption ==
    /\ \A R \in Regimes : R \subseteq Halves
    /\ MaxRetry \in Nat
    /\ \A h \in Full : h.cmds = 1
    /\ \A h \in Partial : h.cmds <= 32   \* 64 bytes, at most one for two of them

VARIABLES
    \* brdg_response_decode
    prt_inflight_cnt, prt_commands_allout,
    distance,          \* cycles until the next batch is enabled, 0 if not counting
    prt_rsp_pending, prt_rsp_retry, prt_rsp_failed,
    prt_cmd_enable, prt_rsp_code,
    prt_half,          \* prt_tag, prt_pos
    dma_resp,          \* dma_resp_*: [code, half], code "none" if not valid
    \* the sender
    todo,              \* halves to be sent, for the first time or again
    batch,             \* the half whose partial commands are sent, or NoHalf
    to_send,           \* its commands not sent yet
    strobe_valid,
    finished,          \* halves reported good or bad
    \* the host
    at_host, in_xlate, \* commands not answered, or in translation, per half
    retries,           \* retries it has asked for
    regime,            \* the halves it may ask to retry
    \* history, since a half was sent
    asked,             \* the host wants it again: "no", "wanted", "reported"
    failed             \* halves with a failed command

batchVars  == <<prt_inflight_cnt, prt_commands_allout, distance, prt_rsp_pending,
                prt_rsp_retry, prt_rsp_failed, prt_cmd_enable, prt_rsp_code, prt_half>>
senderVars == <<todo, batch, to_send, strobe_valid, finished>>
hostVars   == <<at_host, in_xlate, retries, regime>>
vars == <<queueVars, batchVars, dma_resp, senderVars, hostVars, asked, failed>>

NoReport == [code |-> "none", half |-> NoHalf]

Init ==
    /\ QueueInit
    /\ prt_inflight_cnt = 0 /\ prt_commands_allout = FALSE /\ distance = 0
    /\ prt_rsp_pending = FALSE /\ prt_rsp_retry = FALSE /\ prt_rsp_failed = FALSE
    /\ prt_cmd_enable = TRUE /\ prt_rsp_code = "good" /\ prt_half = NoHalf
    /\ dma_resp = NoReport
    /\ todo = Halves /\ batch = NoHalf /\ to_send = 0 /\ strobe_valid = FALSE /\ finished = {}
    /\ at_host = [h \in Halves |-> 0] /\ in_xlate = [h \in Halves |-> 0]
    /\ retries = 0 /\ regime \in Regimes
    /\ asked = [h \in Halves |-> "no"] /\ failed = {}

-----------------------------------------------------------------------------
(* Wires.  `rsp' is the latched response, or NoRsp.                        *)

response_partial(rsp) == rsp.kind # "none" /\ rsp.half.partial
rsp_full_valid(rsp)   == ~response_partial(rsp) /\ rsp.kind \in {"done", "failed"}

rty_rdy(rsp) == ~rsp_full_valid(rsp)

\* A command in translation is not over.
Returned(rsp) == response_partial(rsp) /\ rsp.kind # "xlate_pending"

\* Mutant: the batch is over though commands have still to be sent.
Mutprt_rsp_last(rsp) == Returned(rsp) /\ prt_inflight_cnt = 1

prt_rsp_last(rsp) == Returned(rsp) /\ prt_inflight_cnt = 1 /\ prt_commands_allout

\* Mutant: a free cycle is enough, no batch need be over.
Mutprt_rsp_available(rsp) == rty_rdy(rsp) /\ ~rty_valid(rty_rdy(rsp))

prt_rsp_available(rsp) == prt_rsp_pending /\ rty_rdy(rsp) /\ ~rty_valid(rty_rdy(rsp))

prt_valid(rsp) == prt_rsp_available(rsp) /\ ~prt_rsp_retry

-----------------------------------------------------------------------------
(* The partial bookkeeper.  `prt_cmd' are the wires prt_cmd_valid and      *)
(* prt_cmd_last of the cycle.                                              *)

\* The shift register prt_rsp_end_shift, and rty_in_progress.
Distance == 9

Number(b) == IF b THEN 1 ELSE 0

Bookkeeper(rsp, prt_cmd) ==
    /\ prt_inflight_cnt' = (prt_inflight_cnt + 32 + Number("valid" \in prt_cmd)
                              - Number(Returned(rsp))) % 32
    /\ prt_commands_allout' = (~prt_cmd_enable /\ ("last" \in prt_cmd \/ prt_commands_allout))
    /\ distance' = CASE prt_rsp_last(rsp)                    -> Distance
                     [] ~prt_rsp_last(rsp) /\ distance = 1 -> Number(rty_busy)
                     [] ~prt_rsp_last(rsp) /\ distance > 1 -> distance - 1
                     [] OTHER                              -> 0
    /\ prt_cmd_enable' = (~strobe_valid /\ ((distance = 1 /\ ~rty_busy) \/ prt_cmd_enable))

\* What the responses of the batch say together.
BatchCode(rsp) ==
    /\ prt_rsp_pending' = (prt_rsp_last(rsp) \/ (prt_rsp_pending /\ ~prt_rsp_available(rsp)))
    /\ prt_rsp_retry' = (~prt_rsp_available(rsp) /\
          (prt_rsp_retry \/ (response_partial(rsp) /\ rsp.kind \in RetryKinds)))
    /\ prt_rsp_failed' = (~prt_rsp_available(rsp) /\
          (prt_rsp_failed \/ (response_partial(rsp) /\ rsp.kind = "failed")))
    /\ prt_rsp_code' = IF prt_rsp_available(rsp)
                       THEN IF prt_rsp_failed THEN "bad" ELSE "good"
                       ELSE prt_rsp_code
    /\ prt_half' = IF response_partial(rsp) THEN rsp.half ELSE prt_half

\* Mutant: a failed response is reported good.
MutReport(rsp) ==
    dma_resp' =
        CASE rsp_full_valid(rsp)     -> [code |-> "good", half |-> rsp.half]
          [] rty_valid(rty_rdy(rsp)) -> [code |-> "retry", half |-> entry.half]
          [] prt_valid(rsp)          -> [code |-> prt_rsp_code, half |-> prt_half]
          [] OTHER                   -> NoReport

\* The multiplexer at the output.  At most one of its inputs is valid.
Report(rsp) ==
    dma_resp' =
        CASE rsp_full_valid(rsp)     -> [code |-> IF rsp.kind = "done" THEN "good" ELSE "bad",
                                         half |-> rsp.half]
          [] rty_valid(rty_rdy(rsp)) -> [code |-> "retry", half |-> entry.half]
          [] prt_valid(rsp)          -> [code |-> prt_rsp_code, half |-> prt_half]
          [] OTHER                   -> NoReport

-----------------------------------------------------------------------------
(* The sender.  A full command may go out in any cycle; a batch is started *)
(* while it is enabled, its commands go out one at a time, and             *)
(* prt_cmd_last comes with the last of them (PartialCommands has the case  *)
(* that it comes earlier, while 16 commands wait for the host).            *)

PrtCmds == IF batch = NoHalf \/ strobe_valid THEN {{}}
           ELSE IF to_send = 1 THEN {{}, {"valid", "last"}}
           ELSE {{}, {"valid"}}

Starts == IF prt_cmd_enable /\ ~strobe_valid /\ batch = NoHalf THEN todo \cap Partial ELSE {}

Sender(full, start, prt_cmd) ==
    /\ full \subseteq todo \cap Full /\ Cardinality(full) <= 1
    /\ start \subseteq Starts /\ Cardinality(start) <= 1
    /\ prt_cmd \in PrtCmds
    /\ strobe_valid' = (start # {})
    /\ batch' = IF start # {} THEN CHOOSE h \in start : TRUE
                ELSE IF "last" \in prt_cmd THEN NoHalf ELSE batch
    /\ to_send' = IF start # {} THEN batch'.cmds ELSE to_send - Number("valid" \in prt_cmd)
    /\ todo' = (todo \ (full \cup start))
                   \cup (IF dma_resp.code = "retry" THEN {dma_resp.half} ELSE {})
    /\ finished' = IF dma_resp.code \in {"good", "bad"} THEN finished \cup {dma_resp.half}
                   ELSE finished

-----------------------------------------------------------------------------
(* The host.                                                               *)

Answers ==
    {NoRsp}
        \cup {[kind |-> k, half |-> h] : k \in {"done", "failed"}, h \in {g \in Halves : at_host[g] > 0}}
        \cup {[kind |-> k, half |-> h] : k \in RetryKinds,
                 h \in {g \in regime : at_host[g] > 0 /\ retries < MaxRetry}}
        \cup {[kind |-> k, half |-> h] : k \in XlateKinds, h \in {g \in Halves : in_xlate[g] > 0}}

Of(rsp, kinds, h) == Number(rsp.half = h /\ rsp.kind \in kinds)

Host(rsp, full, prt_cmd) ==
    /\ at_host' = [h \in Halves |->
            at_host[h] + Number(h \in full) + Number(h = batch /\ "valid" \in prt_cmd)
                - Of(rsp, RetryKinds \cup {"done", "failed"}, h)]
    /\ in_xlate' = [h \in Halves |->
            in_xlate[h] + Of(rsp, {"xlate_pending"}, h) - Of(rsp, XlateKinds, h)]
    /\ retries' = retries + Number(rsp.kind \in RetryKinds)
    /\ UNCHANGED regime

\* A translation that is done wants its command again.
History(rsp, full, start) ==
    /\ asked' = [h \in Halves |->
            IF h \in full \cup start THEN "no"
            ELSE IF rty_valid(rty_rdy(rsp)) /\ entry.half = h THEN "reported"
            ELSE IF rsp.half = h /\ rsp.kind \in XlateKinds \cup {"retry"} /\ asked[h] = "no"
                 THEN "wanted"
            ELSE asked[h]]
    /\ failed' = (failed \ (full \cup start))
                     \cup (IF rsp.kind = "failed" THEN {rsp.half} ELSE {})

-----------------------------------------------------------------------------
Cycle(rsp, full, start, prt_cmd, elapsed) ==
    /\ rsp \in Answers
    /\ Queue(rsp, rty_rdy(rsp), strobe_valid, elapsed)
    /\ Bookkeeper(rsp, prt_cmd)
    /\ BatchCode(rsp)
    /\ Report(rsp)
    /\ Sender(full, start, prt_cmd)
    /\ Host(rsp, full, prt_cmd)
    /\ History(rsp, full, start)

AtMostOne(S) == {{}} \cup {{x} : x \in S}

Next ==
    \E rsp \in Answers, full \in AtMostOne(todo \cap Full), start \in AtMostOne(Starts),
       prt_cmd \in PrtCmds, elapsed \in BOOLEAN :
        Cycle(rsp, full, start, prt_cmd, elapsed)

Spec == Init /\ [][Next]_vars
\* The clock runs; the host answers and translates; what is to be sent is
\* sent; the backoff counter runs down.
Fairness ==
    LET Clocked(rsps, fulls, starts, cmds, ends) ==
          \E rsp \in rsps, full \in fulls, start \in starts, prt_cmd \in cmds, elapsed \in ends :
              Cycle(rsp, full, start, prt_cmd, elapsed)
        AnyFull == AtMostOne(todo \cap Full)
        AnyStart == AtMostOne(Starts)
    IN  /\ WF_vars(Next)
        /\ WF_vars(Clocked(Answers \ {NoRsp}, AnyFull, AnyStart, PrtCmds, BOOLEAN))
        /\ WF_vars(Clocked(Answers, AnyFull \ {{}}, AnyStart, PrtCmds, BOOLEAN))
        /\ WF_vars(Clocked(Answers, AnyFull, AnyStart \ {{}}, PrtCmds, BOOLEAN))
        /\ WF_vars(Clocked(Answers, AnyFull, AnyStart, PrtCmds \ {{}}, BOOLEAN))
        /\ WF_vars(cstate = "RETRY_BACKOFF"
                     /\ Clocked(Answers, AnyFull, AnyStart, PrtCmds, {TRUE}))

FairSpec == Spec /\ Fairness

-----------------------------------------------------------------------------
TypeOK ==
    /\ QueueTypeOK
    /\ prt_inflight_cnt \in 0 .. 31 /\ prt_commands_allout \in BOOLEAN
    /\ distance \in 0 .. Distance
    /\ prt_rsp_pending \in BOOLEAN /\ prt_rsp_retry \in BOOLEAN /\ prt_rsp_failed \in BOOLEAN
    /\ prt_cmd_enable \in BOOLEAN /\ prt_rsp_code \in {"good", "bad"}
    /\ prt_half \in Partial \cup {NoHalf}
    /\ dma_resp \in [code: {"good", "bad", "retry"}, half: Halves] \cup {NoReport}
    /\ todo \subseteq Halves /\ finished \subseteq Halves
    /\ batch \in Partial \cup {NoHalf} /\ to_send \in Nat /\ strobe_valid \in BOOLEAN
    /\ at_host \in [Halves -> Nat] /\ in_xlate \in [Halves -> Nat]
    /\ retries \in 0 .. MaxRetry /\ regime \in Regimes
    /\ asked \in [Halves -> {"no", "wanted", "reported"}] /\ failed \subseteq Halves

\* The data bridge is told to repeat a half only when the host wants it
\* again, after the end of its translation, and once: though each partial
\* command of the half may ask for it.  A second time, its tag may belong to
\* another beat already.
RetriedOnce ==
    [][\A h \in Halves : dma_resp' = [code |-> "retry", half |-> h] => asked[h] = "wanted"]_vars

\* A half is reported good or bad when each of its commands is answered and
\* none of them has to be repeated: the tag may be recycled.
FinishedWhenAnswered ==
    dma_resp.code \in {"good", "bad"} =>
        LET h == dma_resp.half
        IN  /\ at_host[h] = 0 /\ in_xlate[h] = 0
            /\ h \notin todo /\ h # batch /\ h \notin finished
            /\ asked[h] = "no"

\* A full command is reported with its own code.
FullCode ==
    dma_resp.code \in {"good", "bad"} /\ dma_resp.half \in Full =>
        (dma_resp.code = "bad" <=> dma_resp.half \in failed)

\* The response of a batch is good only when all its responses are good.
PartialCode ==
    dma_resp.code = "good" /\ dma_resp.half \in Partial => dma_resp.half \notin failed

\* Every half is reported in the end: no retry is skipped that was needed,
\* no batch is left open, and the queue does not wait for a translation that
\* is done.
AllFinished == <>(finished = Halves)
=============================================================================
