----------------------------- MODULE RetryQueue -----------------------------
(***************************************************************************)
(* brdg_retry_queue: the commands the host wants again.  A response        *)
(* "rty_req" is queued and retried after a backoff; a response             *)
(* "xlate_pending" is queued too and retried when the host has announced   *)
(* that the translation is done.  The queue is read only while no          *)
(* translation is outstanding, and an entry that names the half retried    *)
(* last is skipped, because every partial command of a half may ask for    *)
(* the same retry.                                                         *)
(*                                                                         *)
(* One step is one clock cycle; the module gives the registers their next  *)
(* values from the inputs of the cycle: `rsp', the response latched by     *)
(* brdg_response_decode, `rty_rdy', the room at its output, and            *)
(* `prt_cmd_start', a batch of partial commands that begins.               *)
(***************************************************************************)
EXTENDS Naturals, Sequences

CONSTANTS
    Halves,       \* 64-byte halves of beats: [tag, pos, partial, cmds]
    PendingMod    \* the values of xlate_pending_cnt, 2^5 in the code

Tags == {h.tag : h \in Halves}

RetryKinds == {"retry", "xlate_pending"}
XlateKinds == {"xlate_done", "xlate_retry"}
Kinds      == RetryKinds \cup XlateKinds \cup {"done", "failed"}

NoHalf == [tag |-> 0, pos |-> "none", partial |-> FALSE, cmds |-> 0]
NoRsp  == [kind |-> "none", half |-> NoHalf]

Responses == [kind: Kinds, half: Halves]

ASSUME RetryAssumption ==
    /\ PendingMod \in Nat \ {0}
    /\ \A h \in Halves : /\ h.tag \in Nat /\ h.pos \in {"lo", "hi"}
                         /\ h.partial \in BOOLEAN /\ h.cmds \in Nat \ {0}

VARIABLES
    rsp_in,            \* the input registers of the FIFO and of the RAM
    fifo, wr_en_dly,   \* mfifo_rty_tag; its newest entry is not counted yet
    dout,              \* its output in the cycle after a read, or NoRsp
    entry,             \* rsp_is_*, rty_pos, rty_tag
    ram_xlate_done,    \* mram_xlate_done, by tag
    doutb,             \* its output
    xlate_pending_cnt,
    cstate,
    check,             \* cycles in RETRY_CHECK, at most 3: retry_check_done_slide
    last_rty,          \* last_rty_tag, last_rty_pos
    rep_retry_enable

queueVars == <<rsp_in, fifo, wr_en_dly, dout, entry, ram_xlate_done, doutb,
               xlate_pending_cnt, cstate, check, last_rty, rep_retry_enable>>

QueueInit ==
    /\ rsp_in = NoRsp /\ fifo = <<>> /\ wr_en_dly = FALSE /\ dout = NoRsp /\ entry = NoRsp
    /\ ram_xlate_done = [t \in Tags |-> "none"] /\ doutb = "none"
    /\ xlate_pending_cnt = 0 /\ cstate = "IDLE" /\ check = 0
    /\ last_rty = <<0, "none">> /\ rep_retry_enable = FALSE

-----------------------------------------------------------------------------
(* Wires.                                                                  *)

\* A beat is written in one cycle and counted in the next.
fifo_retry_empty == Len(fifo) = (IF wr_en_dly THEN 1 ELSE 0)

rty_busy == ~fifo_retry_empty

rty_valid(rty_rdy) == rty_rdy /\ cstate = "RETRY_NOW"

Name(h) == <<h.tag, h.pos>>

\* Mutant: every entry is retried, though its half was retried already.
MutSkipped == FALSE

\* Retry output with an identical tag is skipped.
Skipped == Name(entry.half) = last_rty /\ ~rep_retry_enable

-----------------------------------------------------------------------------
(* Registers.                                                              *)

\* The queue is read only while every translation that is queued has ended.
LeaveIdle == ~fifo_retry_empty /\ xlate_pending_cnt = 0

\* The host may have asked for a backoff with the end of the translation.
AfterCheck ==
    IF Skipped THEN "IDLE"
    ELSE IF entry.kind = "retry" THEN "RETRY_BACKOFF"
    ELSE CASE doutb = "xlate_done"  -> "RETRY_NOW"
           [] doutb = "xlate_retry" -> "RETRY_BACKOFF"
           [] doutb = "none"        -> "RETRY_CHECK"

\* `elapsed': the backoff counter has run down.
QueueState(rty_rdy, elapsed) ==
    /\ cstate' = CASE cstate = "IDLE"          -> IF LeaveIdle THEN "RETRY_RELEASE" ELSE "IDLE"
                   [] cstate = "RETRY_RELEASE" -> "RETRY_CHECK"
                   [] cstate = "RETRY_CHECK"   -> IF check = 2 THEN AfterCheck ELSE "RETRY_CHECK"
                   [] cstate = "RETRY_BACKOFF" -> IF elapsed THEN "RETRY_NOW" ELSE "RETRY_BACKOFF"
                   [] cstate = "RETRY_NOW"     -> IF rty_rdy THEN "IDLE" ELSE "RETRY_NOW"
    /\ check' = IF cstate # "RETRY_CHECK" THEN 0 ELSE IF check < 3 THEN check + 1 ELSE 3

QueueFifo(rsp) ==
    LET wr_en == rsp_in.kind \in RetryKinds
        rest == IF cstate = "RETRY_RELEASE" THEN Tail(fifo) ELSE fifo
    IN  /\ rsp_in' = rsp
        /\ fifo' = IF wr_en THEN Append(rest, rsp_in) ELSE rest
        /\ wr_en_dly' = wr_en
        /\ dout' = IF cstate = "RETRY_RELEASE" THEN Head(fifo) ELSE NoRsp
        /\ entry' = IF dout # NoRsp THEN dout ELSE entry

\* The RAM is read at the tag of the entry.  The address follows the output
\* of the FIFO, so it is the tag of the entry in this one cycle.
XlateRam ==
    /\ ram_xlate_done' = IF rsp_in.kind \in XlateKinds
                         THEN [ram_xlate_done EXCEPT ![rsp_in.half.tag] = rsp_in.kind]
                         ELSE ram_xlate_done
    /\ doutb' = IF cstate = "RETRY_CHECK" /\ check = 1 THEN ram_xlate_done[entry.half.tag]
                ELSE "none"

Balance(rsp) ==
    xlate_pending_cnt' = CASE rsp.kind = "xlate_pending" -> (xlate_pending_cnt + 1) % PendingMod
                           [] rsp.kind \in XlateKinds    -> (xlate_pending_cnt + PendingMod - 1) % PendingMod
                           [] OTHER                      -> xlate_pending_cnt

\* Mutant: a batch that begins does not enable the retry of its half.
MutRepetition(rty_rdy, prt_cmd_start) ==
    /\ last_rty' = IF rty_valid(rty_rdy) THEN Name(entry.half) ELSE last_rty
    /\ rep_retry_enable' =
         (~rty_valid(rty_rdy) /\ ((fifo_retry_empty /\ ~entry.half.partial) \/ rep_retry_enable))

\* The half retried last may be retried again when a batch begins, or, after
\* a full command, when the queue is empty.
Repetition(rty_rdy, prt_cmd_start) ==
    /\ last_rty' = IF rty_valid(rty_rdy) THEN Name(entry.half) ELSE last_rty
    /\ rep_retry_enable' =
         (~rty_valid(rty_rdy) /\ (\/ prt_cmd_start
                                  \/ fifo_retry_empty /\ ~entry.half.partial
                                  \/ rep_retry_enable))

Queue(rsp, rty_rdy, prt_cmd_start, elapsed) ==
    /\ QueueState(rty_rdy, elapsed)
    /\ QueueFifo(rsp)
    /\ XlateRam
    /\ Balance(rsp)
    /\ Repetition(rty_rdy, prt_cmd_start)

QueueTypeOK ==
    /\ rsp_in \in Responses \cup {NoRsp}
    /\ fifo \in Seq(Responses) /\ wr_en_dly \in BOOLEAN
    /\ dout \in Responses \cup {NoRsp} /\ entry \in Responses \cup {NoRsp}
    /\ ram_xlate_done \in [Tags -> XlateKinds \cup {"none"}]
    /\ doutb \in XlateKinds \cup {"none"}
    /\ xlate_pending_cnt \in 0 .. PendingMod - 1
    /\ cstate \in {"IDLE", "RETRY_RELEASE", "RETRY_CHECK", "RETRY_BACKOFF", "RETRY_NOW"}
    /\ check \in 0 .. 3
    /\ rep_retry_enable \in BOOLEAN
=============================================================================
