-------------------------- MODULE PartialCommands --------------------------
(***************************************************************************)
(* How the bridge writes a 64-byte half whose byte strobe is not all ones: *)
(* brdg_command_encode takes the beat from a FIFO, brdg_partial_sequencer  *)
(* cuts the strobe into commands of 32, 16, 8, 4, 2 and 1 bytes, one at a  *)
(* time, largest and lowest first.  The commands of one half are a batch;  *)
(* the next batch waits until brdg_response_decode has counted the         *)
(* responses of this one.                                                  *)
(*                                                                         *)
(* One step is one clock cycle, and the variables are the registers.  The  *)
(* width is scaled: a half has 2^Levels bytes, and the counters have the   *)
(* bits that go with it, so that their limits are reached.  Commands go    *)
(* to the FIFO of brdg_tlx_cmd_converter, which holds the encoder back     *)
(* when it is half full; full 64-byte commands pass the sequencer by and   *)
(* are left out, as the FIFO fills without them.                           *)
(***************************************************************************)
EXTENDS Naturals, Sequences, FiniteSets

CONSTANTS
    Levels,  \* lengths of a command: 2^(Levels-1) down to 1 (6 in the code)
    Half,    \* commands in the converter's FIFO that make it half full (16);
             \* with 2 a batch may be closed while its last command waits
    Beats,   \* the beats that may come: the strobes of the halves l and h, {}
             \* for a half that is complete or empty and takes no batch
    NBeat,   \* bound: beats in all
    Stall    \* TRUE: the host may leave commands in the converter's FIFO

\* The bytes of a command of each length, and those of a half.
Length[n \in 0 .. Levels] == IF n = 0 THEN 1 ELSE 2 * Length[n - 1]

Bytes == 0 .. Length[Levels] - 1

ASSUME PartialAssumption ==
    /\ Levels \in Nat \ {0} /\ Half \in Nat /\ Half > 2 /\ NBeat \in Nat
    /\ Stall \in BOOLEAN
    /\ \A b \in Beats : /\ b.l \subseteq Bytes /\ b.l # Bytes
                        /\ b.h \subseteq Bytes /\ b.h # Bytes
                        /\ (b.l # {} \/ b.h # {})

VARIABLES
    \* brdg_partial_sequencer
    cstate,        \* "IDLE", "CHK_PART_XB", "WR_CMD_XB", "WR_VLD_XB", "CYC_UPDATE", "DONE"
    sub_strb,      \* the bytes still to be put in a command
    part_cmd_cyc,  \* log2 of the length that is tried
    partial_ea,    \* log2 of the length, and the section, of the next command
    valid_pre,     \* partial_valid_pre1
    valid_pending, \* partial_valid_pending
    \* brdg_command_encode
    prt_cstate,    \* "IDLE", "RD_PRT_FIFO", "CHECK_PARTIAL", "PARTIAL_L64B", "PARTIAL_H64B"
    fifo_prt,      \* beats that wait
    beat,          \* fifo_prt_info_dout and its copies
    next_pending,  \* partial_next_pending
    strobe, strobe_valid,
    partial_data,  \* the half whose data is on the bus: "l", "h"
    tlx_cmd_valid,
    \* brdg_tlx_cmd_converter and the host, which answers in any order
    queued,        \* commands in the FIFO
    wr_data_count,
    at_host,       \* commands the host has and has not answered
    \* brdg_response_decode
    inflight_cnt, commands_allout,
    distance,      \* cycles until the next batch is enabled, 0 if not counting
    cmd_enable,
    \* history
    left,          \* the bytes of the batch no command has covered yet
    left_half,     \* and their half
    arrived,       \* beats so far
    held           \* the valid of a command has waited for the FIFO

sequencer == <<cstate, sub_strb, part_cmd_cyc, partial_ea, valid_pre, valid_pending>>
encoder   == <<prt_cstate, fifo_prt, beat, next_pending, strobe, strobe_valid, partial_data,
               tlx_cmd_valid>>
converter == <<queued, wr_data_count, at_host>>
bookkeeper == <<inflight_cnt, commands_allout, distance, cmd_enable>>
history   == <<left, left_half, arrived, held>>
vars == <<sequencer, encoder, converter, bookkeeper, history>>

NoBeat == [l |-> {}, h |-> {}]

Init ==
    /\ cstate = "IDLE" /\ sub_strb = {} /\ part_cmd_cyc = Levels - 1
    /\ partial_ea = <<0, 0>> /\ valid_pre = FALSE /\ valid_pending = FALSE
    /\ prt_cstate = "IDLE" /\ fifo_prt = <<>> /\ beat = NoBeat /\ next_pending = FALSE
    /\ strobe = {} /\ strobe_valid = FALSE /\ partial_data = "l" /\ tlx_cmd_valid = FALSE
    /\ queued = 0 /\ wr_data_count = 0 /\ at_host = 0
    /\ inflight_cnt = 0 /\ commands_allout = FALSE /\ distance = 0 /\ cmd_enable = TRUE
    /\ left = {} /\ left_half = "l" /\ arrived = 0 /\ held = FALSE

-----------------------------------------------------------------------------
(* Wires.                                                                  *)

\* Section i of length 2^n, and the sections of that length that are all ones.
Section(n, i) == (Length[n] * i) .. (Length[n] * (i + 1) - 1)

\* Mutant: one byte of the section is enough.
MutAllOnes(strb, n) == {i \in 0 .. Length[Levels - n] - 1 : Section(n, i) \cap strb # {}}

AllOnes(strb, n) == {i \in 0 .. Length[Levels - n] - 1 : Section(n, i) \subseteq strb}

\* The section furthest to the right.
FarRight(S) == CHOOSE i \in S : \A j \in S : i <= j

part_cmd_match == AllOnes(sub_strb, part_cmd_cyc) # {}

\* Mutant: the code of the length is one too high.
MutTaken == <<part_cmd_cyc + 1, FarRight(AllOnes(sub_strb, part_cmd_cyc))>>

\* The section taken in WR_CMD_XB.
Taken == <<part_cmd_cyc, FarRight(AllOnes(sub_strb, part_cmd_cyc))>>

tlx_cmd_rdy == wr_data_count < Half

partial_en == tlx_cmd_rdy

partial_valid == valid_pending /\ partial_en

\* Mutant: done although shorter sections are left.
Mutpartial_done == cstate = "CYC_UPDATE"

partial_done == cstate = "CYC_UPDATE" /\ (part_cmd_cyc = 0 \/ sub_strb = {})

\* What a command that goes out in this cycle covers: the half its address
\* and its data belong to, and its bytes.
EaHalf  == IF prt_cstate = "PARTIAL_H64B" THEN "h" ELSE "l"
Covered == Section(partial_ea[1], partial_ea[2])

\* Mutant: the batch is taken for complete whatever has still to be sent.
Mutprt_rsp_last(answer) == answer /\ inflight_cnt = 1

\* Mutant: the last response is awaited after the counter is down.
MutCountedDown(answer) == answer /\ inflight_cnt = 0 /\ commands_allout

prt_rsp_last(answer) == answer /\ inflight_cnt = 1 /\ commands_allout

-----------------------------------------------------------------------------
(* brdg_partial_sequencer                                                  *)

Sequencer ==
    /\ cstate' = CASE cstate = "IDLE"        -> IF strobe_valid THEN "CHK_PART_XB" ELSE "IDLE"
                   [] cstate = "CHK_PART_XB" -> IF part_cmd_match THEN "WR_CMD_XB" ELSE "CYC_UPDATE"
                   [] cstate = "WR_CMD_XB"   -> "WR_VLD_XB"
                   [] cstate = "WR_VLD_XB"   -> IF partial_en THEN "CHK_PART_XB" ELSE "WR_VLD_XB"
                   [] cstate = "CYC_UPDATE"  -> IF partial_done THEN "DONE" ELSE "CHK_PART_XB"
                   [] cstate = "DONE"        -> IF partial_en THEN "IDLE" ELSE "DONE"
    /\ part_cmd_cyc' = CASE cstate = "IDLE" -> Levels - 1
                         [] cstate = "CYC_UPDATE" /\ part_cmd_cyc > 0 -> part_cmd_cyc - 1
                         [] OTHER -> part_cmd_cyc
    /\ sub_strb' = CASE strobe_valid -> strobe
                     [] cstate = "WR_CMD_XB" /\ ~strobe_valid -> sub_strb \ Section(Taken[1], Taken[2])
                     [] OTHER -> sub_strb
    /\ partial_ea' = IF cstate = "WR_CMD_XB" THEN Taken ELSE partial_ea
    /\ valid_pre' = (cstate = "WR_VLD_XB" /\ partial_en)
    /\ valid_pending' = (valid_pre \/ (valid_pending /\ ~partial_en))

-----------------------------------------------------------------------------
(* brdg_command_encode                                                     *)

\* Where the FSM goes for the next beat.
NextBeat == IF fifo_prt # <<>> /\ cmd_enable THEN "RD_PRT_FIFO" ELSE "IDLE"

\* Mutant: the second half does not wait for the responses of the first.
MutSecondHalf == prt_cstate = "PARTIAL_L64B" /\ next_pending

\* The high half is started when the low half has been answered.
SecondHalf == prt_cstate = "PARTIAL_L64B" /\ next_pending /\ cmd_enable

Encoder ==
    /\ prt_cstate' =
         CASE prt_cstate = "IDLE" -> NextBeat
           [] prt_cstate = "RD_PRT_FIFO" -> "CHECK_PARTIAL"
           [] prt_cstate = "CHECK_PARTIAL" -> IF beat.l # {} THEN "PARTIAL_L64B" ELSE "PARTIAL_H64B"
           [] prt_cstate = "PARTIAL_L64B" -> IF partial_done /\ beat.h = {} THEN NextBeat
                                             ELSE IF SecondHalf THEN "PARTIAL_H64B"
                                             ELSE "PARTIAL_L64B"
           [] prt_cstate = "PARTIAL_H64B" -> IF partial_done THEN NextBeat ELSE "PARTIAL_H64B"
    /\ next_pending' = \/ (prt_cstate = "PARTIAL_L64B" /\ beat.h # {} /\ partial_done)
                       \/ (next_pending /\ ~cmd_enable)
    /\ strobe_valid' = (prt_cstate = "CHECK_PARTIAL" \/ SecondHalf)
    /\ strobe' = CASE prt_cstate = "CHECK_PARTIAL" -> IF beat.l # {} THEN beat.l ELSE beat.h
                   [] prt_cstate # "CHECK_PARTIAL" /\ partial_done -> beat.h
                   [] OTHER -> strobe
    /\ partial_data' = CASE prt_cstate = "CHECK_PARTIAL" -> IF beat.l # {} THEN "l" ELSE "h"
                         [] prt_cstate # "CHECK_PARTIAL" /\ partial_done -> "h"
                         [] OTHER -> partial_data
    /\ tlx_cmd_valid' = partial_valid

\* The FIFO is read in RD_PRT_FIFO; a beat may come in any cycle.
BeatFifo(come) ==
    LET rest == IF prt_cstate = "RD_PRT_FIFO" THEN Tail(fifo_prt) ELSE fifo_prt
    IN  /\ beat' = IF prt_cstate = "RD_PRT_FIFO" THEN Head(fifo_prt) ELSE beat
        /\ fifo_prt' = rest \o come
        /\ arrived' = arrived + Len(come)

-----------------------------------------------------------------------------
(* The converter's FIFO, where a command is seen to be taken when its      *)
(* write side sees it, and the host.                                       *)

Number(b) == IF b THEN 1 ELSE 0

Converter(take, answer) ==
    /\ queued' = queued + Number(tlx_cmd_valid) - Number(take)
    /\ wr_data_count' = queued
    /\ at_host' = at_host + Number(take) - Number(answer)

-----------------------------------------------------------------------------
(* The batch in the brdg_response_decode of the write channel.  The        *)
(* counter has as many values as a strobe has commands at most.  When the  *)
(* distance has been kept, a busy retry queue delays the next batch.       *)

\* The shift register prt_rsp_end_shift, and rty_in_progress.
Distance == 9

Bookkeeper(answer, rty_busy) ==
    /\ inflight_cnt' = (inflight_cnt + Length[Levels - 1] + Number(partial_valid) - Number(answer))
                         % Length[Levels - 1]
    /\ commands_allout' = (~cmd_enable /\ (partial_done \/ commands_allout))
    /\ distance' = CASE prt_rsp_last(answer) -> Distance
                     [] ~prt_rsp_last(answer) /\ distance = 1 -> Number(rty_busy)
                     [] ~prt_rsp_last(answer) /\ distance > 1 -> distance - 1
                     [] OTHER -> 0
    /\ cmd_enable' = (~strobe_valid /\ ((distance = 1 /\ ~rty_busy) \/ cmd_enable))

-----------------------------------------------------------------------------
\* The bytes of the batch and what its commands have covered.
History ==
    /\ left' = CASE strobe_valid -> strobe
                 [] ~strobe_valid /\ partial_valid -> left \ Covered
                 [] OTHER -> left
    /\ left_half' = IF strobe_valid THEN partial_data ELSE left_half
    /\ held' = (held \/ (valid_pending /\ ~partial_en))

\* One cycle: beats that come, whether the host takes a command, whether it
\* answers one, and whether retries are queued.  A host that does not stall
\* takes commands as they come.
Cycle(come, take, answer, rty_busy) ==
    /\ arrived + Len(come) <= NBeat
    /\ (take => queued > 0)
    /\ (~Stall /\ queued > 0 => take)
    /\ (answer => at_host > 0)
    /\ Sequencer /\ Encoder /\ BeatFifo(come) /\ Converter(take, answer)
    /\ Bookkeeper(answer, rty_busy) /\ History

Come == {<<>>} \cup {<<b>> : b \in Beats}

Next == \E come \in Come, take, answer, rty_busy \in BOOLEAN :
            Cycle(come, take, answer, rty_busy)

Spec == Init /\ [][Next]_vars

\* The clock runs, the host takes commands and answers them, and the retry
\* queue runs empty.
Fairness ==
    /\ WF_vars(Next)
    /\ WF_vars(\E come \in Come, answer, busy \in BOOLEAN : Cycle(come, TRUE, answer, busy))
    /\ WF_vars(\E come \in Come, take, busy \in BOOLEAN : Cycle(come, take, TRUE, busy))
    /\ WF_vars(distance = 1 /\ \E come \in Come, take, answer \in BOOLEAN :
                                 Cycle(come, take, answer, FALSE))

FairSpec == Spec /\ Fairness

-----------------------------------------------------------------------------
TypeOK ==
    /\ cstate \in {"IDLE", "CHK_PART_XB", "WR_CMD_XB", "WR_VLD_XB", "CYC_UPDATE", "DONE"}
    /\ sub_strb \subseteq Bytes /\ part_cmd_cyc \in 0 .. Levels - 1
    /\ partial_ea \in (0 .. Levels - 1) \X Bytes
    /\ valid_pre \in BOOLEAN /\ valid_pending \in BOOLEAN
    /\ prt_cstate \in {"IDLE", "RD_PRT_FIFO", "CHECK_PARTIAL", "PARTIAL_L64B", "PARTIAL_H64B"}
    /\ fifo_prt \in Seq(Beats) /\ beat \in Beats \cup {NoBeat} /\ next_pending \in BOOLEAN
    /\ strobe \subseteq Bytes /\ strobe_valid \in BOOLEAN /\ partial_data \in {"l", "h"}
    /\ tlx_cmd_valid \in BOOLEAN
    /\ queued \in Nat /\ wr_data_count \in Nat /\ at_host \in Nat
    /\ inflight_cnt \in 0 .. Length[Levels - 1] - 1 /\ commands_allout \in BOOLEAN
    /\ distance \in 0 .. Distance /\ cmd_enable \in BOOLEAN
    /\ left \subseteq Bytes /\ left_half \in {"l", "h"} /\ arrived \in 0 .. NBeat /\ held \in BOOLEAN

\* A command that goes out covers bytes of the batch no earlier command has
\* covered, in the half of the batch, with the data of that half.
Fits == /\ Covered \subseteq left
        /\ EaHalf = left_half /\ partial_data = left_half

CommandsFit == [][partial_valid => Fits]_vars

\* The code keeps CommandsFit as long as no valid has had to wait: the FIFO
\* may become half full in any other cycle.
CommandsFitInTime == [][partial_valid /\ ~held => Fits]_vars

\* When the bookkeeper closes a batch, every byte of its strobe has been
\* covered by a command.
BatchCovered == distance > 0 /\ ~held => left = {}

\* When the bookkeeper closes a batch, none of its commands is still to be
\* sent, on its way to the host, or unanswered, though the counter wraps for
\* the strobe with the most commands.
BatchAnswered ==
    distance > 0 => /\ ~valid_pre /\ ~valid_pending /\ ~tlx_cmd_valid
                    /\ queued = 0 /\ at_host = 0

\* A strobe is handed over only to a sequencer that is idle: in any other
\* state it would overwrite the strobe under work, and be forgotten.
StrobeTaken == strobe_valid => cstate = "IDLE"

\* A batch that was started is closed, and the next one enabled.
BatchEnds == ~cmd_enable ~> cmd_enable
=============================================================================
