------------------------------ MODULE OrderMng ------------------------------
(***************************************************************************)
(* The transaction order manager of the OpenCAPI bridge, one clock cycle   *)
(* per step: brdg_wr_order_mng_array (IsWrite = TRUE) and                  *)
(* brdg_rd_order_mng_array (IsWrite = FALSE), in the AXI configuration     *)
(* (ENABLE_ODMA undefined).                                                *)
(*                                                                         *)
(* The host may answer the beats of a channel in any order, AXI wants the  *)
(* beats of one AXI id answered in the order they were issued.  The array  *)
(* keeps one linked list of beats per AXI id, threaded through registers   *)
(* indexed by tag; a beat whose response is complete and which is the head *)
(* of its list moves to the ready latch of its id, the ready latches are   *)
(* arbitrated into one output latch, and the tag of a beat that leaves the *)
(* output latch is recycled.                                               *)
(*                                                                         *)
(* A register vector reg x[D-1:0] is the set of the indices whose bit is   *)
(* one.  Every operator that takes `rdy' reads the wire ret_ready.         *)
(***************************************************************************)
EXTENDS Naturals, FiniteSets

CONSTANTS
    NTag,     \* the depth of the array, 2**`TAGW
    NId,      \* the number of AXI ids, 2**`IDW
    RsvPos,   \* the 64-byte halves a reservation may wait for (rsv_pos)
    RsvLast,  \* the values of rsv_last
    RspBad,   \* the values of rsp_code[2], the bit of a bad response
    IsWrite   \* TRUE for the write channel's array, FALSE for the read's

Tags == 0 .. NTag - 1
Ids  == 0 .. NId - 1
Pos  == {"lo", "hi"}

ASSUME ConstantsAssumption ==
    /\ NTag \in Nat \ {0}
    /\ NId \in Nat \ {0}
    /\ RsvPos \subseteq SUBSET Pos
    /\ RsvLast \subseteq BOOLEAN
    /\ RspBad \subseteq BOOLEAN
    /\ IsWrite \in BOOLEAN

VARIABLES
    ev, rv, rc, nxt_ptr, nptr_v, axi_id, last,          \* beat_info_*, per tag
    pre_ptr, pre_ptr_valid,                             \* per AXI id
    rsv_valid_latch, rsv_beat_nh_latch,                 \* the reservation of
    rsv_pre_ptr_latch, rsv_tag_latch, rsv_axi_id_latch, \* the previous cycle
    head_beat_tag, head_beat_tag_valid,                 \* per AXI id
    rdy_to_rsp_valid, rdy_to_rsp_rc,                    \* ready latch,
    rdy_to_rsp_last, rdy_to_rsp_tag,                    \* per AXI id
    load_rsp_out_latch,                                 \* the id served last
    ret_valid, ret_tag, ret_axi_id, ret_resp, ret_last, \* output latch
    pool                                                \* the free tags

beatVars == <<ev, rv, rc, nxt_ptr, nptr_v, axi_id, last>>
preVars  == <<pre_ptr, pre_ptr_valid>>
rsvVars  == <<rsv_valid_latch, rsv_beat_nh_latch, rsv_pre_ptr_latch,
              rsv_tag_latch, rsv_axi_id_latch>>
headVars == <<head_beat_tag, head_beat_tag_valid>>
rdyVars  == <<rdy_to_rsp_valid, rdy_to_rsp_rc, rdy_to_rsp_last,
              rdy_to_rsp_tag, load_rsp_out_latch>>
retVars  == <<ret_valid, ret_tag, ret_axi_id, ret_resp, ret_last>>
vars     == <<beatVars, preVars, rsvVars, headVars, rdyVars, retVars, pool>>

-----------------------------------------------------------------------------
(* The inputs of a cycle: a reservation, a response, or neither of them.   *)

NoRsv == [valid |-> FALSE, tag |-> 0, id |-> 0, last |-> FALSE, pos |-> {}]
NoRsp == [valid |-> FALSE, tag |-> 0, pos |-> {}, bad |-> FALSE]

\* The data bridge reserves with a tag it takes from the recycle FIFO.
Reservations ==
    {NoRsv} \cup [valid: {TRUE}, tag: pool, id: Ids, last: RsvLast, pos: RsvPos]

\* The response decoder reports each half of a reserved beat exactly once
\* (a retried command is reported when it is done).
Responses ==
    {NoRsp} \cup
    {r \in [valid: {TRUE}, tag: ev, pos: (SUBSET Pos) \ {{}}, bad: RspBad] :
        r.pos \cap rv[r.tag] = {}}

-----------------------------------------------------------------------------
(* Wires.                                                                  *)

\* Both halves of the beat are answered, or were never sent.
CurrentEntryRspRdy(t) == rv[t] = Pos

\* Mutant: the output latch is loaded without looking at the AXI slave.
MutRspLatchRdy(rdy) == TRUE

RspLatchRdy(rdy) == ~ret_valid \/ rdy

\* Mutant: the lowest ready id is served beside the id served last.
MutLoadRspOut ==
    (load_rsp_out_latch \cap rdy_to_rsp_valid)
        \cup {j \in rdy_to_rsp_valid : \A k \in rdy_to_rsp_valid : j <= k}

\* The id served last keeps the grant while it has a beat ready; otherwise
\* the lowest ready id is served.
LoadRspOut ==
    IF load_rsp_out_latch \cap rdy_to_rsp_valid # {}
    THEN load_rsp_out_latch
    ELSE {j \in rdy_to_rsp_valid : \A k \in rdy_to_rsp_valid : j <= k}

\* Mutant: a granted ready latch is refilled though the output is blocked.
MutRdyToGetRsp(rdy) == {j \in Ids : j \notin rdy_to_rsp_valid \/ j \in LoadRspOut}

RdyToGetRsp(rdy) ==
    {j \in Ids : j \notin rdy_to_rsp_valid \/ (j \in LoadRspOut /\ RspLatchRdy(rdy))}

\* The ids whose head beat moves to the ready latch in this cycle.
StoreRspIn(rdy) ==
    {j \in head_beat_tag_valid \cap RdyToGetRsp(rdy) : CurrentEntryRspRdy(head_beat_tag[j])}

UpdateHeadBeat(rdy) == {j \in StoreRspIn(rdy) : head_beat_tag[j] \in nptr_v}
ClearHeadBeat(rdy)  == {j \in StoreRspIn(rdy) : head_beat_tag[j] \notin nptr_v}

RsvValidLatchForIdx == IF rsv_valid_latch THEN {rsv_axi_id_latch} ELSE {}

\* Mutant: the predecessor that leaves in this cycle is overlooked.
MutReserveNewHeadBeat(rdy) == {j \in RsvValidLatchForIdx : ~rsv_beat_nh_latch}

\* The latched reservation becomes a head: it has no predecessor, or its
\* predecessor leaves the list in this very cycle.
ReserveNewHeadBeat(rdy) ==
    {j \in RsvValidLatchForIdx : ~rsv_beat_nh_latch \/ j \in ClearHeadBeat(rdy)}

\* Mutant: the tail pointer is cleared under a latched reservation.
MutClearPrePtr(rdy) == ClearHeadBeat(rdy)

ClearPrePtr(rdy) == ClearHeadBeat(rdy) \ RsvValidLatchForIdx

ClearBeatInfoEntry(rdy) ==
    {t \in Tags : /\ axi_id[t] \in RdyToGetRsp(rdy) \cap head_beat_tag_valid
                  /\ CurrentEntryRspRdy(t)
                  /\ head_beat_tag[axi_id[t]] = t}

\* Mutant: the latched reservation is linked even if it has no predecessor.
MutReserveNxtPtr == IF rsv_valid_latch THEN {rsv_pre_ptr_latch} ELSE {}

ReserveNxtPtr == IF rsv_beat_nh_latch THEN {rsv_pre_ptr_latch} ELSE {}

-----------------------------------------------------------------------------
(* Registers, one operator per group of always blocks.                     *)

\* A register vector: `set' wins over `clear'.
Bits(reg, set, clear) == (reg \ clear) \cup set

Reserved(rsv) == IF rsv.valid THEN {rsv.tag} ELSE {}
Answered(rsp) == IF rsp.valid THEN {rsp.tag} ELSE {}

RspPos(t, rsp) == IF t \in Answered(rsp) THEN rsp.pos ELSE {}
Bad(rsp)       == IF rsp.bad THEN Answered(rsp) ELSE {}

BeatInfoRsv(rsv, rdy) ==
    /\ ev' = Bits(ev, Reserved(rsv), ClearBeatInfoEntry(rdy))
    /\ axi_id' = [t \in Tags |-> IF t \in Reserved(rsv) THEN rsv.id ELSE axi_id[t]]
    /\ last' = IF rsv.last THEN last \cup Reserved(rsv) ELSE last \ Reserved(rsv)

\* Mutant: the second answer of a beat overwrites the error of the first.
MutBeatInfoRsp(rsv, rsp, rdy) ==
    /\ rv' = [t \in Tags |->
                IF t \in Reserved(rsv) THEN Pos \ rsv.pos
                ELSE (IF t \in ClearBeatInfoEntry(rdy) THEN {} ELSE rv[t]) \cup RspPos(t, rsp)]
    /\ rc' = (rc \ (ClearBeatInfoEntry(rdy) \cup Answered(rsp))) \cup Bad(rsp)

BeatInfoRsp(rsv, rsp, rdy) ==
    /\ rv' = [t \in Tags |->
                IF t \in Reserved(rsv) THEN Pos \ rsv.pos
                ELSE (IF t \in ClearBeatInfoEntry(rdy) THEN {} ELSE rv[t]) \cup RspPos(t, rsp)]
    /\ rc' = (rc \ (ClearBeatInfoEntry(rdy) \ Answered(rsp))) \cup Bad(rsp)

PrePtr(rsv, rdy) ==
    LET reserve == IF rsv.valid THEN {rsv.id} ELSE {}
    IN  /\ pre_ptr_valid' = Bits(pre_ptr_valid, reserve, ClearPrePtr(rdy))
        /\ pre_ptr' = [j \in Ids |-> IF j \in reserve THEN rsv.tag ELSE pre_ptr[j]]

RsvLatch(rsv, rdy) ==
    /\ rsv_valid_latch' = rsv.valid
    /\ rsv_beat_nh_latch' =
         (rsv.valid /\ rsv.id \in pre_ptr_valid /\ rsv.id \notin ClearPrePtr(rdy))
    /\ IF rsv.valid
       THEN /\ rsv_pre_ptr_latch' = pre_ptr[rsv.id]
            /\ rsv_tag_latch' = rsv.tag
            /\ rsv_axi_id_latch' = rsv.id
       ELSE UNCHANGED <<rsv_pre_ptr_latch, rsv_tag_latch, rsv_axi_id_latch>>

\* Here the clear wins: the latched beat becomes a head instead.
BeatInfoNptr(rdy) ==
    /\ nxt_ptr' = [t \in Tags |-> IF t \in ReserveNxtPtr THEN rsv_tag_latch ELSE nxt_ptr[t]]
    /\ nptr_v' = (nptr_v \cup ReserveNxtPtr) \ ClearBeatInfoEntry(rdy)

HeadBeatTag(rdy) ==
    /\ head_beat_tag_valid' =
         Bits(head_beat_tag_valid, ReserveNewHeadBeat(rdy), ClearHeadBeat(rdy))
    /\ head_beat_tag' = [j \in Ids |->
         IF j \in ReserveNewHeadBeat(rdy) THEN rsv_tag_latch
         ELSE IF j \in UpdateHeadBeat(rdy) THEN nxt_ptr[head_beat_tag[j]]
         ELSE head_beat_tag[j]]

RdyToRsp(rdy) ==
    LET store == StoreRspIn(rdy)
        head(j) == head_beat_tag[j]
        loaded == IF RspLatchRdy(rdy) THEN LoadRspOut ELSE {}
    IN  /\ rdy_to_rsp_valid' = Bits(rdy_to_rsp_valid, store, loaded)
        /\ rdy_to_rsp_rc' = (rdy_to_rsp_rc \ store) \cup {j \in store : head(j) \in rc}
        /\ rdy_to_rsp_last' = (rdy_to_rsp_last \ store) \cup {j \in store : head(j) \in last}
        /\ rdy_to_rsp_tag' = [j \in Ids |-> IF j \in store THEN head(j) ELSE rdy_to_rsp_tag[j]]

\* The write array remembers the id served last over idle cycles, the read
\* array forgets it as soon as no id is ready.
LoadRspOutLatch(rdy) ==
    load_rsp_out_latch' =
        IF RspLatchRdy(rdy) /\ (IsWrite => rdy_to_rsp_valid # {})
        THEN LoadRspOut ELSE load_rsp_out_latch

RetLatch(rdy) ==
    /\ ret_valid' = (LoadRspOut # {} \/ (ret_valid /\ ~rdy))
    /\ IF LoadRspOut # {} /\ RspLatchRdy(rdy)
       THEN \E j \in LoadRspOut :
              /\ ret_tag' = rdy_to_rsp_tag[j]
              /\ ret_axi_id' = j
              /\ ret_resp' = (j \in rdy_to_rsp_rc)
              /\ ret_last' = (j \in rdy_to_rsp_last)
       ELSE UNCHANGED <<ret_tag, ret_axi_id, ret_resp, ret_last>>

\* rec_valid and rec_tag: the tag of the beat that leaves is recycled.
RecycleTag(rsv, rdy) ==
    pool' = (pool \ Reserved(rsv)) \cup (IF ret_valid /\ rdy THEN {ret_tag} ELSE {})

-----------------------------------------------------------------------------
Init ==
    /\ ev = {} /\ rv = [t \in Tags |-> {}] /\ rc = {} /\ last = {}
    /\ nxt_ptr = [t \in Tags |-> 0] /\ nptr_v = {}
    /\ axi_id = [t \in Tags |-> 0]
    /\ pre_ptr = [j \in Ids |-> 0] /\ pre_ptr_valid = {}
    /\ rsv_valid_latch = FALSE /\ rsv_beat_nh_latch = FALSE
    /\ rsv_pre_ptr_latch = 0 /\ rsv_tag_latch = 0 /\ rsv_axi_id_latch = 0
    /\ head_beat_tag = [j \in Ids |-> 0] /\ head_beat_tag_valid = {}
    /\ rdy_to_rsp_valid = {} /\ rdy_to_rsp_rc = {} /\ rdy_to_rsp_last = {}
    /\ rdy_to_rsp_tag = [j \in Ids |-> 0]
    /\ load_rsp_out_latch = {}
    /\ ret_valid = FALSE /\ ret_tag = 0 /\ ret_axi_id = 0
    /\ ret_resp = FALSE /\ ret_last = FALSE
    /\ pool = Tags

Clock(rsv, rsp, rdy) ==
    /\ BeatInfoRsv(rsv, rdy)
    /\ BeatInfoRsp(rsv, rsp, rdy)
    /\ PrePtr(rsv, rdy)
    /\ RsvLatch(rsv, rdy)
    /\ BeatInfoNptr(rdy)
    /\ HeadBeatTag(rdy)
    /\ RdyToRsp(rdy)
    /\ LoadRspOutLatch(rdy)
    /\ RetLatch(rdy)
    /\ RecycleTag(rsv, rdy)

TypeOK ==
    /\ ev \subseteq Tags /\ rc \subseteq Tags /\ last \subseteq Tags /\ nptr_v \subseteq Tags
    /\ rv \in [Tags -> SUBSET Pos]
    /\ nxt_ptr \in [Tags -> Tags] /\ axi_id \in [Tags -> Ids]
    /\ pre_ptr \in [Ids -> Tags] /\ pre_ptr_valid \subseteq Ids
    /\ rsv_valid_latch \in BOOLEAN /\ rsv_beat_nh_latch \in BOOLEAN
    /\ rsv_pre_ptr_latch \in Tags /\ rsv_tag_latch \in Tags /\ rsv_axi_id_latch \in Ids
    /\ head_beat_tag \in [Ids -> Tags] /\ head_beat_tag_valid \subseteq Ids
    /\ rdy_to_rsp_valid \subseteq Ids /\ rdy_to_rsp_rc \subseteq Ids
    /\ rdy_to_rsp_last \subseteq Ids /\ rdy_to_rsp_tag \in [Ids -> Tags]
    /\ load_rsp_out_latch \in {{}} \cup {{j} : j \in Ids}
    /\ ret_valid \in BOOLEAN /\ ret_tag \in Tags /\ ret_axi_id \in Ids
    /\ ret_resp \in BOOLEAN /\ ret_last \in BOOLEAN
    /\ pool \subseteq Tags

Next == \E rsv \in Reservations, rsp \in Responses, rdy \in BOOLEAN : Clock(rsv, rsp, rdy)

Spec == Init /\ [][Next]_vars
=============================================================================
