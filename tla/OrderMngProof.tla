---------------------------- MODULE OrderMngProof ----------------------------
(***************************************************************************)
(* Theorems about the order manager for every number of tags and AXI ids.  *)
(***************************************************************************)
EXTENDS OrderMngRefinement, TLAPS

USE DEF Tags, Ids, Pos

-----------------------------------------------------------------------------
\* The grant is one-hot: the sticky id, or the single lowest ready id.
LEMMA GrantOneHot ==
    ASSUME TypeOK
    PROVE  /\ LoadRspOut \in {{}} \cup {{j} : j \in Ids}
           /\ LoadRspOut \subseteq rdy_to_rsp_valid
<1> DEFINE low == {j \in rdy_to_rsp_valid : \A k \in rdy_to_rsp_valid : j <= k}
<1>1. rdy_to_rsp_valid \subseteq 0 .. NId - 1 /\ NId \in Nat
  BY ConstantsAssumption DEF TypeOK
<1>2. low \in {{}} \cup {{j} : j \in Ids}
  <2>1. CASE low = {}
    BY <2>1
  <2>2. CASE low # {}
    <3>1. PICK j \in low : TRUE
      BY <2>2
    <3>2. \A k \in low : k = j
      BY <1>1
    <3>3. low = {j}
      BY <3>2
    <3> QED BY <3>3, <1>1
  <2> QED BY <2>1, <2>2
<1>3. CASE load_rsp_out_latch \cap rdy_to_rsp_valid # {}
  BY <1>3 DEF LoadRspOut, TypeOK
<1>4. CASE load_rsp_out_latch \cap rdy_to_rsp_valid = {}
  BY <1>2, <1>4 DEF LoadRspOut
<1> QED BY <1>3, <1>4

\* The inputs of a cycle have their types.
LEMMA InputTypes ==
    ASSUME TypeOK, NEW rsv \in Reservations, NEW rsp \in Responses
    PROVE  /\ rsv.valid \in BOOLEAN
           /\ rsv.valid => /\ rsv.tag \in pool /\ rsv.id \in Ids
                           /\ rsv.last \in BOOLEAN /\ rsv.pos \subseteq Pos
           /\ rsp.valid => /\ rsp.tag \in ev /\ rsp.pos \subseteq Pos
<1>1. /\ rsv.valid \in BOOLEAN
      /\ rsv.valid => /\ rsv.tag \in pool /\ rsv.id \in Ids
                      /\ rsv.last \in BOOLEAN /\ rsv.pos \subseteq Pos
  <2>1. CASE rsv = NoRsv
    <3>1. rsv.valid = FALSE
      BY <2>1 DEF NoRsv
    <3> QED BY <3>1, Zenon
  <2>2. CASE rsv \in [valid: {TRUE}, tag: pool, id: Ids, last: RsvLast, pos: RsvPos]
    <3>1. rsv.valid = TRUE
      BY <2>2
    <3>2. rsv.tag \in pool /\ rsv.id \in Ids /\ rsv.last \in BOOLEAN /\ rsv.pos \subseteq Pos
      BY <2>2, ConstantsAssumption
    <3> QED BY <3>1, <3>2, Zenon
  <2> QED BY <2>1, <2>2 DEF Reservations
<1>2. rsp.valid => /\ rsp.tag \in ev /\ rsp.pos \subseteq Pos
  <2>1. CASE rsp = NoRsp
    <3>1. rsp.valid = FALSE
      BY <2>1 DEF NoRsp
    <3> QED BY <3>1, Zenon
  <2>2. CASE rsp \in [valid: {TRUE}, tag: ev, pos: (SUBSET Pos) \ {{}}, bad: RspBad]
    BY <2>2
  <2> QED BY <2>1, <2>2 DEF Responses
<1> QED BY <1>1, <1>2, Zenon

LEMMA TypeInit == Init => TypeOK
<1> SUFFICES ASSUME Init PROVE TypeOK
  OBVIOUS
<1>1. 0 \in Tags /\ 0 \in Ids
  BY ConstantsAssumption
<1> QED BY <1>1 DEF Init, TypeOK

LEMMA TypeStep ==
    ASSUME TypeOK,
           NEW rsv \in Reservations, NEW rsp \in Responses, NEW rdy \in BOOLEAN,
           Clock(rsv, rsp, rdy)
    PROVE  TypeOK'
<1> USE InputTypes, GrantOneHot
<1>1. ev' \subseteq Tags /\ last' \subseteq Tags /\ axi_id' \in [Tags -> Ids]
  BY DEF Clock, BeatInfoRsv, Bits, Reserved, TypeOK
<1>2. rv' \in [Tags -> SUBSET Pos] /\ rc' \subseteq Tags
  BY DEF Clock, BeatInfoRsp, Reserved, Answered, RspPos, Bad, TypeOK
<1>3. pre_ptr_valid' \subseteq Ids /\ pre_ptr' \in [Ids -> Tags]
  BY DEF Clock, PrePtr, Bits, TypeOK
<1>4. /\ rsv_valid_latch' \in BOOLEAN /\ rsv_beat_nh_latch' \in BOOLEAN
      /\ rsv_pre_ptr_latch' \in Tags /\ rsv_tag_latch' \in Tags /\ rsv_axi_id_latch' \in Ids
  BY DEF Clock, RsvLatch, TypeOK
<1>5. nxt_ptr' \in [Tags -> Tags] /\ nptr_v' \subseteq Tags
  BY DEF Clock, BeatInfoNptr, ReserveNxtPtr, TypeOK
<1>6. head_beat_tag_valid' \subseteq Ids /\ head_beat_tag' \in [Ids -> Tags]
  BY DEF Clock, HeadBeatTag, Bits, ReserveNewHeadBeat, RsvValidLatchForIdx, TypeOK
<1>7. /\ rdy_to_rsp_valid' \subseteq Ids /\ rdy_to_rsp_rc' \subseteq Ids
      /\ rdy_to_rsp_last' \subseteq Ids /\ rdy_to_rsp_tag' \in [Ids -> Tags]
  BY DEF Clock, RdyToRsp, Bits, StoreRspIn, TypeOK
<1>8. load_rsp_out_latch' \in {{}} \cup {{j} : j \in Ids}
  BY DEF Clock, LoadRspOutLatch, TypeOK
<1>9. /\ ret_valid' \in BOOLEAN /\ ret_tag' \in Tags /\ ret_axi_id' \in Ids
      /\ ret_resp' \in BOOLEAN /\ ret_last' \in BOOLEAN
  <2>1. RetLatch(rdy)
    BY DEF Clock
  <2>2. ret_valid' \in BOOLEAN
    BY <2>1 DEF RetLatch
  <2>3. CASE LoadRspOut # {} /\ RspLatchRdy(rdy)
    <3>1. PICK j \in LoadRspOut : /\ ret_tag' = rdy_to_rsp_tag[j]
                                  /\ ret_axi_id' = j
                                  /\ ret_resp' = (j \in rdy_to_rsp_rc)
                                  /\ ret_last' = (j \in rdy_to_rsp_last)
      BY <2>1, <2>3, Zenon DEF RetLatch
    <3>2. j \in Ids
      BY DEF TypeOK
    <3>3. ret_resp' \in BOOLEAN /\ ret_last' \in BOOLEAN
      BY <3>1
    <3>4. ret_tag' \in Tags /\ ret_axi_id' \in Ids
      BY <3>1, <3>2 DEF TypeOK
    <3> QED BY <2>2, <3>3, <3>4
  <2>4. CASE ~(LoadRspOut # {} /\ RspLatchRdy(rdy))
    <3>1. UNCHANGED <<ret_tag, ret_axi_id, ret_resp, ret_last>>
      BY <2>1, <2>4, Zenon DEF RetLatch
    <3> QED BY <3>1, <2>2 DEF TypeOK
  <2> QED BY <2>3, <2>4
<1>10. pool' \subseteq Tags
  BY DEF Clock, RecycleTag, Reserved, TypeOK
<1> QED BY <1>1, <1>2, <1>3, <1>4, <1>5, <1>6, <1>7, <1>8, <1>9, <1>10 DEF TypeOK

\* Every register keeps its range and the grant stays one-hot, for arrays of
\* every depth.
THEOREM TypeCorrect == Spec => []TypeOK
<1>1. TypeOK /\ [Next]_vars => TypeOK'
  <2> SUFFICES ASSUME TypeOK, [Next]_vars PROVE TypeOK'
    OBVIOUS
  <2>1. CASE Next
    BY <2>1, TypeStep DEF Next
  <2>2. CASE UNCHANGED vars
    BY <2>2 DEF vars, beatVars, preVars, rsvVars, headVars, rdyVars, retVars, TypeOK
  <2> QED BY <2>1, <2>2
<1> QED BY TypeInit, <1>1, PTL DEF Spec

-----------------------------------------------------------------------------
(* The lists.  Below, S abbreviates the ids whose head leaves in a cycle,  *)
(* C those among them that lose their head, N those that gain one.         *)

\* The entries cleared are the heads of the ids in S; no other entry of an
\* id is a head.
LEMMA ClearedAreHeads ==
    ASSUME TypeOK, HeadsValid, NEW rdy \in BOOLEAN
    PROVE  /\ \A t \in ClearBeatInfoEntry(rdy) :
                 axi_id[t] \in StoreRspIn(rdy) /\ head_beat_tag[axi_id[t]] = t
           /\ \A j \in StoreRspIn(rdy) : head_beat_tag[j] \in ClearBeatInfoEntry(rdy)
BY DEF TypeOK, HeadsValid, ClearBeatInfoEntry, StoreRspIn, RdyToGetRsp

\* A cycle in the terms the list argument uses.
LEMMA ListStep ==
    ASSUME TypeOK, ListInvariant,
           NEW rsv \in Reservations, NEW rsp \in Responses, NEW rdy \in BOOLEAN,
           Clock(rsv, rsp, rdy)
    PROVE  /\ ev' = (ev \ ClearBeatInfoEntry(rdy)) \cup Reserved(rsv)
           /\ \A t \in ev : axi_id'[t] = axi_id[t]
           /\ Reserved(rsv) \cap ev = {}
           /\ Latched' = Reserved(rsv)
           /\ nptr_v' = (nptr_v \cup ReserveNxtPtr) \ ClearBeatInfoEntry(rdy)
           /\ \A t \in Tags : nxt_ptr'[t] = IF t \in ReserveNxtPtr THEN rsv_tag_latch ELSE nxt_ptr[t]
           /\ head_beat_tag_valid' = (head_beat_tag_valid \ ClearHeadBeat(rdy)) \cup ReserveNewHeadBeat(rdy)
           /\ \A j \in ReserveNewHeadBeat(rdy) : head_beat_tag'[j] = rsv_tag_latch
           /\ \A j \in UpdateHeadBeat(rdy) \ ReserveNewHeadBeat(rdy) :
                 head_beat_tag'[j] = nxt_ptr[head_beat_tag[j]]
           /\ \A j \in Ids \ (UpdateHeadBeat(rdy) \cup ReserveNewHeadBeat(rdy)) :
                 head_beat_tag'[j] = head_beat_tag[j]
<1>1. Reserved(rsv) \subseteq pool
  BY InputTypes DEF Reserved
<1>2. Reserved(rsv) \cap ev = {}
  BY <1>1 DEF ListInvariant, TagsAccounted
<1>3. /\ ev' = (ev \ ClearBeatInfoEntry(rdy)) \cup Reserved(rsv)
      /\ \A t \in ev : axi_id'[t] = axi_id[t]
  BY <1>2 DEF Clock, BeatInfoRsv, Bits, TypeOK
<1>4. Latched' = Reserved(rsv)
  <2>1. CASE rsv.valid
    BY <2>1 DEF Clock, RsvLatch, Latched, Reserved
  <2>2. CASE ~rsv.valid
    BY <2>2 DEF Clock, RsvLatch, Latched, Reserved
  <2> QED BY <2>1, <2>2
<1>5. /\ nptr_v' = (nptr_v \cup ReserveNxtPtr) \ ClearBeatInfoEntry(rdy)
      /\ \A t \in Tags : nxt_ptr'[t] = IF t \in ReserveNxtPtr THEN rsv_tag_latch ELSE nxt_ptr[t]
  BY DEF Clock, BeatInfoNptr
<1>6. head_beat_tag_valid' = (head_beat_tag_valid \ ClearHeadBeat(rdy)) \cup ReserveNewHeadBeat(rdy)
  BY DEF Clock, HeadBeatTag, Bits
<1>7. ReserveNewHeadBeat(rdy) \subseteq Ids /\ UpdateHeadBeat(rdy) \subseteq Ids
  BY DEF ReserveNewHeadBeat, RsvValidLatchForIdx, UpdateHeadBeat, StoreRspIn, TypeOK
<1>8. /\ \A j \in ReserveNewHeadBeat(rdy) : head_beat_tag'[j] = rsv_tag_latch
      /\ \A j \in UpdateHeadBeat(rdy) \ ReserveNewHeadBeat(rdy) :
            head_beat_tag'[j] = nxt_ptr[head_beat_tag[j]]
      /\ \A j \in Ids \ (UpdateHeadBeat(rdy) \cup ReserveNewHeadBeat(rdy)) :
            head_beat_tag'[j] = head_beat_tag[j]
  BY <1>7 DEF Clock, HeadBeatTag
<1> QED BY <1>2, <1>3, <1>4, <1>5, <1>6, <1>8

\* A new head is the latched reservation of its id, which is a valid entry
\* that no head and no pointer names.  If it has a predecessor, then that is
\* the head that leaves.
LEMMA NewHead ==
    ASSUME TypeOK, ListInvariant, NEW rdy \in BOOLEAN, NEW j \in ReserveNewHeadBeat(rdy)
    PROVE  /\ rsv_valid_latch /\ j = rsv_axi_id_latch
           /\ rsv_tag_latch \in ev \ ClearBeatInfoEntry(rdy)
           /\ axi_id[rsv_tag_latch] = j
           /\ rsv_beat_nh_latch => rsv_pre_ptr_latch \in ClearBeatInfoEntry(rdy)
<1>1. rsv_valid_latch /\ j = rsv_axi_id_latch
  BY DEF ReserveNewHeadBeat, RsvValidLatchForIdx
<1>2. rsv_tag_latch \in ev /\ axi_id[rsv_tag_latch] = j
  BY <1>1 DEF ListInvariant, LatchValid
<1>3. rsv_tag_latch \notin ClearBeatInfoEntry(rdy)
  BY <1>1, ClearedAreHeads DEF ListInvariant, HeadsValid, Latched, StoreRspIn
<1>4. ASSUME rsv_beat_nh_latch PROVE rsv_pre_ptr_latch \in ClearBeatInfoEntry(rdy)
  <2>1. j \in ClearHeadBeat(rdy)
    BY <1>4 DEF ReserveNewHeadBeat
  <2>2. /\ j \in StoreRspIn(rdy) /\ j \in head_beat_tag_valid
        /\ head_beat_tag[j] \in ev \ nptr_v /\ axi_id[head_beat_tag[j]] = j
        /\ head_beat_tag[j] # rsv_tag_latch
    BY <2>1, <1>1 DEF ClearHeadBeat, StoreRspIn, ListInvariant, HeadsValid, Latched
  <2>3. pre_ptr[j] = rsv_tag_latch
    BY <1>1 DEF ListInvariant, LatchValid
  <2>4. head_beat_tag[j] = rsv_pre_ptr_latch
    BY <2>2, <2>3 DEF ListInvariant, TailsValid
  <2> QED BY <2>2, <2>4, ClearedAreHeads DEF ListInvariant
<1> QED BY <1>1, <1>2, <1>3, <1>4

LEMMA HeadsStep ==
    ASSUME TypeOK, ListInvariant,
           NEW rsv \in Reservations, NEW rsp \in Responses, NEW rdy \in BOOLEAN,
           Clock(rsv, rsp, rdy)
    PROVE  HeadsValid'
<1> DEFINE S == StoreRspIn(rdy)
           C == ClearHeadBeat(rdy)
           U == UpdateHeadBeat(rdy)
           N == ReserveNewHeadBeat(rdy)
           clr == ClearBeatInfoEntry(rdy)
<1> SUFFICES ASSUME NEW j \in head_beat_tag_valid'
             PROVE  head_beat_tag'[j] \in ev' \ Latched' /\ axi_id'[head_beat_tag'[j]] = j
  BY DEF HeadsValid
<1>1. CASE j \in N
  BY <1>1, ListStep, NewHead
<1>2. CASE j \in U \ N
  <2>1. head_beat_tag[j] \in nptr_v /\ j \in head_beat_tag_valid
    BY <1>2 DEF UpdateHeadBeat, StoreRspIn
  <2>2. /\ nxt_ptr[head_beat_tag[j]] \in ev
        /\ axi_id[nxt_ptr[head_beat_tag[j]]] = j
        /\ \A k \in head_beat_tag_valid : nxt_ptr[head_beat_tag[j]] # head_beat_tag[k]
    BY <2>1 DEF ListInvariant, LinksValid, HeadsValid
  <2>3. nxt_ptr[head_beat_tag[j]] \notin clr
    BY <2>2, ClearedAreHeads DEF ListInvariant, StoreRspIn
  <2> QED BY <1>2, <2>2, <2>3, ListStep
<1>3. CASE j \notin U \cup N
  <2>1. j \in head_beat_tag_valid /\ j \notin C
    BY <1>3, ListStep
  <2>2. j \notin S
    BY <2>1, <1>3 DEF UpdateHeadBeat, ClearHeadBeat
  <2>3. head_beat_tag[j] \in ev /\ axi_id[head_beat_tag[j]] = j
    BY <2>1 DEF ListInvariant, HeadsValid
  <2>4. head_beat_tag[j] \notin clr
    BY <2>2, <2>3, ClearedAreHeads DEF ListInvariant
  <2>5. j \in Ids
    BY <2>1 DEF TypeOK
  <2> QED BY <1>3, <2>3, <2>4, <2>5, ListStep
<1> QED BY <1>1, <1>2, <1>3

LEMMA LinksStep ==
    ASSUME TypeOK, ListInvariant,
           NEW rsv \in Reservations, NEW rsp \in Responses, NEW rdy \in BOOLEAN,
           Clock(rsv, rsp, rdy)
    PROVE  LinksValid'
<1> DEFINE S == StoreRspIn(rdy)
           C == ClearHeadBeat(rdy)
           U == UpdateHeadBeat(rdy)
           N == ReserveNewHeadBeat(rdy)
           clr == ClearBeatInfoEntry(rdy)
\* The heads of the next state: the latched tag, the successor of a head
\* that leaves, or a head that stays.
<1>1. ASSUME NEW j \in head_beat_tag_valid'
      PROVE  \/ j \in N /\ head_beat_tag'[j] = rsv_tag_latch
             \/ /\ j \in U /\ head_beat_tag'[j] = nxt_ptr[head_beat_tag[j]]
                /\ head_beat_tag[j] \in nptr_v \cap clr
             \/ j \in head_beat_tag_valid /\ head_beat_tag'[j] = head_beat_tag[j]
  <2>1. CASE j \in N
    BY <2>1, ListStep
  <2>2. CASE j \in U \ N
    BY <2>2, ListStep, ClearedAreHeads DEF UpdateHeadBeat, ListInvariant
  <2>3. CASE j \notin U \cup N
    <3>1. j \in head_beat_tag_valid
      BY <2>3, ListStep
    <3>2. j \in Ids
      BY <3>1 DEF TypeOK
    <3> QED BY <2>3, <3>1, <3>2, ListStep
  <2> QED BY <2>1, <2>2, <2>3
<1>2. ASSUME NEW t \in nptr_v'
      PROVE  t \notin clr /\ (t \in nptr_v \/ (rsv_beat_nh_latch /\ t = rsv_pre_ptr_latch))
  BY ListStep DEF ReserveNxtPtr
\* A link of the current state that survives.
<1>3. ASSUME NEW t \in nptr_v, t \notin clr
      PROVE  /\ t \in ev' /\ nxt_ptr'[t] = nxt_ptr[t]
             /\ nxt_ptr[t] \in ev' \ (Latched \cup Latched')
             /\ axi_id'[nxt_ptr[t]] = axi_id'[t]
             /\ \A j \in head_beat_tag_valid' : nxt_ptr[t] # head_beat_tag'[j]
  <2>1. /\ t \in ev /\ nxt_ptr[t] \in ev \ Latched
        /\ axi_id[nxt_ptr[t]] = axi_id[t]
        /\ \A j \in head_beat_tag_valid : nxt_ptr[t] # head_beat_tag[j]
        /\ \A u \in nptr_v : nxt_ptr[u] = nxt_ptr[t] => u = t
    BY DEF ListInvariant, LinksValid
  <2>2. t \notin ReserveNxtPtr
    BY DEF ReserveNxtPtr, ListInvariant, LatchValid
  <2>3. nxt_ptr[t] \notin clr
    BY <2>1, ClearedAreHeads DEF ListInvariant, StoreRspIn
  <2>4. \A j \in head_beat_tag_valid' : nxt_ptr[t] # head_beat_tag'[j]
    <3> SUFFICES ASSUME NEW j \in head_beat_tag_valid' PROVE nxt_ptr[t] # head_beat_tag'[j]
      OBVIOUS
    <3>1. CASE j \in N /\ head_beat_tag'[j] = rsv_tag_latch
      BY <3>1, <2>1, NewHead DEF Latched
    <3>2. CASE /\ j \in U /\ head_beat_tag'[j] = nxt_ptr[head_beat_tag[j]]
               /\ head_beat_tag[j] \in nptr_v \cap clr
      BY <3>2, <2>1, <1>3
    <3>3. CASE j \in head_beat_tag_valid /\ head_beat_tag'[j] = head_beat_tag[j]
      BY <3>3, <2>1
    <3> QED BY <1>1, <3>1, <3>2, <3>3
  <2>5. t \in Tags
    BY DEF TypeOK
  <2>6. nxt_ptr'[t] = nxt_ptr[t]
    BY <2>2, <2>5, ListStep
  <2>7. t \in ev' /\ nxt_ptr[t] \in ev' \ Latched'
    BY <1>3, <2>1, <2>3, ListStep
  <2>8. axi_id'[nxt_ptr[t]] = axi_id'[t]
    BY <2>1, ListStep
  <2> QED BY <2>1, <2>4, <2>6, <2>7, <2>8
\* The link to the latched reservation.
<1>4. ASSUME rsv_beat_nh_latch, rsv_pre_ptr_latch \notin clr
      PROVE  /\ rsv_pre_ptr_latch \in ev' /\ nxt_ptr'[rsv_pre_ptr_latch] = rsv_tag_latch
             /\ rsv_tag_latch \in Latched /\ rsv_tag_latch \in ev' \ Latched'
             /\ axi_id'[rsv_tag_latch] = axi_id'[rsv_pre_ptr_latch]
             /\ \A j \in head_beat_tag_valid' : rsv_tag_latch # head_beat_tag'[j]
  <2>1. /\ rsv_valid_latch
        /\ rsv_tag_latch \in ev /\ rsv_pre_ptr_latch \in ev
        /\ axi_id[rsv_tag_latch] = axi_id[rsv_pre_ptr_latch]
    BY <1>4 DEF ListInvariant, LatchValid
  <2>2. \A j \in head_beat_tag_valid : rsv_tag_latch # head_beat_tag[j]
    BY <2>1 DEF ListInvariant, HeadsValid, Latched
  <2>3. rsv_tag_latch \notin clr
    BY <2>2, ClearedAreHeads DEF ListInvariant, StoreRspIn
  <2>4. N = {}
    BY <1>4, NewHead
  <2>5. \A j \in head_beat_tag_valid' : rsv_tag_latch # head_beat_tag'[j]
    BY <1>1, <2>1, <2>2, <2>4 DEF Latched, ListInvariant, LinksValid
  <2>6. nxt_ptr'[rsv_pre_ptr_latch] = rsv_tag_latch
    BY <1>4, ListStep DEF ReserveNxtPtr, TypeOK
  <2> QED BY <1>4, <2>1, <2>3, <2>5, <2>6, ListStep DEF Latched
<1>5. ASSUME NEW t \in nptr_v', NEW u \in nptr_v', nxt_ptr'[u] = nxt_ptr'[t]
      PROVE  u = t
  <2>1. CASE t \in nptr_v /\ u \in nptr_v
    <3>1. nxt_ptr[u] = nxt_ptr[t]
      BY <1>2, <1>3, <1>5, <2>1
    <3> QED BY <2>1, <3>1 DEF ListInvariant, LinksValid
  <2>2. CASE t \notin nptr_v /\ u \notin nptr_v
    BY <1>2, <2>2
  <2>3. CASE t \in nptr_v /\ u \notin nptr_v
    BY <1>2, <1>3, <1>4, <1>5, <2>3
  <2>4. CASE t \notin nptr_v /\ u \in nptr_v
    BY <1>2, <1>3, <1>4, <1>5, <2>4
  <2> QED BY <2>1, <2>2, <2>3, <2>4
<1>6. ASSUME NEW t \in nptr_v'
      PROVE  /\ t \in ev' /\ nxt_ptr'[t] \in ev' \ Latched'
             /\ axi_id'[nxt_ptr'[t]] = axi_id'[t]
             /\ \A j \in head_beat_tag_valid' : nxt_ptr'[t] # head_beat_tag'[j]
  BY <1>2, <1>3, <1>4
<1> QED BY <1>5, <1>6 DEF LinksValid

\* The beat pre_ptr names survives the cycle as the tail of its id, unless
\* the cycle clears the pointer.
LEMMA TailStep ==
    ASSUME TypeOK, ListInvariant,
           NEW rsv \in Reservations, NEW rsp \in Responses, NEW rdy \in BOOLEAN,
           Clock(rsv, rsp, rdy),
           NEW j \in pre_ptr_valid \ ClearPrePtr(rdy)
    PROVE  /\ pre_ptr[j] \in ev \ nptr_v
           /\ pre_ptr[j] \in ev' \ (nptr_v' \cup Latched')
           /\ axi_id[pre_ptr[j]] = j /\ axi_id'[pre_ptr[j]] = j
<1>1. pre_ptr[j] \in ev \ nptr_v /\ axi_id[pre_ptr[j]] = j
  BY DEF ListInvariant, TailsValid
<1>2. pre_ptr[j] \notin ClearBeatInfoEntry(rdy)
  <2> SUFFICES ASSUME pre_ptr[j] \in ClearBeatInfoEntry(rdy) PROVE FALSE
    OBVIOUS
  <2>1. /\ j \in StoreRspIn(rdy) /\ head_beat_tag[j] = pre_ptr[j]
        /\ j \in head_beat_tag_valid
    BY <1>1, ClearedAreHeads DEF ListInvariant, StoreRspIn
  <2>2. j \in ClearHeadBeat(rdy)
    BY <1>1, <2>1 DEF ClearHeadBeat
  <2>3. rsv_valid_latch /\ j = rsv_axi_id_latch
    BY <2>2 DEF ClearPrePtr, RsvValidLatchForIdx
  <2>4. pre_ptr[j] = rsv_tag_latch
    BY <2>3 DEF ListInvariant, LatchValid
  <2> QED BY <2>1, <2>3, <2>4 DEF ListInvariant, HeadsValid, Latched
<1>3. pre_ptr[j] \notin ReserveNxtPtr
  <2> SUFFICES ASSUME rsv_beat_nh_latch, pre_ptr[j] = rsv_pre_ptr_latch PROVE FALSE
    BY DEF ReserveNxtPtr
  <2>1. j = rsv_axi_id_latch
    BY <1>1 DEF ListInvariant, LatchValid
  <2> QED BY <2>1 DEF ListInvariant, LatchValid
<1> QED BY <1>1, <1>2, <1>3, ListStep

\* Conversely an entry without a successor that survives the cycle is the
\* tail its pre_ptr names, and the cycle does not clear that pointer.
LEMMA TailStepConverse ==
    ASSUME TypeOK, ListInvariant,
           NEW rsv \in Reservations, NEW rsp \in Responses, NEW rdy \in BOOLEAN,
           Clock(rsv, rsp, rdy),
           NEW t \in ev, t \in ev', t \notin nptr_v'
    PROVE  /\ axi_id[t] \in pre_ptr_valid \ ClearPrePtr(rdy)
           /\ t = pre_ptr[axi_id[t]]
<1>1. t \notin ClearBeatInfoEntry(rdy)
  BY ListStep
<1>2. t \notin nptr_v /\ t \notin ReserveNxtPtr
  BY <1>1, ListStep
<1>3. axi_id[t] \in pre_ptr_valid /\ t = pre_ptr[axi_id[t]]
  BY <1>2 DEF ListInvariant, TailsValid, ReserveNxtPtr
<1>4. axi_id[t] \notin ClearPrePtr(rdy)
  <2> DEFINE j == axi_id[t]
  <2> SUFFICES ASSUME j \in ClearPrePtr(rdy) PROVE FALSE
    OBVIOUS
  <2>1. /\ j \in StoreRspIn(rdy) /\ j \in head_beat_tag_valid
        /\ head_beat_tag[j] \notin nptr_v /\ j \notin RsvValidLatchForIdx
    BY DEF ClearPrePtr, ClearHeadBeat, StoreRspIn
  <2>2. head_beat_tag[j] \in ev /\ axi_id[head_beat_tag[j]] = j
    BY <2>1 DEF ListInvariant, HeadsValid
  <2>3. ~(rsv_beat_nh_latch /\ head_beat_tag[j] = rsv_pre_ptr_latch)
    BY <2>1, <2>2 DEF ListInvariant, LatchValid, RsvValidLatchForIdx
  <2>4. head_beat_tag[j] = t
    BY <1>3, <2>1, <2>2, <2>3 DEF ListInvariant, TailsValid
  <2> QED BY <1>1, <2>1, <2>4, ClearedAreHeads DEF ListInvariant
<1> QED BY <1>3, <1>4

\* An id has a tail exactly when it has a head or a latched reservation.
LEMMA PreStep ==
    ASSUME TypeOK, ListInvariant,
           NEW rsv \in Reservations, NEW rsp \in Responses, NEW rdy \in BOOLEAN,
           Clock(rsv, rsp, rdy)
    PROVE  head_beat_tag_valid' = pre_ptr_valid \ ClearPrePtr(rdy)
<1> DEFINE R == RsvValidLatchForIdx
           C == ClearHeadBeat(rdy)
           N == ReserveNewHeadBeat(rdy)
<1>1. pre_ptr_valid = head_beat_tag_valid \cup R
  BY DEF ListInvariant, TailsValid
<1>2. N \subseteq R
  BY DEF ReserveNewHeadBeat
<1>3. \A j \in R \ N : j \in head_beat_tag_valid \ C
  BY DEF ReserveNewHeadBeat, RsvValidLatchForIdx, ListInvariant, LatchValid
<1>4. ClearPrePtr(rdy) = C \ R
  BY DEF ClearPrePtr
<1> QED BY <1>1, <1>2, <1>3, <1>4, ListStep

LEMMA LatchStep ==
    ASSUME TypeOK, ListInvariant,
           NEW rsv \in Reservations, NEW rsp \in Responses, NEW rdy \in BOOLEAN,
           Clock(rsv, rsp, rdy)
    PROVE  LatchValid'
<1>1. CASE rsv.valid
  <2>1. /\ rsv_valid_latch' /\ rsv_tag_latch' = rsv.tag /\ rsv_axi_id_latch' = rsv.id
        /\ rsv_pre_ptr_latch' = pre_ptr[rsv.id]
        /\ rsv_beat_nh_latch' <=> rsv.id \in pre_ptr_valid \ ClearPrePtr(rdy)
    BY <1>1 DEF Clock, RsvLatch
  <2>2. rsv.tag \in Tags /\ rsv.id \in Ids /\ rsv.tag \notin ev
    BY <1>1, InputTypes DEF TypeOK, ListInvariant, TagsAccounted
  <2>3. rsv.tag \in ev'
    BY <1>1, ListStep DEF Reserved
  <2>4. axi_id'[rsv.tag] = rsv.id
    BY <1>1, <2>2 DEF Clock, BeatInfoRsv, Reserved
  <2>5. rsv.id \in pre_ptr_valid' /\ pre_ptr'[rsv.id] = rsv.tag
    BY <1>1, <2>2 DEF Clock, PrePtr, Bits
  <2>6. rsv.tag \notin nptr_v'
    BY <2>2, ListStep DEF ListInvariant, LinksValid, LatchValid, ReserveNxtPtr
  <2>7. rsv_beat_nh_latch' <=> rsv.id \in head_beat_tag_valid'
    BY <2>1, PreStep
  <2>8. ASSUME rsv_beat_nh_latch'
        PROVE  /\ pre_ptr[rsv.id] \in ev' \ (nptr_v' \cup {rsv.tag})
               /\ axi_id'[pre_ptr[rsv.id]] = rsv.id
    BY <2>1, <2>2, <2>8, TailStep
  <2> QED BY <2>1, <2>3, <2>4, <2>5, <2>6, <2>7, <2>8 DEF LatchValid
<1>2. CASE ~rsv.valid
  <2>1. ~rsv_valid_latch' /\ ~rsv_beat_nh_latch'
    BY <1>2 DEF Clock, RsvLatch
  <2> QED BY <2>1 DEF LatchValid
<1> QED BY <1>1, <1>2

LEMMA TailsStep ==
    ASSUME TypeOK, ListInvariant,
           NEW rsv \in Reservations, NEW rsp \in Responses, NEW rdy \in BOOLEAN,
           Clock(rsv, rsp, rdy)
    PROVE  TailsValid'
<1>1. CASE rsv.valid
  <2>1. /\ rsv_valid_latch' /\ rsv_tag_latch' = rsv.tag /\ rsv_axi_id_latch' = rsv.id
        /\ rsv_pre_ptr_latch' = pre_ptr[rsv.id]
        /\ rsv_beat_nh_latch' <=> rsv.id \in pre_ptr_valid \ ClearPrePtr(rdy)
    BY <1>1 DEF Clock, RsvLatch
  <2>2. rsv.tag \in Tags /\ rsv.id \in Ids /\ rsv.tag \notin ev
    BY <1>1, InputTypes DEF TypeOK, ListInvariant, TagsAccounted
  <2>3. /\ pre_ptr_valid' = (pre_ptr_valid \ ClearPrePtr(rdy)) \cup {rsv.id}
        /\ pre_ptr'[rsv.id] = rsv.tag
        /\ \A j \in Ids \ {rsv.id} : pre_ptr'[j] = pre_ptr[j]
    BY <1>1, <2>2 DEF Clock, PrePtr, Bits
  <2>4. RsvValidLatchForIdx' = {rsv.id}
    BY <2>1 DEF RsvValidLatchForIdx
  <2>5. rsv.tag \in ev' \ nptr_v' /\ axi_id'[rsv.tag] = rsv.id
    BY <2>1, LatchStep DEF LatchValid
  <2>6. ASSUME NEW j \in pre_ptr_valid'
        PROVE  pre_ptr'[j] \in ev' \ nptr_v' /\ axi_id'[pre_ptr'[j]] = j
    <3>1. CASE j = rsv.id
      BY <3>1, <2>3, <2>5
    <3>2. CASE j # rsv.id
      <4>1. j \in pre_ptr_valid \ ClearPrePtr(rdy) /\ j \in Ids
        BY <2>3, <3>2 DEF TypeOK
      <4> QED BY <4>1, <3>2, <2>3, TailStep
    <3> QED BY <3>1, <3>2
  <2>7. ASSUME NEW t \in ev' \ nptr_v'
        PROVE  \/ axi_id'[t] \in pre_ptr_valid' /\ t = pre_ptr'[axi_id'[t]]
               \/ rsv_beat_nh_latch' /\ t = rsv_pre_ptr_latch'
    <3>1. CASE t = rsv.tag
      BY <3>1, <2>3, <2>5
    <3>2. CASE t # rsv.tag
      <4>1. t \in ev /\ axi_id'[t] = axi_id[t]
        BY <3>2, ListStep DEF Reserved
      <4>2. axi_id[t] \in pre_ptr_valid \ ClearPrePtr(rdy) /\ t = pre_ptr[axi_id[t]]
        BY <4>1, TailStepConverse
      <4>3. axi_id[t] \in Ids
        BY <4>1 DEF TypeOK
      <4> QED BY <2>1, <2>3, <4>1, <4>2, <4>3
    <3> QED BY <3>1, <3>2
  <2>8. pre_ptr_valid' = head_beat_tag_valid' \cup RsvValidLatchForIdx'
    BY <2>3, <2>4, PreStep
  <2> QED BY <2>6, <2>7, <2>8 DEF TailsValid
<1>2. CASE ~rsv.valid
  <2>1. ~rsv_valid_latch' /\ ~rsv_beat_nh_latch'
    BY <1>2 DEF Clock, RsvLatch
  <2>2. /\ pre_ptr_valid' = pre_ptr_valid \ ClearPrePtr(rdy)
        /\ \A j \in Ids : pre_ptr'[j] = pre_ptr[j]
    BY <1>2 DEF Clock, PrePtr, Bits
  <2>3. RsvValidLatchForIdx' = {}
    BY <2>1 DEF RsvValidLatchForIdx
  <2>4. Reserved(rsv) = {}
    BY <1>2 DEF Reserved
  <2>5. pre_ptr_valid' = head_beat_tag_valid' \cup RsvValidLatchForIdx'
    BY <2>2, <2>3, PreStep
  <2>6. ASSUME NEW j \in pre_ptr_valid'
        PROVE  pre_ptr'[j] \in ev' \ nptr_v' /\ axi_id'[pre_ptr'[j]] = j
    <3>1. j \in pre_ptr_valid \ ClearPrePtr(rdy) /\ j \in Ids
      BY <2>2 DEF TypeOK
    <3> QED BY <3>1, <2>2, TailStep
  <2>7. ASSUME NEW t \in ev' \ nptr_v'
        PROVE  axi_id'[t] \in pre_ptr_valid' /\ t = pre_ptr'[axi_id'[t]]
    <3>1. t \in ev /\ axi_id'[t] = axi_id[t]
      BY <2>4, ListStep
    <3>2. axi_id[t] \in pre_ptr_valid \ ClearPrePtr(rdy) /\ t = pre_ptr[axi_id[t]]
      BY <3>1, TailStepConverse
    <3>3. axi_id[t] \in Ids
      BY <3>1 DEF TypeOK
    <3> QED BY <2>2, <3>1, <3>2, <3>3
  <2> QED BY <2>5, <2>6, <2>7 DEF TailsValid
<1> QED BY <1>1, <1>2

-----------------------------------------------------------------------------
(* The tags.  A cycle moves a reserved tag from the pool into the array,   *)
(* the heads in S into the ready latches, the granted beat into the output *)
(* latch and the beat the AXI slave takes back into the pool.              *)

\* A ready latch that keeps its beat is not overwritten.
LEMMA RdyStep ==
    ASSUME TypeOK, HeadsValid,
           NEW rsv \in Reservations, NEW rsp \in Responses, NEW rdy \in BOOLEAN,
           Clock(rsv, rsp, rdy)
    PROVE  LET L == IF RspLatchRdy(rdy) THEN LoadRspOut ELSE {}
               S == StoreRspIn(rdy)
           IN  /\ rdy_to_rsp_valid' = (rdy_to_rsp_valid \ L) \cup S
               /\ \A j \in S : j \in Ids /\ rdy_to_rsp_tag'[j] = head_beat_tag[j]
               /\ \A j \in rdy_to_rsp_valid \ L : /\ j \notin S
                                                  /\ rdy_to_rsp_tag'[j] = rdy_to_rsp_tag[j]
<1> DEFINE L == IF RspLatchRdy(rdy) THEN LoadRspOut ELSE {}
           S == StoreRspIn(rdy)
<1>1. rdy_to_rsp_valid' = (rdy_to_rsp_valid \ L) \cup S
  BY DEF Clock, RdyToRsp, Bits
<1>2. \A j \in Ids : rdy_to_rsp_tag'[j] = IF j \in S THEN head_beat_tag[j] ELSE rdy_to_rsp_tag[j]
  BY DEF Clock, RdyToRsp
<1>3. S \subseteq Ids /\ rdy_to_rsp_valid \subseteq Ids
  BY DEF StoreRspIn, TypeOK
<1>4. \A j \in rdy_to_rsp_valid \ L : j \notin S
  BY DEF StoreRspIn, RdyToGetRsp
<1> QED BY <1>1, <1>2, <1>3, <1>4

\* Where each tag is after a cycle.
LEMMA TagsStep ==
    ASSUME TypeOK, ListInvariant,
           NEW rsv \in Reservations, NEW rsp \in Responses, NEW rdy \in BOOLEAN,
           Clock(rsv, rsp, rdy)
    PROVE  TagsAccounted'
<1> DEFINE L == IF RspLatchRdy(rdy) THEN LoadRspOut ELSE {}
           S == StoreRspIn(rdy)
           clr == ClearBeatInfoEntry(rdy)
           new == Reserved(rsv)
           rec == IF ret_valid /\ rdy THEN {ret_tag} ELSE {}
           granted == {rdy_to_rsp_tag[j] : j \in L}
           waiting == {rdy_to_rsp_tag[j] : j \in rdy_to_rsp_valid \ L}
<1>1. ev' = (ev \ clr) \cup new /\ new \subseteq pool
  BY ListStep, InputTypes DEF Reserved
<1>2. pool' = (pool \ new) \cup rec
  BY DEF Clock, RecycleTag
<1>3. clr \subseteq ev /\ clr = {head_beat_tag[j] : j \in S}
  BY ClearedAreHeads DEF ListInvariant, HeadsValid, StoreRspIn
<1>4. RdyTags' = clr \cup waiting
  <2>1. RdyTags' = {rdy_to_rsp_tag'[j] : j \in rdy_to_rsp_valid'}
    BY DEF RdyTags
  <2>2. /\ rdy_to_rsp_valid' = (rdy_to_rsp_valid \ L) \cup S
        /\ \A j \in S : rdy_to_rsp_tag'[j] = head_beat_tag[j]
        /\ \A j \in rdy_to_rsp_valid \ L : rdy_to_rsp_tag'[j] = rdy_to_rsp_tag[j]
    BY RdyStep DEF ListInvariant
  <2> HIDE DEF L, S, clr
  <2> QED BY <2>1, <2>2, <1>3
<1>5. RetTags' = (RetTags \ rec) \cup granted
  <2>1. RetLatch(rdy)
    BY DEF Clock
  <2>2. CASE LoadRspOut # {} /\ RspLatchRdy(rdy)
    <3>1. PICK j \in LoadRspOut : ret_tag' = rdy_to_rsp_tag[j]
      BY <2>1, <2>2 DEF RetLatch
    <3>2. L = {j}
      BY <2>2, <3>1, GrantOneHot
    <3>3. granted = {ret_tag'}
      BY <3>1, <3>2
    <3>4. ret_valid' = TRUE
      BY <2>1, <2>2 DEF RetLatch
    <3>5. RetTags \ rec = {}
      BY <2>2 DEF RetTags, RspLatchRdy
    <3> QED BY <3>3, <3>4, <3>5 DEF RetTags
  <2>3. CASE LoadRspOut # {} /\ ~RspLatchRdy(rdy)
    <3>1. ret_tag' = ret_tag /\ ret_valid /\ ret_valid' /\ ~rdy
      BY <2>1, <2>3 DEF RetLatch, RspLatchRdy
    <3>2. L = {}
      BY <2>3
    <3>3. granted = {} /\ rec = {}
      BY <3>1, <3>2
    <3> QED BY <3>1, <3>3 DEF RetTags
  <2>4. CASE LoadRspOut = {}
    <3>1. ret_tag' = ret_tag /\ (ret_valid' <=> ret_valid /\ ~rdy)
      BY <2>1, <2>4 DEF RetLatch
    <3>2. granted = {}
      BY <2>4
    <3> QED BY <3>1, <3>2 DEF RetTags
  <2> QED BY <2>2, <2>3, <2>4
<1>6. RdyTags = granted \cup waiting /\ granted \cap waiting = {}
  <2>1. L \subseteq rdy_to_rsp_valid
    BY GrantOneHot
  <2> QED BY <2>1 DEF RdyTags, ListInvariant, TagsAccounted
<1>7. rec \subseteq RetTags
  BY DEF RetTags
<1>8. /\ pool \cup ev \cup RdyTags \cup RetTags = Tags
      /\ pool \cap ev = {} /\ pool \cap RdyTags = {} /\ pool \cap RetTags = {}
      /\ ev \cap RdyTags = {} /\ ev \cap RetTags = {} /\ RdyTags \cap RetTags = {}
  BY DEF ListInvariant, TagsAccounted
<1>9. \A j, k \in rdy_to_rsp_valid' : rdy_to_rsp_tag'[j] = rdy_to_rsp_tag'[k] => j = k
  <2> SUFFICES ASSUME NEW j \in rdy_to_rsp_valid', NEW k \in rdy_to_rsp_valid',
                      rdy_to_rsp_tag'[j] = rdy_to_rsp_tag'[k]
               PROVE  j = k
    OBVIOUS
  <2>1. /\ rdy_to_rsp_valid' = (rdy_to_rsp_valid \ L) \cup S
        /\ \A i \in S : rdy_to_rsp_tag'[i] = head_beat_tag[i]
        /\ \A i \in rdy_to_rsp_valid \ L : rdy_to_rsp_tag'[i] = rdy_to_rsp_tag[i]
    BY RdyStep DEF ListInvariant
  <2>2. \A i \in S : head_beat_tag[i] \in ev /\ axi_id[head_beat_tag[i]] = i
    BY DEF StoreRspIn, ListInvariant, HeadsValid
  <2>3. \A i \in rdy_to_rsp_valid : rdy_to_rsp_tag[i] \in RdyTags
    BY DEF RdyTags
  <2>4. \A i, h \in rdy_to_rsp_valid : rdy_to_rsp_tag[i] = rdy_to_rsp_tag[h] => i = h
    BY DEF ListInvariant, TagsAccounted
  <2> HIDE DEF L, S
  <2>5. CASE j \in S /\ k \in S
    BY <2>1, <2>2, <2>5
  <2>6. CASE j \in rdy_to_rsp_valid \ L /\ k \in rdy_to_rsp_valid \ L
    BY <2>1, <2>4, <2>6
  <2>7. CASE j \in S /\ k \in rdy_to_rsp_valid \ L
    BY <2>1, <2>2, <2>3, <2>7, <1>8
  <2>8. CASE j \in rdy_to_rsp_valid \ L /\ k \in S
    BY <2>1, <2>2, <2>3, <2>8, <1>8
  <2> QED BY <2>1, <2>5, <2>6, <2>7, <2>8
<1> HIDE DEF clr, new, rec, granted, waiting, L, S
<1>10. /\ pool' \cup ev' \cup RdyTags' \cup RetTags' = Tags
       /\ pool' \cap ev' = {} /\ pool' \cap RdyTags' = {} /\ pool' \cap RetTags' = {}
       /\ ev' \cap RdyTags' = {} /\ ev' \cap RetTags' = {} /\ RdyTags' \cap RetTags' = {}
  BY <1>1, <1>2, <1>3, <1>4, <1>5, <1>6, <1>7, <1>8
<1> QED BY <1>9, <1>10 DEF TagsAccounted

-----------------------------------------------------------------------------
LEMMA ListInit == Init => ListInvariant
<1> SUFFICES ASSUME Init PROVE ListInvariant
  OBVIOUS
<1>1. HeadsValid /\ LinksValid /\ LatchValid
  BY DEF Init, HeadsValid, LinksValid, LatchValid
<1>2. TailsValid
  BY DEF Init, TailsValid, RsvValidLatchForIdx
<1>3. TagsAccounted
  BY DEF Init, TagsAccounted, RdyTags, RetTags
<1> QED BY <1>1, <1>2, <1>3 DEF ListInvariant

\* The linked lists stay whole under every interleaving of reservations,
\* responses and deliveries, for every number of tags and AXI ids.
THEOREM ListsIntact == Spec => []ListInvariant
<1>1. TypeOK /\ ListInvariant /\ [Next]_vars => ListInvariant'
  <2> SUFFICES ASSUME TypeOK, ListInvariant, [Next]_vars PROVE ListInvariant'
    OBVIOUS
  <2>1. CASE Next
    <3>1. PICK rsv \in Reservations, rsp \in Responses, rdy \in BOOLEAN : Clock(rsv, rsp, rdy)
      BY <2>1 DEF Next
    <3>2. HeadsValid' /\ LinksValid' /\ LatchValid' /\ TailsValid' /\ TagsAccounted'
      BY <3>1, HeadsStep, LinksStep, LatchStep, TailsStep, TagsStep
    <3> QED BY <3>2 DEF ListInvariant
  <2>2. CASE UNCHANGED vars
    BY <2>2 DEF vars, beatVars, preVars, rsvVars, headVars, rdyVars, retVars,
                ListInvariant, HeadsValid, LinksValid, LatchValid, TailsValid, TagsAccounted,
                Latched, RsvValidLatchForIdx, RdyTags, RetTags
  <2> QED BY <2>1, <2>2
<1> QED BY ListInit, TypeCorrect, <1>1, PTL DEF Spec

\* A tag is never in two places and never lost: the command that takes a tag
\* from the recycle FIFO is the only one the host can answer under it.
THEOREM TagsSafe == Spec => []TagsAccounted
<1>1. ListInvariant => TagsAccounted
  BY DEF ListInvariant
<1> QED BY <1>1, ListsIntact, PTL

\* A presented beat waits unchanged for the AXI slave, whatever else the
\* cycle brings.
THEOREM OutputStable == Spec => OutputHeld
<1>1. ASSUME Next, ret_valid, ret_tag \notin pool'
      PROVE  ret_valid' /\ UNCHANGED retVars
  <2>1. PICK rsv \in Reservations, rsp \in Responses, rdy \in BOOLEAN : Clock(rsv, rsp, rdy)
    BY <1>1 DEF Next
  <2>2. ~rdy
    BY <1>1, <2>1 DEF Clock, RecycleTag
  <2>3. ~RspLatchRdy(rdy)
    BY <1>1, <2>2 DEF RspLatchRdy
  <2>4. RetLatch(rdy)
    BY <2>1 DEF Clock
  <2>5. ret_valid' = TRUE
    BY <1>1, <2>2, <2>4 DEF RetLatch
  <2>6. UNCHANGED <<ret_tag, ret_axi_id, ret_resp, ret_last>>
    BY <2>3, <2>4 DEF RetLatch
  <2> QED BY <1>1, <2>5, <2>6 DEF retVars
<1> QED BY <1>1, PTL DEF Spec, OutputHeld
=============================================================================
