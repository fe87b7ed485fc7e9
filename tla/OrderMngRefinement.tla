------------------------- MODULE OrderMngRefinement -------------------------
(***************************************************************************)
(* The properties of the order manager, and the refinement mapping under   *)
(* which its registers implement the per-id FIFO queues of OrderedBeats.   *)
(***************************************************************************)
EXTENDS OrderMng, Sequences

-----------------------------------------------------------------------------
(* Reading the linked lists out of the registers.                          *)

\* The tags from each tag on along the valid next pointers, at most n of them.
From[n \in 0 .. NTag] ==
    [t \in Tags |->
        IF n = 0 THEN <<>>
        ELSE <<t>> \o (IF t \in nptr_v THEN From[n - 1][nxt_ptr[t]] ELSE <<>>)]

Chain(t) == From[NTag][t]

\* The list of id j in order: linked beats, then the latched reservation.
ListOf(j) ==
    (IF j \in head_beat_tag_valid THEN Chain(head_beat_tag[j]) ELSE <<>>)
        \o (IF j \in RsvValidLatchForIdx THEN <<rsv_tag_latch>> ELSE <<>>)

TagsIn(s) == {s[n] : n \in DOMAIN s}

Beat(t) == [tag |-> t, owed |-> Pos \ rv[t], bad |-> t \in rc, last |-> t \in last]

RdyBeat(j) == [tag |-> rdy_to_rsp_tag[j], owed |-> {},
               bad |-> j \in rdy_to_rsp_rc, last |-> j \in rdy_to_rsp_last]

RetBeat == [tag |-> ret_tag, owed |-> {}, bad |-> ret_resp, last |-> ret_last]

NoBeat == [id |-> NId]

Queue == [j \in Ids |->
            LET list == ListOf(j)
            IN  (IF j \in rdy_to_rsp_valid THEN <<RdyBeat(j)>> ELSE <<>>)
                    \o [n \in DOMAIN list |-> Beat(list[n])]]

Out == IF ret_valid THEN [id |-> ret_axi_id, beat |-> RetBeat] ELSE NoBeat

Abs == INSTANCE OrderedBeats WITH Id <- Ids, NoBeat <- NoBeat, queue <- Queue, out <- Out

-----------------------------------------------------------------------------
\* Every step of the pointers, latches and arbiter is a step of per-id FIFO
\* queues: beats of one id leave in the order they were reserved, complete,
\* once each, with the error bit and the last bit that belong to them.
InOrderReturn == Abs!Spec

\* Every tag is in exactly one place: the recycle pool, a valid entry of the
\* array, one ready latch or the output latch.  A tag that were in two places
\* would be handed to a second command while the host still answers the first.
RdyTags == {rdy_to_rsp_tag[j] : j \in rdy_to_rsp_valid}
RetTags == IF ret_valid THEN {ret_tag} ELSE {}

TagsAccounted ==
    /\ pool \cup ev \cup RdyTags \cup RetTags = Tags
    /\ pool \cap ev = {} /\ pool \cap RdyTags = {} /\ pool \cap RetTags = {}
    /\ ev \cap RdyTags = {} /\ ev \cap RetTags = {} /\ RdyTags \cap RetTags = {}
    /\ \A j, k \in rdy_to_rsp_valid : rdy_to_rsp_tag[j] = rdy_to_rsp_tag[k] => j = k

\* Every valid entry hangs in the list of its own id, once: no beat is lost
\* to a pointer that was overwritten or cleared under a concurrent
\* reservation, and none is linked twice.
NoBeatLost ==
    \A j \in Ids : /\ TagsIn(ListOf(j)) = {t \in ev : axi_id[t] = j}
                   /\ Len(ListOf(j)) = Cardinality(TagsIn(ListOf(j)))

\* A beat the AXI slave has not taken stays at the output unchanged, however
\* many other ids become ready behind it.
OutputHeld == [][ret_valid /\ ret_tag \notin pool' => ret_valid' /\ UNCHANGED retVars]_vars

-----------------------------------------------------------------------------
(* What keeps the lists whole from one clock cycle to the next.            *)

\* A latched reservation is a valid entry that nothing points to yet.
Latched == IF rsv_valid_latch THEN {rsv_tag_latch} ELSE {}

\* A head is a valid entry of its id, already out of the reservation latch.
HeadsValid ==
    \A j \in head_beat_tag_valid :
        /\ head_beat_tag[j] \in ev \ Latched
        /\ axi_id[head_beat_tag[j]] = j

\* A next pointer leads to another entry of the same id, which no other
\* pointer and no head register names.
LinksValid ==
    \A t \in nptr_v :
        /\ t \in ev
        /\ nxt_ptr[t] \in ev \ Latched
        /\ axi_id[nxt_ptr[t]] = axi_id[t]
        /\ \A j \in head_beat_tag_valid : nxt_ptr[t] # head_beat_tag[j]
        /\ \A u \in nptr_v : nxt_ptr[u] = nxt_ptr[t] => u = t

\* The latched reservation is the newest beat of its id.  It waits for the
\* link from its predecessor, or it has none and its id has no head.
LatchValid ==
    /\ rsv_beat_nh_latch => rsv_valid_latch
    /\ rsv_valid_latch =>
         /\ rsv_tag_latch \in ev \ nptr_v
         /\ axi_id[rsv_tag_latch] = rsv_axi_id_latch
         /\ rsv_axi_id_latch \in pre_ptr_valid
         /\ pre_ptr[rsv_axi_id_latch] = rsv_tag_latch
         /\ rsv_beat_nh_latch <=> rsv_axi_id_latch \in head_beat_tag_valid
    /\ rsv_beat_nh_latch =>
         /\ rsv_pre_ptr_latch \in ev \ (nptr_v \cup {rsv_tag_latch})
         /\ axi_id[rsv_pre_ptr_latch] = rsv_axi_id_latch

\* The last beat of an id is the one its pre_ptr names, or the one the
\* latched reservation is about to be linked to.
TailsValid ==
    /\ pre_ptr_valid = head_beat_tag_valid \cup RsvValidLatchForIdx
    /\ \A j \in pre_ptr_valid : pre_ptr[j] \in ev \ nptr_v /\ axi_id[pre_ptr[j]] = j
    /\ \A t \in ev \ nptr_v :
         \/ axi_id[t] \in pre_ptr_valid /\ t = pre_ptr[axi_id[t]]
         \/ rsv_beat_nh_latch /\ t = rsv_pre_ptr_latch

\* The inductive strengthening of TagsAccounted.
ListInvariant ==
    HeadsValid /\ LinksValid /\ LatchValid /\ TailsValid /\ TagsAccounted

-----------------------------------------------------------------------------
\* The host answers every command it was sent, and the AXI master takes what
\* it is offered.
Answer(t) ==
    \E rsv \in Reservations, rsp \in Responses, rdy \in BOOLEAN :
        /\ rsp.valid /\ rsp.tag = t
        /\ Clock(rsv, rsp, rdy)

Take ==
    \E rsv \in Reservations, rsp \in Responses :
        ret_valid /\ Clock(rsv, rsp, TRUE)

Fairness ==
    /\ WF_vars(Next) /\ WF_vars(Take)
    /\ \A t \in Tags : WF_vars(Answer(t))

FairSpec == Spec /\ Fairness

\* When the AXI side stops issuing, every beat is returned and every tag
\* comes back: nothing stays in a list nobody reaches or behind a latch
\* nobody empties.
Drains == <>[](~rsv_valid_latch) => <>[](pool = Tags)
=============================================================================
