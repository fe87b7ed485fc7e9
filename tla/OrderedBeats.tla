---------------------------- MODULE OrderedBeats ----------------------------
(***************************************************************************)
(* What an order manager of the bridge promises, without its linked lists: *)
(* one FIFO queue of beats per AXI id.  A beat joins the queue of its id   *)
(* at the tail, collects the answers the host owes it wherever it stands,  *)
(* and is presented to the AXI slave only from the head of its queue and   *)
(* only when nothing is owed any more.  A queue may gain one beat and lose *)
(* one in the same clock cycle, so a step relates every queue before to    *)
(* the queue after.                                                        *)
(*                                                                         *)
(* A beat is [tag, owed, bad, last]: the tag it holds, the halves still    *)
(* owed, whether an answer so far was bad, whether it ends its burst.      *)
(***************************************************************************)
EXTENDS Naturals, Sequences

CONSTANTS Id,   \* the AXI ids
          NoBeat \* the output holds no beat

VARIABLES queue, \* the beats of each id, oldest first
          out    \* the beat presented to the AXI slave, with its id, or NoBeat

\* Answers only shrink what is owed; a beat turns bad only by an answer.
Answered(old, new) ==
    /\ new.tag = old.tag /\ new.last = old.last
    /\ new.owed \subseteq old.owed
    /\ old.bad => new.bad
    /\ new.owed = old.owed => new.bad = old.bad

\* The tags the manager holds.
HeldBy(q, o) ==
    {b.tag : b \in UNION {{q[j][n] : n \in DOMAIN q[j]} : j \in Id}}
        \cup (IF o = NoBeat THEN {} ELSE {o.beat.tag})

\* The queue of an id after a step that takes its head (or not) and appends
\* at most one beat, whose tag is free.
QueueStep(old, new, taken, held) ==
    LET kept == IF taken THEN Tail(old) ELSE old
    IN  /\ Len(new) \in {Len(kept), Len(kept) + 1}
        /\ \A n \in DOMAIN kept : Answered(kept[n], new[n])
        /\ Len(new) > Len(kept) => /\ new[Len(new)].tag \notin held
                                   /\ ~new[Len(new)].bad

\* One step of every queue; `taken' are the ids whose head is presented.
Step(q, new, taken) ==
    LET held == HeldBy(q, out)
    IN  \A j \in Id : QueueStep(q[j], new[j], j \in taken, held)

Presentable(q) == q # <<>> /\ Head(q).owed = {}

Init ==
    /\ queue = [j \in Id |-> <<>>]
    /\ out = NoBeat

\* The output keeps its beat, or the AXI slave takes it and the output is
\* empty: no queue loses a beat.
Keep ==
    /\ out' \in {out, NoBeat}
    /\ Step(queue, queue', {})

\* The head of the queue of j is presented, in place of a beat that is taken.
Present(j) ==
    /\ out' # NoBeat /\ out'.id = j
    /\ Presentable(queue[j])
    /\ out'.beat = Head(queue[j])
    /\ Step(queue, queue', {j})

Next == Keep \/ \E j \in Id : Present(j)

Spec == Init /\ [][Next]_<<queue, out>>
=============================================================================
