----------------------- MODULE PartialCommandsProof -----------------------
(***************************************************************************)
(* Proofs about PartialCommands, for any number of lengths and of beats,   *)
(* any strobes, and a host that takes and answers commands as it likes.    *)
(***************************************************************************)
EXTENDS PartialCommands, FiniteSetTheorems, WellFoundedInduction, TLAPS

-----------------------------------------------------------------------------
(* The invariant.                                                          *)

Working == {"CHK_PART_XB", "WR_CMD_XB", "WR_VLD_XB", "CYC_UPDATE"}
Sending == {"PARTIAL_L64B", "PARTIAL_H64B"}

\* The encoder: what it is about when it has a beat, and what it hands over.
EncoderInv ==
    /\ prt_cstate = "RD_PRT_FIFO" => fifo_prt # <<>>
    /\ prt_cstate \in {"RD_PRT_FIFO", "CHECK_PARTIAL"} => cmd_enable /\ ~strobe_valid
    /\ prt_cstate \in {"CHECK_PARTIAL"} \cup Sending => beat \in Beats
    /\ prt_cstate = "PARTIAL_L64B" => beat.l # {}
    /\ strobe_valid => /\ cmd_enable /\ prt_cstate \in Sending /\ ~next_pending
                       /\ strobe = IF prt_cstate = "PARTIAL_L64B" THEN beat.l ELSE beat.h
    /\ next_pending => /\ prt_cstate = "PARTIAL_L64B" /\ beat.h # {}
                       /\ strobe = beat.h /\ partial_data = "h"
    /\ strobe_valid \/ cstate \in Working => prt_cstate \in Sending /\ partial_data = EaHalf
    /\ cstate \in Working => left_half = partial_data

\* The batch: enabled, under work, all sent, or closed and counted down.
BatchInv ==
    /\ cmd_enable => cstate = "IDLE" /\ distance = 0
    /\ cstate \in Working => distance = 0 /\ ~commands_allout /\ ~strobe_valid /\ ~next_pending
    /\ cstate = "DONE" => commands_allout /\ ~strobe_valid
    /\ cstate = "IDLE" => cmd_enable \/ commands_allout
    /\ cstate \in {"IDLE", "DONE"} => sub_strb = {}
    /\ distance \notin {0, Distance} => cstate = "IDLE"

\* The commands of a closed batch are answered.
AnsweredInv ==
    cmd_enable \/ distance > 0 =>
        /\ ~tlx_cmd_valid /\ queued = 0 /\ at_host = 0 /\ wr_data_count = 0
        /\ ~valid_pre /\ ~valid_pending

\* The valid of a command: it leaves the sequencer before the batch is closed,
\* for the FIFO has no room only while it holds commands.
ValidInv ==
    /\ valid_pre => cstate = "CHK_PART_XB"
    /\ cstate = "IDLE" => ~valid_pending
    /\ wr_data_count <= queued + 1
    /\ cstate = "DONE" /\ valid_pending => Half <= wr_data_count + 1

\* The commands of a batch are never more than the counter has values.
MostCommands == Length[Levels - 1]

Unanswered == Number(tlx_cmd_valid) + queued + at_host
Coming     == Number(cstate = "WR_VLD_XB") + Number(valid_pre) + Number(valid_pending)

\* Two bytes side by side never make two commands.
Pairs(S) == {k \in 0 .. MostCommands - 1 : 2 * k \in S \/ 2 * k + 1 \in S}

CountInv ==
    /\ inflight_cnt = IF Unanswered = MostCommands THEN 0 ELSE Unanswered
    /\ Unanswered + Coming + Cardinality(Pairs(sub_strb)) <= MostCommands

\* No section longer than the length that is tried is left.
CutInv ==
    /\ cstate \in Working => \A m \in part_cmd_cyc + 1 .. Levels : AllOnes(sub_strb, m) = {}
    /\ cstate = "CYC_UPDATE" => AllOnes(sub_strb, part_cmd_cyc) = {}
    /\ cstate = "WR_CMD_XB" => AllOnes(sub_strb, part_cmd_cyc) # {}

\* The command that is on its way to the encoder; as long as none has had to
\* wait there is one at most.
OutPending == cstate = "WR_VLD_XB" \/ valid_pre \/ valid_pending

LeftInv ==
    ~held => /\ left = sub_strb \cup (IF OutPending THEN Covered ELSE {})
             /\ OutPending => Covered \cap sub_strb = {}
             /\ valid_pending => cstate \in {"WR_CMD_XB", "CYC_UPDATE"}

PartialInv == EncoderInv /\ BatchInv /\ AnsweredInv /\ ValidInv /\ CountInv /\ CutInv /\ LeftInv

-----------------------------------------------------------------------------
(* The lengths.                                                            *)

\* A set of numbers has a smallest one.
LEMMA Smallest ==
    ASSUME NEW S, S \subseteq Nat, S # {}
    PROVE  \E x \in S : \A y \in S : x <= y
  <1> DEFINE Less == {ss \in Nat \X Nat : ss[1] < ss[2]}
  <1>1. IsWellFoundedOn(Less, Nat)
    BY NatLessThanWellFounded DEF OpToRel
  <1>2. PICK x \in S : \A y \in S : ~(<<y, x>> \in Less)
    BY <1>1, WFMin
  <1>3. \A y \in S : ~(y < x)
    BY <1>2
  <1> QED BY <1>3

\* The definition of Length by recursion defines a function.
LEMMA LengthExists ==
    \A k \in Nat : \E f : f = [n \in 0 .. k |-> IF n = 0 THEN 1 ELSE 2 * f[n - 1]]
  <1> DEFINE Good(k) == \E f : f = [n \in 0 .. k |-> IF n = 0 THEN 1 ELSE 2 * f[n - 1]]
             Bad == {k \in Nat : ~Good(k)}
  <1>1. Good(0)
    <2> DEFINE f == [n \in 0 .. 0 |-> 1]
    <2>1. f = [n \in 0 .. 0 |-> IF n = 0 THEN 1 ELSE 2 * f[n - 1]]
      OBVIOUS
    <2> QED BY <2>1
  <1>2. ASSUME NEW k \in Nat, Good(k) PROVE Good(k + 1)
    <2>1. PICK f : f = [n \in 0 .. k |-> IF n = 0 THEN 1 ELSE 2 * f[n - 1]]
      BY <1>2
    <2> DEFINE g == [n \in 0 .. k + 1 |-> IF n = k + 1 THEN 2 * f[k] ELSE f[n]]
               h == [n \in 0 .. k + 1 |-> IF n = 0 THEN 1 ELSE 2 * g[n - 1]]
    <2>2. ASSUME NEW n \in 0 .. k + 1 PROVE g[n] = h[n]
      <3>1. CASE n = k + 1
        <4>1. g[n] = 2 * f[k]
          BY <3>1
        <4>2. n # 0 /\ n - 1 = k /\ k \in 0 .. k + 1 /\ k # k + 1
          BY <3>1
        <4>3. g[n - 1] = f[k]
          BY <4>2
        <4> QED BY <4>1, <4>2, <4>3
      <3>2. CASE n = 0
        <4>1. 0 \in 0 .. k /\ 0 # k + 1
          OBVIOUS
        <4>2. g[n] = f[0] /\ h[n] = 1
          BY <4>1, <3>2
        <4>3. f[0] = 1
          BY <2>1, <4>1
        <4> QED BY <4>2, <4>3
      <3>3. CASE n # k + 1 /\ n # 0
        <4>1. n \in 0 .. k /\ n - 1 \in 0 .. k + 1 /\ n - 1 # k + 1
          BY <3>3
        <4>2. g[n] = f[n] /\ g[n - 1] = f[n - 1]
          BY <4>1, <3>3
        <4>3. f[n] = 2 * f[n - 1]
          BY <2>1, <4>1, <3>3
        <4> QED BY <4>2, <4>3, <3>3
      <3> QED BY <3>1, <3>2, <3>3
    <2>3. g = h
      BY <2>2
    <2> QED BY <2>3
  <1>3. ASSUME Bad # {} PROVE FALSE
    <2>1. PICK x \in Bad : \A y \in Bad : x <= y
      BY <1>3, Smallest
    <2>2. x # 0 /\ x \in Nat /\ ~Good(x)
      BY <1>1
    <2> HIDE DEF Good
    <2>3. x - 1 \in Nat /\ ~(x <= x - 1)
      BY <2>2
    <2>4. Good(x - 1)
      BY <2>1, <2>3
    <2>5. Good((x - 1) + 1)
      BY <2>3, <2>4, <1>2
    <2>6. (x - 1) + 1 = x
      BY <2>2
    <2> QED BY <2>2, <2>5, <2>6
  <1> QED BY <1>3

\* A length is one byte or twice the length below.
LEMMA LengthFacts ==
    /\ Length[0] = 1
    /\ \A n \in 1 .. Levels : Length[n] = 2 * Length[n - 1]
    /\ \A n \in 0 .. Levels : Length[n] \in Nat \ {0}
  <1> USE PartialAssumption DEF PartialAssumption
  <1>1. PICK f : f = [n \in 0 .. Levels |-> IF n = 0 THEN 1 ELSE 2 * f[n - 1]]
    BY LengthExists
  <1>2. Length = [n \in 0 .. Levels |-> IF n = 0 THEN 1 ELSE 2 * Length[n - 1]]
    BY <1>1 DEF Length
  <1>3. Length[0] = 1
    BY <1>2
  <1>4. \A n \in 1 .. Levels : Length[n] = 2 * Length[n - 1]
    BY <1>2
  <1> DEFINE Bad == {n \in 0 .. Levels : Length[n] \notin Nat \ {0}}
  <1>5. ASSUME Bad # {} PROVE FALSE
    <2>0. Bad \subseteq Nat
      OBVIOUS
    <2>1. PICK x \in Bad : \A y \in Bad : x <= y
      <3> HIDE DEF Bad
      <3> QED BY <1>5, <2>0, Smallest
    <2>2. x # 0 /\ x \in 1 .. Levels /\ x - 1 \in 0 .. Levels
      BY <1>3
    <2>3. Length[x - 1] \in Nat \ {0}
      BY <2>1, <2>2
    <2>4. Length[x] = 2 * Length[x - 1]
      BY <2>2, <1>4
    <2>5. Length[x] \in Nat \ {0}
      BY <2>3, <2>4
    <2> QED BY <2>1, <2>5
  <1> QED BY <1>3, <1>4, <1>5

\* The bytes of a half are twice as many as a batch has commands at most.
LEMMA MostFacts ==
    /\ MostCommands \in Nat \ {0}
    /\ Length[Levels] = 2 * MostCommands
    /\ Bytes = 0 .. 2 * MostCommands - 1
    /\ Length[0] = 1
  BY LengthFacts, PartialAssumption DEF PartialAssumption, MostCommands, Bytes

-----------------------------------------------------------------------------
(* Sections.                                                               *)

\* The section furthest to the right is one of the sections.
LEMMA FarRightIn ==
    ASSUME NEW S, S \subseteq Nat, S # {}
    PROVE  FarRight(S) \in S
  BY Smallest DEF FarRight

\* A multiple of a length is the first byte of a section of that length.
LEMMA SectionStart ==
    ASSUME NEW n \in 0 .. Levels, NEW i \in Nat
    PROVE  /\ Length[n] \in Nat \ {0}
           /\ Length[n] * i \in Nat /\ i <= Length[n] * i
           /\ Section(n, i) = Length[n] * i .. (Length[n] * i + Length[n]) - 1
           /\ Length[n] * i \in Section(n, i)
  <1> DEFINE L == Length[n]
  <1>1. L \in Nat \ {0}
    BY LengthFacts
  <1>2. Section(n, i) = L * i .. L * (i + 1) - 1
    BY DEF Section
  <1> HIDE DEF L
  <1>3. L * (i + 1) = L * i + L /\ L * i \in Nat
    BY <1>1
  <1>4. i <= L * i
    <2>1. (L - 1) * i >= 0 /\ (L - 1) * i = L * i - i
      BY <1>1
    <2> QED BY <2>1, <1>3
  <1>5. Section(n, i) = L * i .. (L * i + L) - 1
    BY <1>2, <1>3
  <1>6. L * i \in Section(n, i)
    BY <1>1, <1>3, <1>5
  <1> QED BY <1>1, <1>3, <1>4, <1>5, <1>6 DEF L

\* A section that is all ones is a section of the half.
LEMMA SectionFacts ==
    ASSUME NEW n \in 0 .. Levels, NEW S, S \subseteq Bytes, NEW i \in AllOnes(S, n)
    PROVE  /\ i \in Nat /\ i \in Bytes
           /\ Section(n, i) \subseteq S
           /\ Length[n] * i \in S
  <1>1. Levels - n \in 0 .. Levels
    BY PartialAssumption DEF PartialAssumption
  <1>2. Length[Levels - n] \in Nat
    BY <1>1, LengthFacts
  <1>3. i \in Nat /\ Section(n, i) \subseteq S
    BY <1>2 DEF AllOnes
  <1>4. Length[n] * i \in S /\ i <= Length[n] * i
    BY <1>3, SectionStart
  <1>5. i \in Bytes
    <2> DEFINE j == Length[n] * i
    <2>1. j \in Bytes /\ i \in Nat /\ i <= j
      BY <1>3, <1>4
    <2> HIDE DEF j
    <2> QED BY <2>1, MostFacts
  <1> QED BY <1>3, <1>4, <1>5

\* No section of one byte is all ones: there is no byte.
LEMMA NoByteLeft ==
    ASSUME NEW S, S \subseteq Bytes, AllOnes(S, 0) = {}
    PROVE  S = {}
  <1>1. SUFFICES ASSUME NEW x \in S PROVE FALSE
    OBVIOUS
  <1>2. x \in Nat /\ x \in 0 .. Length[Levels - 0] - 1
    BY PartialAssumption, MostFacts DEF PartialAssumption, Bytes
  <1>3. Section(0, x) = 1 * x .. 1 * (x + 1) - 1
    BY MostFacts DEF Section
  <1>4. Section(0, x) = {x}
    BY <1>2, <1>3
  <1>5. x \in AllOnes(S, 0)
    BY <1>2, <1>4 DEF AllOnes
  <1> QED BY <1>5

\* A strobe that is not complete has no section of the whole half.
LEMMA NotComplete ==
    ASSUME NEW S, S \subseteq Bytes, S # Bytes
    PROVE  AllOnes(S, Levels) = {}
  <1>1. SUFFICES ASSUME NEW i \in AllOnes(S, Levels) PROVE FALSE
    OBVIOUS
  <1>2. i \in 0 .. 1 - 1 /\ Section(Levels, i) \subseteq S
    BY MostFacts, PartialAssumption DEF AllOnes, PartialAssumption
  <1>3. i = 0
    BY <1>2
  <1>4. Section(Levels, 0) = 0 .. Length[Levels] - 1
    BY MostFacts DEF Section
  <1> QED BY <1>2, <1>3, <1>4 DEF Bytes

\* Without some bytes there is no section that was not there before.
LEMMA NoSectionAppears ==
    ASSUME NEW S, NEW T, T \subseteq S, NEW n, AllOnes(S, n) = {}
    PROVE  AllOnes(T, n) = {}
  BY DEF AllOnes

-----------------------------------------------------------------------------
(* The number of commands.                                                 *)

\* A strobe has at most as many pairs as a batch has commands, and none
\* without a byte.
LEMMA PairsMost ==
    ASSUME NEW S
    PROVE  /\ IsFiniteSet(Pairs(S)) /\ Cardinality(Pairs(S)) \in 0 .. MostCommands
           /\ S = {} => Cardinality(Pairs(S)) = 0
  <1>1. MostCommands \in Nat /\ 0 \in Int /\ MostCommands - 1 \in Int
    BY MostFacts
  <1>2. /\ IsFiniteSet(0 .. MostCommands - 1)
        /\ Cardinality(0 .. MostCommands - 1) = MostCommands
    BY <1>1, FS_Interval
  <1>3. Pairs(S) \in SUBSET (0 .. MostCommands - 1)
    BY DEF Pairs
  <1>4. IsFiniteSet(Pairs(S)) /\ Cardinality(Pairs(S)) <= MostCommands
    BY <1>2, <1>3, FS_Subset
  <1>5. Cardinality(Pairs(S)) \in Nat
    BY <1>4, FS_CardinalityType
  <1>6. S = {} => Pairs(S) = {}
    BY DEF Pairs
  <1> QED BY <1>1, <1>4, <1>5, <1>6, FS_EmptySet

\* A command takes a whole pair at least, if no longer one could be taken.
LEMMA CommandTakesPair ==
    ASSUME NEW S, S \subseteq Bytes, NEW n \in 0 .. Levels - 1,
           AllOnes(S, n + 1) = {}, NEW i \in AllOnes(S, n)
    PROVE  Cardinality(Pairs(S \ Section(n, i))) < Cardinality(Pairs(S))
  <1> DEFINE T == S \ Section(n, i)
             L == Length[n]
  <1>1. /\ n \in 0 .. Levels /\ n \in Nat
        /\ n + 1 \in 1 .. Levels /\ (n + 1) - 1 = n
    BY PartialAssumption DEF PartialAssumption
  <1>2. /\ i \in Nat /\ Section(n, i) \subseteq S /\ Length[n] * i \in S
        /\ Section(n, i) = Length[n] * i .. (Length[n] * i + Length[n]) - 1
        /\ Length[n] \in Nat \ {0} /\ Length[n] * i \in Nat
    BY <1>1, SectionFacts, SectionStart
  <1>3. \E k \in Pairs(S) : k \notin Pairs(T)
    <2>1. CASE n = 0
      <3>1. Length[n] = 1 /\ 1 * i = i
        BY <2>1, <1>2, MostFacts
      <3>2. Section(n, i) = {i} /\ i \in S
        BY <3>1, <1>2
      <3>3. PICK k \in Nat : i = 2 * k \/ i = 2 * k + 1
        <4>1. i = 2 * (i \div 2) \/ i = 2 * (i \div 2) + 1
          BY <1>2
        <4>2. i \div 2 \in Nat
          BY <1>2
        <4> QED BY <4>1, <4>2
      <3>4. k \in 0 .. MostCommands - 1
        BY <3>2, <3>3, <1>2, MostFacts
      <3>5. Length[1] = 2
        <4>1. 1 \in 1 .. Levels /\ 1 - 1 = 0
          BY <1>1, <2>1
        <4> QED BY <4>1, LengthFacts
      <3>6. Section(1, k) = {2 * k, 2 * k + 1}
        <4>1. Section(1, k) = 2 * k .. (2 * k + 2) - 1
          BY <3>5 DEF Section
        <4> QED BY <4>1, <3>3
      <3>7. ~(Section(1, k) \subseteq S)
        BY <2>1, <3>4 DEF AllOnes, MostCommands
      <3>8. k \in Pairs(S)
        BY <3>2, <3>3, <3>4 DEF Pairs
      <3>9. k \notin Pairs(T)
        BY <3>2, <3>3, <3>6, <3>7 DEF Pairs
      <3> QED BY <3>8, <3>9
    <2>2. CASE n # 0
      <3>1. n \in 1 .. Levels /\ n - 1 \in 0 .. Levels
        BY <1>1, <2>2, PartialAssumption DEF PartialAssumption
      <3>2. Length[n] = 2 * Length[n - 1] /\ Length[n - 1] \in Nat \ {0}
        BY <3>1, LengthFacts
      <3> DEFINE H == Length[n - 1]
                 k == H * i
      <3>3. L = 2 * H /\ H \in Nat \ {0}
        BY <3>2
      <3> HIDE DEF L, H
      <3>4. k \in Nat /\ 2 * k = L * i
        BY <3>3, <1>2
      <3> HIDE DEF k
      <3>5. L * i \in S /\ Section(n, i) = L * i .. (L * i + L) - 1
        BY <1>2 DEF L
      <3>6. 2 * k \in Section(n, i) /\ 2 * k + 1 \in Section(n, i) /\ 2 * k \in S
        BY <3>3, <3>4, <3>5
      <3>7. k \in 0 .. MostCommands - 1
        BY <3>4, <3>6, MostFacts
      <3>8. k \in Pairs(S)
        BY <3>6, <3>7 DEF Pairs
      <3>9. k \notin Pairs(T)
        BY <3>6 DEF Pairs
      <3> QED BY <3>8, <3>9
    <2> QED BY <2>1, <2>2
  <1>4. Pairs(T) \in SUBSET Pairs(S)
    BY DEF Pairs
  <1>5. IsFiniteSet(Pairs(S)) /\ Pairs(S) # Pairs(T)
    BY <1>3, PairsMost
  <1>6. Cardinality(Pairs(T)) <= Cardinality(Pairs(S)) /\ Cardinality(Pairs(T)) # Cardinality(Pairs(S))
    BY <1>4, <1>5, FS_Subset
  <1>7. Cardinality(Pairs(T)) \in Nat /\ Cardinality(Pairs(S)) \in Nat
    BY PairsMost, MostFacts
  <1> HIDE DEF T
  <1>8. Cardinality(Pairs(T)) < Cardinality(Pairs(S))
    BY <1>6, <1>7
  <1> QED BY <1>8 DEF T

\* What the counter of responses does with a number of commands in reach.
LEMMA Counter ==
    ASSUME NEW n \in Nat, n <= MostCommands
    PROVE  /\ n < MostCommands => n % MostCommands = n
           /\ (n + MostCommands) % MostCommands = IF n = MostCommands THEN 0 ELSE n
           /\ n = MostCommands => n % MostCommands = 0
  BY MostFacts

-----------------------------------------------------------------------------
(* What the invariant says of a cycle.                                     *)

\* The section that is taken is all ones, and the command that is made of it
\* has a length and a section of the half.
LEMMA TakenFacts ==
    ASSUME TypeOK, CutInv, cstate = "WR_CMD_XB"
    PROVE  /\ Taken \in (0 .. Levels - 1) \X Bytes
           /\ Taken[1] = part_cmd_cyc /\ Taken[2] \in AllOnes(sub_strb, part_cmd_cyc)
           /\ Section(Taken[1], Taken[2]) \subseteq sub_strb
  <1> DEFINE S == AllOnes(sub_strb, part_cmd_cyc)
  <1>1. /\ sub_strb \subseteq Bytes /\ part_cmd_cyc \in 0 .. Levels - 1
        /\ part_cmd_cyc \in 0 .. Levels
    BY PartialAssumption DEF PartialAssumption, TypeOK
  <1>2. S # {}
    BY DEF CutInv
  <1>3. S \subseteq Nat
    BY <1>1, SectionFacts
  <1>4. FarRight(S) \in S
    BY <1>2, <1>3, FarRightIn
  <1>5. FarRight(S) \in Bytes /\ Section(part_cmd_cyc, FarRight(S)) \subseteq sub_strb
    BY <1>1, <1>4, SectionFacts
  <1>6. Taken = <<part_cmd_cyc, FarRight(S)>>
    BY DEF Taken
  <1> HIDE DEF S
  <1>7. Taken[1] = part_cmd_cyc /\ Taken[2] = FarRight(S)
    BY <1>6
  <1>8. Taken \in (0 .. Levels - 1) \X Bytes
    BY <1>1, <1>5, <1>6
  <1> QED BY <1>4, <1>5, <1>7, <1>8 DEF S

\* When the sequencer is done no byte is left.
LEMMA DoneFacts ==
    ASSUME TypeOK, CutInv, partial_done
    PROVE  cstate = "CYC_UPDATE" /\ sub_strb = {}
  <1>1. cstate = "CYC_UPDATE" /\ (part_cmd_cyc = 0 \/ sub_strb = {})
    BY DEF partial_done
  <1>2. part_cmd_cyc = 0 => AllOnes(sub_strb, 0) = {}
    BY <1>1 DEF CutInv
  <1>3. part_cmd_cyc = 0 => sub_strb = {}
    BY <1>2, NoByteLeft DEF TypeOK
  <1> QED BY <1>1, <1>3

\* The last response: nothing of the batch is still to be sent or answered,
\* and the sequencer has left the strobe.
LEMMA LastFacts ==
    ASSUME TypeOK, PartialInv, NEW answer \in BOOLEAN, answer => at_host > 0,
           prt_rsp_last(answer)
    PROVE  /\ ~tlx_cmd_valid /\ queued = 0 /\ at_host = 1 /\ answer
           /\ ~valid_pre /\ ~valid_pending
           /\ cstate \in {"IDLE", "DONE"} /\ ~cmd_enable /\ distance = 0
  <1>1. answer /\ inflight_cnt = 1 /\ commands_allout /\ at_host > 0
    BY DEF prt_rsp_last
  <1>2. cstate \in {"IDLE", "DONE"}
    BY <1>1 DEF TypeOK, PartialInv, BatchInv, Working
  <1>3. Unanswered = 1
    BY <1>1, MostFacts DEF PartialInv, CountInv
  <1>4. ~tlx_cmd_valid /\ queued = 0 /\ at_host = 1
    <2>1. Number(tlx_cmd_valid) + queued + at_host = 1
      BY <1>3 DEF Unanswered
    <2>2. queued \in Nat /\ at_host \in Nat /\ tlx_cmd_valid \in BOOLEAN
      BY DEF TypeOK
    <2>3. CASE tlx_cmd_valid
      <3>1. Number(tlx_cmd_valid) = 1
        BY <2>3 DEF Number
      <3> QED BY <3>1, <2>1, <2>2, <1>1
    <2>4. CASE ~tlx_cmd_valid
      <3>1. Number(tlx_cmd_valid) = 0
        BY <2>4 DEF Number
      <3>2. queued = 0 /\ at_host = 1
        BY <3>1, <2>1, <2>2, <1>1
      <3> QED BY <3>2, <2>4
    <2> QED BY <2>3, <2>4
  <1>5. ~valid_pre
    BY <1>2 DEF PartialInv, ValidInv
  <1>6. ~valid_pending
    <2>1. wr_data_count <= 1 /\ wr_data_count \in Nat
      BY <1>4 DEF PartialInv, ValidInv, TypeOK
    <2>2. ~(Half <= wr_data_count + 1)
      BY <2>1, PartialAssumption DEF PartialAssumption
    <2> QED BY <1>2, <2>2 DEF PartialInv, ValidInv
  <1>7. ~cmd_enable /\ ~(distance > 0)
    BY <1>4 DEF PartialInv, AnsweredInv
  <1>8. distance = 0
    BY <1>7 DEF TypeOK, Distance
  <1> QED BY <1>1, <1>2, <1>4, <1>5, <1>6, <1>7, <1>8

-----------------------------------------------------------------------------
(* Every cycle keeps the invariant.                                        *)

\* The types.
LEMMA TypeStep ==
    ASSUME TypeOK, PartialInv, NEW come \in Come,
           NEW take \in BOOLEAN, NEW answer \in BOOLEAN, NEW rty_busy \in BOOLEAN,
           Cycle(come, take, answer, rty_busy)
    PROVE  TypeOK'
  <1>1. /\ cstate' \in {"IDLE", "CHK_PART_XB", "WR_CMD_XB", "WR_VLD_XB", "CYC_UPDATE", "DONE"}
        /\ valid_pre' \in BOOLEAN /\ valid_pending' \in BOOLEAN
    BY DEF TypeOK, Cycle, Sequencer
  <1>2. part_cmd_cyc' \in 0 .. Levels - 1
    <2>1. part_cmd_cyc \in 0 .. Levels - 1 /\ Levels \in Nat \ {0}
      BY PartialAssumption DEF TypeOK, PartialAssumption
    <2>2. part_cmd_cyc' = CASE cstate = "IDLE" -> Levels - 1
                            [] cstate = "CYC_UPDATE" /\ part_cmd_cyc > 0 -> part_cmd_cyc - 1
                            [] OTHER -> part_cmd_cyc
      BY DEF Cycle, Sequencer
    <2>3. CASE cstate = "IDLE"
      BY <2>1, <2>2, <2>3
    <2>4. CASE cstate # "IDLE"
      BY <2>1, <2>2, <2>4
    <2> QED BY <2>3, <2>4
  <1>3. sub_strb' \subseteq Bytes
    BY DEF TypeOK, Cycle, Sequencer
  <1>4. partial_ea' \in (0 .. Levels - 1) \X Bytes
    BY TakenFacts DEF TypeOK, Cycle, Sequencer, PartialInv
  <1>5. /\ prt_cstate' \in {"IDLE", "RD_PRT_FIFO", "CHECK_PARTIAL", "PARTIAL_L64B", "PARTIAL_H64B"}
        /\ next_pending' \in BOOLEAN /\ strobe_valid' \in BOOLEAN /\ tlx_cmd_valid' \in BOOLEAN
        /\ partial_data' \in {"l", "h"}
    BY DEF TypeOK, Cycle, Encoder, NextBeat, SecondHalf, partial_valid
  <1>6. \A b \in Beats \cup {NoBeat} : b.l \subseteq Bytes /\ b.h \subseteq Bytes
    BY PartialAssumption DEF PartialAssumption, NoBeat
  <1>7. strobe' \subseteq Bytes
    BY <1>6 DEF TypeOK, Cycle, Encoder
  <1>8. come \in Seq(Beats) /\ Len(come) \in Nat
    <2>1. CASE come = <<>>
      BY <2>1
    <2>2. ASSUME NEW b \in Beats, come = <<b>> PROVE come \in Seq(Beats) /\ Len(come) \in Nat
      BY <2>2
    <2> QED BY <2>1, <2>2 DEF Come
  <1>9. fifo_prt' \in Seq(Beats) /\ beat' \in Beats \cup {NoBeat}
    <2>1. CASE prt_cstate = "RD_PRT_FIFO"
      <3>1. fifo_prt # <<>> /\ fifo_prt \in Seq(Beats)
        BY <2>1 DEF PartialInv, EncoderInv, TypeOK
      <3>2. Head(fifo_prt) \in Beats /\ Tail(fifo_prt) \in Seq(Beats)
        BY <3>1
      <3>3. beat' = Head(fifo_prt) /\ fifo_prt' = Tail(fifo_prt) \o come
        BY <2>1 DEF Cycle, BeatFifo
      <3> QED BY <3>2, <3>3, <1>8
    <2>2. CASE prt_cstate # "RD_PRT_FIFO"
      BY <2>2, <1>8 DEF Cycle, BeatFifo, TypeOK
    <2> QED BY <2>1, <2>2
  <1>10. arrived' \in 0 .. NBeat
    BY <1>8, PartialAssumption DEF PartialAssumption, TypeOK, Cycle, BeatFifo
  <1>11. queued' \in Nat /\ wr_data_count' \in Nat /\ at_host' \in Nat
    BY DEF TypeOK, Cycle, Converter, Number
  <1>12. inflight_cnt' \in 0 .. Length[Levels - 1] - 1
    <2>1. inflight_cnt' = (inflight_cnt + MostCommands + Number(partial_valid) - Number(answer))
                            % MostCommands
      BY DEF Cycle, Bookkeeper, MostCommands
    <2>2. Number(partial_valid) \in {0, 1} /\ Number(answer) \in {0, 1}
      BY DEF Number
    <2>3. inflight_cnt \in Nat
      BY MostFacts DEF TypeOK, MostCommands
    <2>4. inflight_cnt' \in 0 .. MostCommands - 1
      BY <2>1, <2>2, <2>3, MostFacts
    <2> QED BY <2>4 DEF MostCommands
  <1>13. commands_allout' \in BOOLEAN /\ cmd_enable' \in BOOLEAN
    BY DEF TypeOK, Cycle, Bookkeeper
  <1>14. distance' \in 0 .. Distance
    BY DEF TypeOK, Cycle, Bookkeeper, Distance, Number
  <1>15. left' \subseteq Bytes /\ left_half' \in {"l", "h"} /\ held' \in BOOLEAN
    BY DEF TypeOK, Cycle, History
  <1> QED BY <1>1, <1>2, <1>3, <1>4, <1>5, <1>7, <1>9, <1>10, <1>11, <1>12, <1>13, <1>14, <1>15
          DEF TypeOK

\* The valids of the commands.
LEMMA ValidStep ==
    ASSUME TypeOK, PartialInv, NEW come \in Come,
           NEW take \in BOOLEAN, NEW answer \in BOOLEAN, NEW rty_busy \in BOOLEAN,
           Cycle(come, take, answer, rty_busy)
    PROVE  ValidInv'
  <1>1. valid_pre' => cstate' = "CHK_PART_XB"
    BY DEF Cycle, Sequencer
  <1>2. cstate' = "IDLE" => ~valid_pending'
    BY DEF TypeOK, PartialInv, ValidInv, Cycle, Sequencer
  <1>3. wr_data_count' = queued /\ wr_data_count' <= queued' + 1
    BY DEF TypeOK, Cycle, Converter, Number
  <1>4. ASSUME cstate' = "DONE", valid_pending' PROVE Half <= wr_data_count' + 1
    <2>1. cstate \in {"CYC_UPDATE", "DONE"}
      BY <1>4 DEF TypeOK, Cycle, Sequencer
    <2>2. ~partial_en
      BY <2>1, <1>4 DEF PartialInv, ValidInv, Cycle, Sequencer
    <2>3. wr_data_count >= Half /\ wr_data_count <= queued + 1
      BY <2>2, PartialAssumption
         DEF partial_en, tlx_cmd_rdy, PartialInv, ValidInv, TypeOK, PartialAssumption
    <2> QED BY <2>3, <1>3, PartialAssumption DEF TypeOK, PartialAssumption
  <1> QED BY <1>1, <1>2, <1>3, <1>4 DEF ValidInv

\* The commands of a closed batch.
LEMMA AnsweredStep ==
    ASSUME TypeOK, PartialInv, NEW come \in Come,
           NEW take \in BOOLEAN, NEW answer \in BOOLEAN, NEW rty_busy \in BOOLEAN,
           Cycle(come, take, answer, rty_busy)
    PROVE  AnsweredInv'
  <1>1. SUFFICES ASSUME cmd_enable' \/ distance' > 0
                 PROVE  /\ ~tlx_cmd_valid' /\ queued' = 0 /\ at_host' = 0 /\ wr_data_count' = 0
                        /\ ~valid_pre' /\ ~valid_pending'
    BY DEF AnsweredInv
  <1>2. /\ queued' = queued + Number(tlx_cmd_valid) - Number(take)
        /\ wr_data_count' = queued
        /\ at_host' = at_host + Number(take) - Number(answer)
        /\ (take => queued > 0) /\ (answer => at_host > 0)
    BY DEF Cycle, Converter
  <1>3. /\ tlx_cmd_valid' = (valid_pending /\ partial_en)
        /\ valid_pre' = (cstate = "WR_VLD_XB" /\ partial_en)
        /\ valid_pending' = (valid_pre \/ (valid_pending /\ ~partial_en))
    BY DEF Cycle, Encoder, Sequencer, partial_valid
  <1>4. CASE prt_rsp_last(answer)
    <2>1. /\ ~tlx_cmd_valid /\ queued = 0 /\ at_host = 1 /\ answer
          /\ ~valid_pre /\ ~valid_pending /\ cstate \in {"IDLE", "DONE"}
      BY <1>2, <1>4, LastFacts
    <2>2. ~take
      BY <2>1, <1>2
    <2>3. Number(tlx_cmd_valid) = 0 /\ Number(take) = 0 /\ Number(answer) = 1
      BY <2>1, <2>2 DEF Number
    <2>4. queued' = 0 /\ at_host' = 0 /\ wr_data_count' = 0
      BY <2>1, <2>3, <1>2
    <2> QED BY <1>3, <2>1, <2>4
  <1>5. CASE ~prt_rsp_last(answer)
    <2>1. cmd_enable \/ distance > 0
      <3>1. CASE cmd_enable'
        <4>1. distance = 1 \/ cmd_enable
          BY <3>1 DEF Cycle, Bookkeeper
        <4>2. distance = 1 => distance > 0
          OBVIOUS
        <4> QED BY <4>1, <4>2
      <3>2. CASE distance' > 0
        <4>1. distance = 1 \/ distance > 1 \/ distance' = 0
          BY <1>5 DEF Cycle, Bookkeeper
        <4>2. distance > 0
          BY <4>1, <3>2 DEF TypeOK, Distance
        <4> QED BY <4>2
      <3> QED BY <1>1, <3>1, <3>2
    <2>2. /\ ~tlx_cmd_valid /\ queued = 0 /\ at_host = 0 /\ wr_data_count = 0
          /\ ~valid_pre /\ ~valid_pending
      BY <2>1 DEF PartialInv, AnsweredInv
    <2>3. cstate # "WR_VLD_XB"
      BY <2>1 DEF PartialInv, BatchInv, Working
    <2>4. ~take /\ ~answer
      BY <2>2, <1>2
    <2>5. Number(tlx_cmd_valid) = 0 /\ Number(take) = 0 /\ Number(answer) = 0
      BY <2>2, <2>4 DEF Number
    <2>6. queued' = 0 /\ at_host' = 0 /\ wr_data_count' = 0
      BY <2>2, <2>5, <1>2
    <2> QED BY <1>3, <2>2, <2>3, <2>6
  <1> QED BY <1>4, <1>5

\* The encoder.
LEMMA EncoderStep ==
    ASSUME TypeOK, PartialInv, NEW come \in Come,
           NEW take \in BOOLEAN, NEW answer \in BOOLEAN, NEW rty_busy \in BOOLEAN,
           Cycle(come, take, answer, rty_busy)
    PROVE  EncoderInv'
  <1>1. /\ partial_done => cstate = "CYC_UPDATE" /\ ~cmd_enable /\ ~strobe_valid /\ ~next_pending
        /\ cmd_enable => cstate = "IDLE"
    BY DoneFacts DEF PartialInv, BatchInv, Working
  <1>2. /\ prt_cstate \in {"RD_PRT_FIFO", "CHECK_PARTIAL"} => cmd_enable /\ ~strobe_valid
        /\ prt_cstate \in {"CHECK_PARTIAL", "PARTIAL_L64B", "PARTIAL_H64B"} => beat \in Beats
        /\ prt_cstate = "PARTIAL_L64B" => beat.l # {}
        /\ prt_cstate = "RD_PRT_FIFO" => fifo_prt # <<>>
    BY DEF PartialInv, EncoderInv, Sending
  <1>3. /\ strobe_valid => /\ cmd_enable /\ prt_cstate \in {"PARTIAL_L64B", "PARTIAL_H64B"}
                           /\ ~next_pending
        /\ next_pending => /\ prt_cstate = "PARTIAL_L64B" /\ beat.h # {}
                           /\ strobe = beat.h /\ partial_data = "h"
    BY DEF PartialInv, EncoderInv, Sending
  <1>4. /\ prt_cstate \in {"IDLE", "RD_PRT_FIFO", "CHECK_PARTIAL", "PARTIAL_L64B", "PARTIAL_H64B"}
        /\ cstate \in {"IDLE", "CHK_PART_XB", "WR_CMD_XB", "WR_VLD_XB", "CYC_UPDATE", "DONE"}
    BY DEF TypeOK
  <1>5. /\ prt_cstate' =
             CASE prt_cstate = "IDLE" -> NextBeat
               [] prt_cstate = "RD_PRT_FIFO" -> "CHECK_PARTIAL"
               [] prt_cstate = "CHECK_PARTIAL" -> IF beat.l # {} THEN "PARTIAL_L64B" ELSE "PARTIAL_H64B"
               [] prt_cstate = "PARTIAL_L64B" -> IF partial_done /\ beat.h = {} THEN NextBeat
                                                 ELSE IF SecondHalf THEN "PARTIAL_H64B"
                                                 ELSE "PARTIAL_L64B"
               [] prt_cstate = "PARTIAL_H64B" -> IF partial_done THEN NextBeat ELSE "PARTIAL_H64B"
        /\ NextBeat = IF fifo_prt # <<>> /\ cmd_enable THEN "RD_PRT_FIFO" ELSE "IDLE"
        /\ SecondHalf <=> prt_cstate = "PARTIAL_L64B" /\ next_pending /\ cmd_enable
    BY DEF Cycle, Encoder, NextBeat, SecondHalf
  <1>6. /\ next_pending' <=> \/ (prt_cstate = "PARTIAL_L64B" /\ beat.h # {} /\ partial_done)
                             \/ (next_pending /\ ~cmd_enable)
        /\ strobe_valid' <=> (prt_cstate = "CHECK_PARTIAL" \/ SecondHalf)
        /\ prt_cstate = "CHECK_PARTIAL" => /\ strobe' = IF beat.l # {} THEN beat.l ELSE beat.h
                                           /\ partial_data' = IF beat.l # {} THEN "l" ELSE "h"
        /\ prt_cstate # "CHECK_PARTIAL" /\ partial_done => strobe' = beat.h /\ partial_data' = "h"
        /\ prt_cstate # "CHECK_PARTIAL" /\ ~partial_done => strobe' = strobe /\ partial_data' = partial_data
    BY DEF Cycle, Encoder
  <1>7. prt_cstate # "RD_PRT_FIFO" => beat' = beat /\ fifo_prt' = fifo_prt \o come
    BY DEF Cycle, BeatFifo
  <1>8. prt_cstate = "RD_PRT_FIFO" => beat' \in Beats
    BY <1>2 DEF Cycle, BeatFifo, TypeOK
  <1>9. cmd_enable /\ ~strobe_valid => cmd_enable'
    BY DEF Cycle, Bookkeeper
  <1>10. ASSUME fifo_prt # <<>> PROVE fifo_prt \o come # <<>>
    <2>1. fifo_prt \in Seq(Beats) /\ come \in Seq(Beats)
      <3>1. CASE come = <<>>
        BY <3>1 DEF TypeOK
      <3>2. ASSUME NEW b \in Beats, come = <<b>> PROVE come \in Seq(Beats)
        BY <3>2
      <3> QED BY <3>1, <3>2 DEF Come, TypeOK
    <2> QED BY <2>1, <1>10
  <1>11. prt_cstate' = "RD_PRT_FIFO" => fifo_prt' # <<>>
    BY <1>4, <1>5, <1>7, <1>10
  <1>12. prt_cstate' \in {"RD_PRT_FIFO", "CHECK_PARTIAL"} => cmd_enable' /\ ~strobe_valid'
    BY <1>1, <1>2, <1>3, <1>4, <1>5, <1>6, <1>9
  <1>13. prt_cstate' \in {"CHECK_PARTIAL", "PARTIAL_L64B", "PARTIAL_H64B"} => beat' \in Beats
    BY <1>2, <1>4, <1>5, <1>7, <1>8
  <1>14. prt_cstate' = "PARTIAL_L64B" => beat'.l # {}
    BY <1>2, <1>4, <1>5, <1>7
  <1>15. strobe_valid' => /\ cmd_enable' /\ prt_cstate' \in Sending /\ ~next_pending'
                          /\ strobe' = IF prt_cstate' = "PARTIAL_L64B" THEN beat'.l ELSE beat'.h
    <2>1. CASE prt_cstate = "CHECK_PARTIAL"
      BY <2>1, <1>1, <1>2, <1>3, <1>5, <1>6, <1>7, <1>9 DEF Sending
    <2>2. CASE SecondHalf
      BY <2>2, <1>1, <1>2, <1>3, <1>5, <1>6, <1>7, <1>9 DEF Sending
    <2> QED BY <2>1, <2>2, <1>6
  <1>16. next_pending' => /\ prt_cstate' = "PARTIAL_L64B" /\ beat'.h # {}
                          /\ strobe' = beat'.h /\ partial_data' = "h"
    BY <1>1, <1>3, <1>5, <1>6, <1>7
  <1>17. ASSUME cstate' \in Working
         PROVE  /\ ~partial_done /\ ~next_pending /\ prt_cstate \in Sending
                /\ partial_data = IF prt_cstate = "PARTIAL_H64B" THEN "h" ELSE "l"
                /\ left_half' = partial_data
    <2>1. /\ strobe_valid => left_half' = partial_data
          /\ ~strobe_valid => left_half' = left_half
      BY DEF Cycle, History
    <2>2. cstate \in Working \/ (cstate = "IDLE" /\ strobe_valid)
      BY <1>17, <1>4 DEF Cycle, Sequencer, Working
    <2>3. ~partial_done
      BY <1>17 DEF partial_done, Cycle, Sequencer, Working
    <2>4. CASE cstate \in Working
      BY <2>1, <2>3, <2>4 DEF PartialInv, EncoderInv, BatchInv, EaHalf
    <2>5. CASE cstate = "IDLE" /\ strobe_valid
      BY <2>1, <2>3, <2>5 DEF PartialInv, EncoderInv, EaHalf
    <2> QED BY <2>2, <2>4, <2>5
  <1>18. EaHalf' = IF prt_cstate' = "PARTIAL_H64B" THEN "h" ELSE "l"
    BY DEF EaHalf
  <1>19. cstate' \in Working => /\ prt_cstate' \in Sending /\ partial_data' = EaHalf'
                                /\ left_half' = partial_data'
    BY <1>5, <1>6, <1>17, <1>18 DEF Sending
  <1>20. strobe_valid' => prt_cstate' \in Sending /\ partial_data' = EaHalf'
    <2>1. CASE prt_cstate = "CHECK_PARTIAL"
      BY <2>1, <1>5, <1>6, <1>18 DEF Sending
    <2>2. CASE SecondHalf
      BY <2>2, <1>1, <1>3, <1>5, <1>6, <1>18 DEF Sending
    <2> QED BY <2>1, <2>2, <1>6
  <1> QED BY <1>11, <1>12, <1>13, <1>14, <1>15, <1>16, <1>19, <1>20 DEF EncoderInv, Sending

\* The batch.
LEMMA BatchStep ==
    ASSUME TypeOK, PartialInv, NEW come \in Come,
           NEW take \in BOOLEAN, NEW answer \in BOOLEAN, NEW rty_busy \in BOOLEAN,
           Cycle(come, take, answer, rty_busy)
    PROVE  BatchInv'
  <1>1. /\ cmd_enable => cstate = "IDLE" /\ distance = 0
        /\ cstate \in Working => distance = 0 /\ ~commands_allout /\ ~strobe_valid /\ ~next_pending
        /\ cstate = "DONE" => commands_allout /\ ~strobe_valid
        /\ cstate = "IDLE" => cmd_enable \/ commands_allout
        /\ cstate \in {"IDLE", "DONE"} => sub_strb = {}
        /\ distance \notin {0, Distance} => cstate = "IDLE"
    BY DEF PartialInv, BatchInv
  <1>2. /\ strobe_valid => cmd_enable /\ ~next_pending /\ prt_cstate # "CHECK_PARTIAL"
        /\ prt_cstate = "CHECK_PARTIAL" => cmd_enable
    BY DEF PartialInv, EncoderInv, Sending
  <1>3. cstate \in {"IDLE", "CHK_PART_XB", "WR_CMD_XB", "WR_VLD_XB", "CYC_UPDATE", "DONE"}
    BY DEF TypeOK
  <1>4. /\ cstate = "IDLE" => cstate' = IF strobe_valid THEN "CHK_PART_XB" ELSE "IDLE"
        /\ cstate = "DONE" => cstate' = IF partial_en THEN "IDLE" ELSE "DONE"
        /\ cstate = "CYC_UPDATE" => cstate' = IF partial_done THEN "DONE" ELSE "CHK_PART_XB"
        /\ cstate \in Working \ {"CYC_UPDATE"} => cstate' \in Working
    BY DEF Cycle, Sequencer, Working
  <1>5. /\ cmd_enable' <=> (~strobe_valid /\ ((distance = 1 /\ ~rty_busy) \/ cmd_enable))
        /\ commands_allout' <=> (~cmd_enable /\ (partial_done \/ commands_allout))
    BY DEF Cycle, Bookkeeper
  <1>6. partial_done => cstate = "CYC_UPDATE" /\ sub_strb = {}
    BY DoneFacts DEF PartialInv
  <1>7. /\ strobe_valid' <=> (prt_cstate = "CHECK_PARTIAL" \/ SecondHalf)
        /\ SecondHalf => next_pending /\ cmd_enable
        /\ next_pending' => partial_done \/ next_pending
    BY DEF Cycle, Encoder, SecondHalf
  <1>8. (answer => at_host > 0) /\ (cmd_enable \/ distance > 0 => ~answer)
    BY DEF Cycle, PartialInv, AnsweredInv
  <1>9. prt_rsp_last(answer) => commands_allout /\ answer
    BY DEF prt_rsp_last
  <1>10. /\ prt_rsp_last(answer) => distance' = Distance
         /\ ~prt_rsp_last(answer) /\ distance = 1 => distance' = Number(rty_busy)
         /\ ~prt_rsp_last(answer) /\ distance > 1 => distance' = distance - 1
         /\ ~prt_rsp_last(answer) /\ distance = 0 => distance' = 0
         /\ distance \in 0 .. Distance
    BY DEF Cycle, Bookkeeper, TypeOK, Distance
  <1>11. cmd_enable' => cstate' = "IDLE" /\ distance' = 0
    <2>1. CASE cmd_enable /\ ~strobe_valid
      BY <2>1, <1>1, <1>4, <1>8, <1>9, <1>10
    <2>2. CASE distance = 1 /\ ~rty_busy /\ ~strobe_valid
      <3>1. cstate = "IDLE" /\ ~answer
        BY <2>2, <1>1, <1>8 DEF Distance
      <3>2. distance' = 0
        BY <2>2, <3>1, <1>9, <1>10 DEF Number
      <3> QED BY <2>2, <3>1, <3>2, <1>4
    <2> QED BY <2>1, <2>2, <1>5
  <1>12. ASSUME cstate' \in Working
         PROVE  distance' = 0 /\ ~commands_allout' /\ ~strobe_valid' /\ ~next_pending'
    <2>1. cstate \in Working \/ (cstate = "IDLE" /\ strobe_valid)
      BY <1>12, <1>3, <1>4 DEF Working
    <2>2. ~partial_done
      BY <1>12, <1>4, <1>6 DEF Working
    <2>3. CASE cstate \in Working
      <3>1. ~cmd_enable /\ ~commands_allout /\ distance = 0 /\ ~next_pending
        BY <2>3, <1>1 DEF Working
      <3> QED BY <3>1, <2>2, <1>2, <1>5, <1>7, <1>9, <1>10
    <2>4. CASE cstate = "IDLE" /\ strobe_valid
      BY <2>4, <2>2, <1>1, <1>2, <1>5, <1>7, <1>8, <1>9, <1>10
    <2> QED BY <2>1, <2>3, <2>4
  <1>13. cstate' = "DONE" => commands_allout' /\ ~strobe_valid'
    <2>1. cstate' = "DONE" => cstate = "DONE" \/ (cstate = "CYC_UPDATE" /\ partial_done)
      BY <1>3, <1>4 DEF Working
    <2>2. CASE cstate = "DONE"
      <3>1. commands_allout /\ ~cmd_enable
        BY <2>2, <1>1
      <3> QED BY <3>1, <1>2, <1>5, <1>7
    <2>3. CASE cstate = "CYC_UPDATE" /\ partial_done
      <3>1. ~next_pending /\ ~cmd_enable
        BY <2>3, <1>1 DEF Working
      <3> QED BY <3>1, <2>3, <1>2, <1>5, <1>7
    <2> QED BY <2>1, <2>2, <2>3
  <1>14. cstate' = "IDLE" => cmd_enable' \/ commands_allout'
    <2>1. cstate' = "IDLE" => cstate = "DONE" \/ (cstate = "IDLE" /\ ~strobe_valid)
      BY <1>3, <1>4 DEF Working
    <2> QED BY <2>1, <1>1, <1>5
  <1>15. cstate' \in {"IDLE", "DONE"} => sub_strb' = {}
    <2>1. cstate' \in {"IDLE", "DONE"} =>
             /\ cstate \in {"IDLE", "DONE", "CYC_UPDATE"} /\ ~strobe_valid
             /\ cstate = "CYC_UPDATE" => partial_done
      BY <1>1, <1>3, <1>4 DEF Working
    <2>2. ~strobe_valid /\ cstate # "WR_CMD_XB" => sub_strb' = sub_strb
      BY DEF Cycle, Sequencer
    <2> QED BY <2>1, <2>2, <1>1, <1>6
  <1>16. distance' \notin {0, Distance} => cstate' = "IDLE"
    <2>1. SUFFICES ASSUME distance' \notin {0, Distance} PROVE cstate' = "IDLE"
      OBVIOUS
    <2>2. ~prt_rsp_last(answer) /\ distance > 0
      BY <2>1, <1>10 DEF Distance
    <2>3. ~cmd_enable /\ cstate \notin Working
      BY <2>2, <1>1
    <2>4. cstate = "IDLE" => ~strobe_valid
      BY <2>3, <1>2
    <2>5. wr_data_count = 0
      BY <2>2 DEF PartialInv, AnsweredInv
    <2>6. partial_en
      BY <2>5, PartialAssumption DEF partial_en, tlx_cmd_rdy, PartialAssumption
    <2> QED BY <2>3, <2>4, <2>6, <1>3, <1>4 DEF Working
  <1> QED BY <1>11, <1>12, <1>13, <1>14, <1>15, <1>16 DEF BatchInv

\* The number of commands.
LEMMA CountStep ==
    ASSUME TypeOK, PartialInv, NEW come \in Come,
           NEW take \in BOOLEAN, NEW answer \in BOOLEAN, NEW rty_busy \in BOOLEAN,
           Cycle(come, take, answer, rty_busy)
    PROVE  CountInv'
  <1> DEFINE pv  == Number(partial_valid)
             ans == Number(answer)
             cut == Number(cstate = "WR_CMD_XB" /\ ~strobe_valid)
             P   == Cardinality(Pairs(sub_strb))
             Q   == Cardinality(Pairs(sub_strb'))
  <1>1. /\ pv \in {0, 1} /\ ans \in {0, 1} /\ cut \in {0, 1} /\ (ans = 1 => at_host > 0)
        /\ Coming \in Nat /\ Unanswered \in Nat /\ Unanswered >= at_host
        /\ Coming' \in Nat /\ MostCommands \in Nat \ {0}
        /\ P \in Nat /\ Q \in 0 .. MostCommands
    <2>1. pv \in {0, 1} /\ ans \in {0, 1} /\ cut \in {0, 1}
      BY DEF Number
    <2>2. ans = 1 => at_host > 0
      BY DEF Cycle, Number
    <2>3. Coming \in Nat /\ Coming' \in Nat
      BY DEF Coming, Number
    <2>4. Number(tlx_cmd_valid) \in Nat
      BY DEF Number
    <2>5. Unanswered \in Nat /\ Unanswered >= at_host
      BY <2>4 DEF Unanswered, TypeOK
    <2>6. P \in Nat /\ Q \in 0 .. MostCommands
      BY PairsMost, MostFacts
    <2> QED BY <2>1, <2>2, <2>3, <2>5, <2>6, MostFacts
  <1>2. Unanswered' = Unanswered + pv - ans
    <2>1. /\ tlx_cmd_valid' = partial_valid
          /\ queued' = queued + Number(tlx_cmd_valid) - Number(take)
          /\ at_host' = at_host + Number(take) - Number(answer)
      BY DEF Cycle, Converter, Encoder
    <2>2. Number(tlx_cmd_valid)' = pv
      BY <2>1 DEF Number
    <2>3. /\ Number(take) \in Nat /\ Number(tlx_cmd_valid) \in Nat
          /\ queued \in Nat /\ at_host \in Nat
      BY DEF Number, TypeOK
    <2> HIDE DEF pv
    <2>4. Unanswered' = Number(tlx_cmd_valid)' + queued' + at_host'
      BY DEF Unanswered
    <2>5. Number(answer) \in Nat /\ pv \in Nat
      BY <1>1
    <2>6. Unanswered = Number(tlx_cmd_valid) + queued + at_host
      BY DEF Unanswered
    <2> QED BY <2>1, <2>2, <2>3, <2>4, <2>5, <2>6
  <1>3. Unanswered + Coming + P <= MostCommands
    BY DEF PartialInv, CountInv
  <1>4. Coming' + pv <= Coming + cut
    <2>1. /\ cstate' = "WR_VLD_XB" <=> cstate = "WR_CMD_XB" \/ (cstate = "WR_VLD_XB" /\ ~partial_en)
          /\ valid_pre' <=> cstate = "WR_VLD_XB" /\ partial_en
          /\ valid_pending' <=> valid_pre \/ (valid_pending /\ ~partial_en)
          /\ partial_valid <=> valid_pending /\ partial_en
      BY DEF TypeOK, Cycle, Sequencer, partial_valid
    <2>2. cstate = "WR_CMD_XB" => ~strobe_valid
      BY DEF PartialInv, BatchInv, Working
    <2>3. Number(cstate = "WR_VLD_XB")' + Number(valid_pre)' <= Number(cstate = "WR_VLD_XB") + cut
      BY <2>1, <2>2 DEF Number
    <2>4. Number(valid_pending)' + pv <= Number(valid_pre) + Number(valid_pending)
      BY <2>1 DEF Number
    <2>5. /\ Coming = Number(cstate = "WR_VLD_XB") + Number(valid_pre) + Number(valid_pending)
          /\ Coming' = Number(cstate = "WR_VLD_XB")' + Number(valid_pre)' + Number(valid_pending)'
      BY DEF Coming
    <2>6. /\ Number(cstate = "WR_VLD_XB") \in Nat /\ Number(valid_pre) \in Nat
          /\ Number(valid_pending) \in Nat /\ Number(cstate = "WR_VLD_XB")' \in Nat
          /\ Number(valid_pre)' \in Nat /\ Number(valid_pending)' \in Nat
      BY DEF Number
    <2> DEFINE a == Number(cstate = "WR_VLD_XB")
               b == Number(valid_pre)
               c == Number(valid_pending)
               d == Number(cstate = "WR_VLD_XB")'
               e == Number(valid_pre)'
               f == Number(valid_pending)'
    <2>7. /\ d + e <= a + cut /\ f + pv <= b + c /\ Coming = a + b + c /\ Coming' = d + e + f
          /\ a \in Nat /\ b \in Nat /\ c \in Nat /\ d \in Nat /\ e \in Nat /\ f \in Nat
      BY <2>3, <2>4, <2>5, <2>6
    <2> HIDE DEF a, b, c, d, e, f, pv, cut
    <2> QED BY <2>7, <1>1
  <1>5. strobe_valid => Unanswered = 0 /\ Coming = 0
    <2>1. strobe_valid => /\ ~tlx_cmd_valid /\ queued = 0 /\ at_host = 0 /\ ~valid_pre
                          /\ ~valid_pending /\ cstate = "IDLE"
      BY DEF PartialInv, EncoderInv, AnsweredInv, BatchInv
    <2> QED BY <2>1 DEF Unanswered, Coming, Number
  <1>6. ~strobe_valid => Q + cut <= P
    <2>1. SUFFICES ASSUME ~strobe_valid PROVE Q + cut <= P
      OBVIOUS
    <2>2. CASE cstate = "WR_CMD_XB"
      <3>1. /\ part_cmd_cyc \in 0 .. Levels - 1 /\ sub_strb \subseteq Bytes
            /\ part_cmd_cyc + 1 \in part_cmd_cyc + 1 .. Levels
        BY PartialAssumption DEF PartialAssumption, TypeOK
      <3>2. AllOnes(sub_strb, part_cmd_cyc + 1) = {}
        BY <2>2, <3>1 DEF PartialInv, CutInv, Working
      <3>3. Taken[1] = part_cmd_cyc /\ Taken[2] \in AllOnes(sub_strb, part_cmd_cyc)
        BY <2>2, TakenFacts DEF PartialInv
      <3>4. sub_strb' = sub_strb \ Section(part_cmd_cyc, Taken[2])
        BY <2>1, <2>2, <3>3 DEF Cycle, Sequencer
      <3>5. Cardinality(Pairs(sub_strb \ Section(part_cmd_cyc, Taken[2]))) < P
        BY <3>1, <3>2, <3>3, CommandTakesPair
      <3>6. Q < P
        BY <3>4, <3>5
      <3>7. cut = 1
        BY <2>1, <2>2 DEF Number
      <3> HIDE DEF P, Q, cut
      <3> QED BY <3>6, <3>7, <1>1
    <2>3. CASE cstate # "WR_CMD_XB"
      <3>1. sub_strb' = sub_strb
        BY <2>1, <2>3 DEF Cycle, Sequencer
      <3>2. Q = P /\ cut = 0
        BY <2>3, <3>1 DEF Number
      <3> HIDE DEF P, Q, cut
      <3> QED BY <3>2, <1>1
    <2> QED BY <2>2, <2>3
  <1>7. inflight_cnt' = (inflight_cnt + MostCommands + pv - ans) % MostCommands
    BY DEF Cycle, Bookkeeper, MostCommands
  <1>8. inflight_cnt = IF Unanswered = MostCommands THEN 0 ELSE Unanswered
    BY DEF PartialInv, CountInv
  <1>9. strobe_valid => cut = 0
    BY DEF Number
  <1> HIDE DEF pv, ans, cut, P, Q
  <1> DEFINE U == Unanswered
             V == Unanswered'
             C == Coming
             D == Coming'
             M == MostCommands
  <1>10. /\ pv \in {0, 1} /\ ans \in {0, 1} /\ (ans = 1 => U > 0)
         /\ U \in Nat /\ C \in Nat /\ D \in Nat /\ M \in Nat \ {0}
         /\ P \in Nat /\ Q \in Nat /\ Q <= M
         /\ V = U + pv - ans /\ U + C + P <= M /\ D + pv <= C + cut
         /\ strobe_valid => U = 0 /\ C = 0 /\ cut = 0
         /\ ~strobe_valid => Q + cut <= P
         /\ cut \in {0, 1}
    <2>1. ans = 1 => Unanswered > 0
      BY <1>1 DEF TypeOK
    <2>2. /\ pv \in {0, 1} /\ ans \in {0, 1} /\ cut \in {0, 1}
          /\ U \in Nat /\ C \in Nat /\ D \in Nat /\ M \in Nat \ {0}
          /\ P \in Nat
      BY <1>1
    <2>3. Q \in Nat /\ Q <= M
      BY <1>1
    <2>4. V = U + pv - ans /\ U + C + P <= M /\ D + pv <= C + cut
      BY <1>2, <1>3, <1>4
    <2> QED BY <2>1, <2>2, <2>3, <2>4, <1>5, <1>6, <1>9
  <1>11. /\ inflight_cnt' = (inflight_cnt + M + pv - ans) % M
         /\ inflight_cnt = IF U = M THEN 0 ELSE U
    BY <1>7, <1>8
  <1> HIDE DEF U, V, C, D, M
  <1>12. V + D + Q <= M
    <2>1. CASE strobe_valid
      <3>1. U = 0 /\ C = 0 /\ cut = 0
        BY <2>1, <1>10
      <3>2. D = 0 /\ pv = 0 /\ ans = 0
        BY <3>1, <1>10
      <3> QED BY <3>1, <3>2, <1>10
    <2>2. CASE ~strobe_valid
      <3>1. Q + cut <= P
        BY <2>2, <1>10
      <3> QED BY <3>1, <1>10
    <2> QED BY <2>1, <2>2
  <1>13. V \in Nat /\ V <= M
    BY <1>10, <1>12
  <1>14. /\ (V + M) % M = IF V = M THEN 0 ELSE V
         /\ V < M => V % M = V
         /\ V = M => V % M = 0
    BY <1>13, Counter DEF M
  <1>15. inflight_cnt' = IF V = M THEN 0 ELSE V
    <2>1. CASE U # M
      <3>1. inflight_cnt + M + pv - ans = V + M
        BY <2>1, <1>10, <1>11
      <3> QED BY <3>1, <1>11, <1>14
    <2>2. CASE U = M
      <3>1. C = 0 /\ P = 0
        BY <2>2, <1>10
      <3>2. ~strobe_valid
        BY <2>2, <1>10
      <3>3. cut = 0
        BY <3>1, <3>2, <1>10
      <3>4. inflight_cnt + M + pv - ans = V
        BY <2>2, <3>1, <3>3, <1>10, <1>11
      <3>5. V < M \/ V = M
        BY <1>13, <1>10
      <3> QED BY <3>4, <3>5, <1>11, <1>14
    <2> QED BY <2>1, <2>2
  <1>16. CountInv' <=> /\ inflight_cnt' = IF V = M THEN 0 ELSE V
                      /\ V + D + Q <= M
    BY DEF CountInv, V, D, Q, M, Pairs, MostCommands
  <1> QED BY <1>12, <1>15, <1>16

\* The decomposition of the strobe.
LEMMA CutStep ==
    ASSUME TypeOK, PartialInv, NEW come \in Come,
           NEW take \in BOOLEAN, NEW answer \in BOOLEAN, NEW rty_busy \in BOOLEAN,
           Cycle(come, take, answer, rty_busy)
    PROVE  CutInv'
  <1>1. ASSUME cstate' \in Working, NEW m \in part_cmd_cyc' + 1 .. Levels
        PROVE  AllOnes(sub_strb', m) = {}
    <2>1. CASE cstate = "IDLE"
      <3>1. strobe_valid /\ sub_strb' = strobe /\ part_cmd_cyc' = Levels - 1
        BY <1>1, <2>1 DEF Cycle, Sequencer, Working
      <3>2. m = Levels
        BY <1>1, <3>1, PartialAssumption DEF PartialAssumption
      <3>3. strobe \subseteq Bytes /\ strobe # Bytes
        <4>1. beat \in Beats /\ strobe \in {beat.l, beat.h}
          BY <3>1 DEF PartialInv, EncoderInv
        <4> QED BY <4>1, PartialAssumption DEF PartialAssumption
      <3> QED BY <3>1, <3>2, <3>3, NotComplete
    <2>2. CASE cstate \in Working
      <3>1. ~strobe_valid
        BY <2>2 DEF PartialInv, BatchInv
      <3>2. sub_strb' \subseteq sub_strb
        BY <3>1 DEF Cycle, Sequencer
      <3>3. /\ cstate = "CYC_UPDATE" => part_cmd_cyc' \in {part_cmd_cyc, part_cmd_cyc - 1}
            /\ cstate # "CYC_UPDATE" => part_cmd_cyc' = part_cmd_cyc
        BY <2>2 DEF Cycle, Sequencer, Working
      <3>4. part_cmd_cyc \in Nat
        BY PartialAssumption DEF PartialAssumption, TypeOK
      <3>5. m \in part_cmd_cyc + 1 .. Levels \/ (cstate = "CYC_UPDATE" /\ m = part_cmd_cyc)
        BY <1>1, <3>3, <3>4, PartialAssumption DEF PartialAssumption
      <3>6. AllOnes(sub_strb, m) = {}
        BY <2>2, <3>5 DEF PartialInv, CutInv
      <3> QED BY <3>2, <3>6, NoSectionAppears
    <2>3. cstate = "DONE" => cstate' \notin Working
      BY DEF Cycle, Sequencer, Working
    <2> QED BY <1>1, <2>1, <2>2, <2>3 DEF TypeOK, Working
  <1>2. cstate' \in {"CYC_UPDATE", "WR_CMD_XB"} =>
           cstate = "CHK_PART_XB" /\ sub_strb' = sub_strb /\ part_cmd_cyc' = part_cmd_cyc
    <2>1. cstate' \in {"CYC_UPDATE", "WR_CMD_XB"} => cstate = "CHK_PART_XB"
      BY DEF TypeOK, Cycle, Sequencer
    <2>2. cstate = "CHK_PART_XB" => ~strobe_valid
      BY DEF PartialInv, BatchInv, Working
    <2> QED BY <2>1, <2>2 DEF Cycle, Sequencer
  <1>3. cstate' = "CYC_UPDATE" => AllOnes(sub_strb', part_cmd_cyc') = {}
    <2>1. cstate = "CHK_PART_XB" /\ cstate' = "CYC_UPDATE" => AllOnes(sub_strb, part_cmd_cyc) = {}
      BY DEF Cycle, Sequencer, part_cmd_match
    <2> QED BY <1>2, <2>1
  <1>4. cstate' = "WR_CMD_XB" => AllOnes(sub_strb', part_cmd_cyc') # {}
    <2>1. cstate = "CHK_PART_XB" /\ cstate' = "WR_CMD_XB" => AllOnes(sub_strb, part_cmd_cyc) # {}
      BY DEF Cycle, Sequencer, part_cmd_match
    <2> QED BY <1>2, <2>1
  <1> QED BY <1>1, <1>3, <1>4 DEF CutInv, AllOnes, Section

\* The bytes that no command has covered.
LEMMA LeftStep ==
    ASSUME TypeOK, PartialInv, NEW come \in Come,
           NEW take \in BOOLEAN, NEW answer \in BOOLEAN, NEW rty_busy \in BOOLEAN,
           Cycle(come, take, answer, rty_busy)
    PROVE  LeftInv'
  <1>1. SUFFICES ASSUME ~held'
                 PROVE  /\ left' = sub_strb' \cup (IF OutPending' THEN Covered' ELSE {})
                        /\ OutPending' => Covered' \cap sub_strb' = {}
                        /\ valid_pending' => cstate' \in {"WR_CMD_XB", "CYC_UPDATE"}
    BY DEF LeftInv
  <1>2. ~held /\ (valid_pending => partial_en)
    BY <1>1 DEF Cycle, History
  <1>3. /\ left = sub_strb \cup (IF OutPending THEN Covered ELSE {})
        /\ OutPending => Covered \cap sub_strb = {}
        /\ valid_pending => cstate \in {"WR_CMD_XB", "CYC_UPDATE"}
    BY <1>2 DEF PartialInv, LeftInv
  <1>4. /\ valid_pre => cstate = "CHK_PART_XB"
        /\ strobe_valid => cstate = "IDLE" /\ ~valid_pending
    BY DEF PartialInv, ValidInv, EncoderInv, BatchInv, AnsweredInv
  <1>5. partial_valid <=> valid_pending
    BY <1>2 DEF partial_valid
  <1>6. /\ valid_pending' <=> valid_pre
        /\ valid_pre' <=> cstate = "WR_VLD_XB" /\ partial_en
        /\ cstate' = "WR_VLD_XB" <=> cstate = "WR_CMD_XB" \/ (cstate = "WR_VLD_XB" /\ ~partial_en)
    BY <1>2 DEF TypeOK, Cycle, Sequencer
  <1>7. OutPending' <=> cstate = "WR_CMD_XB" \/ cstate = "WR_VLD_XB" \/ valid_pre
    BY <1>6 DEF OutPending
  <1>8. valid_pending' => cstate' \in {"WR_CMD_XB", "CYC_UPDATE"}
    <2>1. cstate = "CHK_PART_XB" => cstate' \in {"WR_CMD_XB", "CYC_UPDATE"}
      BY DEF Cycle, Sequencer
    <2> QED BY <1>4, <1>6, <2>1
  <1>9. left' = IF strobe_valid THEN strobe ELSE IF valid_pending THEN left \ Covered ELSE left
    BY <1>5 DEF Cycle, History
  <1>10. /\ sub_strb' = IF strobe_valid THEN strobe
                        ELSE IF cstate = "WR_CMD_XB" THEN sub_strb \ Section(Taken[1], Taken[2])
                        ELSE sub_strb
         /\ partial_ea' = IF cstate = "WR_CMD_XB" THEN Taken ELSE partial_ea
    BY DEF Cycle, Sequencer
  <1>11. CASE strobe_valid
    <2>1. ~OutPending' /\ left' = sub_strb'
      BY <1>11, <1>4, <1>7, <1>9, <1>10
    <2> QED BY <2>1, <1>8
  <1>12. CASE ~strobe_valid /\ cstate = "WR_CMD_XB"
    <2> DEFINE Cut == Section(Taken[1], Taken[2])
    <2>1. Cut \subseteq sub_strb
      BY <1>12, TakenFacts DEF PartialInv
    <2>2. Covered' = Cut
      BY <1>10, <1>12 DEF Covered, Section
    <2>3. OutPending'
      BY <1>7, <1>12
    <2>4. sub_strb' = sub_strb \ Cut
      BY <1>10, <1>12
    <2>5. OutPending <=> valid_pending
      BY <1>4, <1>12 DEF OutPending
    <2>6. left' = sub_strb
      BY <2>5, <1>3, <1>9, <1>12
    <2> HIDE DEF Cut
    <2>7. left' = sub_strb' \cup Cut /\ Cut \cap sub_strb' = {}
      BY <2>1, <2>4, <2>6
    <2> QED BY <2>2, <2>3, <2>7, <1>8
  <1>13. CASE ~strobe_valid /\ cstate # "WR_CMD_XB"
    <2>1. sub_strb' = sub_strb /\ partial_ea' = partial_ea
      BY <1>10, <1>13
    <2>2. Covered' = Covered
      BY <2>1 DEF Covered, Section
    <2>3. CASE valid_pending
      <3>1. OutPending /\ ~OutPending'
        BY <2>3, <1>3, <1>4, <1>7, <1>13 DEF OutPending
      <3>2. left' = left \ Covered
        BY <2>3, <1>9, <1>13
      <3>3. left' = sub_strb'
        BY <3>1, <3>2, <2>1, <1>3
      <3> QED BY <3>1, <3>3, <1>8
    <2>4. CASE ~valid_pending
      <3>1. OutPending' <=> OutPending
        BY <2>4, <1>7, <1>13 DEF OutPending
      <3>2. left' = left
        BY <2>4, <1>9, <1>13
      <3> QED BY <3>1, <3>2, <2>1, <2>2, <1>3, <1>8
    <2> QED BY <2>3, <2>4
  <1> QED BY <1>11, <1>12, <1>13

-----------------------------------------------------------------------------
(* The theorems.                                                           *)

\* The invariant holds after reset.
LEMMA PartialStart == Init => TypeOK /\ PartialInv
  <1>1. SUFFICES ASSUME Init PROVE TypeOK /\ PartialInv
    OBVIOUS
  <1>2. TypeOK
    <2>1. /\ 0 \in 0 .. Levels - 1 /\ Levels - 1 \in 0 .. Levels - 1 /\ 0 \in 0 .. NBeat
          /\ 0 \in Bytes /\ 0 \in 0 .. Length[Levels - 1] - 1
      BY PartialAssumption, MostFacts DEF PartialAssumption, MostCommands
    <2>2. partial_ea \in (0 .. Levels - 1) \X Bytes
      BY <1>1, <2>1 DEF Init
    <2>3. fifo_prt \in Seq(Beats) /\ beat \in Beats \cup {NoBeat}
      BY <1>1 DEF Init
    <2>4. /\ part_cmd_cyc \in 0 .. Levels - 1 /\ inflight_cnt \in 0 .. Length[Levels - 1] - 1
          /\ queued \in Nat /\ wr_data_count \in Nat /\ at_host \in Nat
          /\ distance \in 0 .. Distance /\ arrived \in 0 .. NBeat
      BY <1>1, <2>1 DEF Init, Distance
    <2> QED BY <1>1, <2>2, <2>3, <2>4 DEF Init, TypeOK
  <1>3. EncoderInv /\ BatchInv /\ AnsweredInv
    BY <1>1 DEF Init, EncoderInv, BatchInv, AnsweredInv, Working, Sending
  <1>4. ValidInv
    BY <1>1 DEF Init, ValidInv
  <1>5. CountInv
    <2>1. Unanswered = 0 /\ Coming = 0 /\ inflight_cnt = 0 /\ sub_strb = {}
      BY <1>1 DEF Init, Unanswered, Coming, Number
    <2>2. Cardinality(Pairs(sub_strb)) = 0 /\ MostCommands \in Nat
      BY <2>1, PairsMost, MostFacts
    <2> QED BY <2>1, <2>2 DEF CountInv
  <1>6. CutInv
    BY <1>1 DEF Init, CutInv, Working
  <1>7. LeftInv
    BY <1>1 DEF Init, LeftInv, OutPending
  <1> QED BY <1>2, <1>3, <1>4, <1>5, <1>6, <1>7 DEF PartialInv

\* Every cycle keeps the invariant.
LEMMA PartialStep == TypeOK /\ PartialInv /\ [Next]_vars => TypeOK' /\ PartialInv'
  <1>1. ASSUME TypeOK, PartialInv, Next PROVE TypeOK' /\ PartialInv'
    <2>1. PICK come \in Come, take \in BOOLEAN, answer \in BOOLEAN, rty_busy \in BOOLEAN :
                  Cycle(come, take, answer, rty_busy)
      BY <1>1 DEF Next
    <2>2. TypeOK'
      BY <1>1, <2>1, TypeStep
    <2>3. EncoderInv' /\ BatchInv'
      BY <1>1, <2>1, EncoderStep, BatchStep
    <2>4. AnsweredInv' /\ ValidInv'
      BY <1>1, <2>1, AnsweredStep, ValidStep
    <2>5. CountInv' /\ CutInv' /\ LeftInv'
      BY <1>1, <2>1, CountStep, CutStep, LeftStep
    <2> QED BY <2>2, <2>3, <2>4, <2>5 DEF PartialInv
  <1>2. ASSUME TypeOK, PartialInv, UNCHANGED vars PROVE TypeOK' /\ PartialInv'
    <2>1. /\ UNCHANGED <<cstate, sub_strb, part_cmd_cyc, partial_ea, valid_pre, valid_pending>>
          /\ UNCHANGED <<prt_cstate, fifo_prt, beat, next_pending, strobe, strobe_valid,
                         partial_data, tlx_cmd_valid>>
          /\ UNCHANGED <<queued, wr_data_count, at_host, inflight_cnt, commands_allout,
                         distance, cmd_enable, left, left_half, arrived, held>>
      BY <1>2 DEF vars, sequencer, encoder, converter, bookkeeper, history
    <2>2. TypeOK'
      BY <1>2, <2>1 DEF TypeOK
    <2>3. EncoderInv' /\ BatchInv' /\ AnsweredInv' /\ ValidInv'
      BY <1>2, <2>1 DEF PartialInv, EncoderInv, BatchInv, AnsweredInv, ValidInv, EaHalf
    <2>4. CountInv'
      BY <1>2, <2>1 DEF PartialInv, CountInv, Unanswered, Coming, Pairs, MostCommands
    <2>5. CutInv' /\ LeftInv'
      BY <1>2, <2>1 DEF PartialInv, CutInv, LeftInv, OutPending, Covered, Section, AllOnes
    <2> QED BY <2>2, <2>3, <2>4, <2>5 DEF PartialInv
  <1> QED BY <1>1, <1>2

\* The invariant holds in every state.
THEOREM PartialInvariant == Spec => [](TypeOK /\ PartialInv)
  <1>1. Init => TypeOK /\ PartialInv
    BY PartialStart
  <1>2. (TypeOK /\ PartialInv) /\ [Next]_vars => (TypeOK /\ PartialInv)'
    BY PartialStep
  <1> QED BY <1>1, <1>2, PTL DEF Spec

\* The registers and counters keep their widths: the FIFO of beats is not read
\* when it is empty, a section of the half is taken, the counter of responses
\* does not count below zero.
THEOREM TypeCorrect == Spec => []TypeOK
  <1>1. TypeOK /\ PartialInv => TypeOK
    OBVIOUS
  <1> QED BY <1>1, PartialInvariant, PTL

\* A strobe is handed over only to an idle sequencer: the encoder does not
\* start a half before the batch of the other half has been answered.
THEOREM StrobeOnlyToIdle == Spec => []StrobeTaken
  <1>1. TypeOK /\ PartialInv => StrobeTaken
    BY DEF PartialInv, EncoderInv, BatchInv, StrobeTaken
  <1> QED BY <1>1, PartialInvariant, PTL

\* A batch is closed by the response to its last command and never earlier,
\* although the counter of responses passes 1 and wraps to 0 on the way.
THEOREM ClosedWhenAnswered == Spec => []BatchAnswered
  <1>1. TypeOK /\ PartialInv => BatchAnswered
    BY DEF PartialInv, AnsweredInv, BatchAnswered
  <1> QED BY <1>1, PartialInvariant, PTL

CounterTells ==
    /\ Unanswered <= MostCommands
    /\ inflight_cnt = IF Unanswered = MostCommands THEN 0 ELSE Unanswered

\* The counter of responses shows the commands without an answer, but for the
\* strobe of as many commands as it has values, where all of them read as none;
\* there are never more.
THEOREM CounterCorrect == Spec => []CounterTells
  <1>1. TypeOK /\ PartialInv => CounterTells
    <2>1. ASSUME TypeOK, CountInv PROVE Unanswered <= MostCommands
      <3> DEFINE P == Cardinality(Pairs(sub_strb))
      <3>1. P \in Nat /\ MostCommands \in Nat
        BY PairsMost, MostFacts
      <3>2. Coming \in Nat
        BY DEF Coming, Number
      <3>3. Unanswered \in Nat
        BY <2>1 DEF Unanswered, Number, TypeOK
      <3>4. Unanswered + Coming + P <= MostCommands
        BY <2>1 DEF CountInv
      <3> HIDE DEF P
      <3> QED BY <3>1, <3>2, <3>3, <3>4
    <2> QED BY <2>1 DEF PartialInv, CountInv, CounterTells
  <1> QED BY <1>1, PartialInvariant, PTL

\* As long as no valid has waited for the FIFO, the commands of a closed batch
\* have covered every byte of its strobe.
THEOREM ClosedWhenCovered == Spec => []BatchCovered
  <1>1. TypeOK /\ PartialInv => BatchCovered
    <2>1. SUFFICES ASSUME TypeOK, PartialInv, distance > 0, ~held PROVE left = {}
      BY DEF BatchCovered
    <2>2. cstate \in {"IDLE", "DONE"} /\ sub_strb = {}
      BY <2>1 DEF TypeOK, PartialInv, BatchInv, Working
    <2>3. ~OutPending
      BY <2>1, <2>2 DEF PartialInv, AnsweredInv, OutPending
    <2> QED BY <2>1, <2>2, <2>3 DEF PartialInv, LeftInv
  <1> QED BY <1>1, PartialInvariant, PTL

\* As long as no valid has waited for the FIFO, a command covers bytes of the
\* batch that no other command has covered, and it carries the address and the
\* data of the half of the batch.
THEOREM CommandsCorrect == Spec => CommandsFitInTime
  <1>1. TypeOK /\ PartialInv => (partial_valid /\ ~held => Fits)
    <2>1. SUFFICES ASSUME TypeOK, PartialInv, valid_pending, ~held PROVE Fits
      BY DEF partial_valid
    <2>2. cstate \in Working /\ OutPending
      BY <2>1 DEF PartialInv, LeftInv, Working, OutPending
    <2>3. Covered \subseteq left
      BY <2>1, <2>2 DEF PartialInv, LeftInv
    <2>4. partial_data = EaHalf /\ left_half = partial_data
      BY <2>1, <2>2 DEF PartialInv, EncoderInv
    <2> QED BY <2>3, <2>4 DEF Fits
  <1> QED BY <1>1, PartialInvariant, PTL DEF CommandsFitInTime
=============================================================================
