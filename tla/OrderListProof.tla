--------------------------- MODULE OrderListProof ---------------------------
(***************************************************************************)
(* The lists of the order manager as sequences of tags: no beat is lost,   *)
(* and every step of the registers is a step of the queues of OrderedBeats,*)
(* for every number of tags and AXI ids.                                   *)
(***************************************************************************)
EXTENDS OrderMngProof, FiniteSetTheorems, SequenceTheorems, WellFoundedInduction

-----------------------------------------------------------------------------
(* The invariant.                                                          *)

\* The tags of the beats of id j, oldest first, are the l elements of s: all of
\* them, linked one after the other, from the head that is registered to the
\* tail pre_ptr names.  The link to a latched reservation is written in this
\* cycle.
OnList(j, s, l) ==
    /\ \A m, n \in 1 .. l : s[m] = s[n] => m = n
    /\ \A t \in Tags : t \in ev /\ axi_id[t] = j <=> \E n \in 1 .. l : s[n] = t
    /\ \A n \in 1 .. l - 1 :
          \/ s[n] \in nptr_v /\ nxt_ptr[s[n]] = s[n + 1]
          \/ /\ rsv_beat_nh_latch /\ n + 1 = l
             /\ s[n] = rsv_pre_ptr_latch /\ s[n + 1] = rsv_tag_latch
    /\ l # 0 => j \in pre_ptr_valid /\ s[l] = pre_ptr[j]
    /\ IF j \in head_beat_tag_valid THEN l # 0 /\ s[1] = head_beat_tag[j]
                                    ELSE l <= 1

Listed(q) == \A j \in Ids : OnList(j, q[j], Len(q[j]))

\* Only a valid entry has an error.
Lists == rc \subseteq ev /\ \E q \in [Ids -> Seq(Tags)] : Listed(q)

-----------------------------------------------------------------------------
(* Reading a list out of the registers.                                    *)

\* A set of numbers has a smallest one.
LEMMA Smallest ==
    ASSUME NEW S, S \subseteq Nat, S # {}
    PROVE  \E x \in S : \A y \in S : x <= y
  <1> DEFINE Less == {ss \in Nat \X Nat : ss[1] < ss[2]}
  <1>1. IsWellFoundedOn(Less, Nat)
    BY NatLessThanWellFounded DEF OpToRel
  <1>2. PICK x \in S : \A y \in S : ~(<<y, x>> \in Less)
    BY <1>1, WFMin
  <1>3. \A y \in S : ~(y < x)
    BY <1>2
  <1> QED BY <1>3

\* One more tag of the walk, from each tag.
Walk(f, n) ==
    [t \in Tags |->
        IF n = 0 THEN <<>>
        ELSE <<t>> \o (IF t \in nptr_v THEN f[n - 1][nxt_ptr[t]] ELSE <<>>)]

LEMMA WalkFacts ==
    ASSUME NEW f, NEW g, NEW n \in Nat, n > 0 => f[n - 1] = g[n - 1]
    PROVE  Walk(f, n) = Walk(g, n)
  <1>1. CASE n = 0
    BY <1>1 DEF Walk
  <1>2. CASE n # 0
    <2>1. f[n - 1] = g[n - 1]
      BY <1>2
    <2> QED BY <2>1 DEF Walk
  <1> QED BY <1>1, <1>2

\* The definition of From by recursion defines a function.
LEMMA FromExists == \A k \in Nat : \E f : f = [n \in 0 .. k |-> Walk(f, n)]
  <1> DEFINE Good(k) == \E f : f = [n \in 0 .. k |-> Walk(f, n)]
             Failing == {k \in Nat : ~Good(k)}
  <1>1. Good(0)
    <2> DEFINE f == [n \in 0 .. 0 |-> Walk(<<>>, n)]
    <2>1. ASSUME NEW n \in 0 .. 0 PROVE f[n] = Walk(f, n)
      <3>1. n = 0
        OBVIOUS
      <3>2. Walk(f, n) = Walk(<<>>, n)
        BY <3>1, WalkFacts
      <3> QED BY <3>2
    <2>2. f = [n \in 0 .. 0 |-> Walk(f, n)]
      BY <2>1
    <2> HIDE DEF f
    <2> QED BY <2>2
  <1>2. ASSUME NEW k \in Nat, Good(k) PROVE Good(k + 1)
    <2>1. PICK f : f = [n \in 0 .. k |-> Walk(f, n)]
      BY <1>2
    <2> DEFINE g == [n \in 0 .. k + 1 |-> IF n = k + 1 THEN Walk(f, n) ELSE f[n]]
    <2>2. ASSUME NEW n \in 0 .. k + 1 PROVE g[n] = Walk(g, n)
      <3>1. n > 0 => f[n - 1] = g[n - 1]
        <4>1. n > 0 => n - 1 \in 0 .. k + 1 /\ n - 1 # k + 1
          OBVIOUS
        <4> QED BY <4>1
      <3>2. Walk(f, n) = Walk(g, n)
        <4>1. n \in Nat
          OBVIOUS
        <4> HIDE DEF g
        <4> QED BY <3>1, <4>1, WalkFacts
      <3>3. g[n] = Walk(f, n)
        <4>1. CASE n = k + 1
          BY <4>1
        <4>2. CASE n # k + 1
          <5>1. n \in 0 .. k
            BY <4>2
          <5>2. f[n] = Walk(f, n)
            BY <2>1, <5>1
          <5>3. g[n] = f[n]
            BY <4>2
          <5> QED BY <5>2, <5>3
        <4> QED BY <4>1, <4>2
      <3> QED BY <3>2, <3>3
    <2>3. g = [n \in 0 .. k + 1 |-> Walk(g, n)]
      BY <2>2
    <2> HIDE DEF g
    <2> QED BY <2>3
  <1> HIDE DEF Good
  <1>3. ASSUME Failing # {} PROVE FALSE
    <2>1. PICK k \in Failing : \A y \in Failing : k <= y
      BY <1>3, Smallest
    <2>2. k \in Nat /\ k # 0 /\ ~Good(k)
      BY <2>1, <1>1
    <2>3. k - 1 \in Nat /\ k - 1 \notin Failing /\ (k - 1) + 1 = k
      BY <2>1, <2>2
    <2>4. Good(k - 1)
      BY <2>3
    <2> QED BY <1>2, <2>2, <2>3, <2>4
  <1>4. \A k \in Nat : Good(k)
    BY <1>3
  <1> QED BY <1>4 DEF Good

LEMMA FromFacts ==
    ASSUME NEW n \in 0 .. NTag, NEW t \in Tags
    PROVE  From[n][t] = IF n = 0 THEN <<>>
                        ELSE <<t>> \o (IF t \in nptr_v THEN From[n - 1][nxt_ptr[t]] ELSE <<>>)
  <1>1. NTag \in Nat
    BY ConstantsAssumption
  <1>2. From = CHOOSE f : f = [m \in 0 .. NTag |-> Walk(f, m)]
    BY DEF From, Walk
  <1>3. From = [m \in 0 .. NTag |-> Walk(From, m)]
    BY <1>1, <1>2, FromExists
  <1>4. From[n] = Walk(From, n)
    BY <1>3
  <1> QED BY <1>4 DEF Walk

\* Numbers below and at the end of a list of l.
LEMMA Downwards ==
    ASSUME NEW k \in Nat, NEW i \in 0 .. k - 1, i # 0
    PROVE  /\ k - i \in 1 .. k - 1 /\ k - i \in 1 .. k /\ k - i <= k /\ k - i \in Nat
           /\ k \in Int /\ (k - i) + 1 = k - (i - 1)
  OBVIOUS

LEMMA BeforeLast ==
    ASSUME NEW l \in Nat, l # 0, l # 1, NEW d \in Nat, l <= d
    PROVE  /\ l - 1 \in 1 .. l /\ l - 1 <= d /\ l - 1 \in 1 .. l - 1 /\ (l - 1) + 1 = l
           /\ \A n \in 1 .. (l - 1) - 1 : n \in 1 .. l - 1 /\ n + 1 # l
  OBVIOUS

\* The walk from the first tag of a linked list of k tags ends with the last.
LEMMA WalkIsList ==
    ASSUME NEW s \in Seq(Tags), NEW k \in 1 .. Len(s), k <= NTag, TypeOK,
           \A n \in 1 .. k - 1 : s[n] \in nptr_v /\ nxt_ptr[s[n]] = s[n + 1],
           s[k] \notin nptr_v
    PROVE  Chain(s[1]) = SubSeq(s, 1, k)
  <1> DEFINE Good(i) == \A m \in i + 1 .. NTag : From[m][s[k - i]] = SubSeq(s, k - i, k)
             Failing == {i \in 0 .. k - 1 : ~Good(i)}
  <1>1. NTag \in Nat /\ Len(s) \in Nat /\ k \in Nat
    BY ConstantsAssumption
  <1>2. \A n \in 1 .. k : s[n] \in Tags /\ n \in 1 .. Len(s)
    BY <1>1
  <1>3. Good(0)
    <2> SUFFICES ASSUME NEW m \in 1 .. NTag PROVE From[m][s[k]] = SubSeq(s, k, k)
      BY <1>1
    <2>1. From[m][s[k]] = <<s[k]>> \o <<>>
      <3>1. m \in 0 .. NTag /\ m # 0 /\ s[k] \in Tags
        BY <1>1, <1>2
      <3> QED BY <3>1, FromFacts
    <2>2. SubSeq(s, k, k) = <<s[k]>> \o SubSeq(s, k + 1, k)
      BY <1>1, SubSeqRecursiveFirst
    <2>3. SubSeq(s, k + 1, k) = <<>>
      BY <1>1, SubSeqEmpty
    <2> QED BY <2>1, <2>2, <2>3
  <1>4. ASSUME NEW i \in 0 .. k - 1, i # 0, Good(i - 1) PROVE Good(i)
    <2> SUFFICES ASSUME NEW m \in i + 1 .. NTag PROVE From[m][s[k - i]] = SubSeq(s, k - i, k)
      OBVIOUS
    <2> DEFINE n == k - i
    <2>1. /\ n \in 1 .. k - 1 /\ n \in 1 .. k /\ n <= k /\ n \in Nat /\ k \in Int
          /\ n + 1 = k - (i - 1)
      BY <1>1, <1>4, Downwards
    <2>2. m \in 0 .. NTag /\ m # 0 /\ m - 1 \in (i - 1) + 1 .. NTag
      BY <1>1
    <2> HIDE DEF n
    <2>7. n \in 1 .. Len(s) /\ k \in n .. Len(s)
      BY <1>1, <1>2, <2>1
    <2>8. s[n] \in Tags /\ s[n] \in nptr_v /\ nxt_ptr[s[n]] = s[n + 1]
      BY <2>1, <1>2
    <2>3. From[m][s[n]] = <<s[n]>> \o From[m - 1][s[n + 1]]
      <3>1. From[m][s[n]] = <<s[n]>> \o From[m - 1][nxt_ptr[s[n]]]
        BY <2>2, <2>8, FromFacts
      <3> QED BY <3>1, <2>8
    <2>4. From[m - 1][s[n + 1]] = SubSeq(s, n + 1, k)
      BY <2>1, <2>2, <1>4
    <2>5. SubSeq(s, n, k) = <<s[n]>> \o SubSeq(s, n + 1, k)
      BY <2>7, SubSeqRecursiveFirst
    <2>6. From[m][s[n]] = SubSeq(s, n, k)
      BY <2>3, <2>4, <2>5
    <2> QED BY <2>6 DEF n
  <1> HIDE DEF Good
  <1>5. ASSUME Failing # {} PROVE FALSE
    <2>4. Failing \subseteq Nat
      OBVIOUS
    <2>1. PICK i \in Failing : \A y \in Failing : i <= y
      <3> HIDE DEF Failing
      <3> QED BY <2>4, <1>5, Smallest
    <2>2. i \in 0 .. k - 1 /\ i # 0 /\ ~Good(i)
      BY <2>1, <1>3
    <2>3. i - 1 \in 0 .. k - 1 /\ i - 1 \notin Failing
      BY <2>1, <2>2, <1>1
    <2>5. Good(i - 1)
      BY <2>3
    <2> QED BY <1>4, <2>2, <2>5
  <1>6. Good(k - 1)
    <2>1. k - 1 \in 0 .. k - 1
      BY <1>1
    <2> QED BY <2>1, <1>5
  <1>7. k - (k - 1) = 1 /\ NTag \in (k - 1) + 1 .. NTag
    BY <1>1
  <1>8. From[NTag][s[1]] = SubSeq(s, 1, k)
    BY <1>6, <1>7 DEF Good
  <1> QED BY <1>8 DEF Chain

\* A list without repetitions has as many beats as tags, NTag at most.
LEMMA ListLength ==
    ASSUME NEW s \in Seq(Tags), \A m, n \in 1 .. Len(s) : s[m] = s[n] => m = n
    PROVE  /\ Len(s) <= NTag
           /\ Cardinality(TagsIn(s)) = Len(s)
  <1>1. NTag \in Nat /\ Len(s) \in Nat
    BY ConstantsAssumption
  <1>2. IsFiniteSet(1 .. Len(s)) /\ Cardinality(1 .. Len(s)) = Len(s)
    <2>1. IsFiniteSet(1 .. Len(s))
      BY <1>1, FS_Interval
    <2>2. ASSUME NEW l \in Nat PROVE Cardinality(1 .. l) = l
      <3>1. Cardinality(1 .. l) = IF 1 > l THEN 0 ELSE (l - 1) + 1
        BY FS_Interval
      <3> QED BY <3>1
    <2> QED BY <1>1, <2>1, <2>2
  <1>3. IsFiniteSet(Tags) /\ Cardinality(Tags) = NTag
    <2>1. IsFiniteSet(0 .. NTag - 1)
      <3>1. 0 \in Int /\ NTag - 1 \in Int
        BY <1>1
      <3> QED BY <3>1, FS_Interval
    <2>2. \A b \in Int : 0 <= b => Cardinality(0 .. b) = b + 1
      <3> SUFFICES ASSUME NEW b \in Int, 0 <= b PROVE Cardinality(0 .. b) = b + 1
        OBVIOUS
      <3>1. Cardinality(0 .. b) = IF 0 > b THEN 0 ELSE b - 0 + 1
        BY FS_Interval
      <3> QED BY <3>1
    <2>4. NTag - 1 \in Int /\ 0 <= NTag - 1 /\ (NTag - 1) + 1 = NTag
      BY ConstantsAssumption
    <2>3. Cardinality(0 .. NTag - 1) = NTag
      BY <2>2, <2>4
    <2> QED BY <2>1, <2>3 DEF Tags
  <1>4. DOMAIN s = 1 .. Len(s) /\ s \in [1 .. Len(s) -> Tags]
    BY LenProperties
  <1>5. s \in Injection(1 .. Len(s), Tags)
    BY <1>4 DEF Injection, IsInjective
  <1>6. Len(s) <= NTag
    BY <1>2, <1>3, <1>5, FS_Injection
  <1>7. s \in Surjection(1 .. Len(s), TagsIn(s)) /\ s \in Injection(1 .. Len(s), TagsIn(s))
    BY <1>4 DEF Surjection, Injection, IsInjective, TagsIn
  <1>8. Cardinality(TagsIn(s)) = Len(s)
    BY <1>2, <1>7, FS_Surjection
  <1> QED BY <1>6, <1>8

\* The registers show the list.
LEMMA ListShown ==
    ASSUME TypeOK, ListInvariant, NEW j \in Ids, NEW s \in Seq(Tags), OnList(j, s, Len(s))
    PROVE  ListOf(j) = s
  <1>1. /\ Len(s) \in Nat /\ DOMAIN s = 1 .. Len(s)
        /\ \A n \in 1 .. Len(s) : s[n] \in ev /\ axi_id[s[n]] = j /\ s[n] \in Tags
    <2>1. Len(s) \in Nat /\ DOMAIN s = 1 .. Len(s) /\ \A n \in 1 .. Len(s) : s[n] \in Tags
      OBVIOUS
    <2>2. \A t \in Tags : t \in ev /\ axi_id[t] = j <=> \E n \in 1 .. Len(s) : s[n] = t
      BY DEF OnList
    <2> QED BY <2>1, <2>2, Zenon
  <1>2. Len(s) <= NTag
    BY ListLength DEF OnList
  <1>3. s # <<>> => /\ Len(s) \in 1 .. Len(s) /\ 1 \in 1 .. Len(s)
                    /\ s[Len(s)] = pre_ptr[j] /\ j \in pre_ptr_valid /\ pre_ptr[j] \notin nptr_v
    <2>1. s # <<>> => Len(s) # 0
      BY EmptySeq
    <2>2. \A k \in pre_ptr_valid : pre_ptr[k] \notin nptr_v
      BY DEF ListInvariant, TailsValid
    <2>3. s # <<>> => j \in pre_ptr_valid /\ s[Len(s)] = pre_ptr[j]
      BY <2>1 DEF OnList
    <2>4. s # <<>> => Len(s) \in 1 .. Len(s) /\ 1 \in 1 .. Len(s)
      BY <1>1, <2>1
    <2> QED BY <2>2, <2>3, <2>4, Zenon
  <1>4. \A n \in 1 .. Len(s) - 1 :
           \/ s[n] \in nptr_v /\ nxt_ptr[s[n]] = s[n + 1]
           \/ /\ rsv_beat_nh_latch /\ n + 1 = Len(s)
              /\ s[n] = rsv_pre_ptr_latch /\ s[n + 1] = rsv_tag_latch
    BY DEF OnList
  <1>5. CASE j \in head_beat_tag_valid /\ j \notin RsvValidLatchForIdx
    <2>1. s # <<>> /\ s[1] = head_beat_tag[j]
      BY <1>5, EmptySeq DEF OnList
    <2>2. ASSUME NEW n \in 1 .. Len(s) - 1 PROVE s[n] \in nptr_v /\ nxt_ptr[s[n]] = s[n + 1]
      <3>1. s[n + 1] \in ev /\ axi_id[s[n + 1]] = j
        BY <1>1
      <3>2. ~(rsv_beat_nh_latch /\ s[n + 1] = rsv_tag_latch)
        BY <3>1, <1>5 DEF ListInvariant, LatchValid, RsvValidLatchForIdx
      <3> QED BY <3>2, <1>4
    <2>3. Chain(s[1]) = SubSeq(s, 1, Len(s))
      BY <1>2, <1>3, <2>1, <2>2, WalkIsList
    <2>4. ListOf(j) = Chain(s[1]) \o <<>>
      BY <1>5, <2>1 DEF ListOf
    <2> QED BY <2>3, <2>4, SubSeqFull, ConcatEmptySeq
  <1>6. CASE j \in head_beat_tag_valid /\ j \in RsvValidLatchForIdx
    <2>1. s # <<>> /\ s[1] = head_beat_tag[j]
      BY <1>6, EmptySeq DEF OnList
    <2>2. /\ rsv_valid_latch /\ rsv_axi_id_latch = j /\ rsv_beat_nh_latch
          /\ s[Len(s)] = rsv_tag_latch
      BY <1>3, <1>6, <2>1 DEF RsvValidLatchForIdx, ListInvariant, LatchValid
    <2>3. Len(s) # 1
      BY <1>6, <2>1, <2>2 DEF ListInvariant, HeadsValid, Latched
    <2> DEFINE k == Len(s) - 1
    <2>4. k \in 1 .. Len(s) /\ k <= NTag /\ k \in 1 .. Len(s) - 1 /\ k + 1 = Len(s)
      <3>1. Len(s) # 0
        BY <2>1, EmptySeq
      <3>2. Len(s) \in Nat /\ NTag \in Nat
        BY <1>1, ConstantsAssumption
      <3> QED BY <3>1, <3>2, <1>2, <2>3, BeforeLast
    <2>5. \A t \in nptr_v : nxt_ptr[t] # rsv_tag_latch
      BY <2>2 DEF ListInvariant, LinksValid, Latched
    <2>6. s[k] = rsv_pre_ptr_latch /\ s[k] \notin nptr_v
      <3>1. s[k + 1] = rsv_tag_latch
        BY <2>2, <2>4
      <3>2. s[k] = rsv_pre_ptr_latch
        BY <1>4, <2>4, <2>5, <3>1
      <3> QED BY <3>2, <2>2 DEF ListInvariant, LatchValid
    <2>7. ASSUME NEW n \in 1 .. k - 1 PROVE s[n] \in nptr_v /\ nxt_ptr[s[n]] = s[n + 1]
      <3>1. n \in 1 .. Len(s) - 1 /\ n + 1 # Len(s)
        <4>1. Len(s) # 0
          BY <2>1, EmptySeq
        <4>2. Len(s) \in Nat /\ NTag \in Nat
          BY <1>1, ConstantsAssumption
        <4> QED BY <4>1, <4>2, <1>2, <2>3, BeforeLast
      <3> QED BY <3>1, <1>4
    <2> HIDE DEF k
    <2>8. Chain(s[1]) = SubSeq(s, 1, k)
      BY <2>4, <2>6, <2>7, WalkIsList
    <2>9. ListOf(j) = SubSeq(s, 1, k) \o <<rsv_tag_latch>>
      BY <1>6, <2>1, <2>8 DEF ListOf
    <2>10. SubSeq(s, 1, Len(s)) = SubSeq(s, 1, Len(s) - 1) \o <<s[Len(s)]>>
      BY <1>3, <2>1, SubSeqRecursiveSecond
    <2> QED BY <2>2, <2>9, <2>10, SubSeqFull DEF k
  <1>7. CASE j \notin head_beat_tag_valid /\ j \in RsvValidLatchForIdx
    <2>1. /\ rsv_tag_latch \in Tags /\ rsv_tag_latch \in ev /\ axi_id[rsv_tag_latch] = j
      BY <1>7 DEF RsvValidLatchForIdx, ListInvariant, LatchValid, TypeOK
    <2>2. PICK n \in 1 .. Len(s) : s[n] = rsv_tag_latch
      BY <2>1 DEF OnList
    <2>3. Len(s) <= 1
      BY <1>7 DEF OnList
    <2>4. Len(s) = 1 /\ s[1] = rsv_tag_latch
      BY <1>1, <2>2, <2>3
    <2>5. s = <<rsv_tag_latch>>
      BY <2>4
    <2>6. ListOf(j) = <<>> \o <<rsv_tag_latch>>
      BY <1>7 DEF ListOf
    <2> QED BY <2>5, <2>6
  <1>8. CASE j \notin head_beat_tag_valid /\ j \notin RsvValidLatchForIdx
    <2>1. j \notin pre_ptr_valid
      BY <1>8 DEF ListInvariant, TailsValid
    <2>2. s = <<>>
      BY <1>3, <2>1
    <2>3. ListOf(j) = <<>> \o <<>>
      BY <1>8 DEF ListOf
    <2> QED BY <2>2, <2>3
  <1> QED BY <1>5, <1>6, <1>7, <1>8

\* Every valid entry hangs in the list of its id once.
LEMMA NoneLost == TypeOK /\ ListInvariant /\ Lists => NoBeatLost
  <1> SUFFICES ASSUME TypeOK, ListInvariant, Lists, NEW j \in Ids
               PROVE  /\ TagsIn(ListOf(j)) = {t \in ev : axi_id[t] = j}
                      /\ Len(ListOf(j)) = Cardinality(TagsIn(ListOf(j)))
    BY DEF NoBeatLost
  <1>1. PICK q \in [Ids -> Seq(Tags)] : Listed(q)
    BY DEF Lists
  <1>2. q[j] \in Seq(Tags) /\ OnList(j, q[j], Len(q[j]))
    BY <1>1 DEF Listed
  <1> DEFINE s == q[j]
  <1>3. ListOf(j) = s
    BY <1>2, ListShown
  <1>4. DOMAIN s = 1 .. Len(s)
    BY <1>2
  <1>5. ev \subseteq Tags
    BY DEF TypeOK
  <1> HIDE DEF s
  <1>6. TagsIn(s) = {t \in ev : axi_id[t] = j}
    <2>1. \A t \in Tags : t \in ev /\ axi_id[t] = j <=> \E n \in 1 .. Len(s) : s[n] = t
      BY <1>2 DEF OnList, s
    <2>2. \A n \in 1 .. Len(s) : s[n] \in Tags
      <3>1. s \in Seq(Tags)
        BY <1>2 DEF s
      <3> QED BY <3>1, ElementOfSeq
    <2> QED BY <1>4, <1>5, <2>1, <2>2 DEF TagsIn
  <1>7. Cardinality(TagsIn(s)) = Len(s)
    BY <1>2, ListLength DEF OnList, s
  <1> QED BY <1>3, <1>6, <1>7

-----------------------------------------------------------------------------
(* A cycle.  Every list loses the head that moves to the ready latch and   *)
(* gains the beat that is reserved.                                        *)

\* What the lists of a cycle rest on: the entries of a list that are cleared,
\* and where the latched reservation is.
LEMMA ListEntries ==
    ASSUME TypeOK, ListInvariant, NEW rdy \in BOOLEAN, NEW j \in Ids,
           NEW s, NEW l \in Nat, \A n \in 1 .. l : s[n] \in Tags, OnList(j, s, l)
    PROVE  /\ \A n \in 1 .. l : s[n] \in ev /\ axi_id[s[n]] = j
           /\ j \in StoreRspIn(rdy) => /\ l # 0 /\ s[1] = head_beat_tag[j]
                                       /\ j \in head_beat_tag_valid
           /\ \A n \in 1 .. l : s[n] \in ClearBeatInfoEntry(rdy) <=> n = 1 /\ j \in StoreRspIn(rdy)
           /\ j \in RsvValidLatchForIdx =>
                 /\ l # 0 /\ s[l] = rsv_tag_latch
                 /\ rsv_beat_nh_latch <=> j \in head_beat_tag_valid
           /\ j \in pre_ptr_valid => l # 0
           /\ l # 0 => s[l] \notin nptr_v
  <1>1. \A n \in 1 .. l : s[n] \in ev /\ axi_id[s[n]] = j
    <2>1. \A t \in Tags : t \in ev /\ axi_id[t] = j <=> \E n \in 1 .. l : s[n] = t
      BY DEF OnList
    <2> QED BY <2>1
  <1>2. j \in StoreRspIn(rdy) => l # 0 /\ s[1] = head_beat_tag[j] /\ j \in head_beat_tag_valid
    BY DEF OnList, StoreRspIn
  <1>3. ASSUME NEW n \in 1 .. l, s[n] \in ClearBeatInfoEntry(rdy)
        PROVE  n = 1 /\ j \in StoreRspIn(rdy)
    <2>1. j \in StoreRspIn(rdy) /\ head_beat_tag[j] = s[n]
      BY <1>1, <1>3, ClearedAreHeads DEF ListInvariant
    <2>2. 1 \in 1 .. l /\ s[1] = s[n]
      BY <1>2, <2>1
    <2> QED BY <2>1, <2>2 DEF OnList
  <1>4. ASSUME j \in StoreRspIn(rdy) PROVE s[1] \in ClearBeatInfoEntry(rdy)
    BY <1>2, <1>4, ClearedAreHeads DEF ListInvariant
  <1>5. \A t \in ev : t \in Tags
    BY DEF TypeOK
  <1>6. ASSUME j \in pre_ptr_valid PROVE l # 0
    <2>1. pre_ptr[j] \in ev /\ axi_id[pre_ptr[j]] = j /\ pre_ptr[j] \in Tags
      BY <1>5, <1>6 DEF ListInvariant, TailsValid
    <2>2. \E n \in 1 .. l : s[n] = pre_ptr[j]
      BY <2>1 DEF OnList
    <2> QED BY <2>2
  <1>7. ASSUME j \in RsvValidLatchForIdx
        PROVE  l # 0 /\ s[l] = rsv_tag_latch /\ (rsv_beat_nh_latch <=> j \in head_beat_tag_valid)
    <2>1. /\ j \in pre_ptr_valid /\ pre_ptr[j] = rsv_tag_latch
          /\ rsv_beat_nh_latch <=> j \in head_beat_tag_valid
      BY <1>7 DEF RsvValidLatchForIdx, ListInvariant, LatchValid
    <2>2. l # 0
      BY <1>6, <2>1
    <2> QED BY <2>1, <2>2 DEF OnList
  <1>8. ASSUME l # 0 PROVE s[l] \notin nptr_v
    BY <1>8 DEF OnList, ListInvariant, TailsValid
  <1> QED BY <1>1, <1>2, <1>3, <1>4, <1>6, <1>7, <1>8

\* A list that keeps a beat in the cycle has a head after it, and no other has.
LEMMA ListKept ==
    ASSUME TypeOK, ListInvariant, NEW rdy \in BOOLEAN, NEW j \in Ids,
           NEW s, NEW l \in Nat, \A n \in 1 .. l : s[n] \in Tags, OnList(j, s, l)
    PROVE  j \in pre_ptr_valid \ ClearPrePtr(rdy) <=>
              l > IF j \in StoreRspIn(rdy) THEN 1 ELSE 0
  <1>1. j \in pre_ptr_valid <=> l # 0
    BY ListEntries DEF OnList
  <1>2. CASE j \notin StoreRspIn(rdy)
    <2>1. j \notin ClearPrePtr(rdy)
      BY <1>2 DEF ClearPrePtr, ClearHeadBeat
    <2> QED BY <1>1, <1>2, <2>1
  <1>3. CASE j \in StoreRspIn(rdy)
    <2>1. /\ l # 0 /\ s[1] = head_beat_tag[j] /\ j \in head_beat_tag_valid
          /\ head_beat_tag[j] \notin Latched
      BY <1>3, ListEntries DEF ListInvariant, HeadsValid
    <2>2. j \in ClearPrePtr(rdy) <=> s[1] \notin nptr_v /\ j \notin RsvValidLatchForIdx
      BY <1>3, <2>1 DEF ClearPrePtr, ClearHeadBeat
    <2>3. CASE l = 1
      <3>1. s[1] \notin nptr_v
        BY <2>3, ListEntries
      <3>2. j \notin RsvValidLatchForIdx
        <4> SUFFICES ASSUME j \in RsvValidLatchForIdx PROVE FALSE
          OBVIOUS
        <4>1. s[1] = rsv_tag_latch /\ rsv_valid_latch
          BY <2>3, ListEntries DEF RsvValidLatchForIdx
        <4> QED BY <2>1, <4>1 DEF Latched
      <3> QED BY <1>3, <2>2, <2>3, <3>1, <3>2
    <2>4. CASE l > 1
      <3>1. 1 \in 1 .. l - 1 /\ 2 \in 1 .. l /\ 1 + 1 = 2
        BY <2>4
      <3>2. \/ s[1] \in nptr_v
            \/ rsv_beat_nh_latch /\ s[2] = rsv_tag_latch
        BY <3>1 DEF OnList
      <3>3. ASSUME rsv_beat_nh_latch, s[2] = rsv_tag_latch PROVE j \in RsvValidLatchForIdx
        BY <3>1, <3>3, ListEntries DEF RsvValidLatchForIdx, ListInvariant, LatchValid
      <3>4. j \notin ClearPrePtr(rdy)
        BY <2>2, <3>2, <3>3
      <3> QED BY <1>1, <1>3, <2>1, <2>4, <3>4
    <2> QED BY <2>1, <2>3, <2>4
  <1> QED BY <1>2, <1>3

\* The list t is the list s without its first c beats, and with x behind the
\* k that stayed, if a is 1.
Shifted(s, t, k, c, a, x) ==
    /\ \A n \in 1 .. k : t[n] = s[n + c]
    /\ a = 1 => t[k + 1] = x

\* A list after a cycle: c beats left it, a joined it.
LEMMA OnListStep ==
    ASSUME TypeOK, ListInvariant,
           NEW rsv \in Reservations, NEW rsp \in Responses, NEW rdy \in BOOLEAN,
           Clock(rsv, rsp, rdy),
           NEW j \in Ids, NEW s, NEW l \in Nat, \A n \in 1 .. l : s[n] \in Tags, OnList(j, s, l),
           NEW c \in {0, 1}, c = IF j \in StoreRspIn(rdy) THEN 1 ELSE 0,
           NEW a \in {0, 1}, a = IF rsv.valid /\ rsv.id = j THEN 1 ELSE 0,
           NEW k \in Nat, l = k + c,
           NEW t, Shifted(s, t, k, c, a, rsv.tag)
    PROVE  OnList(j, t, k + a)'
  <1> /\ \A n \in 1 .. k : t[n] = s[n + c]
      /\ a = 1 => t[k + 1] = rsv.tag
    BY DEF Shifted
  <1> DEFINE clr == ClearBeatInfoEntry(rdy)
             new == Reserved(rsv)
\* The beats of the list, those that stay, and the one that comes.
  <1>1. \A n \in 1 .. l : s[n] \in ev /\ axi_id[s[n]] = j
    BY ListEntries
  <1>2. \A n \in 1 .. l : s[n] \in clr <=> n = 1 /\ c = 1
    BY ListEntries
  <1>3. ASSUME NEW n \in 1 .. k
        PROVE  /\ n + c \in 1 .. l /\ t[n] = s[n + c]
               /\ t[n] \in ev \ clr /\ axi_id[t[n]] = j
    BY <1>1, <1>2
  <1>4. a = 1 => /\ rsv.valid /\ rsv.id = j /\ t[k + 1] = rsv.tag /\ new = {rsv.tag}
                 /\ rsv.tag \in Tags /\ rsv.tag \notin ev
    BY InputTypes DEF TypeOK, ListInvariant, TagsAccounted, Reserved
  <1>5. k > 0 <=> j \in pre_ptr_valid \ ClearPrePtr(rdy)
    <2>1. j \in pre_ptr_valid \ ClearPrePtr(rdy) <=> l > c
      BY ListKept
    <2> QED BY <2>1
  <1>6. k > 0 => t[k] = s[l] /\ s[l] = pre_ptr[j]
    <2>1. k > 0 => k \in 1 .. k /\ l # 0
      OBVIOUS
    <2> QED BY <2>1, <1>3 DEF OnList
  <1>7. /\ ev' = (ev \ clr) \cup new /\ new \cap ev = {}
        /\ \A u \in ev : axi_id'[u] = axi_id[u]
        /\ nptr_v' = (nptr_v \cup ReserveNxtPtr) \ clr
        /\ \A u \in Tags : nxt_ptr'[u] = IF u \in ReserveNxtPtr THEN rsv_tag_latch ELSE nxt_ptr[u]
    BY ListStep
  <1>8. ASSUME NEW n \in 1 .. k + a
        PROVE  \/ n \in 1 .. k
               \/ n = k + 1 /\ a = 1
    OBVIOUS
  <1>9. \A m, n \in 1 .. k + a : t[m] = t[n] => m = n
    <2> SUFFICES ASSUME NEW m \in 1 .. k + a, NEW n \in 1 .. k + a, t[m] = t[n] PROVE m = n
      OBVIOUS
    <2>1. CASE m \in 1 .. k /\ n \in 1 .. k
      <3>1. m + c \in 1 .. l /\ n + c \in 1 .. l /\ s[m + c] = s[n + c]
        BY <2>1, <1>3
      <3>2. m + c = n + c
        BY <3>1 DEF OnList
      <3> QED BY <3>2
    <2>2. CASE m \in 1 .. k /\ n = k + 1 /\ a = 1
      BY <2>2, <1>3, <1>4
    <2>3. CASE n \in 1 .. k /\ m = k + 1 /\ a = 1
      BY <2>3, <1>3, <1>4
    <2>4. CASE n = k + 1 /\ m = k + 1
      BY <2>4
    <2> QED BY <1>8, <2>1, <2>2, <2>3, <2>4
  <1>10. ASSUME NEW u \in Tags
         PROVE  u \in ev' /\ axi_id'[u] = j <=> \E n \in 1 .. k + a : t[n] = u
    <2>1. ASSUME u \in ev', axi_id'[u] = j PROVE \E n \in 1 .. k + a : t[n] = u
      <3>1. CASE u \in ev \ clr
        <4>1. axi_id[u] = j
          BY <2>1, <3>1, <1>7
        <4>2. PICK m \in 1 .. l : s[m] = u
          BY <3>1, <4>1 DEF OnList
        <4>3. ~(m = 1 /\ c = 1)
          BY <3>1, <4>2, <1>2
        <4>4. m - c \in 1 .. k /\ (m - c) + c = m
          BY <4>3
        <4>5. t[m - c] = u
          BY <4>2, <4>4, <1>3
        <4>6. m - c \in 1 .. k + a
          BY <4>4
        <4> QED BY <4>5, <4>6
      <3>2. CASE u \in new
        <4>1. rsv.valid /\ u = rsv.tag
          BY <3>2 DEF Reserved
        <4>2. axi_id'[u] = rsv.id
          BY <4>1 DEF Clock, BeatInfoRsv, Reserved
        <4>3. a = 1
          BY <4>1, <4>2, <2>1
        <4>4. k + 1 \in 1 .. k + a /\ t[k + 1] = u
          BY <4>1, <4>3, <1>4
        <4> QED BY <4>4
      <3> QED BY <2>1, <3>1, <3>2, <1>7
    <2>2. ASSUME NEW n \in 1 .. k + a, t[n] = u PROVE u \in ev' /\ axi_id'[u] = j
      <3>1. CASE n \in 1 .. k
        BY <2>2, <3>1, <1>3, <1>7
      <3>2. CASE n = k + 1 /\ a = 1
        <4>1. u = rsv.tag /\ u \in new /\ rsv.id = j
          BY <2>2, <3>2, <1>4
        <4>2. axi_id'[u] = rsv.id
          BY <4>1 DEF Clock, BeatInfoRsv
        <4> QED BY <4>1, <4>2, <1>7
      <3> QED BY <1>8, <3>1, <3>2
    <2> QED BY <2>1, <2>2
\* The links.
  <1>11. ASSUME NEW n \in 1 .. (k + a) - 1
         PROVE  \/ t[n] \in nptr_v' /\ nxt_ptr'[t[n]] = t[n + 1]
                \/ /\ rsv_beat_nh_latch' /\ n + 1 = k + a
                   /\ t[n] = rsv_pre_ptr_latch' /\ t[n + 1] = rsv_tag_latch'
    <2>1. CASE n \in 1 .. k - 1
      <3>1. /\ n \in 1 .. k /\ n + 1 \in 1 .. k /\ n + c \in 1 .. l - 1
            /\ (n + 1) + c = (n + c) + 1
        BY <2>1
      <3>2. t[n] = s[n + c] /\ t[n + 1] = s[(n + c) + 1] /\ t[n] \in ev \ clr /\ t[n] \in Tags
        BY <3>1, <1>3 DEF TypeOK
      <3>3. CASE t[n] \in nptr_v /\ nxt_ptr[t[n]] = t[n + 1]
        <4>1. t[n] \notin ReserveNxtPtr
          BY <3>3 DEF ReserveNxtPtr, ListInvariant, LatchValid
        <4> QED BY <4>1, <3>2, <3>3, <1>7
      <3>4. CASE rsv_beat_nh_latch /\ t[n] = rsv_pre_ptr_latch /\ t[n + 1] = rsv_tag_latch
        <4>1. t[n] \in ReserveNxtPtr
          BY <3>4 DEF ReserveNxtPtr
        <4> QED BY <4>1, <3>2, <3>4, <1>7
      <3>5. \A i \in 1 .. l - 1 :
               \/ s[i] \in nptr_v /\ nxt_ptr[s[i]] = s[i + 1]
               \/ rsv_beat_nh_latch /\ s[i] = rsv_pre_ptr_latch /\ s[i + 1] = rsv_tag_latch
        BY DEF OnList
      <3> QED BY <3>1, <3>2, <3>3, <3>4, <3>5
    <2>2. CASE n = k /\ a = 1
      <3>1. k > 0 /\ t[k] = pre_ptr[j] /\ n + 1 = k + a
        BY <2>2, <1>6
      <3>2. rsv.valid /\ rsv.id = j /\ t[k + 1] = rsv.tag
        BY <2>2, <1>4
      <3>3. rsv_pre_ptr_latch' = pre_ptr[j] /\ rsv_tag_latch' = rsv.tag
        BY <3>2 DEF Clock, RsvLatch
      <3>4. rsv_beat_nh_latch'
        BY <3>1, <3>2, <1>5 DEF Clock, RsvLatch
      <3> QED BY <2>2, <3>1, <3>2, <3>3, <3>4
    <2>3. n \in 1 .. k - 1 \/ (n = k /\ a = 1)
      OBVIOUS
    <2> QED BY <2>1, <2>2, <2>3
\* The tail.
  <1>12. k + a # 0 => j \in pre_ptr_valid' /\ t[k + a] = pre_ptr'[j]
    <2>1. CASE a = 1
      <3>1. rsv.valid /\ rsv.id = j /\ t[k + a] = rsv.tag
        BY <2>1, <1>4
      <3>2. j \in pre_ptr_valid' /\ pre_ptr'[j] = rsv.tag
        BY <3>1 DEF Clock, PrePtr, Bits
      <3> QED BY <3>1, <3>2
    <2>2. CASE a = 0
      <3>1. ~(rsv.valid /\ rsv.id = j)
        BY <2>2
      <3>2. pre_ptr'[j] = pre_ptr[j]
        BY <3>1 DEF Clock, PrePtr
      <3>3. j \in pre_ptr_valid \ ClearPrePtr(rdy) => j \in pre_ptr_valid'
        BY DEF Clock, PrePtr, Bits
      <3>4. k + a = k /\ (k # 0 => k > 0)
        BY <2>2
      <3> QED BY <3>2, <3>3, <3>4, <1>5, <1>6
    <2> QED BY <2>1, <2>2
\* The head.
  <1>13. j \in head_beat_tag_valid' <=> k > 0
    BY <1>5, PreStep
  <1>14. ASSUME k > 0 PROVE t[1] = head_beat_tag'[j]
    <2>1. 1 \in 1 .. k /\ t[1] = s[1 + c]
      BY <1>14, <1>3
    <2>2. CASE j \in ReserveNewHeadBeat(rdy)
      <3>1. /\ j \in RsvValidLatchForIdx /\ l # 0 /\ s[l] = rsv_tag_latch
            /\ rsv_beat_nh_latch <=> j \in head_beat_tag_valid
        BY <2>2, ListEntries DEF ReserveNewHeadBeat
      <3>2. head_beat_tag'[j] = rsv_tag_latch
        BY <2>2, ListStep
      <3>3. CASE ~rsv_beat_nh_latch
        <4>1. l <= 1 /\ j \notin StoreRspIn(rdy)
          BY <3>1, <3>3 DEF OnList, StoreRspIn
        <4>2. c = 0 /\ l = 1 /\ 1 + c = l
          BY <3>1, <4>1
        <4> QED BY <2>1, <3>1, <3>2, <4>2
      <3>4. CASE rsv_beat_nh_latch
        <4>1. j \in ClearHeadBeat(rdy)
          BY <2>2, <3>4 DEF ReserveNewHeadBeat
        <4>2. c = 1 /\ s[1] \notin nptr_v
          BY <4>1, ListEntries DEF ClearHeadBeat
        <4>3. 1 \in 1 .. l - 1 /\ 1 + 1 = 1 + c
          BY <1>14, <4>2
        <4>4. s[1 + 1] = rsv_tag_latch
          BY <4>2, <4>3 DEF OnList
        <4> QED BY <2>1, <3>2, <4>3, <4>4
      <3> QED BY <3>3, <3>4
    <2>3. CASE j \in UpdateHeadBeat(rdy) \ ReserveNewHeadBeat(rdy)
      <3>1. /\ head_beat_tag'[j] = nxt_ptr[head_beat_tag[j]]
            /\ j \in StoreRspIn(rdy) /\ head_beat_tag[j] \in nptr_v
        BY <2>3, ListStep DEF UpdateHeadBeat
      <3>2. c = 1 /\ s[1] = head_beat_tag[j]
        BY <3>1, ListEntries
      <3>3. 1 \in 1 .. l - 1 /\ 1 + 1 = 1 + c
        BY <1>14, <3>2
      <3>4. ~(rsv_beat_nh_latch /\ s[1] = rsv_pre_ptr_latch)
        BY <3>1, <3>2 DEF ListInvariant, LatchValid
      <3>5. nxt_ptr[s[1]] = s[1 + 1]
        BY <3>3, <3>4 DEF OnList
      <3> QED BY <2>1, <3>1, <3>2, <3>3, <3>5
    <2>4. CASE j \notin UpdateHeadBeat(rdy) \cup ReserveNewHeadBeat(rdy)
      <3>1. head_beat_tag'[j] = head_beat_tag[j]
        BY <2>4, ListStep
      <3>2. j \in head_beat_tag_valid /\ j \notin ClearHeadBeat(rdy)
        BY <1>13, <1>14, <2>4, ListStep
      <3>3. c = 0
        BY <3>2, <2>4 DEF UpdateHeadBeat, ClearHeadBeat
      <3>4. s[1] = head_beat_tag[j]
        BY <3>2 DEF OnList
      <3> QED BY <2>1, <3>1, <3>3, <3>4
    <2> QED BY <2>2, <2>3, <2>4
  <1>15. IF j \in head_beat_tag_valid' THEN k + a # 0 /\ t[1] = head_beat_tag'[j]
                                       ELSE k + a <= 1
    <2>1. k > 0 => k + a # 0
      OBVIOUS
    <2>2. ~(k > 0) => k + a <= 1
      OBVIOUS
    <2> QED BY <2>1, <2>2, <1>13, <1>14
  <1> HIDE DEF clr, new
  <1> QED BY <1>9, <1>10, <1>11, <1>12, <1>15 DEF OnList

\* The list s without its head if drop, and with u if app.
NextList(s, drop, app, u) ==
    (IF drop THEN Tail(s) ELSE s) \o (IF app THEN <<u>> ELSE <<>>)

One(b) == IF b THEN 1 ELSE 0

\* Where the beats of the new list come from: k of them were in the old one.
Moved(s, drop, app, u, t, k) ==
    /\ Len(s) = k + One(drop) /\ Len(t) = k + One(app)
    /\ \A n \in 1 .. k : t[n] = s[n + One(drop)]
    /\ app => t[k + 1] = u

LEMMA NextListFacts ==
    ASSUME NEW s \in Seq(Tags), NEW drop \in BOOLEAN, drop => Len(s) # 0,
           NEW app \in BOOLEAN, NEW u, app => u \in Tags
    PROVE  /\ NextList(s, drop, app, u) \in Seq(Tags)
           /\ \E k \in Nat : Moved(s, drop, app, u, NextList(s, drop, app, u), k)
  <1> DEFINE kept == IF drop THEN Tail(s) ELSE s
             tail == IF app THEN <<u>> ELSE <<>>
  <1>1. /\ kept \in Seq(Tags) /\ Len(kept) \in Nat /\ Len(s) = Len(kept) + One(drop)
        /\ \A n \in 1 .. Len(kept) : kept[n] = s[n + One(drop)]
    <2>1. CASE drop
      <3>1. s # <<>> /\ Len(s) \in Nat
        BY <2>1
      <3>2. /\ Tail(s) \in Seq(Tags) /\ Len(Tail(s)) = Len(s) - 1
            /\ \A i \in 1 .. Len(Tail(s)) : Tail(s)[i] = s[i + 1]
        BY <3>1, HeadTailProperties
      <3>3. \A l \in Nat, k \in Nat : k = l - 1 => l = k + 1
        OBVIOUS
      <3>4. Len(Tail(s)) \in Nat
        BY <3>2, LenProperties
      <3>5. Len(s) = Len(Tail(s)) + 1
        BY <3>1, <3>2, <3>3, <3>4
      <3> QED BY <2>1, <3>2, <3>4, <3>5 DEF One
    <2>2. CASE ~drop
      <3>1. Len(s) \in Nat
        BY LenProperties
      <3>2. \A l \in Nat : l + 0 = l
        OBVIOUS
      <3>3. \A n \in 1 .. Len(s) : n + 0 = n
        OBVIOUS
      <3> QED BY <2>2, <3>1, <3>2, <3>3 DEF One
    <2> QED BY <2>1, <2>2
  <1>2. /\ tail \in Seq(Tags) /\ Len(tail) = One(app) /\ (app => tail[1] = u)
    <2>1. CASE app
      BY <2>1 DEF One
    <2>2. CASE ~app
      BY <2>2 DEF One
    <2> QED BY <2>1, <2>2
  <1>3. NextList(s, drop, app, u) = kept \o tail
    BY DEF NextList
  <1> DEFINE t == NextList(s, drop, app, u)
             k == Len(kept)
  <1> HIDE DEF kept, tail
  <1>4. /\ t \in Seq(Tags) /\ Len(t) = k + One(app)
        /\ \A i \in 1 .. k + One(app) : t[i] = IF i <= k THEN kept[i] ELSE tail[i - k]
    <2>1. /\ kept \o tail \in Seq(Tags)
          /\ Len(kept \o tail) = Len(kept) + Len(tail)
          /\ \A i \in 1 .. Len(kept) + Len(tail) :
                (kept \o tail)[i] = IF i <= Len(kept) THEN kept[i] ELSE tail[i - Len(kept)]
      BY <1>1, <1>2, ConcatProperties
    <2>2. Len(tail) = One(app)
      BY <1>2
    <2> QED BY <2>1, <2>2, <1>3, Zenon
  <1>5. One(app) \in {0, 1} /\ (app => One(app) = 1)
    BY DEF One
  <1> HIDE DEF k, t
  <1>6. k \in Nat /\ \A n \in 1 .. k : kept[n] = s[n + One(drop)]
    BY <1>1 DEF k
  <1>7. \A n \in 1 .. k : t[n] = s[n + One(drop)]
    <2> SUFFICES ASSUME NEW n \in 1 .. k PROVE t[n] = s[n + One(drop)]
      OBVIOUS
    <2>1. n \in 1 .. k + One(app) /\ n <= k
      BY <1>5, <1>6
    <2> QED BY <2>1, <1>4, <1>6
  <1>8. ASSUME app PROVE t[k + 1] = u
    <2>2. One(app) = 1 /\ k \in Nat
      BY <1>5, <1>6, <1>8
    <2>3. \A i \in Nat : i + 1 \in 1 .. i + 1 /\ ~(i + 1 <= i) /\ (i + 1) - i = 1
      OBVIOUS
    <2>1. k + 1 \in 1 .. k + One(app) /\ ~(k + 1 <= k) /\ (k + 1) - k = 1
      BY <2>2, <2>3
    <2> QED BY <2>1, <1>2, <1>4, <1>8
  <1>9. Moved(s, drop, app, u, t, k)
    BY <1>1, <1>4, <1>7, <1>8 DEF Moved, k
  <1> QED BY <1>4, <1>6, <1>9 DEF t

\* The lists after a cycle.
NextLists(q, rsv, rdy) ==
    [j \in Ids |-> NextList(q[j], j \in StoreRspIn(rdy), rsv.valid /\ rsv.id = j, rsv.tag)]

LEMMA NextListsFacts ==
    ASSUME TypeOK, ListInvariant, NEW q \in [Ids -> Seq(Tags)], Listed(q),
           NEW rsv \in Reservations, NEW rsp \in Responses, NEW rdy \in BOOLEAN,
           NEW r, r = NextLists(q, rsv, rdy), NEW j \in Ids
    PROVE  /\ q[j] \in Seq(Tags) /\ r[j] \in Seq(Tags)
           /\ \E k \in Nat : Moved(q[j], j \in StoreRspIn(rdy), rsv.valid /\ rsv.id = j,
                                   rsv.tag, r[j], k)
  <1> DEFINE drop == j \in StoreRspIn(rdy)
             app == rsv.valid /\ rsv.id = j
  <1>1. q[j] \in Seq(Tags) /\ Len(q[j]) \in Nat
    <2>1. q[j] \in Seq(Tags)
      OBVIOUS
    <2> QED BY <2>1, LenProperties
  <1>2. OnList(j, q[j], Len(q[j]))
    BY DEF Listed
  <1>3. drop => Len(q[j]) # 0
    BY <1>2 DEF OnList, StoreRspIn
  <1>4. drop \in BOOLEAN /\ app \in BOOLEAN /\ (app => rsv.tag \in Tags)
    <2>1. rsv.valid \in BOOLEAN /\ (rsv.valid => rsv.tag \in pool)
      BY InputTypes
    <2>2. pool \subseteq Tags
      BY DEF TypeOK
    <2>3. drop \in BOOLEAN /\ app \in BOOLEAN
      BY <2>1
    <2> QED BY <2>1, <2>2, <2>3
  <1>5. r[j] = NextList(q[j], drop, app, rsv.tag)
    BY DEF NextLists
  <1> HIDE DEF drop, app
  <1>6. /\ NextList(q[j], drop, app, rsv.tag) \in Seq(Tags)
        /\ \E k \in Nat : Moved(q[j], drop, app, rsv.tag, NextList(q[j], drop, app, rsv.tag), k)
    BY <1>1, <1>3, <1>4, NextListFacts
  <1> QED BY <1>1, <1>5, <1>6 DEF drop, app

LEMMA ListedStep ==
    ASSUME TypeOK, ListInvariant, NEW q \in [Ids -> Seq(Tags)], Listed(q),
           NEW rsv \in Reservations, NEW rsp \in Responses, NEW rdy \in BOOLEAN,
           Clock(rsv, rsp, rdy),
           NEW r, r = NextLists(q, rsv, rdy)
    PROVE  r \in [Ids -> Seq(Tags)] /\ Listed(r)'
  <1>1. r \in [Ids -> Seq(Tags)]
    BY NextListsFacts DEF NextLists
  <1>2. ASSUME NEW j \in Ids PROVE OnList(j, r[j], Len(r[j]))'
    <2> DEFINE drop == j \in StoreRspIn(rdy)
               app == rsv.valid /\ rsv.id = j
               s == q[j]
    <2>1. PICK k \in Nat : Moved(q[j], drop, app, rsv.tag, r[j], k)
      BY NextListsFacts
    <2>2. s \in Seq(Tags) /\ Len(s) \in Nat
      <3>1. q[j] \in Seq(Tags)
        OBVIOUS
      <3> QED BY <3>1, LenProperties
    <2>3. \A n \in 1 .. Len(s) : s[n] \in Tags
      BY <2>2, ElementOfSeq
    <2>4. OnList(j, s, Len(s))
      BY DEF Listed
    <2>5. PICK l \in Nat, c \in {0, 1}, a \in {0, 1}, t \in Seq(Tags) :
             l = Len(s) /\ c = One(drop) /\ a = One(app) /\ t = r[j]
      <3>1. r[j] \in Seq(Tags)
        BY <1>1
      <3> QED BY <2>2, <3>1 DEF One
    <2>6. /\ c = IF j \in StoreRspIn(rdy) THEN 1 ELSE 0
          /\ a = IF rsv.valid /\ rsv.id = j THEN 1 ELSE 0
      BY <2>5 DEF One
    <2>7. l = k + c /\ Len(t) = k + a /\ Shifted(s, t, k, c, a, rsv.tag)
      BY <2>1, <2>5, <2>6 DEF Moved, Shifted
    <2>8. OnList(j, s, l) /\ \A n \in 1 .. l : s[n] \in Tags
      BY <2>3, <2>4, <2>5
    <2> HIDE DEF s, drop, app
    <2>9. OnList(j, t, k + a)'
      BY <2>6, <2>7, <2>8, OnListStep
    <2>10. r[j] = t /\ Len(r[j]) = k + a
      BY <2>5, <2>7
    <2> QED BY <2>9, <2>10
  <1>3. Listed(r)'
    BY <1>2 DEF Listed
  <1> QED BY <1>1, <1>3

\* The answers of a cycle: none comes for a beat that leaves its list.
LEMMA ErrorsStep ==
    ASSUME TypeOK, ListInvariant, rc \subseteq ev,
           NEW rsv \in Reservations, NEW rsp \in Responses, NEW rdy \in BOOLEAN,
           Clock(rsv, rsp, rdy)
    PROVE  /\ rc' \subseteq ev'
           /\ rsv.valid => rsv.tag \notin rc'
           /\ \A t \in ClearBeatInfoEntry(rdy) : rv[t] = Pos
           /\ \A t \in ev \ ClearBeatInfoEntry(rdy) :
                 /\ rv'[t] = rv[t] \cup RspPos(t, rsp)
                 /\ t \in rc' <=> t \in rc \/ t \in Bad(rsp)
                 /\ t \in last' <=> t \in last
                 /\ t \in Answered(rsp) => ~(RspPos(t, rsp) \subseteq rv[t])
  <1> DEFINE clr == ClearBeatInfoEntry(rdy)
  <1>1. ASSUME rsp.valid
        PROVE  /\ rsp.tag \in ev /\ rsp.pos # {} /\ rsp.pos \cap rv[rsp.tag] = {}
               /\ rsp.pos \subseteq Pos
    <2>1. rsp # NoRsp
      BY <1>1 DEF NoRsp
    <2>2. rsp \in {r \in [valid: {TRUE}, tag: ev, pos: (SUBSET Pos) \ {{}}, bad: RspBad] :
                      r.pos \cap rv[r.tag] = {}}
      BY <2>1 DEF Responses
    <2> QED BY <2>2
  <1>2. \A t \in clr : rv[t] = Pos
    BY DEF ClearBeatInfoEntry, CurrentEntryRspRdy
  <1>3. Answered(rsp) \subseteq ev \ clr
    BY <1>1, <1>2 DEF Answered
  <1>4. Reserved(rsv) \cap ev = {} /\ ev' = (ev \ clr) \cup Reserved(rsv)
    BY ListStep
  <1>5. rc' = (rc \ (clr \ Answered(rsp))) \cup Bad(rsp)
    BY DEF Clock, BeatInfoRsp
  <1>6. Bad(rsp) \subseteq Answered(rsp)
    BY DEF Bad
  <1>7. rc' \subseteq ev \ clr
    BY <1>3, <1>5, <1>6
  <1>8. rsv.valid => rsv.tag \notin rc'
    BY <1>4, <1>7 DEF Reserved
  <1>9. ASSUME NEW t \in ev \ clr
        PROVE  /\ rv'[t] = rv[t] \cup RspPos(t, rsp)
               /\ t \in rc' <=> t \in rc \/ t \in Bad(rsp)
               /\ t \in last' <=> t \in last
               /\ t \in Answered(rsp) => ~(RspPos(t, rsp) \subseteq rv[t])
    <2>1. t \in Tags /\ t \notin Reserved(rsv)
      BY <1>4 DEF TypeOK
    <2>2. rv'[t] = rv[t] \cup RspPos(t, rsp)
      BY <2>1 DEF Clock, BeatInfoRsp
    <2>3. t \in last' <=> t \in last
      BY <2>1 DEF Clock, BeatInfoRsv
    <2>4. t \in Answered(rsp) => ~(RspPos(t, rsp) \subseteq rv[t])
      BY <1>1 DEF RspPos, Answered
    <2>5. t \in rc' <=> t \in rc \/ t \in Bad(rsp)
      BY <1>5
    <2> QED BY <2>2, <2>3, <2>4, <2>5
  <1> QED BY <1>2, <1>4, <1>7, <1>8, <1>9

-----------------------------------------------------------------------------
LEMMA ListsStart == Init => Lists
  <1> SUFFICES ASSUME Init PROVE Lists
    OBVIOUS
  <1> DEFINE q == [j \in Ids |-> <<>>]
  <1>1. q \in [Ids -> Seq(Tags)]
    OBVIOUS
  <1>2. ASSUME NEW j \in Ids PROVE OnList(j, q[j], Len(q[j]))
    <2>1. Len(q[j]) = 0
      OBVIOUS
    <2>2. PICK l \in Nat : l = 0
      OBVIOUS
    <2>3. /\ \A n \in 1 .. l : FALSE
          /\ \A n \in 1 .. l - 1 : FALSE
      BY <2>2
    <2>4. ev = {} /\ head_beat_tag_valid = {}
      BY DEF Init
    <2> HIDE DEF q
    <2>5. OnList(j, q[j], l)
      BY <2>2, <2>3, <2>4 DEF OnList
    <2> QED BY <2>1, <2>2, <2>5
  <1>3. rc = {}
    BY DEF Init
  <1> HIDE DEF q
  <1>4. Listed(q)
    BY <1>2 DEF Listed
  <1> QED BY <1>1, <1>3, <1>4 DEF Lists

LEMMA ListsStep == TypeOK /\ ListInvariant /\ Lists /\ [Next]_vars => Lists'
  <1> SUFFICES ASSUME TypeOK, ListInvariant, Lists, [Next]_vars PROVE Lists'
    OBVIOUS
  <1>1. PICK q \in [Ids -> Seq(Tags)] : Listed(q)
    BY DEF Lists
  <1>2. CASE Next
    <2>1. PICK rsv \in Reservations, rsp \in Responses, rdy \in BOOLEAN : Clock(rsv, rsp, rdy)
      BY <1>2 DEF Next
    <2>2. PICK r : r = NextLists(q, rsv, rdy)
      OBVIOUS
    <2>3. r \in [Ids -> Seq(Tags)] /\ Listed(r)'
      BY <1>1, <2>1, <2>2, ListedStep
    <2>4. rc' \subseteq ev'
      BY <2>1, ErrorsStep DEF Lists
    <2> QED BY <2>3, <2>4 DEF Lists
  <1>3. CASE UNCHANGED vars
    <2>3. /\ ev' = ev /\ axi_id' = axi_id /\ nptr_v' = nptr_v /\ nxt_ptr' = nxt_ptr
          /\ rsv_beat_nh_latch' = rsv_beat_nh_latch /\ rsv_pre_ptr_latch' = rsv_pre_ptr_latch
          /\ rsv_tag_latch' = rsv_tag_latch
          /\ pre_ptr_valid' = pre_ptr_valid /\ pre_ptr' = pre_ptr
          /\ head_beat_tag_valid' = head_beat_tag_valid /\ head_beat_tag' = head_beat_tag
      BY <1>3 DEF vars, beatVars, preVars, rsvVars, headVars
    <2>4. ASSUME NEW j, NEW s, NEW l, OnList(j, s, l) PROVE OnList(j, s, l)'
      BY <2>3, <2>4, Zenon DEF OnList
    <2>1. Listed(q)'
      BY <1>1, <2>4 DEF Listed
    <2>2. rc' \subseteq ev'
      BY <1>3 DEF vars, beatVars, Lists
    <2> QED BY <1>1, <2>1, <2>2 DEF Lists
  <1> QED BY <1>2, <1>3

\* For each id there is a sequence of tags its list goes through, in every
\* reachable state.
THEOREM ListsHold == Spec => []Lists
  <1> QED BY ListsStart, ListsStep, TypeCorrect, ListsIntact, PTL DEF Spec

\* No beat is lost to a pointer that is overwritten or cleared under a
\* reservation, and none is linked twice: each valid entry is reached from the
\* head of its id, once.
THEOREM NoBeatIsLost == Spec => []NoBeatLost
  <1> QED BY NoneLost, ListsHold, TypeCorrect, ListsIntact, PTL

-----------------------------------------------------------------------------
(* The refinement.                                                         *)

Beats == [tag: Tags, owed: SUBSET Pos, bad: BOOLEAN, last: BOOLEAN]

\* The queue of id j, when its list is s: the ready latch, then the list.
QueueIs(j, s) ==
    /\ Queue[j] \in Seq(Beats)
    /\ Len(Queue[j]) = One(j \in rdy_to_rsp_valid) + Len(s)
    /\ j \in rdy_to_rsp_valid => Queue[j][1] = RdyBeat(j)
    /\ \A n \in 1 .. Len(s) : Queue[j][n + One(j \in rdy_to_rsp_valid)] = Beat(s[n])

LEMMA BeatTypes ==
    ASSUME TypeOK
    PROVE  /\ \A t \in Tags : Beat(t) \in Beats
           /\ \A j \in Ids : RdyBeat(j) \in Beats
  <1>1. ASSUME NEW t \in Tags PROVE Beat(t) \in Beats
    <2>1. Pos \ rv[t] \subseteq Pos /\ (t \in rc) \in BOOLEAN /\ (t \in last) \in BOOLEAN
      OBVIOUS
    <2> QED BY <2>1 DEF Beat, Beats
  <1>2. ASSUME NEW j \in Ids PROVE RdyBeat(j) \in Beats
    <2>1. rdy_to_rsp_tag[j] \in Tags /\ (j \in rdy_to_rsp_rc) \in BOOLEAN
          /\ (j \in rdy_to_rsp_last) \in BOOLEAN
      BY DEF TypeOK
    <2> QED BY <2>1 DEF RdyBeat, Beats
  <1> QED BY <1>1, <1>2

LEMMA QueueShown ==
    \A j \in Ids, s \in Seq(Tags) :
        TypeOK /\ ListInvariant /\ OnList(j, s, Len(s)) => QueueIs(j, s)
  <1> SUFFICES ASSUME NEW j \in Ids, NEW s \in Seq(Tags), TypeOK, ListInvariant,
                      OnList(j, s, Len(s))
               PROVE  QueueIs(j, s)
    OBVIOUS
  <1> DEFINE first == IF j \in rdy_to_rsp_valid THEN <<RdyBeat(j)>> ELSE <<>>
             rest == [n \in DOMAIN s |-> Beat(s[n])]
  <1>1. ListOf(j) = s
    BY ListShown
  <1>2. Queue[j] = first \o rest
    BY <1>1 DEF Queue
  <1>3. /\ first \in Seq(Beats) /\ Len(first) = One(j \in rdy_to_rsp_valid)
        /\ j \in rdy_to_rsp_valid => first[1] = RdyBeat(j)
    <2>1. CASE j \in rdy_to_rsp_valid
      <3>1. RdyBeat(j) \in Beats
        BY BeatTypes
      <3> QED BY <2>1, <3>1 DEF One
    <2>2. CASE j \notin rdy_to_rsp_valid
      BY <2>2 DEF One
    <2> QED BY <2>1, <2>2
  <1>4. DOMAIN s = 1 .. Len(s) /\ Len(s) \in Nat /\ \A n \in 1 .. Len(s) : s[n] \in Tags
    BY LenProperties
  <1>5. \A n \in 1 .. Len(s) : Beat(s[n]) \in Beats
    BY <1>4, BeatTypes
  <1>6. rest = [n \in 1 .. Len(s) |-> Beat(s[n])]
    BY <1>4
  <1>7. rest \in [1 .. Len(s) -> Beats]
    BY <1>5, <1>6
  <1>8. /\ rest \in Seq(Beats) /\ Len(rest) = Len(s)
        /\ \A n \in 1 .. Len(s) : rest[n] = Beat(s[n])
    <2> HIDE DEF rest
    <2>1. PICK l \in Nat : l = Len(s)
      BY <1>4
    <2>2. rest \in [1 .. l -> Beats]
      BY <1>7, <2>1
    <2>3. rest \in Seq(Beats)
      BY <2>2, SeqDef
    <2>4. DOMAIN rest = 1 .. l /\ DOMAIN rest = 1 .. Len(rest) /\ Len(rest) \in Nat
      BY <2>2, <2>3, LenProperties
    <2>5. \A a, b \in Nat : 1 .. a = 1 .. b => a = b
      <3> SUFFICES ASSUME NEW a \in Nat, NEW b \in Nat, 1 .. a = 1 .. b PROVE a = b
        OBVIOUS
      <3>1. (a > 0 => a \in 1 .. b) /\ (b > 0 => b \in 1 .. a)
        OBVIOUS
      <3> QED BY <3>1
    <2>6. Len(rest) = Len(s)
      BY <2>1, <2>4, <2>5
    <2> QED BY <2>3, <2>6, <1>6
  <1> HIDE DEF first, rest
  <1>9. /\ first \o rest \in Seq(Beats)
        /\ Len(first \o rest) = Len(first) + Len(rest)
        /\ \A i \in 1 .. Len(first) + Len(rest) :
              (first \o rest)[i] = IF i <= Len(first) THEN first[i] ELSE rest[i - Len(first)]
    <2>1. first \in Seq(Beats) /\ rest \in Seq(Beats)
      BY <1>3, <1>8
    <2> QED BY <2>1, ConcatProperties
  <1>10. One(j \in rdy_to_rsp_valid) \in {0, 1} /\ (j \in rdy_to_rsp_valid => One(j \in rdy_to_rsp_valid) = 1)
    BY DEF One
  <1> DEFINE z == One(j \in rdy_to_rsp_valid)
  <1>11. /\ Len(Queue[j]) = z + Len(s) /\ Queue[j] \in Seq(Beats)
         /\ \A i \in 1 .. z + Len(s) : Queue[j][i] = IF i <= z THEN first[i] ELSE rest[i - z]
    <2>1. Len(first) = z /\ Len(rest) = Len(s)
      BY <1>3, <1>8
    <2> QED BY <1>2, <1>9, <2>1, Zenon
  <1> HIDE DEF z
  <1>12. \A l \in Nat : \A i \in 1 .. l : /\ i + 1 \in 1 .. 1 + l /\ ~(i + 1 <= 1) /\ (i + 1) - 1 = i
                                         /\ i + 0 \in 1 .. 0 + l /\ ~(i + 0 <= 0) /\ (i + 0) - 0 = i
                                         /\ 1 \in 1 .. 1 + l
    OBVIOUS
  <1>13. \A n \in 1 .. Len(s) : Queue[j][n + z] = Beat(s[n])
    <2> SUFFICES ASSUME NEW n \in 1 .. Len(s) PROVE Queue[j][n + z] = Beat(s[n])
      OBVIOUS
    <2>1. z \in {0, 1}
      BY <1>10 DEF z
    <2>2. n + z \in 1 .. z + Len(s) /\ ~(n + z <= z) /\ (n + z) - z = n
      BY <1>4, <1>12, <2>1
    <2>3. Queue[j][n + z] = rest[n]
      BY <1>11, <2>2
    <2> QED BY <1>8, <2>3
  <1>14. j \in rdy_to_rsp_valid => Queue[j][1] = RdyBeat(j)
    <2> SUFFICES ASSUME j \in rdy_to_rsp_valid PROVE Queue[j][1] = RdyBeat(j)
      OBVIOUS
    <2>1. z = 1
      BY <1>10 DEF z
    <2>2. \A l \in Nat : 1 \in 1 .. 1 + l /\ 1 <= 1
      OBVIOUS
    <2>3. Queue[j][1] = first[1]
      BY <1>4, <1>11, <2>1, <2>2
    <2> QED BY <1>3, <2>3
  <1> QED BY <1>11, <1>13, <1>14 DEF QueueIs, z

LEMMA QueueShownNext ==
    \A j \in Ids, s \in Seq(Tags) :
        TypeOK' /\ ListInvariant' /\ OnList(j, s, Len(s))' => QueueIs(j, s)'
  <1>1. (\A j \in Ids, s \in Seq(Tags) :
            TypeOK /\ ListInvariant /\ OnList(j, s, Len(s)) => QueueIs(j, s))'
    BY QueueShown, PTL
  <1> QED BY <1>1

\* A queue in numbers: z beats in its ready latch, w of them loaded into the
\* output latch, c stored into the ready latch from the list, a reserved;
\* k beats of the list stay where they are, z1 are in the ready latch after it.
Counted(old, new, held, z, w, c, a, z1, k) ==
    /\ w = 1 => z = 1
    /\ c = 1 => z = w
    /\ z1 = (z - w) + c
    /\ Len(old) = z + (k + c)
    /\ Len(new) = z1 + (k + a)
    /\ z = 1 /\ w = 0 => Abs!Answered(old[1], new[1])
    /\ c = 1 => Abs!Answered(old[1 + z], new[1])
    /\ \A n \in 1 .. k : Abs!Answered(old[(n + c) + z], new[n + z1])
    /\ a = 1 => new[(k + 1) + z1].tag \notin held /\ ~new[(k + 1) + z1].bad

LEMMA QueueStepFacts ==
    ASSUME NEW old \in Seq(Beats), NEW new \in Seq(Beats), NEW held,
           NEW z \in {0, 1}, NEW w \in {0, 1}, NEW c \in {0, 1}, NEW a \in {0, 1},
           NEW z1 \in {0, 1}, NEW k \in Nat,
           Counted(old, new, held, z, w, c, a, z1, k)
    PROVE  Abs!QueueStep(old, new, w = 1, held)
  <1> /\ w = 1 => z = 1
      /\ c = 1 => z = w
      /\ z1 = (z - w) + c
      /\ Len(old) = z + (k + c)
      /\ Len(new) = z1 + (k + a)
      /\ z = 1 /\ w = 0 => Abs!Answered(old[1], new[1])
      /\ c = 1 => Abs!Answered(old[1 + z], new[1])
      /\ \A n \in 1 .. k : Abs!Answered(old[(n + c) + z], new[n + z1])
      /\ a = 1 => new[(k + 1) + z1].tag \notin held /\ ~new[(k + 1) + z1].bad
    BY DEF Counted
  <1> DEFINE kept == IF w = 1 THEN Tail(old) ELSE old
             m == z1 + k
  <1>1. /\ m \in Nat /\ z + (k + c) = m + w /\ z1 + (k + a) = m + a /\ (k + 1) + z1 = m + 1
    OBVIOUS
  <1>2. DOMAIN kept = 1 .. m /\ Len(kept) = m /\ \A n \in 1 .. m : kept[n] = old[n + w]
    <2>1. CASE w = 1
      <3>1. Len(old) = m + 1
        BY <1>1, <2>1
      <3>2. old # <<>>
        <4>1. m + 1 # 0
          BY <1>1
        <4> QED BY <3>1, <4>1, EmptySeq
      <3>3. /\ Tail(old) \in Seq(Beats) /\ Len(Tail(old)) = Len(old) - 1
            /\ \A i \in 1 .. Len(Tail(old)) : Tail(old)[i] = old[i + 1]
        BY <3>2, HeadTailProperties
      <3>4. \A i \in Nat : (i + 1) - 1 = i
        OBVIOUS
      <3> HIDE DEF m
      <3>5. Len(Tail(old)) = m
        BY <1>1, <3>1, <3>3, <3>4
      <3>6. DOMAIN Tail(old) = 1 .. m
        BY <3>3, <3>5, LenProperties
      <3> QED BY <2>1, <3>3, <3>5, <3>6
    <2>2. CASE w = 0
      <3>1. Len(old) = m + 0
        BY <1>1, <2>2
      <3>2. m + 0 = m /\ \A n \in 1 .. m : n + 0 = n
        BY <1>1
      <3> HIDE DEF m
      <3>3. DOMAIN old = 1 .. Len(old)
        BY LenProperties
      <3> QED BY <2>2, <3>1, <3>2, <3>3
    <2> QED BY <2>1, <2>2
  <1>3. Len(new) = m + a /\ \A i \in Nat : i + 0 = i /\ ~(i > i)
    BY <1>1
  <1>4. Len(new) \in {m, m + 1}
    BY <1>1, <1>3
  <1>5. ASSUME NEW n \in 1 .. m PROVE Abs!Answered(kept[n], new[n])
    <2>1. CASE n = 1 /\ z = 1 /\ w = 0
      <3>1. n + w = 1
        BY <2>1
      <3> QED BY <1>2, <2>1, <3>1
    <2>2. CASE n = 1 /\ c = 1
      <3>1. n + w = 1 + z
        BY <2>2
      <3> QED BY <1>2, <2>2, <3>1
    <2>3. CASE ~(n = 1 /\ z1 = 1)
      <3>1. n - z1 \in 1 .. k /\ (n - z1) + z1 = n /\ ((n - z1) + c) + z = n + w
        BY <2>3
      <3>2. Abs!Answered(old[((n - z1) + c) + z], new[(n - z1) + z1])
        BY <3>1
      <3> QED BY <1>2, <3>1, <3>2
    <2>4. z1 = 1 => (z = 1 /\ w = 0) \/ c = 1
      OBVIOUS
    <2> QED BY <2>1, <2>2, <2>3, <2>4
  <1>6. ASSUME Len(new) > Len(kept)
        PROVE  new[Len(new)].tag \notin held /\ ~new[Len(new)].bad
    <2>1. a = 1
      BY <1>1, <1>2, <1>3, <1>6
    <2>2. Len(new) = (k + 1) + z1
      BY <1>1, <1>3, <2>1
    <2> QED BY <2>1, <2>2
  <1> HIDE DEF kept, m
  <1>7. /\ Len(new) \in {Len(kept), Len(kept) + 1}
        /\ \A n \in DOMAIN kept : Abs!Answered(kept[n], new[n])
        /\ Len(new) > Len(kept) => /\ new[Len(new)].tag \notin held
                                   /\ ~new[Len(new)].bad
    BY <1>2, <1>4, <1>5, <1>6
  <1> QED BY <1>7 DEF Abs!QueueStep, kept

\* No queue and no output holds a tag of the pool.
LEMMA NoFreeHeld ==
    ASSUME TypeOK, ListInvariant, NEW q \in [Ids -> Seq(Tags)], Listed(q)
    PROVE  Abs!HeldBy(Queue, Out) \cap pool = {}
  <1>1. /\ pool \cap ev = {} /\ pool \cap RdyTags = {} /\ pool \cap RetTags = {}
    BY DEF ListInvariant, TagsAccounted
  <1>2. ASSUME NEW j \in Ids, NEW n \in DOMAIN Queue[j] PROVE Queue[j][n].tag \notin pool
    <2> DEFINE s == q[j]
               z == One(j \in rdy_to_rsp_valid)
    <2>1. s \in Seq(Tags) /\ OnList(j, s, Len(s))
      BY DEF Listed
    <2>2. QueueIs(j, s)
      BY <2>1, QueueShown
    <2>3. PICK l \in Nat : l = Len(s)
      BY <2>1, LenProperties
    <2>4. /\ Queue[j] \in Seq(Beats) /\ Len(Queue[j]) = z + l
          /\ j \in rdy_to_rsp_valid => Queue[j][1] = RdyBeat(j)
          /\ \A i \in 1 .. l : Queue[j][i + z] = Beat(s[i])
      BY <2>2, <2>3 DEF QueueIs
    <2>5. n \in 1 .. z + l
      BY <2>4, LenProperties
    <2>6. \A i \in 1 .. l : s[i] \in ev
      BY <2>1, <2>3, ElementOfSeq DEF OnList
    <2>7. z \in {0, 1} /\ (z = 1 <=> j \in rdy_to_rsp_valid)
      BY DEF One
    <2> HIDE DEF s, z
    <2>8. CASE z = 1 /\ n = 1
      <3>1. Queue[j][n].tag = rdy_to_rsp_tag[j]
        BY <2>4, <2>7, <2>8 DEF RdyBeat
      <3>2. rdy_to_rsp_tag[j] \in RdyTags
        BY <2>7, <2>8 DEF RdyTags
      <3> QED BY <1>1, <3>1, <3>2
    <2>9. CASE ~(z = 1 /\ n = 1)
      <3>1. n - z \in 1 .. l /\ (n - z) + z = n
        BY <2>5, <2>7, <2>9
      <3>2. Queue[j][n] = Beat(s[n - z])
        BY <2>4, <3>1
      <3>3. Queue[j][n].tag = s[n - z]
        BY <3>2 DEF Beat
      <3> QED BY <1>1, <2>6, <3>1, <3>3
    <2> QED BY <2>8, <2>9
  <1>3. ASSUME Out # NoBeat PROVE Out.beat.tag \notin pool
    <2>1. ret_valid
      BY <1>3 DEF Out
    <2>2. Out.beat.tag = ret_tag
      BY <2>1 DEF Out, RetBeat
    <2> QED BY <1>1, <2>1, <2>2 DEF RetTags
  <1> QED BY <1>2, <1>3 DEF Abs!HeldBy

\* What a cycle does to the beats that stay, and to the one that is stored.
LEMMA BeatsStep ==
    ASSUME TypeOK, ListInvariant, rc \subseteq ev,
           NEW rsv \in Reservations, NEW rsp \in Responses, NEW rdy \in BOOLEAN,
           Clock(rsv, rsp, rdy)
    PROVE  /\ \A t \in ev \ ClearBeatInfoEntry(rdy) : Abs!Answered(Beat(t), Beat(t)')
           /\ \A j \in StoreRspIn(rdy) : Abs!Answered(Beat(head_beat_tag[j]), RdyBeat(j)')
           /\ \A j \in rdy_to_rsp_valid \ (IF RspLatchRdy(rdy) THEN LoadRspOut ELSE {}) :
                 Abs!Answered(RdyBeat(j), RdyBeat(j)')
           /\ \A t \in Tags : rsv.valid /\ t = rsv.tag => Beat(t)'.tag = rsv.tag /\ ~Beat(t)'.bad
  <1>1. ASSUME NEW t \in ev \ ClearBeatInfoEntry(rdy) PROVE Abs!Answered(Beat(t), Beat(t)')
    <2>1. /\ rv'[t] = rv[t] \cup RspPos(t, rsp)
          /\ t \in rc' <=> t \in rc \/ t \in Bad(rsp)
          /\ t \in last' <=> t \in last
          /\ t \in Answered(rsp) => ~(RspPos(t, rsp) \subseteq rv[t])
      BY ErrorsStep
    <2>2. Bad(rsp) \subseteq Answered(rsp)
      BY DEF Bad
    <2>3. RspPos(t, rsp) \subseteq Pos /\ rv[t] \subseteq Pos
      <3>1. rsp.valid => rsp.pos \subseteq Pos
        BY InputTypes
      <3> QED BY <3>1 DEF RspPos, Answered, TypeOK
    <2>4. /\ Beat(t).tag = t /\ Beat(t)'.tag = t
          /\ Beat(t).owed = Pos \ rv[t] /\ Beat(t)'.owed = Pos \ rv'[t]
          /\ Beat(t).bad <=> t \in rc
          /\ Beat(t)'.bad <=> t \in rc'
      BY DEF Beat
    <2>7. /\ Beat(t).bad = (t \in rc) /\ Beat(t)'.bad = (t \in rc')
          /\ Beat(t).last = (t \in last) /\ Beat(t)'.last = (t \in last')
      BY DEF Beat
    <2>8. (t \in last) = (t \in last') /\ (t \notin Answered(rsp) => (t \in rc) = (t \in rc'))
      BY <2>1, <2>2
    <2>5. Beat(t)'.owed \subseteq Beat(t).owed
      BY <2>1, <2>4
    <2>6. Beat(t)'.owed = Beat(t).owed => t \notin Answered(rsp)
      BY <2>1, <2>3, <2>4
    <2>9. /\ Beat(t)'.tag = Beat(t).tag /\ Beat(t)'.last = Beat(t).last
          /\ Beat(t).bad => Beat(t)'.bad
      BY <2>1, <2>4, <2>7, <2>8
    <2>10. Beat(t)'.owed = Beat(t).owed => Beat(t)'.bad = Beat(t).bad
      BY <2>6, <2>7, <2>8
    <2> QED BY <2>5, <2>9, <2>10 DEF Abs!Answered
  <1>2. ASSUME NEW j \in StoreRspIn(rdy)
        PROVE  Abs!Answered(Beat(head_beat_tag[j]), RdyBeat(j)')
    <2> DEFINE h == head_beat_tag[j]
    <2>1. rv[h] = Pos /\ j \in Ids
      BY DEF StoreRspIn, CurrentEntryRspRdy, TypeOK
    <2>2. /\ rdy_to_rsp_tag'[j] = h
          /\ j \in rdy_to_rsp_rc' <=> h \in rc
          /\ j \in rdy_to_rsp_last' <=> h \in last
      BY <2>1 DEF Clock, RdyToRsp
    <2>3. /\ Beat(h).tag = h /\ RdyBeat(j)'.tag = h
          /\ Beat(h).owed = {} /\ RdyBeat(j)'.owed = {}
          /\ Beat(h).bad = RdyBeat(j)'.bad /\ Beat(h).last = RdyBeat(j)'.last
      BY <2>1, <2>2 DEF Beat, RdyBeat
    <2> QED BY <2>3 DEF Abs!Answered
  <1>3. ASSUME NEW j \in rdy_to_rsp_valid \ (IF RspLatchRdy(rdy) THEN LoadRspOut ELSE {})
        PROVE  Abs!Answered(RdyBeat(j), RdyBeat(j)')
    <2>1. j \notin StoreRspIn(rdy) /\ rdy_to_rsp_tag'[j] = rdy_to_rsp_tag[j]
      BY RdyStep DEF ListInvariant
    <2>2. /\ j \in rdy_to_rsp_rc' <=> j \in rdy_to_rsp_rc
          /\ j \in rdy_to_rsp_last' <=> j \in rdy_to_rsp_last
      BY <2>1 DEF Clock, RdyToRsp
    <2>3. RdyBeat(j)' = RdyBeat(j)
      BY <2>1, <2>2 DEF RdyBeat
    <2> QED BY <2>3 DEF Abs!Answered
  <1>4. ASSUME NEW t \in Tags, rsv.valid, t = rsv.tag
        PROVE  Beat(t)'.tag = rsv.tag /\ ~Beat(t)'.bad
    <2>1. t \notin rc'
      BY <1>4, ErrorsStep
    <2> QED BY <1>4, <2>1 DEF Beat
  <1> QED BY <1>1, <1>2, <1>3, <1>4

LEMMA QueueMoves ==
    ASSUME TypeOK, ListInvariant, rc \subseteq ev, TypeOK', ListInvariant',
           NEW q \in [Ids -> Seq(Tags)], Listed(q),
           NEW rsv \in Reservations, NEW rsp \in Responses, NEW rdy \in BOOLEAN,
           Clock(rsv, rsp, rdy), NEW j \in Ids
    PROVE  Abs!QueueStep(Queue[j], Queue'[j],
                         j \in (IF RspLatchRdy(rdy) THEN LoadRspOut ELSE {}),
                         Abs!HeldBy(Queue, Out))
  <1> DEFINE L == IF RspLatchRdy(rdy) THEN LoadRspOut ELSE {}
             S == StoreRspIn(rdy)
             clr == ClearBeatInfoEntry(rdy)
             drop == j \in S
             app == rsv.valid /\ rsv.id = j
  <1>1. PICK r : r = NextLists(q, rsv, rdy)
    OBVIOUS
  <1>2. r \in [Ids -> Seq(Tags)] /\ Listed(r)'
    BY <1>1, ListedStep
  <1>3. PICK k \in Nat : Moved(q[j], drop, app, rsv.tag, r[j], k)
    BY <1>1, NextListsFacts
  <1>4. PICK s \in Seq(Tags), t \in Seq(Tags) : s = q[j] /\ t = r[j]
    BY <1>2
  <1>5. OnList(j, s, Len(s)) /\ OnList(j, t, Len(t))'
    BY <1>2, <1>4 DEF Listed
  <1>6. QueueIs(j, s) /\ QueueIs(j, t)'
    BY <1>5, QueueShown, QueueShownNext
  <1>7. PICK z \in {0, 1}, w \in {0, 1}, c \in {0, 1}, a \in {0, 1}, z1 \in {0, 1} :
           /\ z = One(j \in rdy_to_rsp_valid) /\ w = One(j \in L) /\ c = One(drop)
           /\ a = One(app) /\ z1 = One(j \in rdy_to_rsp_valid')
    BY DEF One
  <1>8. /\ z = 1 <=> j \in rdy_to_rsp_valid
        /\ w = 1 <=> j \in L
        /\ c = 1 <=> j \in S
        /\ a = 1 <=> rsv.valid /\ rsv.id = j
        /\ z1 = 1 <=> j \in rdy_to_rsp_valid'
    BY <1>7 DEF One
  <1>9. /\ Len(s) = k + c /\ Len(t) = k + a
        /\ \A n \in 1 .. k : t[n] = s[n + c]
        /\ a = 1 => t[k + 1] = rsv.tag
    BY <1>3, <1>4, <1>7, <1>8 DEF Moved
  <1>10. /\ L \subseteq rdy_to_rsp_valid
         /\ rdy_to_rsp_valid' = (rdy_to_rsp_valid \ L) \cup S
         /\ \A i \in rdy_to_rsp_valid \ L : i \notin S
    BY GrantOneHot, RdyStep DEF ListInvariant
  <1>11. (w = 1 => z = 1) /\ (c = 1 => z = w) /\ z1 = (z - w) + c
    <2> HIDE DEF L, S
    <2>1. (w = 1 => z = 1) /\ (c = 1 => (z = 0 \/ w = 1))
      BY <1>8, <1>10
    <2>2. z1 = 1 <=> (z = 1 /\ w = 0) \/ c = 1
      BY <1>8, <1>10
    <2> QED BY <2>1, <2>2
  <1>12. PICK old \in Seq(Beats), new \in Seq(Beats) : old = Queue[j] /\ new = Queue'[j]
    BY <1>6 DEF QueueIs
  <1>13. /\ Len(old) = z + (k + c)
         /\ z = 1 => old[1] = RdyBeat(j)
         /\ \A n \in 1 .. k + c : old[n + z] = Beat(s[n])
    BY <1>6, <1>7, <1>8, <1>9, <1>12 DEF QueueIs
  <1>14. /\ Len(new) = z1 + (k + a)
         /\ z1 = 1 => new[1] = RdyBeat(j)'
         /\ \A n \in 1 .. k + a : new[n + z1] = Beat(t[n])'
    BY <1>6, <1>7, <1>8, <1>9, <1>12 DEF QueueIs
  <1>15. ASSUME z = 1, w = 0 PROVE Abs!Answered(old[1], new[1])
    <2>1. j \in rdy_to_rsp_valid \ L /\ z1 = 1
      BY <1>8, <1>11, <1>15
    <2> QED BY <2>1, <1>13, <1>14, <1>15, BeatsStep
  <1>16. PICK l \in Nat : l = Len(s) /\ l = k + c
    BY <1>9
  <1>17. OnList(j, s, l) /\ \A n \in 1 .. l : s[n] \in Tags
    BY <1>5, <1>16, ElementOfSeq
  <1>18. /\ \A n \in 1 .. l : s[n] \in ev
         /\ j \in S => s[1] = head_beat_tag[j]
         /\ \A n \in 1 .. l : s[n] \in clr <=> n = 1 /\ j \in S
    BY <1>17, ListEntries
  <1>19. ASSUME c = 1 PROVE Abs!Answered(old[1 + z], new[1])
    <2>1. 1 \in 1 .. k + c /\ z1 = 1
      BY <1>11, <1>19
    <2>2. old[1 + z] = Beat(head_beat_tag[j]) /\ new[1] = RdyBeat(j)'
      BY <1>8, <1>13, <1>14, <1>18, <1>19, <2>1
    <2> QED BY <1>8, <1>19, <2>2, BeatsStep
  <1>20. ASSUME NEW n \in 1 .. k PROVE Abs!Answered(old[(n + c) + z], new[n + z1])
    <2>1. n + c \in 1 .. k + c /\ n \in 1 .. k + a /\ ~(n + c = 1 /\ c = 1) /\ n + c \in 1 .. l
      BY <1>16
    <2>2. old[(n + c) + z] = Beat(s[n + c]) /\ new[n + z1] = Beat(t[n])' /\ t[n] = s[n + c]
      BY <1>9, <1>13, <1>14, <2>1
    <2>3. s[n + c] \in ev \ clr
      BY <1>8, <1>18, <2>1
    <2> QED BY <2>2, <2>3, BeatsStep
  <1>21. ASSUME a = 1
         PROVE  /\ new[(k + 1) + z1].tag \notin Abs!HeldBy(Queue, Out)
                /\ ~new[(k + 1) + z1].bad
    <2>1. k + 1 \in 1 .. k + a
      BY <1>21
    <2>2. t[k + 1] = rsv.tag /\ rsv.valid /\ rsv.tag \in pool /\ t[k + 1] \in Tags
      BY <1>8, <1>9, <1>21, InputTypes DEF TypeOK
    <2>3. new[(k + 1) + z1] = Beat(t[k + 1])'
      BY <1>14, <2>1
    <2>4. Beat(t[k + 1])'.tag = rsv.tag /\ ~Beat(t[k + 1])'.bad
      BY <2>2, BeatsStep
    <2> QED BY <2>2, <2>3, <2>4, NoFreeHeld
  <1> HIDE DEF L, S, clr, drop, app
  <1>22. Abs!QueueStep(old, new, w = 1, Abs!HeldBy(Queue, Out))
    <2>1. Counted(old, new, Abs!HeldBy(Queue, Out), z, w, c, a, z1, k)
      BY <1>11, <1>13, <1>14, <1>15, <1>19, <1>20, <1>21 DEF Counted
    <2> QED BY <2>1, QueueStepFacts
  <1>23. (w = 1) = (j \in L)
    BY <1>8
  <1>24. Abs!QueueStep(Queue[j], Queue'[j], j \in L, Abs!HeldBy(Queue, Out))
    BY <1>12, <1>22, <1>23
  <1> QED BY <1>24 DEF L

\* What a cycle leaves at the output: nothing, the beat that was there, or the
\* head of the id the arbiter grants.
LEMMA OutMoves ==
    ASSUME TypeOK, ListInvariant,
           NEW rsv \in Reservations, NEW rsp \in Responses, NEW rdy \in BOOLEAN,
           Clock(rsv, rsp, rdy)
    PROVE  \/ /\ (IF RspLatchRdy(rdy) THEN LoadRspOut ELSE {}) = {}
              /\ Out' \in {Out, NoBeat}
           \/ \E i \in rdy_to_rsp_valid :
                 /\ (IF RspLatchRdy(rdy) THEN LoadRspOut ELSE {}) = {i}
                 /\ Out' = [id |-> i, beat |-> RdyBeat(i)]
  <1>1. RetLatch(rdy)
    BY DEF Clock
  <1>2. CASE LoadRspOut # {} /\ RspLatchRdy(rdy)
    <2>1. PICK i \in LoadRspOut : /\ ret_tag' = rdy_to_rsp_tag[i]
                                  /\ ret_axi_id' = i
                                  /\ ret_resp' = (i \in rdy_to_rsp_rc)
                                  /\ ret_last' = (i \in rdy_to_rsp_last)
      BY <1>1, <1>2 DEF RetLatch
    <2>2. LoadRspOut = {i} /\ i \in rdy_to_rsp_valid
      BY <2>1, GrantOneHot
    <2>3. ret_valid' = TRUE
      BY <1>1, <1>2 DEF RetLatch
    <2>4. RetBeat' = RdyBeat(i)
      BY <2>1 DEF RetBeat, RdyBeat
    <2>5. Out' = [id |-> i, beat |-> RdyBeat(i)]
      BY <2>1, <2>3, <2>4 DEF Out
    <2> QED BY <1>2, <2>2, <2>5
  <1>3. CASE LoadRspOut = {} \/ ~RspLatchRdy(rdy)
    <2>1. UNCHANGED <<ret_tag, ret_axi_id, ret_resp, ret_last>>
      BY <1>1, <1>3 DEF RetLatch
    <2>2. ret_valid' => ret_valid
      BY <1>1, <1>3 DEF RetLatch, RspLatchRdy
    <2>3. RetBeat' = RetBeat
      BY <2>1 DEF RetBeat
    <2>4. Out' \in {Out, NoBeat}
      BY <2>1, <2>2, <2>3 DEF Out, NoBeat
    <2> QED BY <1>3, <2>4
  <1> QED BY <1>2, <1>3

\* A cycle of the registers is a step of the queues.
LEMMA CycleMapped ==
    ASSUME TypeOK, ListInvariant, Lists, TypeOK', ListInvariant',
           NEW rsv \in Reservations, NEW rsp \in Responses, NEW rdy \in BOOLEAN,
           Clock(rsv, rsp, rdy)
    PROVE  Abs!Next
  <1> DEFINE L == IF RspLatchRdy(rdy) THEN LoadRspOut ELSE {}
  <1>1. PICK q \in [Ids -> Seq(Tags)] : Listed(q)
    BY DEF Lists
  <1>2. \A j \in Ids : Abs!QueueStep(Queue[j], Queue'[j], j \in L, Abs!HeldBy(Queue, Out))
    BY <1>1, QueueMoves DEF Lists
  <1>3. Abs!Step(Queue, Queue', L)
    BY <1>2 DEF Abs!Step
  <1>4. \/ L = {} /\ Out' \in {Out, NoBeat}
        \/ \E i \in rdy_to_rsp_valid : L = {i} /\ Out' = [id |-> i, beat |-> RdyBeat(i)]
    BY OutMoves
  <1> HIDE DEF L
  <1>5. CASE L = {} /\ Out' \in {Out, NoBeat}
    <2>1. Abs!Keep
      BY <1>3, <1>5 DEF Abs!Keep
    <2> QED BY <2>1 DEF Abs!Next
  <1>6. ASSUME NEW i \in rdy_to_rsp_valid, L = {i}, Out' = [id |-> i, beat |-> RdyBeat(i)]
        PROVE  Abs!Next
    <2>1. i \in Ids
      BY DEF TypeOK
    <2>2. i # NId
      BY <2>1, ConstantsAssumption DEF Ids
    <2>3. Out'.id = i /\ Out'.beat = RdyBeat(i)
      BY <1>6
    <2>4. Out' # NoBeat
      BY <2>2, <2>3 DEF NoBeat
    <2>5. PICK s \in Seq(Tags) : s = q[i] /\ OnList(i, s, Len(s))
      BY <1>1, <2>1 DEF Listed
    <2>6. QueueIs(i, s)
      BY <2>1, <2>5, QueueShown
    <2>7. PICK l \in Nat : l = Len(s)
      BY LenProperties
    <2>8. /\ Queue[i] \in Seq(Beats) /\ Len(Queue[i]) = 1 + l
          /\ Queue[i][1] = RdyBeat(i)
      BY <1>6, <2>6, <2>7 DEF QueueIs, One
    <2>9. 1 + l # 0
      BY <2>7
    <2>10. Queue[i] # <<>> /\ Head(Queue[i]) = RdyBeat(i)
      BY <2>8, <2>9, EmptySeq, HeadTailProperties
    <2>11. RdyBeat(i).owed = {}
      BY DEF RdyBeat
    <2>12. Abs!Presentable(Queue[i])
      BY <2>10, <2>11 DEF Abs!Presentable
    <2>13. Abs!Step(Queue, Queue', {i})
      BY <1>3, <1>6
    <2>14. Abs!Present(i)
      BY <2>3, <2>4, <2>10, <2>12, <2>13 DEF Abs!Present
    <2> QED BY <2>1, <2>14 DEF Abs!Next
  <1> QED BY <1>4, <1>5, <1>6

LEMMA IdleMapped ==
    ASSUME TypeOK, ListInvariant, Lists, TypeOK', ListInvariant', UNCHANGED vars
    PROVE  Queue' = Queue /\ Out' = Out
  <1>1. UNCHANGED <<ev, rv, rc, nxt_ptr, nptr_v, axi_id, last, rsv_valid_latch,
                    rsv_tag_latch, rsv_axi_id_latch, head_beat_tag, head_beat_tag_valid,
                    rdy_to_rsp_valid, rdy_to_rsp_rc, rdy_to_rsp_last, rdy_to_rsp_tag,
                    ret_valid, ret_tag, ret_axi_id, ret_resp, ret_last>>
    BY DEF vars, beatVars, preVars, rsvVars, headVars, rdyVars, retVars
  <1>2. From' = From
    BY <1>1 DEF From
  <1>3. Out' = Out
    BY <1>1 DEF Out, RetBeat
  <1>4. \A j : ListOf(j)' = ListOf(j)
    BY <1>1, <1>2 DEF ListOf, Chain, RsvValidLatchForIdx
  <1>5. \A t : Beat(t)' = Beat(t)
    BY <1>1 DEF Beat
  <1>6. \A j : RdyBeat(j)' = RdyBeat(j)
    BY <1>1 DEF RdyBeat
  <1>7. Queue' = Queue
    BY <1>1, <1>4, <1>5, <1>6 DEF Queue
  <1> QED BY <1>3, <1>7

LEMMA StartMapped == Init => Abs!Init
  <1> SUFFICES ASSUME Init PROVE Abs!Init
    OBVIOUS
  <1>1. ASSUME NEW j \in Ids PROVE ListOf(j) = <<>>
    <2>1. j \notin head_beat_tag_valid /\ j \notin RsvValidLatchForIdx
      BY DEF Init, RsvValidLatchForIdx
    <2> QED BY <2>1 DEF ListOf
  <1>2. ASSUME NEW j \in Ids PROVE Queue[j] = <<>>
    <2>1. j \notin rdy_to_rsp_valid
      BY DEF Init
    <2>2. Queue[j] = <<>> \o [n \in DOMAIN <<>> |-> Beat(<<>>[n])]
      BY <1>1, <2>1 DEF Queue
    <2> QED BY <2>2
  <1>3. Queue = [j \in Ids |-> <<>>]
    BY <1>2 DEF Queue
  <1>4. Out = NoBeat
    BY DEF Init, Out
  <1> QED BY <1>3, <1>4 DEF Abs!Init

\* The pointers, latches and arbiter implement one FIFO queue per AXI id: the
\* beats of an id leave in the order they were reserved, complete, once each,
\* with the error and last bits that belong to them.
THEOREM ReturnsInOrder == Spec => InOrderReturn
  <1>1. /\ TypeOK /\ ListInvariant /\ Lists /\ TypeOK' /\ ListInvariant' /\ [Next]_vars
        => [Abs!Next]_<<Queue, Out>>
    <2> SUFFICES ASSUME TypeOK, ListInvariant, Lists, TypeOK', ListInvariant', [Next]_vars
                 PROVE  [Abs!Next]_<<Queue, Out>>
      OBVIOUS
    <2>1. CASE Next
      <3>1. PICK rsv \in Reservations, rsp \in Responses, rdy \in BOOLEAN : Clock(rsv, rsp, rdy)
        BY <2>1 DEF Next
      <3>2. Abs!Next
        BY <3>1, CycleMapped
      <3> QED BY <3>2
    <2>2. CASE UNCHANGED vars
      <3>1. Queue' = Queue /\ Out' = Out
        BY <2>2, IdleMapped
      <3> QED BY <3>1
    <2> QED BY <2>1, <2>2
  <1> QED BY <1>1, StartMapped, TypeCorrect, ListsIntact, ListsHold, PTL
          DEF Spec, InOrderReturn, Abs!Spec
=============================================================================
