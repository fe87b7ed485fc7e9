--------------------------- MODULE CopyJobsProof ---------------------------
(***************************************************************************)
(* What snap_memcopy, snap_helloworld and their kernels keep: an inductive *)
(* invariant and the four properties of the copy jobs from it, for every   *)
(* width of the bus, size of a block, size of the card and of a job.       *)
(*                                                                         *)
(* The invariant says what the process holds at which label, that the      *)
(* kernel is busy only while it is waited for or was given up, how many    *)
(* cells of the job have landed and that the rest is as it was, and that   *)
(* the words a job may still write are those of its own target.            *)
(***************************************************************************)
EXTENDS CopyJobs, FiniteSetTheorems, TLAPS

-----------------------------------------------------------------------------
(* The inductive invariant.                                                *)

\* The labels of main() in the order of a job that succeeds, and those of its
\* error path.
Early   == {"input", "output", "open", "attach", "execute"}
Checked == {"verify", "detach_ok", "detach_verify", "free_ok", "free_verify", "exit_ok", "exit_verify"}
GivenUp == {"out_error2", "out_error1", "out_error"}

WithAction == {"execute", "wait", "write", "retc", "verify", "detach_ok", "detach_verify", "out_error2"}
WithCard   == WithAction \cup {"attach", "free_ok", "free_verify", "out_error1"}
WithBoth   == WithCard \cup {"open", "exit_ok", "exit_verify"}

\* What a copy job holds: the card and the action between the labels that take
\* and give them back, the buffers its command line asks for.
CopyHeld ==
    prog \in CopyPrograms =>
        /\ pc \in Early \cup {"wait", "write", "retc", Shell} \cup Checked \cup GivenUp
        /\ held \subseteq {"card", "action", "ibuff", "obuff"}
        /\ "card" \in held <=> pc \in WithCard
        /\ "action" \in held <=> pc \in WithAction
        /\ pc \in {"input", Shell} => held = {}
        /\ pc = "output" => "obuff" \notin held
        /\ pc \in WithBoth \cup {"output"} => ("ibuff" \in held <=> opt.src = "file")
        /\ pc \in WithBoth => ("obuff" \in held <=> opt.dst = "file")

CopyTypes ==
    /\ DOMAIN gbuf = Cells /\ DOMAIN dbuf = Cells
    /\ DOMAIN card_mem = CardCells /\ DOMAIN stored \subseteq CardCells
    /\ kernel.left \in Nat /\ kernel.pos \in Nat /\ kernel.retc \in {"none", "SUCCESS", "FAILURE"}
    /\ DOMAIN kernel = DOMAIN IdleKernel
    /\ top \in Nat

\* A multiple of w.
Multiple(n, w) == \E k \in Nat : n = k * w

CopyOptions == IF prog = "snap_memcopy" THEN MemcopyOptions ELSE HelloworldOptions

\* Does the job have a side on the card, and does it fit there?
UsesCard == "card" \in {opt.src, opt.dst}
Fits   == opt.size <= CARD_DRAM_SIZE

\* The kernel is at work for the process that waits for it or gave it up.
KernelControl ==
    /\ opt \in CopyOptions
    /\ kernel.busy => pc \in {"wait"} \cup GivenUp \/ (pc = Shell /\ exit = "failure")
    /\ kernel.busy => kernel.src = opt.src /\ kernel.dst = opt.dst /\ kernel.at = opt.at
    /\ pc \in Early => top = 0

\* How far it is: at the end of a word and a block unless all is done.
KernelPlace ==
    kernel.busy =>
        /\ prog = "snap_memcopy" =>
             /\ kernel.pos + kernel.left = opt.size
             /\ kernel.left > 0 => Multiple(kernel.pos, NBlock)
             /\ kernel.pos > 0 /\ UsesCard => Fits
        /\ prog = "snap_helloworld" =>
             /\ Multiple(kernel.pos, Narrow)
             /\ kernel.left = IF kernel.pos < opt.size THEN opt.size - kernel.pos ELSE 0
        /\ kernel.left > 0 => top <= kernel.pos

\* The buffers: the input is the source of the job, the output is clear behind
\* what the kernel wrote.
OutputCells == 0 .. snap_malloc(SetSize) - 1

BuffersKnown ==
    /\ pc \in WithBoth \cup {"output"} /\ opt.src = "file" => \A c \in 0 .. opt.size - 1 : ibuff[c] = want[c]
    /\ DOMAIN obuff \in {{}, OutputCells}
    /\ pc \in WithBoth /\ opt.dst = "file" => DOMAIN obuff = OutputCells
    /\ \A c \in DOMAIN obuff : c >= top => obuff[c] = 0
    /\ top > 0 => DOMAIN obuff = OutputCells
    /\ top <= snap_malloc(opt.size)

\* The source of a job, as it was when the program started.
SourceKnown ==
    /\ DOMAIN want = IF opt.src = "file" \/ (opt.src = "card" /\ Fits) THEN 0 .. opt.size - 1 ELSE {}
    /\ opt.src = "card" /\ Fits => \A c \in 0 .. opt.size - 1 : card_mem[Source(opt) + c] = want[c]

\* The first m cells of the job are where they belong.
Landed(m) ==
    opt.src # "unused" =>
        \A c \in 0 .. opt.size - 1 : c < m =>
            /\ opt.dst = "file" => obuff[c] = Converted[c]
            /\ opt.dst = "card" => card_mem[opt.at + c] = want[c]

JobDone == Landed(opt.size) /\ (UsesCard => Fits)

Moved ==
    /\ pc = "wait" /\ kernel.busy => Landed(kernel.pos)
    /\ pc = "wait" /\ kernel.retc = "SUCCESS" /\ ~kernel.busy => JobDone
    /\ pc \in {"write", "retc"} /\ retc = "SUCCESS" => JobDone
    /\ pc \in Checked => JobDone
    /\ (pc = "retc" /\ retc = "SUCCESS") \/ pc \in Checked \/ (pc = Shell /\ exit \in {"ok", "EX_ERR_VERIFY"}) =>
         (opt.dst = "file" /\ opt.src # "unused" => file = Converted)

\* The words of the card a running job may write are not among those stored.
JobWords == opt.at .. opt.at + RoundUp(opt.size, Narrow) - 1
StoredApart == opt.dst = "card" /\ (pc # Shell \/ kernel.busy) => DOMAIN stored \cap JobWords = {}

Verdicts ==
    /\ pc \in {"detach_ok", "free_ok", "exit_ok"} \/ (pc = Shell /\ exit = "ok") =>
         (opt.verify => Same /\ TrailingZeros)
    /\ pc \in {"detach_verify", "free_verify", "exit_verify"} \/ (pc = Shell /\ exit = "EX_ERR_VERIFY") =>
         (prog = "snap_memcopy" => Same /\ opt.size % Wide # 0)

Untouched == ~kernel.busy /\ top = 0 /\ DOMAIN obuff = {} /\ DOMAIN stored = {}

CopyInv ==
    /\ CopyHeld /\ CopyTypes /\ StoredStays
    /\ IF prog \in CopyPrograms /\ Ran
       THEN /\ KernelControl /\ KernelPlace /\ BuffersKnown /\ SourceKnown
            /\ Moved /\ StoredApart /\ Verdicts
       ELSE Untouched

-----------------------------------------------------------------------------
(* Words and blocks: RoundUp gives the least multiple.                     *)

\* Multiples are natural numbers, can be added, and are a word apart.
LEMMA MultipleIs ==
    ASSUME NEW n, NEW w \in Nat, Multiple(n, w)
    PROVE  n \in Nat
  BY DEF Multiple

\* The sum of two multiples is one.
LEMMA MultipleSum ==
    ASSUME NEW a, NEW b, NEW w \in Nat, Multiple(a, w), Multiple(b, w)
    PROVE  Multiple(a + b, w)
  <1>1. PICK k \in Nat : a = k * w
    BY DEF Multiple
  <1>2. PICK l \in Nat : b = l * w
    BY DEF Multiple
  <1>3. a + b = (k + l) * w /\ k + l \in Nat
    BY <1>1, <1>2
  <1> QED
    BY <1>3 DEF Multiple

\* Of two multiples the bigger one is at least a word further.
LEMMA MultipleOrder ==
    ASSUME NEW a, NEW b, NEW w \in Nat \ {0}, Multiple(a, w), Multiple(b, w), b < a
    PROVE  b + w <= a /\ Multiple(a - b, w)
  <1>1. PICK k \in Nat : a = k * w
    BY DEF Multiple
  <1>2. PICK l \in Nat : b = l * w
    BY DEF Multiple
  <1>3. l < k
    <2> SUFFICES ASSUME k <= l PROVE FALSE
      OBVIOUS
    <2>1. l * w = k * w + (l - k) * w /\ (l - k) * w >= 0
      OBVIOUS
    <2> QED
      BY <1>1, <1>2, <2>1
  <1>4. k - l - 1 \in Nat /\ k - l \in Nat
    BY <1>3
  <1>5. a - b = (k - l) * w /\ (k - l) * w = (k - l - 1) * w + w /\ (k - l - 1) * w >= 0
    BY <1>1, <1>2, <1>4
  <1>6. Multiple(a - b, w)
    BY <1>4, <1>5 DEF Multiple
  <1>7. b + w <= a
    <2> DEFINE d == (k - l - 1) * w
    <2>1. a - b = d + w /\ d >= 0 /\ d \in Int
      BY <1>4, <1>5
    <2>2. a \in Nat /\ b \in Nat
      BY MultipleIs
    <2> HIDE DEF d
    <2> QED
      BY <2>1, <2>2
  <1> QED
    BY <1>6, <1>7

\* Words of narrow words.
LEMMA MultipleTrans ==
    ASSUME NEW a, NEW v \in Nat, NEW w \in Nat, Multiple(a, v), Multiple(v, w)
    PROVE  Multiple(a, w)
  <1>1. PICK k \in Nat : a = k * v
    BY DEF Multiple
  <1>2. PICK l \in Nat : v = l * w
    BY DEF Multiple
  <1>3. a = (k * l) * w /\ k * l \in Nat
    BY <1>1, <1>2
  <1> QED
    BY <1>3 DEF Multiple

\* RoundUp is a multiple, not below n and less than a word above it ...
LEMMA RoundUpIs ==
    ASSUME NEW n \in Nat, NEW w \in Nat \ {0}
    PROVE  /\ RoundUp(n, w) \in Nat /\ Multiple(RoundUp(n, w), w)
           /\ n <= RoundUp(n, w) /\ RoundUp(n, w) <= n + w - 1
  <1> DEFINE q == (n + w - 1) \div w
  <1>1. q \in Nat /\ q * w <= n + w - 1 /\ n + w - 1 < q * w + w
    OBVIOUS
  <1>2. RoundUp(n, w) = q * w
    BY DEF RoundUp
  <1> HIDE DEF q
  <1>3. q * w \in Nat
    BY <1>1
  <1> QED
    BY <1>1, <1>2, <1>3 DEF Multiple

\* ... and no multiple is between them.
LEMMA RoundUpLeast ==
    ASSUME NEW n \in Nat, NEW w \in Nat \ {0}, NEW m, Multiple(m, w), n <= m
    PROVE  RoundUp(n, w) <= m
  <1> DEFINE r == RoundUp(n, w)
  <1>1. r \in Nat /\ Multiple(r, w) /\ r <= n + w - 1 /\ m \in Nat
    BY RoundUpIs, MultipleIs
  <1> HIDE DEF r
  <1>2. m < r => m + w <= r
    BY <1>1, MultipleOrder
  <1>3. r <= m
    BY <1>1, <1>2
  <1> QED
    BY <1>3 DEF r

\* The widths of the buses, the block and the card.
LEMMA CopyBounds ==
    /\ Narrow \in Nat \ {0} /\ Wide \in Nat \ {0} /\ NBlock \in Nat \ {0} /\ Narrow <= Wide
    /\ Multiple(Wide, Narrow) /\ Multiple(NBlock, Wide) /\ Multiple(NBlock, Narrow)
    /\ CARD_DRAM_SIZE \in Nat /\ Far \in Nat /\ CARD_DRAM_SIZE <= Far
    /\ Sizes \subseteq Nat /\ Junk \subseteq Nat
  <1>1. /\ Narrow \in Nat \ {0} /\ NBlock \in Nat \ {0} /\ NBlock % Wide = 0
        /\ CARD_DRAM_SIZE \in Nat /\ Sizes \subseteq Nat /\ Junk \subseteq Nat
    BY CopyJobsAssumption DEF CopyJobsAssumption
  <1>2. Wide = 2 * Narrow /\ Wide \in Nat \ {0} /\ Narrow <= Wide
    BY <1>1 DEF Wide
  <1>3. Multiple(Wide, Narrow)
    BY <1>2 DEF Multiple
  <1>4. Multiple(NBlock, Wide)
    <2>1. NBlock \div Wide \in Nat /\ NBlock = (NBlock \div Wide) * Wide
      BY <1>1, <1>2
    <2> QED
      BY <2>1 DEF Multiple
  <1>5. Multiple(NBlock, Narrow)
    BY <1>1, <1>2, <1>3, <1>4, MultipleTrans
  <1>6. Far \in Nat /\ CARD_DRAM_SIZE <= Far
    BY <1>1, RoundUpIs DEF Far
  <1> QED
    BY <1>1, <1>2, <1>3, <1>4, <1>5, <1>6

\* The words of a block that starts at a word end where those of the job do.
LEMMA WordsAhead ==
    ASSUME NEW p, NEW n \in Nat, NEW s \in Nat, NEW w \in Nat \ {0}, Multiple(p, w), p + n <= s
    PROVE  p + RoundUp(n, w) <= RoundUp(s, w)
  <1> DEFINE r == RoundUp(n, w)
             t == RoundUp(s, w)
  <1>1. /\ r \in Nat /\ Multiple(r, w) /\ t \in Nat /\ Multiple(t, w) /\ s <= t /\ p \in Nat
        /\ \A m : Multiple(m, w) /\ n <= m => r <= m
    BY RoundUpIs, RoundUpLeast, MultipleIs
  <1>2. n = 0 => r <= 0
    <2>1. Multiple(0, w)
      <3>1. 0 \in Nat /\ 0 = 0 * w
        OBVIOUS
      <3> QED
        BY <3>1 DEF Multiple
    <2> QED
      BY <1>1, <2>1
  <1> HIDE DEF r, t
  <1>3. CASE p < t
    <2>1. Multiple(t - p, w)
      BY <1>1, <1>3, MultipleOrder
    <2>2. n <= t - p
      BY <1>1
    <2>3. r <= t - p
      BY <1>1, <2>1, <2>2
    <2> QED
      BY <1>1, <2>3 DEF r, t
  <1>4. CASE t <= p
    <2>1. n = 0 /\ p = t /\ r = 0
      BY <1>1, <1>2, <1>4
    <2> QED
      BY <1>1, <2>1 DEF r, t
  <1> QED
    BY <1>1, <1>3, <1>4

\* More cells never need fewer words.
LEMMA RoundUpOrder ==
    ASSUME NEW a \in Nat, NEW b \in Nat, NEW w \in Nat \ {0}, a <= b
    PROVE  RoundUp(a, w) <= RoundUp(b, w)
  <1>1. /\ RoundUp(b, w) \in Nat /\ Multiple(RoundUp(b, w), w) /\ b <= RoundUp(b, w)
    BY RoundUpIs
  <1> DEFINE t == RoundUp(b, w)
  <1>2. a <= t
    <2>1. t \in Nat /\ b <= t
      BY <1>1
    <2> HIDE DEF t
    <2> QED
      BY <2>1
  <1> QED
    BY <1>1, <1>2, RoundUpLeast

\* A multiple has no word that is partly filled.
LEMMA RoundUpMultiple ==
    ASSUME NEW n \in Nat, NEW w \in Nat \ {0}, Multiple(n, w)
    PROVE  RoundUp(n, w) = n
  <1>1. RoundUp(n, w) \in Nat /\ n <= RoundUp(n, w) /\ RoundUp(n, w) <= n
    BY RoundUpIs, RoundUpLeast
  <1> DEFINE r == RoundUp(n, w)
  <1>2. r \in Nat /\ n <= r /\ r <= n
    BY <1>1
  <1> HIDE DEF r
  <1> QED
    BY <1>2 DEF r

\* What the remainder says.
LEMMA FullWords ==
    ASSUME NEW n \in Nat, NEW w \in Nat \ {0}, n % w = 0
    PROVE  Multiple(n, w)
  <1>1. n \div w \in Nat /\ n = (n \div w) * w
    OBVIOUS
  <1> QED
    BY <1>1 DEF Multiple

\* The fields of a command line.
LEMMA CopyFields ==
    ASSUME NEW o \in MemcopyOptions \cup HelloworldOptions
    PROVE  /\ o.src \in {"file", "card", "unused"} /\ o.dst \in {"file", "card", "unused"}
           /\ o.size \in Nat /\ o.at \in {0, Far} /\ o.at \in Nat
           /\ o \in HelloworldOptions => o.src = "file" /\ o.dst = "file"
           /\ o.verify => o.src = "file" /\ o.dst = "file"
  <1>1. \E S, D \in SUBSET {"file", "card", "unused"} : \E V \in SUBSET BOOLEAN : o \in Job(S, D, V)
    BY DEF MemcopyOptions, HelloworldOptions
  <1>2. /\ o.src \in {"file", "card", "unused"} /\ o.dst \in {"file", "card", "unused"}
        /\ o.size \in Sizes /\ o.at \in {0, Far}
    BY <1>1 DEF Job
  <1>3. o.size \in Nat /\ o.at \in Nat
    <2>1. 0 \in Nat /\ Far \in Nat /\ Sizes \subseteq Nat
      BY CopyBounds
    <2> QED
      BY <1>2, <2>1
  <1>4. o \in HelloworldOptions => o.src = "file" /\ o.dst = "file"
    BY DEF HelloworldOptions, Job
  <1>5. o.verify => o.src = "file" /\ o.dst = "file"
    BY <1>4 DEF MemcopyOptions
  <1> QED
    BY <1>2, <1>3, <1>4, <1>5

-----------------------------------------------------------------------------
(* The process.                                                            *)

\* What a copy job holds is kept right by its steps.
LEMMA CopyHeldStep ==
    ASSUME CopyHeld, prog \in CopyPrograms, NEW p \in CopyPrograms, CopyStep(p)
    PROVE  CopyHeld' /\ prog' = prog /\ opt' = opt
  <1> USE DEF CopyHeld, Early, Checked, GivenUp, WithAction, WithCard, WithBoth, Shell,
              At, Goto, Take, TakeOr, Drop, Exit
  <1>1. CASE Input(p)
    BY <1>1 DEF Input
  <1>2. CASE Output(p)
    <2>1. /\ pc = "output" /\ prog = p /\ UNCHANGED <<prog, opt, exit>>
          /\ \/ opt.dst # "file" /\ pc' = "open" /\ held' = held
             \/ opt.dst = "file" /\ pc' = "out_error" /\ held' = held
             \/ opt.dst = "file" /\ pc' = "open" /\ held' = held \cup {"obuff"}
      BY <1>2 DEF Output
    <2>2. "card" \notin held /\ "action" \notin held /\ ("ibuff" \in held <=> opt.src = "file")
      BY <2>1
    <2>3. "obuff" \notin held
      BY <2>1
    <2> QED
      BY <2>1, <2>2, <2>3
  <1>3. CASE OpenCard(p) \/ Attach(p) \/ Execute(p)
    BY <1>3 DEF OpenCard, Attach, Execute, CardAlloc, AttachAction
  <1>4. CASE Wait(p) \/ Write(p)
    BY <1>4 DEF Wait, Write
  <1>5. CASE Retc(p) \/ Verify(p)
    BY <1>5 DEF Retc, Verify
  <1>6. CASE Detach(p)
    BY <1>6 DEF Detach, DetachAction, AfterDetach
  <1>7. CASE FreeCard(p)
    BY <1>7 DEF FreeCard, CardFree, AfterFree
  <1>8. CASE FreeBuffers(p)
    BY <1>8 DEF FreeBuffers, ExitCode
  <1> QED
    BY <1>1, <1>2, <1>3, <1>4, <1>5, <1>6, <1>7, <1>8 DEF CopyStep

\* The output buffer has room for the data, and what -X appends to it.
LEMMA Room ==
    ASSUME KernelControl, prog \in CopyPrograms
    PROVE  /\ opt.size \in Nat /\ SetSize \in Nat /\ opt.size <= SetSize
           /\ snap_malloc(opt.size) \in Nat /\ snap_malloc(SetSize) \in Nat
           /\ opt.size <= snap_malloc(opt.size) /\ SetSize <= snap_malloc(SetSize)
           /\ snap_malloc(opt.size) <= snap_malloc(SetSize)
           /\ Multiple(snap_malloc(opt.size), Wide)
  <1>1. opt.size \in Nat
    BY CopyFields DEF KernelControl, CopyOptions
  <1>2. SetSize \in Nat /\ opt.size <= SetSize
    BY <1>1, CopyBounds DEF SetSize
  <1>3. Wide \in Nat \ {0}
    BY CopyBounds
  <1> HIDE DEF SetSize
  <1>4. /\ RoundUp(opt.size, Wide) \in Nat /\ opt.size <= RoundUp(opt.size, Wide)
        /\ Multiple(RoundUp(opt.size, Wide), Wide)
    BY <1>1, <1>3, RoundUpIs
  <1>5. RoundUp(SetSize, Wide) \in Nat /\ SetSize <= RoundUp(SetSize, Wide)
    BY <1>2, <1>3, RoundUpIs
  <1>6. RoundUp(opt.size, Wide) <= RoundUp(SetSize, Wide)
    BY <1>1, <1>2, <1>3, RoundUpOrder
  <1> QED
    BY <1>1, <1>2, <1>4, <1>5, <1>6 DEF snap_malloc

\* The invariant without what is held.
CopyRest ==
    /\ CopyTypes /\ StoredStays
    /\ KernelControl /\ KernelPlace /\ BuffersKnown /\ SourceKnown /\ Moved /\ StoredApart /\ Verdicts

\* What has landed does not depend on where the process is.
LEMMA LandedStays ==
    ASSUME UNCHANGED <<prog, opt, want, obuff, card_mem>>, NEW m
    PROVE  (Landed(m)' <=> Landed(m)) /\ (JobDone' <=> JobDone)
  BY DEF Landed, JobDone, Converted, UsesCard, Fits

\* The steps of the process that move nothing: ...
QuietSteps(p) == OpenCard(p) \/ Attach(p) \/ Retc(p) \/ Verify(p) \/ Detach(p) \/ FreeCard(p)

\* Of the memory they change nothing, of the verdict only what they looked at.
LEMMA QuietStep ==
    ASSUME CopyRest, Running, prog \in CopyPrograms, NEW p \in CopyPrograms, QuietSteps(p)
    PROVE  CopyRest' /\ Running'
  <1>1. UNCHANGED <<prog, opt, exit, copyVars>>
    BY DEF QuietSteps, OpenCard, Attach, Retc, Verify, Detach, FreeCard, CardAlloc, AttachAction,
           DetachAction, CardFree, TakeOr, Take, Drop, Goto
  <1>2. UNCHANGED <<ibuff, obuff, file, retc, kernel, gbuf, dbuf, card_mem, top, want, stored>>
    BY <1>1 DEF copyVars, bufferVars, kernelVars, historyVars
  <1>3. \/ pc = "open" /\ pc' \in {"attach", "out_error"}
        \/ pc = "attach" /\ pc' = "execute"
        \/ pc = "retc" /\ retc = "SUCCESS" /\ pc' = "verify"
        \/ pc = "retc" /\ retc # "SUCCESS" /\ pc' = "out_error2"
        \/ pc = "verify" /\ (opt.verify => Same /\ TrailingZeros) /\ pc' = "detach_ok"
        \/ pc = "verify" /\ opt.verify /\ ~(Same /\ TrailingZeros) /\ pc' = "detach_verify"
        \/ pc = "detach_ok" /\ pc' = "free_ok"
        \/ pc = "detach_verify" /\ pc' = "free_verify"
        \/ pc = "out_error2" /\ pc' = "out_error1"
        \/ pc = "free_ok" /\ pc' = "exit_ok"
        \/ pc = "free_verify" /\ pc' = "exit_verify"
        \/ pc = "out_error1" /\ pc' = "out_error"
    <2> USE DEF At, Goto, Take, TakeOr, Drop
    <2>1. CASE OpenCard(p) \/ Attach(p) \/ Retc(p)
      BY <2>1 DEF OpenCard, Attach, Retc, CardAlloc, AttachAction
    <2>2. CASE Verify(p)
      BY <2>2 DEF Verify
    <2>3. CASE Detach(p)
      BY <2>3 DEF Detach, DetachAction, AfterDetach
    <2>4. CASE FreeCard(p)
      BY <2>4 DEF FreeCard, CardFree, AfterFree
    <2> QED
      BY <2>1, <2>2, <2>3, <2>4 DEF QuietSteps
  <1>4. exit = "none" /\ pc # Shell /\ pc' # Shell
    BY <1>3 DEF Running, Shell
  <1> USE DEF Early, Checked, GivenUp, WithAction, WithCard, WithBoth, Shell
  <1>5. CopyTypes' /\ StoredStays'
    BY <1>1, <1>2 DEF CopyRest, CopyTypes, StoredStays
  <1>6. KernelControl' /\ KernelPlace'
    <2>1. KernelControl'
      BY <1>1, <1>2, <1>3, <1>4 DEF CopyRest, KernelControl, CopyOptions
    <2>2. KernelPlace'
      BY <1>1, <1>2 DEF CopyRest, KernelPlace, UsesCard, Fits
    <2> QED
      BY <2>1, <2>2
  <1>7. BuffersKnown' /\ SourceKnown'
    <2>1. BuffersKnown'
      BY <1>1, <1>2, <1>3 DEF CopyRest, BuffersKnown, OutputCells, SetSize
    <2>2. SourceKnown'
      BY <1>1, <1>2 DEF CopyRest, SourceKnown, Fits
    <2> QED
      BY <2>1, <2>2
  <1>8. Moved'
    <2>1. /\ JobDone' <=> JobDone
          /\ Landed(kernel.pos)' <=> Landed(kernel.pos)
      BY <1>1, <1>2, LandedStays
    <2>2. Converted' = Converted
      BY <1>1, <1>2 DEF Converted
    <2>3. Moved
      BY DEF CopyRest
    <2> QED
      BY <1>1, <1>2, <1>3, <1>4, <2>1, <2>2, <2>3 DEF Moved
  <1>9. StoredApart'
    BY <1>1, <1>2, <1>4 DEF CopyRest, StoredApart, JobWords
  <1>10. Verdicts'
    <2>1. (Same' <=> Same) /\ (TrailingZeros' <=> TrailingZeros)
      BY <1>1, <1>2 DEF Same, TrailingZeros, SetSize
    <2>2. pc = "verify" /\ opt.verify /\ ~(Same /\ TrailingZeros) /\ prog = "snap_memcopy" =>
             Same /\ opt.size % Wide # 0
      <3> SUFFICES ASSUME pc = "verify", opt.verify, ~(Same /\ TrailingZeros), prog = "snap_memcopy"
                   PROVE  Same /\ opt.size % Wide # 0
        OBVIOUS
      <3>1. opt \in MemcopyOptions /\ opt.src = "file" /\ opt.dst = "file" /\ opt.size \in Nat
        BY CopyFields DEF CopyRest, KernelControl, CopyOptions
      <3>2. JobDone /\ DOMAIN obuff = OutputCells /\ \A c \in 0 .. opt.size - 1 : ibuff[c] = want[c]
        BY <3>1 DEF CopyRest, Moved, BuffersKnown
      <3>3. DOMAIN want = 0 .. opt.size - 1
        BY <3>1 DEF CopyRest, SourceKnown
      <3>4. Same
        <4>1. \A c \in 0 .. opt.size - 1 : c < opt.size /\ Converted[c] = want[c]
          BY <3>1, <3>3 DEF Converted
        <4>2. \A c \in 0 .. opt.size - 1 : obuff[c] = Converted[c]
          BY <3>1, <3>2, <4>1 DEF JobDone, Landed
        <4> QED
          BY <3>2, <4>1, <4>2 DEF Same
      <3>5. ASSUME opt.size % Wide = 0 PROVE FALSE
        <4>1. snap_malloc(opt.size) = opt.size
          BY <3>1, <3>5, FullWords, RoundUpMultiple, CopyBounds DEF snap_malloc
        <4>2. SetSize \in Nat /\ opt.size <= SetSize /\ SetSize <= snap_malloc(SetSize) /\ snap_malloc(SetSize) \in Nat
          BY Room DEF CopyRest
        <4>3. top <= opt.size /\ top \in Nat
          BY <4>1 DEF CopyRest, BuffersKnown, CopyTypes
        <4>4. \A c \in opt.size .. SetSize - 1 : c \in OutputCells /\ c >= top
          BY <3>1, <4>2, <4>3 DEF OutputCells
        <4>5. TrailingZeros
          BY <3>2, <4>4 DEF TrailingZeros, CopyRest, BuffersKnown
        <4> QED
          BY <3>4, <4>5
      <3> QED
        BY <3>4, <3>5
    <2>3. Verdicts
      BY DEF CopyRest
    <2> QED
      BY <1>1, <1>2, <1>3, <1>4, <2>1, <2>2, <2>3 DEF Verdicts
  <1>11. Running'
    BY <1>1, <1>4 DEF Running
  <1> QED
    BY <1>5, <1>6, <1>7, <1>8, <1>9, <1>10, <1>11 DEF CopyRest

\* ... the buffers are allocated and filled, ...
LEMMA InputStep ==
    ASSUME CopyRest, Running, prog \in CopyPrograms, NEW p \in CopyPrograms, Input(p)
    PROVE  CopyRest' /\ Running'
  <1>1. /\ pc = "input" /\ pc' \in {"output", "out_error"} /\ UNCHANGED <<prog, opt, exit>>
        /\ UNCHANGED <<obuff, file, retc, kernel, gbuf, dbuf, card_mem, top, want, stored>>
        /\ pc' = "output" /\ opt.src = "file" =>
             \E j : ibuff' = [c \in 0 .. snap_malloc(opt.size) - 1 |-> IF c < opt.size THEN want[c] ELSE j]
    BY DEF Input, At, Goto, Take, kernelVars, historyVars
  <1>2. exit = "none" /\ Running' /\ ~kernel.busy
    BY <1>1 DEF Running, Shell, CopyRest, KernelControl, GivenUp
  <1> USE DEF Early, Checked, GivenUp, WithAction, WithCard, WithBoth, Shell
  <1>3. CopyTypes' /\ StoredStays'
    BY <1>1 DEF CopyRest, CopyTypes, StoredStays
  <1>4. KernelControl' /\ KernelPlace'
    BY <1>1, <1>2 DEF CopyRest, KernelControl, CopyOptions, KernelPlace
  <1>5. SourceKnown' /\ StoredApart'
    BY <1>1, <1>2 DEF CopyRest, SourceKnown, Fits, StoredApart, JobWords
  <1>6. Moved' /\ Verdicts'
    BY <1>1, <1>2 DEF Moved, Verdicts
  <1>7. BuffersKnown'
    <2>1. pc' = "output" /\ opt.src = "file" => \A c \in 0 .. opt.size - 1 : ibuff'[c] = want[c]
      <3> SUFFICES ASSUME pc' = "output", opt.src = "file", NEW c \in 0 .. opt.size - 1
                   PROVE  ibuff'[c] = want[c]
        OBVIOUS
      <3>1. c \in 0 .. snap_malloc(opt.size) - 1 /\ c < opt.size
        BY Room DEF CopyRest
      <3> QED
        BY <1>1, <3>1
    <2> QED
      BY <1>1, <2>1 DEF CopyRest, BuffersKnown, OutputCells, SetSize
  <1> QED
    BY <1>2, <1>3, <1>4, <1>5, <1>6, <1>7 DEF CopyRest

\* The output buffer is clear when it is allocated.
LEMMA OutputStep ==
    ASSUME CopyRest, Running, prog \in CopyPrograms, NEW p \in CopyPrograms, Output(p)
    PROVE  CopyRest' /\ Running'
  <1>1. /\ pc = "output" /\ pc' \in {"open", "out_error"} /\ UNCHANGED <<prog, opt, exit>>
        /\ UNCHANGED <<ibuff, file, retc, kernel, gbuf, dbuf, card_mem, top, want, stored>>
        /\ obuff' = obuff \/ obuff' = [c \in OutputCells |-> 0]
        /\ pc' = "open" /\ opt.dst = "file" => obuff' = [c \in OutputCells |-> 0]
    BY DEF Output, At, Goto, Take, kernelVars, historyVars, OutputCells
  <1>2. exit = "none" /\ Running' /\ ~kernel.busy
    BY <1>1 DEF Running, Shell, CopyRest, KernelControl, GivenUp
  <1> USE DEF Early, Checked, GivenUp, WithAction, WithCard, WithBoth, Shell
  <1>3. CopyTypes' /\ StoredStays'
    BY <1>1 DEF CopyRest, CopyTypes, StoredStays
  <1>4. KernelControl' /\ KernelPlace'
    BY <1>1, <1>2 DEF CopyRest, KernelControl, CopyOptions, KernelPlace
  <1>5. SourceKnown' /\ StoredApart'
    BY <1>1, <1>2 DEF CopyRest, SourceKnown, Fits, StoredApart, JobWords
  <1>6. Moved' /\ Verdicts'
    BY <1>1, <1>2 DEF Moved, Verdicts
  <1>7. BuffersKnown'
    <2>1. top = 0 /\ OutputCells' = OutputCells /\ snap_malloc(opt.size)' = snap_malloc(opt.size)
      BY <1>1 DEF CopyRest, KernelControl, OutputCells, SetSize, snap_malloc
    <2>2. BuffersKnown
      BY DEF CopyRest
    <2>3. CASE obuff' = obuff
      BY <1>1, <2>1, <2>2, <2>3 DEF BuffersKnown
    <2>4. CASE obuff' = [c \in OutputCells |-> 0]
      BY <1>1, <2>1, <2>2, <2>4 DEF BuffersKnown
    <2> QED
      BY <1>1, <2>3, <2>4
  <1> QED
    BY <1>2, <1>3, <1>4, <1>5, <1>6, <1>7 DEF CopyRest

\* ... the kernel is started and waited for, ...
LEMMA ExecuteStep ==
    ASSUME CopyRest, Running, prog \in CopyPrograms, NEW p \in CopyPrograms, Execute(p)
    PROVE  CopyRest' /\ Running'
  <1>1. /\ pc = "execute" /\ pc' = "wait" /\ UNCHANGED <<prog, opt, exit>>
        /\ UNCHANGED <<ibuff, obuff, file, retc, gbuf, dbuf, card_mem, top, want, stored>>
        /\ kernel' = [busy |-> TRUE, left |-> opt.size, pos |-> 0,
                      src |-> opt.src, dst |-> opt.dst, at |-> opt.at, retc |-> "none"]
    BY DEF Execute, At, Goto, bufferVars, historyVars
  <1>2. exit = "none" /\ Running' /\ opt.size \in Nat /\ top = 0
    BY <1>1, Room DEF Running, Shell, CopyRest, KernelControl, Early
  <1> USE DEF Early, Checked, GivenUp, WithAction, WithCard, WithBoth, Shell
  <1>3. CopyTypes' /\ StoredStays'
    BY <1>1, <1>2 DEF CopyRest, CopyTypes, StoredStays, IdleKernel
  <1>4. KernelControl'
    BY <1>1, <1>2 DEF CopyRest, KernelControl, CopyOptions
  <1>5. KernelPlace'
    <2>1. \A w \in Nat : Multiple(0, w)
      <3>1. \A w \in Nat : 0 \in Nat /\ 0 = 0 * w
        OBVIOUS
      <3> QED
        BY <3>1 DEF Multiple
    <2>2. Multiple(0, NBlock) /\ Multiple(0, Narrow)
      BY <2>1, CopyBounds
    <2>3. kernel'.pos = 0 /\ kernel'.left = opt.size
      BY <1>1
    <2> QED
      BY <1>1, <1>2, <2>2, <2>3 DEF KernelPlace
  <1>6. SourceKnown' /\ StoredApart'
    BY <1>1, <1>2 DEF CopyRest, SourceKnown, Fits, StoredApart, JobWords
  <1>7. BuffersKnown'
    BY <1>1, <1>2 DEF CopyRest, BuffersKnown, OutputCells, SetSize
  <1>8. Moved'
    <2>1. kernel'.pos = 0 /\ opt' = opt /\ kernel'.busy = TRUE /\ pc' = "wait"
      BY <1>1
    <2>2. Landed(kernel.pos)'
      BY <1>2, <2>1 DEF Landed
    <2> QED
      BY <2>1, <2>2 DEF Moved
  <1>9. Verdicts'
    BY <1>1, <1>2 DEF Verdicts
  <1> QED
    BY <1>2, <1>3, <1>4, <1>5, <1>6, <1>7, <1>8, <1>9 DEF CopyRest

\* The results of the job are those of the kernel, or it is given up.
LEMMA WaitStep ==
    ASSUME CopyRest, Running, prog \in CopyPrograms, NEW p \in CopyPrograms, Wait(p)
    PROVE  CopyRest' /\ Running'
  <1>1. /\ pc = "wait" /\ UNCHANGED <<prog, opt, exit>>
        /\ UNCHANGED <<ibuff, obuff, file, kernel, gbuf, dbuf, card_mem, top, want, stored>>
        /\ \/ ~kernel.busy /\ retc' = kernel.retc /\ pc' = "write"
           \/ pc' = "out_error2" /\ retc' = retc
    BY DEF Wait, At, Goto, kernelVars, historyVars
  <1>2. exit = "none" /\ Running'
    BY <1>1 DEF Running, Shell
  <1> USE DEF Early, Checked, GivenUp, WithAction, WithCard, WithBoth, Shell
  <1>3. CopyTypes' /\ StoredStays'
    BY <1>1 DEF CopyRest, CopyTypes, StoredStays
  <1>4. KernelControl' /\ KernelPlace'
    <2>1. KernelControl'
      BY <1>1, <1>2 DEF CopyRest, KernelControl, CopyOptions
    <2>2. KernelPlace'
      BY <1>1, <1>2 DEF CopyRest, KernelPlace, UsesCard, Fits
    <2> QED
      BY <2>1, <2>2
  <1>5. SourceKnown' /\ StoredApart'
    BY <1>1, <1>2 DEF CopyRest, SourceKnown, Fits, StoredApart, JobWords
  <1>6. BuffersKnown'
    BY <1>1 DEF CopyRest, BuffersKnown, OutputCells, SetSize
  <1>7. Moved' /\ Verdicts'
    <2>1. JobDone' <=> JobDone
      BY <1>1, LandedStays
    <2> QED
      BY <1>1, <1>2, <2>1 DEF CopyRest, Moved, Verdicts
  <1> QED
    BY <1>2, <1>3, <1>4, <1>5, <1>6, <1>7 DEF CopyRest

\* ... and the output file is written.
LEMMA WriteStep ==
    ASSUME CopyRest, Running, prog \in CopyPrograms, NEW p \in CopyPrograms, Write(p)
    PROVE  CopyRest' /\ Running'
  <1>1. /\ pc = "write" /\ pc' \in {"retc", "out_error2"} /\ UNCHANGED <<prog, opt, exit>>
        /\ UNCHANGED <<ibuff, obuff, retc, kernel, gbuf, dbuf, card_mem, top, want, stored>>
        /\ pc' = "retc" /\ opt.dst = "file" => file' = [c \in 0 .. opt.size - 1 |-> obuff[c]]
    BY DEF Write, At, Goto, kernelVars, historyVars
  <1>2. exit = "none" /\ Running' /\ ~kernel.busy
    BY <1>1 DEF Running, Shell, CopyRest, KernelControl, GivenUp
  <1> USE DEF Early, Checked, GivenUp, WithAction, WithCard, WithBoth, Shell
  <1>3. CopyTypes' /\ StoredStays'
    BY <1>1 DEF CopyRest, CopyTypes, StoredStays
  <1>4. KernelControl' /\ KernelPlace'
    BY <1>1, <1>2 DEF CopyRest, KernelControl, CopyOptions, KernelPlace
  <1>5. SourceKnown' /\ StoredApart'
    BY <1>1, <1>2 DEF CopyRest, SourceKnown, Fits, StoredApart, JobWords
  <1>6. BuffersKnown'
    BY <1>1 DEF CopyRest, BuffersKnown, OutputCells, SetSize
  <1>7. Moved'
    <2>1. JobDone' <=> JobDone
      BY <1>1, LandedStays
    <2>2. retc = "SUCCESS" => JobDone
      BY <1>1 DEF CopyRest, Moved
    <2>3. ASSUME pc' = "retc", retc = "SUCCESS", opt.dst = "file", opt.src # "unused"
          PROVE  file' = Converted'
      <3>1. opt.size \in Nat
        BY Room DEF CopyRest
      <3>2. \A c \in 0 .. opt.size - 1 : obuff[c] = Converted[c]
        BY <2>2, <2>3, <3>1 DEF JobDone, Landed
      <3>3. DOMAIN want = 0 .. opt.size - 1
        <4>1. opt.src \in {"file", "card", "unused"}
          BY CopyFields DEF CopyRest, KernelControl, CopyOptions
        <4>2. opt.src = "card" => Fits
          BY <2>2, <2>3 DEF JobDone, UsesCard
        <4> QED
          BY <2>3, <4>1, <4>2 DEF CopyRest, SourceKnown
      <3>4. Converted = [c \in 0 .. opt.size - 1 |-> Converted[c]]
        BY <3>3 DEF Converted
      <3>5. Converted' = Converted
        BY <1>1 DEF Converted
      <3> QED
        BY <1>1, <2>3, <3>2, <3>4, <3>5
    <2> QED
      BY <1>1, <1>2, <2>1, <2>2, <2>3 DEF Moved
  <1>8. Verdicts'
    BY <1>1, <1>2 DEF Verdicts
  <1> QED
    BY <1>2, <1>3, <1>4, <1>5, <1>6, <1>7, <1>8 DEF CopyRest

\* The end of a program: what it has put on the card is remembered.
LEMMA FreeBuffersStep ==
    ASSUME CopyRest, Running, prog \in CopyPrograms, NEW p \in CopyPrograms, FreeBuffers(p)
    PROVE  CopyRest' /\ Running'
  <1>1. /\ pc' = Shell /\ UNCHANGED <<prog, opt>>
        /\ UNCHANGED <<ibuff, obuff, file, retc, kernel, gbuf, dbuf, card_mem, top, want>>
        /\ \/ pc = "exit_ok" /\ exit' = "ok"
           \/ pc = "exit_verify" /\ exit' = "EX_ERR_VERIFY"
           \/ pc = "out_error" /\ exit' = "failure"
    BY DEF FreeBuffers, Exit, ExitCode, bufferVars, kernelVars
  <1>2. \/ /\ pc = "exit_ok" /\ opt.src # "unused" /\ opt.dst = "card"
           /\ stored' = [c \in DOMAIN stored \cup {opt.at + k : k \in DOMAIN want} |->
                           IF c - opt.at \in DOMAIN want THEN want[c - opt.at] ELSE stored[c]]
        \/ stored' = stored
    BY DEF FreeBuffers
  <1>3. pc # "out_error" => ~kernel.busy /\ JobDone
    BY <1>1 DEF CopyRest, KernelControl, GivenUp, Moved, Checked, Shell
  <1> USE DEF Early, Checked, GivenUp, WithAction, WithCard, WithBoth, Shell
  <1>4. CopyTypes' /\ StoredStays'
    <2>1. CASE stored' = stored
      BY <1>1, <2>1 DEF CopyRest, CopyTypes, StoredStays
    <2>2. CASE /\ pc = "exit_ok" /\ opt.src # "unused" /\ opt.dst = "card"
               /\ stored' = [c \in DOMAIN stored \cup {opt.at + k : k \in DOMAIN want} |->
                               IF c - opt.at \in DOMAIN want THEN want[c - opt.at] ELSE stored[c]]
      <3>1. /\ opt.src \in {"file", "card"} /\ opt.size \in Nat /\ opt.at \in {0, Far}
        BY <2>2, CopyFields DEF CopyRest, KernelControl, CopyOptions
      <3>2. Fits /\ \A c \in 0 .. opt.size - 1 : card_mem[opt.at + c] = want[c]
        <4>1. JobDone /\ UsesCard
          BY <1>3, <2>2 DEF UsesCard
        <4>2. \A c \in 0 .. opt.size - 1 : c < opt.size
          BY <3>1
        <4> QED
          BY <2>2, <4>1, <4>2 DEF JobDone, Landed
      <3>3. DOMAIN want = 0 .. opt.size - 1
        BY <3>1, <3>2 DEF CopyRest, SourceKnown
      <3>4. /\ DOMAIN stored \subseteq CardCells /\ \A c \in CardCells : c \in Int
            /\ \A k \in DOMAIN want : opt.at + k \in CardCells
        <4>1. CARD_DRAM_SIZE \in Nat /\ Far \in Nat /\ CARD_DRAM_SIZE <= Far
          BY CopyBounds
        <4>2. opt.size <= CARD_DRAM_SIZE
          BY <3>2 DEF Fits
        <4>3. \A k \in 0 .. opt.size - 1 : opt.at + k \in 0 .. 2 * Far - 1
          BY <3>1, <4>1, <4>2
        <4> QED
          BY <3>3, <4>1, <4>3 DEF CardCells, CopyRest, CopyTypes
      <3>5. DOMAIN stored' = DOMAIN stored \cup {opt.at + k : k \in DOMAIN want}
        BY <2>2
      <3>6. DOMAIN stored' \subseteq CardCells
        BY <3>4, <3>5
      <3>7. ASSUME NEW c \in DOMAIN stored' PROVE card_mem[c] = stored'[c]
        <4>1. stored'[c] = IF c - opt.at \in DOMAIN want THEN want[c - opt.at] ELSE stored[c]
          BY <2>2, <3>5, <3>7
        <4>2. CASE c - opt.at \in DOMAIN want
          <5>1. c = opt.at + (c - opt.at)
            BY <3>1, <3>4, <3>6, CopyBounds
          <5> QED
            BY <3>2, <3>3, <4>1, <4>2, <5>1
        <4>3. CASE c - opt.at \notin DOMAIN want
          <5>1. \A k \in DOMAIN want : (opt.at + k) - opt.at = k
            <6>1. opt.at \in Int
              BY <3>1, CopyBounds
            <6> QED
              BY <3>3, <6>1
          <5>2. c \in DOMAIN stored
            BY <3>5, <4>3, <5>1
          <5> QED
            BY <4>1, <4>3, <5>2 DEF CopyRest, StoredStays
        <4> QED
          BY <4>2, <4>3
      <3> QED
        BY <1>1, <3>6, <3>7 DEF CopyRest, CopyTypes, StoredStays
    <2> QED
      BY <1>2, <2>1, <2>2
  <1>5. KernelControl'
    BY <1>1, <1>3 DEF CopyRest, KernelControl, CopyOptions
  <1>6. KernelPlace'
    BY <1>1 DEF CopyRest, KernelPlace, UsesCard, Fits
  <1>7. SourceKnown'
    BY <1>1 DEF CopyRest, SourceKnown, Fits
  <1>8. StoredApart'
    <2>1. kernel.busy => pc = "out_error" /\ stored' = stored
      BY <1>2, <1>3, <1>1
    <2> QED
      BY <1>1, <2>1 DEF CopyRest, StoredApart, JobWords
  <1>9. BuffersKnown'
    BY <1>1 DEF CopyRest, BuffersKnown, OutputCells, SetSize
  <1>10. Moved'
    <2>1. Converted' = Converted
      BY <1>1 DEF Converted
    <2> QED
      BY <1>1, <2>1 DEF CopyRest, Moved
  <1>11. Verdicts'
    BY <1>1 DEF CopyRest, Verdicts, Same, TrailingZeros, SetSize
  <1>12. Running'
    BY <1>1 DEF Running
  <1> QED
    BY <1>4, <1>5, <1>6, <1>7, <1>8, <1>9, <1>10, <1>11, <1>12 DEF CopyRest

\* Every step of the process.
LEMMA CopyRestStep ==
    ASSUME CopyRest, Running, prog \in CopyPrograms, NEW p \in CopyPrograms, CopyStep(p)
    PROVE  CopyRest' /\ Running'
  BY QuietStep, InputStep, OutputStep, ExecuteStep, WaitStep, WriteStep, FreeBuffersStep DEF CopyStep, QuietSteps

\* The start of a program, whatever an earlier one has left.
LEMMA CopyStartStep ==
    ASSUME CopyTypes, StoredStays, prog \in CopyPrograms, CopyStart
    PROVE  CopyRest' /\ Running' /\ prog' = prog /\ held' = {} /\ pc' = "input"
  <1>1. PICK o \in MemcopyOptions \cup HelloworldOptions :
           o \in (IF prog = "snap_memcopy" THEN MemcopyOptions ELSE HelloworldOptions) /\ CopyRun(prog, o)
    BY DEF CopyStart
  <1>2. /\ ~kernel.busy /\ prog' = prog /\ opt' = o /\ pc' = "input" /\ held' = {} /\ exit' = "none"
        /\ ibuff' = Nothing /\ obuff' = Nothing /\ file' = Nothing /\ retc' = "none" /\ top' = 0
        /\ UNCHANGED <<kernel, gbuf, dbuf, card_mem>>
    BY <1>1 DEF CopyRun, Run
  <1>3. stored' = IF o.dst # "card" THEN stored
                  ELSE [c \in DOMAIN stored \ (o.at .. o.at + RoundUp(o.size, Narrow) - 1) |-> stored[c]]
    BY <1>1 DEF CopyRun
  <1>4. o.src \in {"file", "card", "unused"} /\ o.size \in Nat /\ o.at \in {0, Far}
    BY <1>1, CopyFields
  <1>5. /\ o.src = "file" => want' = [c \in 0 .. o.size - 1 |-> 10 * runs' + c]
        /\ o.src = "card" /\ o.size <= CARD_DRAM_SIZE =>
             want' = [c \in 0 .. o.size - 1 |-> card_mem[Source(o) + c]]
        /\ o.src = "card" /\ ~(o.size <= CARD_DRAM_SIZE) => want' = Nothing
        /\ o.src = "unused" => want' = Nothing
    BY <1>1, <1>4 DEF CopyRun, Data
  <1>6. DOMAIN stored' \subseteq DOMAIN stored /\ \A c \in DOMAIN stored' : stored'[c] = stored[c]
    BY <1>3
  <1> USE DEF Early, Checked, GivenUp, WithAction, WithCard, WithBoth, Shell
  <1>7. CopyTypes' /\ StoredStays'
    BY <1>2, <1>6 DEF CopyTypes, StoredStays
  <1>8. KernelControl'
    BY <1>1, <1>2 DEF KernelControl, CopyOptions
  <1>9. KernelPlace'
    BY <1>2 DEF KernelPlace
  <1>10. BuffersKnown'
    <2>1. DOMAIN obuff' = {}
      BY <1>2 DEF Nothing
    <2>2. snap_malloc(opt.size)' \in Nat
      BY <1>2, <1>4, CopyBounds, RoundUpIs DEF snap_malloc
    <2> QED
      BY <1>2, <2>1, <2>2 DEF BuffersKnown
  <1>11. SourceKnown'
    <2>1. DOMAIN Nothing = {}
      BY DEF Nothing
    <2>2. Source(opt)' = Source(o) /\ (Fits' <=> o.size <= CARD_DRAM_SIZE)
      BY <1>2 DEF Source, Fits
    <2> QED
      BY <1>2, <1>4, <1>5, <2>1, <2>2 DEF SourceKnown
  <1>12. Moved' /\ Verdicts'
    BY <1>2 DEF Moved, Verdicts
  <1>13. StoredApart'
    <2> SUFFICES ASSUME o.dst = "card" PROVE DOMAIN stored' \cap JobWords' = {}
      BY <1>2 DEF StoredApart
    <2>1. JobWords' = o.at .. o.at + RoundUp(o.size, Narrow) - 1
      BY <1>2 DEF JobWords
    <2>2. DOMAIN stored' = DOMAIN stored \ (o.at .. o.at + RoundUp(o.size, Narrow) - 1)
      BY <1>3
    <2> QED
      BY <2>1, <2>2
  <1>14. Running'
    BY <1>2 DEF Running
  <1> QED
    BY <1>2, <1>7, <1>8, <1>9, <1>10, <1>11, <1>12, <1>13, <1>14 DEF CopyRest

-----------------------------------------------------------------------------
(* The kernels.                                                            *)

\* The results of a job, at its end or when it is refused.
LEMMA KernelEnds ==
    ASSUME CopyRest, Running, prog \in CopyPrograms, Ran, MemcopyRefuses \/ KernelReturns
    PROVE  CopyRest' /\ Running'
  <1>1. /\ kernel.busy /\ UNCHANGED <<prog, pc, opt, held, exit>>
        /\ UNCHANGED <<ibuff, obuff, file, retc, gbuf, dbuf, card_mem, top, want, stored>>
        /\ \/ kernel' = [kernel EXCEPT !.busy = FALSE, !.retc = "FAILURE"]
           \/ kernel.left = 0 /\ kernel' = [kernel EXCEPT !.busy = FALSE, !.retc = "SUCCESS"]
    BY DEF MemcopyRefuses, KernelReturns, processVars, bufferVars, historyVars
  <1>2. DOMAIN kernel = DOMAIN IdleKernel /\ DOMAIN IdleKernel = {"busy", "left", "pos", "src", "dst", "at", "retc"}
    BY DEF CopyRest, CopyTypes, IdleKernel
  <1>3. /\ DOMAIN kernel' = DOMAIN IdleKernel /\ ~kernel'.busy
        /\ kernel'.left = kernel.left /\ kernel'.pos = kernel.pos
        /\ kernel'.retc = "FAILURE" \/ (kernel.left = 0 /\ kernel'.retc = "SUCCESS")
    BY <1>1, <1>2
  <1> USE DEF Early, Checked, GivenUp, WithAction, WithCard, WithBoth, Shell
  <1>4. CopyTypes'
    BY <1>1, <1>3 DEF CopyRest, CopyTypes
  <1>5. StoredStays' /\ KernelControl' /\ KernelPlace'
    BY <1>1, <1>3 DEF CopyRest, StoredStays, KernelControl, CopyOptions, KernelPlace
  <1>6. BuffersKnown' /\ SourceKnown'
    <2>1. BuffersKnown'
      BY <1>1 DEF CopyRest, BuffersKnown, OutputCells, SetSize
    <2>2. SourceKnown'
      BY <1>1 DEF CopyRest, SourceKnown, Fits
    <2> QED
      BY <2>1, <2>2
  <1>7. Moved'
    <2>1. pc \notin {"write", "retc"} \cup Checked /\ ~(pc = Shell /\ exit \in {"ok", "EX_ERR_VERIFY"})
      BY <1>1 DEF CopyRest, KernelControl
    <2>2. ASSUME pc = "wait", kernel.left = 0 PROVE JobDone
      <3>1. /\ Landed(kernel.pos) /\ opt.size \in Nat /\ kernel.pos \in Nat /\ CARD_DRAM_SIZE \in Nat
        BY <1>1, <2>2, Room, CopyBounds DEF CopyRest, Moved, CopyTypes
      <3>2. kernel.pos >= opt.size /\ (UsesCard => Fits)
        <4>1. CASE prog = "snap_memcopy"
          <5>1. /\ kernel.pos + kernel.left = opt.size
                /\ kernel.pos > 0 /\ UsesCard => Fits
            BY <1>1, <4>1 DEF CopyRest, KernelPlace
          <5> QED
            BY <2>2, <3>1, <5>1 DEF Fits
        <4>2. CASE prog = "snap_helloworld"
          <5>1. kernel.left = IF kernel.pos < opt.size THEN opt.size - kernel.pos ELSE 0
            BY <1>1, <4>2 DEF CopyRest, KernelPlace
          <5>2. ~UsesCard
            BY <4>2, CopyFields DEF CopyRest, KernelControl, CopyOptions, UsesCard
          <5> QED
            BY <2>2, <3>1, <5>1, <5>2
        <4> QED
          BY <4>1, <4>2 DEF CopyPrograms
      <3>3. \A c \in 0 .. opt.size - 1 : c < kernel.pos
        BY <3>1, <3>2
      <3> QED
        BY <3>1, <3>2, <3>3 DEF Landed, JobDone
    <2>3. JobDone' <=> JobDone
      BY <1>1, LandedStays
    <2> QED
      BY <1>1, <1>3, <2>1, <2>2, <2>3 DEF Moved
  <1>8. StoredApart'
    BY <1>1, <1>3 DEF CopyRest, StoredApart, JobWords
  <1>9. Verdicts' /\ Running'
    BY <1>1 DEF CopyRest, Verdicts, Same, TrailingZeros, SetSize, Running
  <1> QED
    BY <1>4, <1>5, <1>6, <1>7, <1>8, <1>9 DEF CopyRest

\* While the kernel reaches the process, the buffers of the job are there.
LEMMA Reached ==
    ASSUME CopyHeld, CopyRest, prog \in CopyPrograms, kernel.busy
    PROVE  /\ pc = "wait" => HostReached
           /\ HostReached => /\ pc \in WithBoth
                             /\ opt.src = "file" => \A c \in 0 .. opt.size - 1 : ibuff[c] = want[c]
                             /\ opt.dst = "file" => DOMAIN obuff = OutputCells
  <1>1. pc = "wait" => HostReached
    BY DEF CopyHeld, HostReached, WithCard, WithAction
  <1>2. HostReached => pc \in WithBoth
    BY DEF CopyHeld, HostReached, WithBoth
  <1> QED
    BY <1>1, <1>2 DEF CopyRest, BuffersKnown

\* The invariant's parts that no step of a working kernel touches.
LEMMA KernelWorks ==
    ASSUME CopyRest, Running, prog \in CopyPrograms, kernel.busy,
           UNCHANGED <<prog, pc, opt, exit, want, file, retc, stored>>,
           DOMAIN kernel' = DOMAIN kernel, kernel'.busy = kernel.busy, kernel'.retc = kernel.retc,
           kernel'.src = kernel.src, kernel'.dst = kernel.dst, kernel'.at = kernel.at,
           pc \in Early => top' = 0, pc = "wait" => Landed(kernel.pos)'
    PROVE  KernelControl' /\ Moved' /\ StoredApart' /\ Verdicts' /\ Running'
  <1>1. pc \in {"wait"} \cup GivenUp \/ (pc = Shell /\ exit = "failure")
    BY DEF CopyRest, KernelControl
  <1> USE DEF Early, Checked, GivenUp, Shell
  <1>2. KernelControl'
    BY DEF CopyRest, KernelControl, CopyOptions
  <1>3. Moved'
    BY <1>1 DEF CopyRest, Moved
  <1>4. StoredApart'
    BY DEF CopyRest, StoredApart, JobWords
  <1>5. Verdicts' /\ Running'
    BY <1>1 DEF CopyRest, Verdicts, Running
  <1> QED
    BY <1>2, <1>3, <1>4, <1>5

\* Words written at the place the kernel is at, behind which all was clear.
LEMMA WrittenIs ==
    ASSUME NEW m, NEW p \in Nat, NEW ws \in Nat, NEW buffer, DOMAIN m \subseteq Int
    PROVE  /\ DOMAIN Written(m, p, ws, buffer) = DOMAIN m
           /\ \A c \in DOMAIN m : p <= c /\ c < p + ws => Written(m, p, ws, buffer)[c] = buffer[c - p]
           /\ \A c \in DOMAIN m : ~(p <= c /\ c < p + ws) => Written(m, p, ws, buffer)[c] = m[c]
  <1>1. \A c \in DOMAIN m : c \in p .. p + ws - 1 <=> p <= c /\ c < p + ws
    OBVIOUS
  <1> QED
    BY <1>1 DEF Written

\* The same for the output buffer: behind the new words it is still clear.
LEMMA OutputWritten ==
    ASSUME CopyRest, prog \in CopyPrograms, NEW p \in Nat, NEW ws \in Nat, NEW buffer,
           UNCHANGED <<prog, opt, pc, ibuff, want>>,
           DOMAIN obuff = OutputCells, obuff' = Written(obuff, p, ws, buffer),
           top <= p, top' = p + ws, p + ws <= snap_malloc(opt.size)
    PROVE  BuffersKnown'
  <1>1. /\ OutputCells' = OutputCells /\ snap_malloc(opt.size)' = snap_malloc(opt.size)
    BY DEF OutputCells, SetSize, snap_malloc
  <1>2. OutputCells \subseteq Int /\ top \in Nat
    BY Room DEF CopyRest, CopyTypes, OutputCells
  <1>3. /\ DOMAIN obuff' = OutputCells
        /\ \A c \in OutputCells : ~(p <= c /\ c < p + ws) => obuff'[c] = obuff[c]
    <2>1. DOMAIN obuff \subseteq Int
      BY <1>2
    <2>2. /\ DOMAIN obuff' = DOMAIN obuff
          /\ \A c \in DOMAIN obuff : ~(p <= c /\ c < p + ws) => obuff'[c] = obuff[c]
      BY <2>1, WrittenIs
    <2> QED
      BY <2>2
  <1>4. \A c \in OutputCells : c >= top' => obuff'[c] = 0
    <2> SUFFICES ASSUME NEW c \in OutputCells, c >= top' PROVE obuff'[c] = 0
      OBVIOUS
    <2>1. ~(p <= c /\ c < p + ws) /\ c >= top
      BY <1>2
    <2>2. obuff'[c] = obuff[c]
      BY <1>3, <2>1
    <2> QED
      BY <2>1, <2>2 DEF CopyRest, BuffersKnown
  <1> QED
    BY <1>1, <1>3, <1>4 DEF CopyRest, BuffersKnown

\* A word of helloworld.
LEMMA UppercaseStep ==
    ASSUME CopyHeld, CopyRest, Running, prog \in CopyPrograms, UppercaseWord
    PROVE  CopyRest' /\ Running'
  <1> DEFINE p == kernel.pos
             word == [c \in 0 .. Narrow - 1 |-> Upper(ibuff[p + c])]
  <1>1. /\ prog = "snap_helloworld" /\ kernel.busy /\ kernel.left > 0
        /\ UNCHANGED <<prog, pc, opt, held, exit, ibuff, file, retc, gbuf, dbuf, card_mem, want, stored>>
        /\ kernel' = [kernel EXCEPT !.left = kernel.left - Least(kernel.left, Narrow), !.pos = p + Narrow]
        /\ HostReached => obuff' = Written(obuff, p, Narrow, word) /\ top' = p + Narrow
        /\ ~HostReached => UNCHANGED <<obuff, top>>
    BY DEF UppercaseWord, processVars, historyVars
  <1>2. /\ opt.src = "file" /\ opt.dst = "file" /\ opt.size \in Nat /\ ~UsesCard
    BY <1>1, CopyFields DEF CopyRest, KernelControl, CopyOptions, UsesCard
  <1>3. /\ p \in Nat /\ Multiple(p, Narrow) /\ kernel.left \in Nat
        /\ kernel.left = (IF p < opt.size THEN opt.size - p ELSE 0) /\ top <= p /\ top \in Nat
        /\ Narrow \in Nat \ {0}
    BY <1>1, CopyBounds DEF CopyRest, KernelPlace, CopyTypes
  <1>4. DOMAIN kernel = DOMAIN IdleKernel /\ DOMAIN IdleKernel = {"busy", "left", "pos", "src", "dst", "at", "retc"}
    BY DEF CopyRest, CopyTypes, IdleKernel
  <1>5. /\ DOMAIN kernel' = DOMAIN kernel /\ kernel'.busy = kernel.busy /\ kernel'.retc = kernel.retc
        /\ kernel'.src = kernel.src /\ kernel'.dst = kernel.dst /\ kernel'.at = kernel.at
        /\ kernel'.left = kernel.left - Least(kernel.left, Narrow) /\ kernel'.pos = p + Narrow
    BY <1>1, <1>4
  <1>6. p < opt.size /\ p + Narrow <= snap_malloc(opt.size)
    <2>1. p < opt.size
      BY <1>1, <1>2, <1>3
    <2>2. Multiple(snap_malloc(opt.size), Narrow) /\ opt.size <= snap_malloc(opt.size) /\ snap_malloc(opt.size) \in Nat
      BY Room, MultipleTrans, CopyBounds DEF CopyRest
    <2>3. p < snap_malloc(opt.size)
      BY <1>2, <1>3, <2>1, <2>2
    <2> QED
      BY <1>3, <2>1, <2>2, <2>3, MultipleOrder
  <1> HIDE DEF p, word
  <1>7. CopyTypes' /\ StoredStays'
    <2>1. kernel'.left \in Nat /\ kernel'.pos \in Nat /\ top' \in Nat
      BY <1>1, <1>3, <1>5 DEF Least
    <2> QED
      BY <1>1, <1>5, <2>1 DEF CopyRest, CopyTypes, StoredStays
  <1>8. KernelPlace'
    <2>1. Multiple(Narrow, Narrow)
      <3>1. 1 \in Nat /\ Narrow = 1 * Narrow
        BY <1>3
      <3> QED
        BY <3>1 DEF Multiple
    <2>2. Multiple(p + Narrow, Narrow)
      BY <1>3, <2>1, MultipleSum
    <2>3. kernel'.left = IF p + Narrow < opt.size THEN opt.size - (p + Narrow) ELSE 0
      BY <1>2, <1>3, <1>5, <1>6 DEF Least
    <2>4. top' <= p + Narrow
      BY <1>1, <1>3
    <2> QED
      BY <1>1, <1>5, <2>2, <2>3, <2>4 DEF KernelPlace
  <1>9. SourceKnown'
    BY <1>1 DEF CopyRest, SourceKnown, Fits
  <1>10. BuffersKnown'
    <2>1. CASE HostReached
      <3>1. DOMAIN obuff = OutputCells
        BY <1>1, <1>2, <2>1, Reached
      <3> QED
        BY <1>1, <1>3, <1>6, <2>1, <3>1, OutputWritten
    <2>2. CASE ~HostReached
      BY <1>1, <2>2 DEF CopyRest, BuffersKnown, OutputCells, SetSize
    <2> QED
      BY <2>1, <2>2
  <1>11. ASSUME pc = "wait" PROVE Landed(kernel.pos)'
    <2>1. /\ HostReached /\ DOMAIN obuff = OutputCells
          /\ \A c \in 0 .. opt.size - 1 : ibuff[c] = want[c]
      BY <1>1, <1>2, <1>11, Reached
    <2>2. OutputCells \subseteq Int /\ 0 .. opt.size - 1 \subseteq OutputCells
      BY <1>2, Room DEF CopyRest, OutputCells
    <2>3. DOMAIN want = 0 .. opt.size - 1
      BY <1>2 DEF CopyRest, SourceKnown
    <2>4. \A c \in 0 .. opt.size - 1 : Converted[c] = Upper(want[c])
      BY <1>1, <2>3 DEF Converted
    <2>5. Converted' = Converted
      BY <1>1 DEF Converted
    <2>6. ASSUME NEW c \in 0 .. opt.size - 1, c < p + Narrow PROVE obuff'[c] = Converted[c]
      <3>1. CASE p <= c
        <4>1. obuff'[c] = word[c - p]
          BY <1>1, <1>3, <2>1, <2>2, <2>6, <3>1, WrittenIs
        <4>2. c - p \in 0 .. Narrow - 1 /\ p + (c - p) = c
          BY <1>3, <2>6, <3>1
        <4>3. word[c - p] = Upper(ibuff[c])
          BY <4>2 DEF word
        <4> QED
          BY <2>1, <2>4, <4>1, <4>3
      <3>2. CASE c < p
        <4>1. obuff'[c] = obuff[c]
          BY <1>1, <1>3, <2>1, <2>2, <3>2, WrittenIs
        <4>2. obuff[c] = Converted[c]
          BY <1>1, <1>2, <1>11, <3>2 DEF CopyRest, Moved, Landed, p
        <4> QED
          BY <4>1, <4>2
      <3> QED
        BY <1>3, <3>1, <3>2
    <2> QED
      BY <1>1, <1>2, <1>5, <2>5, <2>6 DEF Landed
  <1>12. KernelControl' /\ Moved' /\ StoredApart' /\ Verdicts' /\ Running'
    <2>1. pc \notin Early
      BY <1>1 DEF CopyRest, KernelControl, Early, GivenUp, Shell
    <2> QED
      BY <1>1, <1>5, <1>11, <2>1, KernelWorks
  <1> QED
    BY <1>7, <1>8, <1>9, <1>10, <1>12 DEF CopyRest

\* A block of memcopy: where it is, ...
LEMMA BlockPlace ==
    ASSUME CopyRest, prog = "snap_memcopy", kernel.busy, kernel.left > 0,
           kernel.pos = 0 /\ "card" \in {kernel.src, kernel.dst} => kernel.left <= CARD_DRAM_SIZE,
           NEW n, n = Least(kernel.left, NBlock)
    PROVE  /\ n \in Nat \ {0} /\ kernel.pos \in Nat /\ kernel.left \in Nat /\ opt.size \in Nat
           /\ n <= NBlock /\ n <= kernel.left /\ kernel.pos + kernel.left = opt.size
           /\ Multiple(kernel.pos, NBlock) /\ Multiple(kernel.pos, Wide) /\ Multiple(kernel.pos, Narrow)
           /\ n = NBlock \/ n = kernel.left
           /\ UsesCard => Fits
           /\ top \in Nat /\ top <= kernel.pos
  <1>1. /\ kernel.pos \in Nat /\ kernel.left \in Nat /\ kernel.left > 0 /\ top \in Nat /\ NBlock \in Nat \ {0}
    BY CopyBounds DEF CopyRest, CopyTypes
  <1>2. /\ kernel.pos + kernel.left = opt.size /\ Multiple(kernel.pos, NBlock)
        /\ kernel.pos > 0 /\ UsesCard => Fits
        /\ top <= kernel.pos
    BY DEF CopyRest, KernelPlace
  <1>3. Multiple(kernel.pos, Wide) /\ Multiple(kernel.pos, Narrow)
    BY <1>2, MultipleTrans, CopyBounds
  <1>4. UsesCard => Fits
    <2>1. UsesCard => "card" \in {kernel.src, kernel.dst}
      BY DEF UsesCard, CopyRest, KernelControl
    <2>2. UsesCard /\ kernel.pos = 0 => Fits
      BY <1>1, <1>2, <2>1 DEF Fits
    <2> QED
      BY <1>1, <1>2, <2>2
  <1>5. n \in Nat \ {0} /\ n <= NBlock /\ n <= kernel.left /\ (n = NBlock \/ n = kernel.left)
    BY <1>1 DEF Least
  <1>6. opt.size \in Nat
    BY <1>1, <1>2
  <1> QED
    BY <1>1, <1>2, <1>3, <1>4, <1>5, <1>6

\* ... what words it fills, ...
LEMMA BlockWords ==
    ASSUME NEW p \in Nat, NEW n \in Nat \ {0}, NEW s \in Nat, NEW w \in Nat \ {0},
           Multiple(NBlock, w), Multiple(p, w), n <= NBlock, p + n <= s, n = NBlock \/ p + n = s
    PROVE  /\ RoundUp(n, w) \in Nat /\ n <= RoundUp(n, w) /\ RoundUp(n, w) <= NBlock
           /\ p + RoundUp(n, w) <= RoundUp(s, w)
           /\ p + n < s => n = NBlock /\ RoundUp(n, w) = n
           /\ \A c \in 0 .. s - 1 : c < p + RoundUp(n, w) => c < p + n
  <1>1. NBlock \in Nat \ {0}
    BY CopyBounds
  <1> DEFINE r == RoundUp(n, w)
  <1>2. r \in Nat /\ n <= r /\ r <= NBlock
    BY <1>1, RoundUpIs, RoundUpLeast
  <1>3. p + r <= RoundUp(s, w)
    BY WordsAhead
  <1>4. n = NBlock => r = n
    BY <1>1, RoundUpMultiple
  <1> HIDE DEF r
  <1>5. p + n < s => n = NBlock /\ r = n
    BY <1>1, <1>4
  <1>6. \A c \in 0 .. s - 1 : c < p + r => c < p + n
    <2>1. CASE n = NBlock
      BY <1>4, <2>1
    <2>2. CASE p + n = s
      BY <2>2
    <2> QED
      BY <2>1, <2>2
  <1> QED
    BY <1>2, <1>3, <1>5, <1>6 DEF r

\* ... and what goes into them: the source of the job, with the rest of the
\* kernel's buffer behind it.
LEMMA BlockData ==
    ASSUME CopyRest, prog = "snap_memcopy", kernel.busy, kernel.left > 0,
           kernel.pos = 0 /\ "card" \in {kernel.src, kernel.dst} => kernel.left <= CARD_DRAM_SIZE,
           NEW n, n = Least(kernel.left, NBlock),
           opt.src = "card" \/ (opt.src = "file" /\ HostReached /\ \A c \in 0 .. opt.size - 1 : ibuff[c] = want[c])
    PROVE  \A c \in kernel.pos .. kernel.pos + n - 1 :
             /\ opt.dst = "file" => HostBuffer(n)[c - kernel.pos] = want[c]
             /\ opt.dst = "card" => CardBuffer(n)[c - kernel.pos] = want[c]
  <1>1. /\ n \in Nat \ {0} /\ kernel.pos \in Nat /\ kernel.left \in Nat /\ opt.size \in Nat
        /\ n <= NBlock /\ n <= kernel.left /\ kernel.pos + kernel.left = opt.size
        /\ UsesCard => Fits
    BY BlockPlace
  <1>2. kernel.src = opt.src /\ kernel.dst = opt.dst /\ Source(kernel) = Source(opt)
    BY DEF CopyRest, KernelControl, Source
  <1>3. NBlock \in Nat /\ Wide \in Nat \ {0}
    BY CopyBounds
  <1>4. n <= Words(n, Wide) /\ Words(n, Wide) \in Nat
    BY <1>1, <1>3, RoundUpIs DEF Words
  <1> SUFFICES ASSUME NEW c \in kernel.pos .. kernel.pos + n - 1
               PROVE  /\ opt.dst = "file" => HostBuffer(n)[c - kernel.pos] = want[c]
                      /\ opt.dst = "card" => CardBuffer(n)[c - kernel.pos] = want[c]
    OBVIOUS
  <1> DEFINE k == c - kernel.pos
  <1>5. k \in Cells /\ k < n /\ k < Words(n, Wide) /\ kernel.pos + k = c /\ c \in 0 .. opt.size - 1
    BY <1>1, <1>3, <1>4 DEF Cells
  <1>6. Source(opt) + kernel.pos + k = Source(opt) + c
    <2>1. Source(opt) \in Nat
      BY CopyFields, CopyBounds DEF Source, CopyRest, KernelControl, CopyOptions
    <2> QED
      BY <1>1, <1>5, <2>1
  <1> HIDE DEF k
  <1>7. CASE opt.src = "file"
    <2>1. ReadHost(n)[k] = want[c]
      BY <1>2, <1>5, <1>7 DEF ReadHost
    <2>2. opt.dst = "file" => HostBuffer(n)[k] = ReadHost(n)[k]
      BY <1>2, <1>7 DEF HostBuffer
    <2>3. opt.dst = "card" => CardBuffer(n)[k] = ReadHost(n)[k]
      BY <1>2, <1>5, <1>7 DEF CardBuffer
    <2> QED
      BY <2>1, <2>2, <2>3 DEF k
  <1>8. CASE opt.src = "card"
    <2>1. card_mem[Source(opt) + c] = want[c]
      BY <1>1, <1>5, <1>8 DEF CopyRest, SourceKnown, UsesCard
    <2>2. ReadCard(n)[k] = card_mem[Source(kernel) + kernel.pos + k]
      BY <1>2, <1>5, <1>8 DEF ReadCard
    <2>3. ReadCard(n)[k] = want[c]
      BY <1>2, <1>6, <2>1, <2>2
    <2>4. opt.dst = "file" => HostBuffer(n)[k] = ReadCard(n)[k]
      BY <1>2, <1>5, <1>8 DEF HostBuffer
    <2>5. opt.dst = "card" => CardBuffer(n)[k] = ReadCard(n)[k]
      BY <1>2, <1>8 DEF CardBuffer
    <2> QED
      BY <2>3, <2>4, <2>5 DEF k
  <1> QED
    BY <1>7, <1>8

\* The words a block writes on the card: those of the job, and nothing of what
\* is stored or still to be read.
LEMMA CardWritten ==
    ASSUME CopyRest, prog = "snap_memcopy", MemcopyBlock, kernel.dst = "card",
           NEW n, n = Least(kernel.left, NBlock)
    PROVE  /\ DOMAIN card_mem' = CardCells
           /\ StoredStays'
           /\ SourceKnown'
           /\ opt.src = "card" \/ (opt.src = "file" /\ HostReached /\ \A c \in 0 .. opt.size - 1 : ibuff[c] = want[c]) =>
                \A c \in 0 .. opt.size - 1 : c < kernel.pos + n =>
                   card_mem'[opt.at + c] = IF kernel.pos <= c THEN want[c] ELSE card_mem[opt.at + c]
  <1> DEFINE p == kernel.pos
             ws == RoundUp(n, Narrow)
             a == opt.at + p
  <1>1. /\ kernel.busy /\ kernel.left > 0
        /\ kernel.pos = 0 /\ "card" \in {kernel.src, kernel.dst} => kernel.left <= CARD_DRAM_SIZE
        /\ UNCHANGED <<opt, want, stored>>
        /\ card_mem' = Written(card_mem, kernel.at + p, CardWords(n), CardBuffer(n))
    BY DEF MemcopyBlock, processVars, historyVars
  <1>2. /\ n \in Nat \ {0} /\ p \in Nat /\ kernel.left \in Nat /\ opt.size \in Nat
        /\ n <= NBlock /\ n <= kernel.left /\ p + kernel.left = opt.size
        /\ Multiple(p, NBlock) /\ Multiple(p, Narrow)
        /\ n = NBlock \/ n = kernel.left
        /\ UsesCard => Fits
    BY <1>1, BlockPlace
  <1>3. /\ opt.dst = "card" /\ opt.at = kernel.at /\ opt.at \in {0, Far} /\ Far \in Nat /\ opt.at \in Nat
        /\ opt.size <= Far
    <2>1. /\ opt.dst = "card" /\ opt.at = kernel.at /\ opt.at \in {0, Far}
      BY <1>1, CopyFields DEF CopyRest, KernelControl, CopyOptions
    <2>2. Fits /\ Far \in Nat /\ CARD_DRAM_SIZE \in Nat /\ CARD_DRAM_SIZE <= Far
      BY <1>2, <2>1, CopyBounds DEF UsesCard
    <2>3. opt.at \in Nat /\ opt.size <= Far
      BY <1>2, <2>1, <2>2 DEF Fits
    <2> QED
      BY <2>1, <2>2, <2>3
  <1>4. /\ ws \in Nat /\ n <= ws /\ p + ws <= RoundUp(opt.size, Narrow) /\ RoundUp(opt.size, Narrow) \in Nat
        /\ \A c \in 0 .. opt.size - 1 : c < p + ws => c < p + n
    <2>1. Narrow \in Nat \ {0} /\ Multiple(NBlock, Narrow)
      BY CopyBounds
    <2>2. RoundUp(opt.size, Narrow) \in Nat
      BY <1>2, <2>1, RoundUpIs
    <2>3. p + n <= opt.size /\ (n = NBlock \/ p + n = opt.size)
      BY <1>2
    <2> HIDE DEF p
    <2>4. \A c \in 0 .. opt.size - 1 : c < p + RoundUp(n, Narrow) => c < p + n
      BY <1>2, <2>1, <2>3, BlockWords
    <2>5. RoundUp(n, Narrow) \in Nat /\ n <= RoundUp(n, Narrow) /\ p + RoundUp(n, Narrow) <= RoundUp(opt.size, Narrow)
      BY <1>2, <2>1, <2>3, BlockWords
    <2> QED
      BY <2>2, <2>4, <2>5
  <1>5. a \in Nat /\ card_mem' = Written(card_mem, a, ws, CardBuffer(n))
    BY <1>1, <1>2, <1>3 DEF CardWords, Words
  <1>6. DOMAIN card_mem = CardCells /\ CardCells \subseteq Int
    BY <1>3 DEF CopyRest, CopyTypes, CardCells
  <1> DEFINE buffer == CardBuffer(n)
  <1> HIDE DEF ws, a, buffer
  <1>7. /\ DOMAIN card_mem' = CardCells
        /\ \A c \in CardCells : a <= c /\ c < a + ws => card_mem'[c] = buffer[c - a]
        /\ \A c \in CardCells : ~(a <= c /\ c < a + ws) => card_mem'[c] = card_mem[c]
    <2>1. DOMAIN card_mem \subseteq Int /\ card_mem' = Written(card_mem, a, ws, buffer)
      BY <1>5, <1>6 DEF buffer
    <2>2. /\ DOMAIN card_mem' = DOMAIN card_mem
          /\ \A c \in DOMAIN card_mem : a <= c /\ c < a + ws => card_mem'[c] = buffer[c - a]
          /\ \A c \in DOMAIN card_mem : ~(a <= c /\ c < a + ws) => card_mem'[c] = card_mem[c]
      BY <1>4, <1>5, <2>1, WrittenIs
    <2> QED
      BY <1>6, <2>2
  <1>8. StoredStays'
    <2> SUFFICES ASSUME NEW c \in DOMAIN stored PROVE card_mem'[c] = stored[c]
      BY <1>1 DEF StoredStays
    <2>1. c \in CardCells /\ c \notin JobWords /\ card_mem[c] = stored[c]
      BY <1>1, <1>3 DEF CopyRest, CopyTypes, StoredApart, StoredStays
    <2>2. a = opt.at + p /\ c \in Int
      BY <1>6, <2>1 DEF a
    <2>3. ~(a <= c /\ c < a + ws)
      BY <1>2, <1>3, <1>4, <2>1, <2>2 DEF JobWords
    <2> QED
      BY <1>7, <2>1, <2>3
  <1>9. \A c \in 0 .. opt.size - 1 : opt.at + c \in CardCells
    BY <1>2, <1>3 DEF CardCells
  <1>10. ASSUME opt.src = "card" \/ (opt.src = "file" /\ HostReached /\ \A c \in 0 .. opt.size - 1 : ibuff[c] = want[c]),
                NEW c \in 0 .. opt.size - 1, c < p + n
         PROVE  card_mem'[opt.at + c] = IF p <= c THEN want[c] ELSE card_mem[opt.at + c]
    <2>1. opt.at + c \in CardCells /\ a = opt.at + p
      BY <1>9 DEF a
    <2>2. CASE p <= c
      <3>1. a <= opt.at + c /\ opt.at + c < a + ws /\ (opt.at + c) - a = c - p /\ c \in p .. p + n - 1
        BY <1>2, <1>3, <1>4, <1>10, <2>1, <2>2
      <3>2. card_mem'[opt.at + c] = buffer[c - p]
        BY <1>7, <2>1, <3>1
      <3>3. buffer[c - p] = want[c]
        BY <1>1, <1>3, <1>10, <3>1, BlockData DEF buffer
      <3> QED
        BY <2>2, <3>2, <3>3
    <2>3. CASE ~(p <= c)
      <3>1. ~(a <= opt.at + c)
        BY <1>2, <1>3, <2>1, <2>3
      <3> QED
        BY <1>7, <2>1, <2>3, <3>1
    <2> QED
      BY <2>2, <2>3
  <1>11. SourceKnown'
    <2> SUFFICES ASSUME opt.src = "card", NEW c \in 0 .. opt.size - 1
                 PROVE  card_mem'[Source(opt) + c] = want[c]
      BY <1>1 DEF CopyRest, SourceKnown, Fits
    <2>1. card_mem[c] = want[c] /\ Source(opt) + c = c /\ c \in CardCells /\ c \in Int
      <3>1. UsesCard /\ Source(opt) = 0 /\ c \in Int
        BY <1>3 DEF UsesCard, Source
      <3>2. card_mem[Source(opt) + c] = want[c]
        BY <1>2, <3>1 DEF CopyRest, SourceKnown
      <3>3. c \in CardCells
        BY <1>2, <1>3 DEF CardCells
      <3> QED
        BY <3>1, <3>2, <3>3
    <2>2. CASE ~(a <= c /\ c < a + ws)
      BY <1>7, <2>1, <2>2
    <2>3. CASE a <= c /\ c < a + ws
      <3>1. opt.at = 0 /\ p <= c /\ c < p + n
        <4>1. a = opt.at + p
          BY DEF a
        <4>2. opt.at = 0
          BY <1>2, <1>3, <2>1, <2>3, <4>1
        <4>3. p <= c /\ c < p + ws
          BY <1>2, <1>4, <2>1, <2>3, <4>1, <4>2
        <4> QED
          BY <1>4, <4>2, <4>3
      <3>2. opt.at + c = c
        BY <2>1, <3>1
      <3> QED
        BY <1>10, <2>1, <3>1, <3>2
    <2> QED
      BY <2>2, <2>3
  <1> QED
    BY <1>7, <1>8, <1>10, <1>11

\* The words a block writes into the buffer of the process.
LEMMA HostWritten ==
    ASSUME CopyRest, CopyHeld, prog = "snap_memcopy", MemcopyBlock, kernel.dst = "file", HostReached,
           NEW n, n = Least(kernel.left, NBlock)
    PROVE  /\ BuffersKnown'
           /\ top' \in Nat /\ (kernel.pos + n < opt.size => top' <= kernel.pos + n)
           /\ opt.src # "unused" =>
                \A c \in 0 .. opt.size - 1 : c < kernel.pos + n =>
                   obuff'[c] = IF kernel.pos <= c THEN want[c] ELSE obuff[c]
  <1> DEFINE p == kernel.pos
             ws == RoundUp(n, Wide)
             buffer == HostBuffer(n)
  <1>1. /\ kernel.busy /\ kernel.left > 0
        /\ kernel.pos = 0 /\ "card" \in {kernel.src, kernel.dst} => kernel.left <= CARD_DRAM_SIZE
        /\ UNCHANGED <<prog, pc, opt, want, ibuff>>
        /\ obuff' = Written(obuff, p, ws, buffer) /\ top' = p + ws
    BY DEF MemcopyBlock, processVars, historyVars, Words
  <1>2. /\ n \in Nat \ {0} /\ p \in Nat /\ kernel.left \in Nat /\ opt.size \in Nat
        /\ n <= NBlock /\ n <= kernel.left /\ p + kernel.left = opt.size
        /\ Multiple(p, NBlock) /\ Multiple(p, Wide)
        /\ n = NBlock \/ n = kernel.left
        /\ top \in Nat /\ top <= p
    BY <1>1, BlockPlace
  <1>3. opt.dst = "file" /\ opt.src \in {"file", "card", "unused"}
    BY <1>1, CopyFields DEF CopyRest, KernelControl, CopyOptions
  <1>4. /\ ws \in Nat /\ n <= ws /\ p + ws <= snap_malloc(opt.size)
        /\ p + n < opt.size => ws = n
    <2>1. Wide \in Nat \ {0} /\ Multiple(NBlock, Wide)
      BY CopyBounds
    <2>2. p + n <= opt.size /\ (n = NBlock \/ p + n = opt.size)
      BY <1>2
    <2> HIDE DEF p
    <2> QED
      BY <1>2, <2>1, <2>2, BlockWords DEF snap_malloc
  <1>5. /\ DOMAIN obuff = OutputCells
        /\ opt.src = "file" => \A c \in 0 .. opt.size - 1 : ibuff[c] = want[c]
    BY <1>1, <1>3, Reached DEF CopyPrograms
  <1> HIDE DEF ws, buffer
  <1>6. BuffersKnown'
    BY <1>1, <1>2, <1>4, <1>5, OutputWritten DEF CopyPrograms
  <1>7. top' \in Nat /\ (p + n < opt.size => top' <= p + n)
    BY <1>1, <1>2, <1>4
  <1>8. OutputCells \subseteq Int /\ 0 .. opt.size - 1 \subseteq OutputCells
    BY <1>2, Room DEF CopyRest, OutputCells, CopyPrograms
  <1>9. /\ \A c \in OutputCells : p <= c /\ c < p + ws => obuff'[c] = buffer[c - p]
        /\ \A c \in OutputCells : ~(p <= c /\ c < p + ws) => obuff'[c] = obuff[c]
    <2>1. DOMAIN obuff \subseteq Int
      BY <1>5, <1>8
    <2> QED
      BY <1>1, <1>2, <1>4, <1>5, <2>1, WrittenIs
  <1>10. ASSUME opt.src # "unused", NEW c \in 0 .. opt.size - 1, c < p + n
         PROVE  obuff'[c] = IF p <= c THEN want[c] ELSE obuff[c]
    <2>1. CASE p <= c
      <3>1. c \in OutputCells /\ c < p + ws /\ c \in p .. p + n - 1
        BY <1>2, <1>4, <1>8, <1>10, <2>1
      <3>2. buffer[c - p] = want[c]
        BY <1>1, <1>3, <1>5, <1>10, <3>1, BlockData DEF buffer
      <3> QED
        BY <1>9, <2>1, <3>1, <3>2
    <2>2. CASE ~(p <= c)
      BY <1>8, <1>9, <2>2
    <2> QED
      BY <2>1, <2>2
  <1> QED
    BY <1>6, <1>7, <1>10

\* A block of memcopy.
LEMMA MemcopyBlockStep ==
    ASSUME CopyHeld, CopyRest, Running, prog \in CopyPrograms, MemcopyBlock
    PROVE  CopyRest' /\ Running'
  <1> DEFINE n == Least(kernel.left, NBlock)
             p == kernel.pos
  <1>1. /\ prog = "snap_memcopy" /\ kernel.busy /\ kernel.left > 0
        /\ kernel.pos = 0 /\ "card" \in {kernel.src, kernel.dst} => kernel.left <= CARD_DRAM_SIZE
        /\ UNCHANGED <<prog, pc, opt, held, exit, ibuff, file, retc, want, stored>>
        /\ gbuf' = HostBuffer(n) /\ dbuf' = CardBuffer(n)
        /\ ~(kernel.dst = "file" /\ HostReached) => UNCHANGED <<obuff, top>>
        /\ kernel.dst # "card" => card_mem' = card_mem
        /\ kernel' = [kernel EXCEPT !.left = kernel.left - n, !.pos = p + n]
    BY DEF MemcopyBlock, processVars, historyVars
  <1>2. /\ n \in Nat \ {0} /\ p \in Nat /\ kernel.left \in Nat /\ opt.size \in Nat
        /\ n <= NBlock /\ n <= kernel.left /\ p + kernel.left = opt.size
        /\ Multiple(p, NBlock)
        /\ n = NBlock \/ n = kernel.left
        /\ UsesCard => Fits
        /\ top \in Nat /\ top <= p
    BY <1>1, BlockPlace
  <1>3. /\ kernel.src = opt.src /\ kernel.dst = opt.dst /\ kernel.at = opt.at
        /\ opt.src \in {"file", "card", "unused"} /\ opt.dst \in {"file", "card", "unused"}
    BY <1>1, CopyFields DEF CopyRest, KernelControl, CopyOptions
  <1>4. DOMAIN kernel = DOMAIN IdleKernel /\ DOMAIN IdleKernel = {"busy", "left", "pos", "src", "dst", "at", "retc"}
    BY DEF CopyRest, CopyTypes, IdleKernel
  <1>5. DOMAIN gbuf' = Cells /\ DOMAIN dbuf' = Cells
    <2>1. DOMAIN HostBuffer(n) = Cells
      BY DEF HostBuffer, ReadHost
    <2>2. DOMAIN CardBuffer(n) = Cells
      BY DEF CardBuffer, ReadCard
    <2> QED
      BY <1>1, <2>1, <2>2
  <1>h. kernel.dst = "file" /\ HostReached =>
          /\ BuffersKnown'
          /\ top' \in Nat /\ (p + n < opt.size => top' <= p + n)
          /\ opt.src # "unused" => \A c \in 0 .. opt.size - 1 : c < p + n =>
                   obuff'[c] = IF p <= c THEN want[c] ELSE obuff[c]
    BY <1>1, HostWritten
  <1>c. kernel.dst = "card" =>
          /\ DOMAIN card_mem' = CardCells /\ StoredStays' /\ SourceKnown'
          /\ opt.src = "card" \/ (opt.src = "file" /\ HostReached /\ \A c \in 0 .. opt.size - 1 : ibuff[c] = want[c]) =>
                \A c \in 0 .. opt.size - 1 : c < p + n =>
                   card_mem'[opt.at + c] = IF p <= c THEN want[c] ELSE card_mem[opt.at + c]
    BY <1>1, CardWritten
  <1> HIDE DEF n, p
  <1>6. /\ DOMAIN kernel' = DOMAIN kernel /\ kernel'.busy = kernel.busy /\ kernel'.retc = kernel.retc
        /\ kernel'.src = kernel.src /\ kernel'.dst = kernel.dst /\ kernel'.at = kernel.at
        /\ kernel'.left = kernel.left - n /\ kernel'.pos = p + n
    BY <1>1, <1>4
  <1>7. kernel'.left \in Nat /\ kernel'.pos \in Nat
    BY <1>2, <1>6
  <1>8. top' \in Nat /\ (p + n < opt.size => top' <= p + n)
    <2>1. CASE kernel.dst = "file" /\ HostReached
      BY <1>h, <2>1
    <2>2. CASE ~(kernel.dst = "file" /\ HostReached)
      BY <1>1, <1>2, <2>2
    <2> QED
      BY <2>1, <2>2
  <1>9. DOMAIN card_mem' = CardCells /\ StoredStays' /\ SourceKnown'
    <2>1. CASE kernel.dst = "card"
      BY <1>c, <2>1
    <2>2. CASE kernel.dst # "card"
      BY <1>1, <2>2 DEF CopyRest, CopyTypes, StoredStays, SourceKnown, Fits
    <2> QED
      BY <2>1, <2>2
  <1>10. CopyTypes'
    BY <1>1, <1>5, <1>6, <1>7, <1>8, <1>9 DEF CopyRest, CopyTypes
  <1>11. KernelPlace'
    <2>1. kernel'.pos + kernel'.left = opt.size /\ (kernel'.left > 0 => p + n < opt.size)
      BY <1>2, <1>6
    <2>2. kernel'.left > 0 => Multiple(kernel'.pos, NBlock)
      <3> SUFFICES ASSUME kernel'.left > 0 PROVE Multiple(p + n, NBlock)
        BY <1>6
      <3>1. n = NBlock /\ NBlock \in Nat
        BY <1>2, <2>1, CopyBounds
      <3>2. 1 \in Nat /\ NBlock = 1 * NBlock
        BY <3>1
      <3>3. Multiple(NBlock, NBlock)
        BY <3>2 DEF Multiple
      <3> QED
        BY <1>2, <3>1, <3>3, MultipleSum
    <2>3. kernel'.left > 0 => top' <= kernel'.pos
      BY <1>6, <1>8, <2>1
    <2>4. UsesCard' => Fits'
      BY <1>1, <1>2 DEF UsesCard, Fits
    <2> QED
      BY <1>1, <2>1, <2>2, <2>3, <2>4 DEF KernelPlace
  <1>12. BuffersKnown'
    <2>1. CASE kernel.dst = "file" /\ HostReached
      BY <1>h, <2>1
    <2>2. CASE ~(kernel.dst = "file" /\ HostReached)
      BY <1>1, <2>2 DEF CopyRest, BuffersKnown, OutputCells, SetSize
    <2> QED
      BY <2>1, <2>2
  <1>13. ASSUME pc = "wait" PROVE Landed(kernel.pos)'
    <2>1. Landed(p)
      BY <1>1, <1>13 DEF CopyRest, Moved, p
    <2>2. HostReached /\ (opt.src = "file" => \A c \in 0 .. opt.size - 1 : ibuff[c] = want[c])
      BY <1>1, <1>13, Reached
    <2> SUFFICES ASSUME opt.src # "unused", NEW c \in 0 .. opt.size - 1, c < p + n
                 PROVE  /\ opt.dst = "file" => obuff'[c] = Converted'[c]
                        /\ opt.dst = "card" => card_mem'[opt.at + c] = want[c]
      BY <1>1, <1>6 DEF Landed
    <2>3. opt.dst = "file" => obuff'[c] = Converted'[c]
      <3> SUFFICES ASSUME opt.dst = "file" PROVE obuff'[c] = Converted'[c]
        OBVIOUS
      <3>1. DOMAIN want = 0 .. opt.size - 1
        BY <1>2, <1>3 DEF CopyRest, SourceKnown, UsesCard
      <3>2. Converted' = Converted /\ Converted[c] = want[c]
        BY <1>1, <3>1 DEF Converted
      <3>3. obuff'[c] = IF p <= c THEN want[c] ELSE obuff[c]
        BY <1>h, <1>3, <2>2
      <3>4. ~(p <= c) => obuff[c] = Converted[c]
        BY <1>2, <2>1 DEF Landed
      <3> QED
        BY <3>2, <3>3, <3>4
    <2>4. opt.dst = "card" => card_mem'[opt.at + c] = want[c]
      <3> SUFFICES ASSUME opt.dst = "card" PROVE card_mem'[opt.at + c] = want[c]
        OBVIOUS
      <3>1. card_mem'[opt.at + c] = IF p <= c THEN want[c] ELSE card_mem[opt.at + c]
        BY <1>c, <1>3, <2>2
      <3>2. ~(p <= c) => card_mem[opt.at + c] = want[c]
        BY <1>2, <2>1 DEF Landed
      <3> QED
        BY <3>1, <3>2
    <2> QED
      BY <2>3, <2>4
  <1>14. KernelControl' /\ Moved' /\ StoredApart' /\ Verdicts' /\ Running'
    <2>1. pc \notin Early
      BY <1>1 DEF CopyRest, KernelControl, Early, GivenUp, Shell
    <2> QED
      BY <1>1, <1>6, <1>13, <2>1, KernelWorks
  <1> QED
    BY <1>9, <1>10, <1>11, <1>12, <1>14 DEF CopyRest

-----------------------------------------------------------------------------
(* The whole, and the properties.                                          *)

\* A process is there while main() has steps left, and has been afterwards.
LEMMA CopyRan ==
    ASSUME NEW p \in CopyPrograms, CopyStep(p), prog \in CopyPrograms, CopyHeld
    PROVE  Ran /\ Ran'
  <1>1. CASE FreeBuffers(p)
    BY <1>1 DEF FreeBuffers, ExitCode, Exit, Ran, Shell
  <1>2. CASE QuietSteps(p)
    BY <1>2 DEF QuietSteps, OpenCard, Attach, Retc, Verify, Detach, FreeCard, CardAlloc, AttachAction,
                DetachAction, CardFree, TakeOr, Take, Drop, Goto, At, AfterDetach, AfterFree, Ran, Shell
  <1>3. CASE Input(p) \/ Output(p) \/ Execute(p) \/ Wait(p) \/ Write(p)
    BY <1>3 DEF Input, Output, Execute, Wait, Write, Take, Goto, At, Ran, Shell
  <1> QED
    BY <1>1, <1>2, <1>3 DEF CopyStep, QuietSteps

\* Every step of a kernel.
LEMMA KernelKeeps ==
    ASSUME CopyInv, Running, prog \in CopyPrograms, KernelStep
    PROVE  CopyInv' /\ Running' /\ prog' \in CopyPrograms
  <1>1. kernel.busy /\ UNCHANGED processVars
    BY DEF KernelStep, MemcopyRefuses, MemcopyBlock, UppercaseWord, KernelReturns
  <1>2. Ran /\ CopyRest /\ CopyHeld
    BY <1>1 DEF CopyInv, Untouched, CopyRest
  <1>3. Ran' /\ CopyHeld' /\ prog' = prog
    BY <1>1, <1>2 DEF Ran, CopyHeld, processVars
  <1>4. CopyRest' /\ Running'
    BY <1>2, KernelEnds, MemcopyBlockStep, UppercaseStep DEF KernelStep
  <1> QED
    BY <1>3, <1>4 DEF CopyInv, CopyRest

\* The invariant of the copy jobs is kept by every step of them.
LEMMA CopyInvStep ==
    ASSUME CopyInv, Running, prog \in CopyPrograms, CopyStart \/ CopySteps \/ KernelStep
    PROVE  CopyInv' /\ Running' /\ prog' \in CopyPrograms
  <1>1. CASE CopyStart
    <2>1. CopyRest' /\ Running' /\ prog' = prog /\ held' = {} /\ pc' = "input"
      BY <1>1, CopyStartStep DEF CopyInv
    <2>2. Ran' /\ CopyHeld'
      BY <2>1 DEF Ran, CopyHeld, Early, Checked, GivenUp, WithBoth, WithCard, WithAction, Shell
    <2> QED
      BY <2>1, <2>2 DEF CopyInv, CopyRest
  <1>2. ASSUME NEW p \in CopyPrograms, CopyStep(p)
        PROVE  CopyInv' /\ Running' /\ prog' \in CopyPrograms
    <2>1. Ran /\ Ran'
      BY <1>2, CopyRan DEF CopyInv
    <2>2. CopyRest
      BY <2>1 DEF CopyInv, CopyRest
    <2>3. CopyRest' /\ Running' /\ CopyHeld' /\ prog' = prog
      BY <1>2, <2>2, CopyRestStep, CopyHeldStep DEF CopyInv
    <2> QED
      BY <2>1, <2>3 DEF CopyInv, CopyRest
  <1> QED
    BY <1>1, <1>2, KernelKeeps DEF CopySteps, MemcopyStep, HelloworldStep, CopyPrograms

\* The output file of a program that succeeds.
LEMMA CopyRightHolds == CopyInv => CopyRight
  BY DEF CopyInv, CopyRight, Done, Ran, Moved, Shell

\* The words of the kernel and the buffers they go to.
LEMMA KernelInBuffersHolds == CopyInv /\ Running => KernelInBuffers
  <1> SUFFICES ASSUME CopyInv, Running PROVE KernelInBuffers
    OBVIOUS
  <1>1. CASE prog \in CopyPrograms /\ Ran
    <2>1. CopyRest /\ CopyHeld
      BY <1>1 DEF CopyInv, CopyRest
    <2>2. top \in Nat /\ top <= snap_malloc(opt.size) /\ DOMAIN obuff \in {{}, OutputCells}
          /\ (top > 0 => DOMAIN obuff = OutputCells)
      BY <2>1 DEF CopyRest, CopyTypes, BuffersKnown
    <2>3. Cardinality({}) = 0
      BY FS_EmptySet
    <2>4. Cardinality(OutputCells) = snap_malloc(SetSize)
      <3>1. snap_malloc(SetSize) \in Nat
        BY <1>1, <2>1, Room DEF CopyRest
      <3> DEFINE N == snap_malloc(SetSize)
      <3>2. OutputCells = 0 .. N - 1 /\ N \in Nat
        BY <3>1 DEF OutputCells
      <3> HIDE DEF N
      <3>3. Cardinality(0 .. N - 1) = N
        BY <3>2, FS_Interval
      <3> QED
        BY <3>2, <3>3 DEF N
    <2>5. top <= Cardinality(DOMAIN obuff)
      <3>1. /\ snap_malloc(opt.size) \in Nat /\ snap_malloc(SetSize) \in Nat
            /\ snap_malloc(opt.size) <= snap_malloc(SetSize)
        BY <1>1, <2>1, Room DEF CopyRest
      <3>2. CASE DOMAIN obuff = OutputCells
        BY <2>2, <2>4, <3>1, <3>2
      <3>3. CASE DOMAIN obuff = {} /\ top = 0
        BY <2>3, <3>3
      <3> QED
        BY <2>2, <3>2, <3>3
    <2>6. ASSUME kernel.busy, HostReached
          PROVE  (kernel.src = "file" => "ibuff" \in held) /\ (kernel.dst = "file" => "obuff" \in held)
      <3>1. pc \in WithBoth
        BY <1>1, <2>1, <2>6, Reached
      <3>2. kernel.src = opt.src /\ kernel.dst = opt.dst
        BY <2>1, <2>6 DEF CopyRest, KernelControl
      <3> QED
        BY <1>1, <2>1, <3>1, <3>2 DEF CopyHeld
    <2> QED
      BY <2>5, <2>6 DEF KernelInBuffers
  <1>2. CASE ~(prog \in CopyPrograms /\ Ran)
    <2>1. ~kernel.busy /\ top = 0 /\ DOMAIN obuff = {}
      BY <1>2 DEF CopyInv, Untouched
    <2> QED
      BY <2>1, FS_EmptySet DEF KernelInBuffers
  <1> QED
    BY <1>1, <1>2

\* What -X has accepted and refused.
LEMMA VerifyVerdictHolds == CopyInv => VerifyVerdict
  BY DEF CopyInv, VerifyVerdict, Done, Ran, Verdicts, Shell
=============================================================================
