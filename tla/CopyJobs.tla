------------------------------ MODULE CopyJobs ------------------------------
(***************************************************************************)
(* snap_memcopy and snap_helloworld, with the HLS kernels they start.      *)
(*                                                                         *)
(* The process reads its input file into a buffer, lets the kernel copy    *)
(* (or convert to upper case) from host or card memory to host or card     *)
(* memory, and writes the output buffer to a file.  The kernel moves whole *)
(* words of the memory bus through a buffer of its own, block by block,    *)
(* and does not stop when the process gives up waiting.                    *)
(*                                                                         *)
(* A job is started on an idle action (SnapJob has the other case).  A     *)
(* cell of a memory stands for a few bytes; a word of the 512-bit card bus *)
(* has Narrow cells, one of the 1024-bit host bus twice as many.  Once the *)
(* card is closed the kernel reaches the memory of the process no more.    *)
(***************************************************************************)
EXTENDS HostProcess

CONSTANTS
    Narrow,          \* BPERDW_512 in cells
    NBlock,          \* MAX_NB_OF_BYTES_READ in cells
    CARD_DRAM_SIZE,  \* the largest job to or from the card, in cells
    Sizes,           \* sizes of a job
    Junk             \* what memory nobody has written may hold

Wide == 2 * Narrow  \* BPERDW_1024, SNAP_MEMBUS_WIDTH

ASSUME CopyJobsAssumption ==
    /\ Narrow \in Nat \ {0} /\ NBlock \in Nat \ {0} /\ NBlock % Wide = 0
    /\ CARD_DRAM_SIZE \in Nat /\ Sizes \subseteq Nat /\ Junk \subseteq Nat

VARIABLES
    ibuff, obuff,  \* the buffers of the process, as far as they are allocated
    file,          \* what was written to the output file
    retc,          \* cjob.retc
    kernel,        \* the job of the kernel and how far it is
    gbuf, dbuf,    \* buf_gmem and buf_ddrmem: they keep what they held
    card_mem,      \* the memory of the card
    \* history
    want,          \* the source of the job as it was when the program started
    stored,        \* cells a successful program put on the card, undisturbed since
    top            \* host cells the kernel wrote in this run, from the buffer's start

bufferVars == <<ibuff, obuff, file, retc>>
kernelVars == <<kernel, gbuf, dbuf, card_mem, top>>
historyVars == <<want, stored>>
copyVars   == <<bufferVars, kernelVars, historyVars>>

RoundUp(n, w) == ((n + w - 1) \div w) * w
Least(a, b)   == IF a < b THEN a ELSE b

Far       == RoundUp(CARD_DRAM_SIZE, Narrow)  \* the place next to a biggest job
CardCells == 0 .. 2 * Far - 1
Nothing   == [c \in {} |-> 0]

\* Odd cells are lower case letters.
Upper(v) == IF v % 2 = 1 /\ v < 50 THEN v + 50 ELSE v

IdleKernel ==
    [busy |-> FALSE, left |-> 0, pos |-> 0, src |-> "none", dst |-> "none", at |-> 0, retc |-> "none"]

CopyInit ==
    /\ ibuff = Nothing /\ obuff = Nothing /\ file = Nothing /\ retc = "none"
    /\ kernel = IdleKernel
    /\ \E j \in Junk :
         /\ gbuf = [c \in 0 .. NBlock - 1 |-> j] /\ dbuf = [c \in 0 .. NBlock - 1 |-> j]
         /\ card_mem = [c \in CardCells |-> j]
    /\ want = Nothing /\ stored = Nothing /\ top = 0

-----------------------------------------------------------------------------
(* The command line.  A buffer of the process is used with -i and -o only, *)
(* the card with an address; "unused" moves no data on that side.          *)

Job(s, d, verify) == [src : s, dst : d, size : Sizes, at : {0, Far}, verify : verify]

MemcopyOptions ==
    {o \in Job({"file", "card", "unused"}, {"file", "card", "unused"}, BOOLEAN) :
        /\ o.verify => o.src = "file" /\ o.dst = "file"
        /\ o.at # 0 => o.dst = "card" \/ (o.src = "card" /\ o.dst = "file")}

\* The kernel of helloworld has host memory only.
HelloworldOptions == {o \in Job({"file"}, {"file"}, BOOLEAN) : o.at = 0}

\* Where on the card the source lies: a card to card copy is from 0.
Source(o) == IF o.dst = "card" THEN 0 ELSE o.at

Data(n) == [c \in 0 .. n - 1 |-> 10 * runs' + c]

CopyRun(p, o) ==
    /\ ~kernel.busy
    /\ Run(p, o, "input")
    /\ want' = CASE o.src = "file" -> Data(o.size)
                 [] o.src = "card" /\ o.size <= CARD_DRAM_SIZE ->
                      [c \in 0 .. o.size - 1 |-> card_mem[Source(o) + c]]
                 [] OTHER -> Nothing
    \* the words the job may write are no longer what was stored
    /\ stored' = IF o.dst # "card" THEN stored
                 ELSE [c \in DOMAIN stored \ (o.at .. o.at + RoundUp(o.size, Narrow) - 1) |-> stored[c]]
    /\ ibuff' = Nothing /\ obuff' = Nothing /\ file' = Nothing /\ retc' = "none" /\ top' = 0
    /\ UNCHANGED <<kernel, gbuf, dbuf, card_mem>>

-----------------------------------------------------------------------------
(* The steps of main(), the same in both programs.                         *)

snap_malloc(n) == RoundUp(n, Wide)

\* The first size cells are cleared or filled, the others are not.  A buffer
\* whose file cannot be read is freed at the error label like any other.
Input(p) ==
    /\ At(p, "input")
    /\ IF opt.src # "file"
       THEN Goto("output") /\ UNCHANGED ibuff
       ELSE \/ (Goto("out_error") \/ Take("ibuff", "out_error")) /\ UNCHANGED ibuff
            \/ /\ Take("ibuff", "output")
               /\ \E j \in Junk :
                    ibuff' = [c \in 0 .. snap_malloc(opt.size) - 1 |->
                                IF c < opt.size THEN want[c] ELSE j]
    /\ UNCHANGED <<obuff, file, retc, kernelVars, historyVars>>

\* With -X, zeros are appended which the job is not to touch: 1024 bytes,
\* which is more than a word.  What is behind them is not looked at.
SetSize == opt.size + (IF opt.verify THEN Wide ELSE 0)

Output(p) ==
    /\ At(p, "output")
    /\ IF opt.dst # "file"
       THEN Goto("open") /\ UNCHANGED obuff
       ELSE \/ Goto("out_error") /\ UNCHANGED obuff
            \/ /\ Take("obuff", "open")
               /\ obuff' = [c \in 0 .. snap_malloc(SetSize) - 1 |-> 0]
    /\ UNCHANGED <<ibuff, file, retc, kernelVars, historyVars>>

OpenCard(p) ==
    /\ At(p, "open")
    /\ CardAlloc("attach", "out_error")
    /\ UNCHANGED copyVars

Attach(p) ==
    /\ At(p, "attach")
    /\ AttachAction("execute")
    /\ UNCHANGED copyVars

\* snap_action_sync_execute_job up to the start of the kernel ...
Execute(p) ==
    /\ At(p, "execute")
    /\ kernel' = [busy |-> TRUE, left |-> opt.size, pos |-> 0,
                  src |-> opt.src, dst |-> opt.dst, at |-> opt.at, retc |-> "none"]
    /\ Goto("wait")
    /\ UNCHANGED <<bufferVars, gbuf, dbuf, card_mem, top, historyVars>>

\* ... and its return: the results of an idle action, or a timeout.
Wait(p) ==
    /\ At(p, "wait")
    /\ \/ /\ ~kernel.busy
          /\ retc' = kernel.retc
          /\ Goto("write")
       \/ Goto("out_error2") /\ UNCHANGED retc
    /\ UNCHANGED <<ibuff, obuff, file, kernelVars, historyVars>>

\* The file is written before the return code of the action is looked at.
Write(p) ==
    /\ At(p, "write")
    /\ IF opt.dst = "file"
       THEN \/ file' = [c \in 0 .. opt.size - 1 |-> obuff[c]] /\ Goto("retc")
            \/ Goto("out_error2") /\ UNCHANGED file
       ELSE Goto("retc") /\ UNCHANGED file
    /\ UNCHANGED <<ibuff, obuff, retc, kernelVars, historyVars>>

Retc(p) ==
    /\ At(p, "retc")
    /\ Goto(IF retc # "SUCCESS" THEN "out_error2" ELSE "verify")
    /\ UNCHANGED copyVars

Same == \A c \in 0 .. opt.size - 1 : ibuff[c] = obuff[c]
TrailingZeros == \A c \in opt.size .. SetSize - 1 : obuff[c] = 0

\* Mutant: the cells after the data are not looked at.
MutVerify(p) ==
    /\ At(p, "verify")
    /\ Goto(IF opt.verify /\ ~Same THEN "detach_verify" ELSE "detach_ok")
    /\ UNCHANGED copyVars

Verify(p) ==
    /\ At(p, "verify")
    /\ Goto(IF opt.verify /\ ~(Same /\ TrailingZeros) THEN "detach_verify" ELSE "detach_ok")
    /\ UNCHANGED copyVars

-----------------------------------------------------------------------------
(* The way out: detach, close the card, free the buffers.  The last step   *)
(* also tells what a program that succeeded has put on the card.           *)

AfterDetach == [detach_ok |-> "free_ok", detach_verify |-> "free_verify", out_error2 |-> "out_error1"]
AfterFree   == [free_ok |-> "exit_ok", free_verify |-> "exit_verify", out_error1 |-> "out_error"]
ExitCode    == [exit_ok |-> "ok", exit_verify |-> "EX_ERR_VERIFY", out_error |-> "failure"]

\* Mutant: the error path goes to the label behind the detach.
MutDetach(p) ==
    /\ prog = p /\ pc \in DOMAIN AfterDetach
    /\ IF pc = "out_error2" THEN Goto("out_error1") ELSE DetachAction(AfterDetach[pc])
    /\ UNCHANGED copyVars

Detach(p) ==
    /\ prog = p /\ pc \in DOMAIN AfterDetach
    /\ DetachAction(AfterDetach[pc])
    /\ UNCHANGED copyVars

\* Mutant: the buffers are freed before the card.
MutFreeCard(p) ==
    /\ prog = p /\ pc \in DOMAIN AfterFree
    /\ IF held \cap {"ibuff", "obuff"} # {}
       THEN Drop({"ibuff", "obuff"}, pc)
       ELSE CardFree(AfterFree[pc])
    /\ UNCHANGED copyVars

FreeCard(p) ==
    /\ prog = p /\ pc \in DOMAIN AfterFree
    /\ CardFree(AfterFree[pc])
    /\ UNCHANGED copyVars

FreeBuffers(p) ==
    /\ prog = p /\ pc \in DOMAIN ExitCode
    /\ Exit({"ibuff", "obuff"}, ExitCode[pc])
    /\ stored' = IF pc = "exit_ok" /\ opt.src # "unused" /\ opt.dst = "card"
                 THEN [c \in DOMAIN stored \cup {opt.at + k : k \in DOMAIN want} |->
                         IF c - opt.at \in DOMAIN want THEN want[c - opt.at] ELSE stored[c]]
                 ELSE stored
    /\ UNCHANGED <<bufferVars, kernelVars, want>>

CopyStep(p) ==
    \/ Input(p) \/ Output(p) \/ OpenCard(p) \/ Attach(p) \/ Execute(p) \/ Wait(p)
    \/ Write(p) \/ Retc(p) \/ Verify(p) \/ Detach(p) \/ FreeCard(p) \/ FreeBuffers(p)
-----------------------------------------------------------------------------
(* The kernels.                                                            *)

HostReached == "card" \in held
Cells == 0 .. NBlock - 1

\* process_action of memcopy: more than the card has, on a side that is the
\* card, is refused before anything is moved.
MemcopyRefuses ==
    /\ prog = "snap_memcopy" /\ kernel.busy /\ kernel.pos = 0
    /\ "card" \in {kernel.src, kernel.dst} /\ kernel.left > CARD_DRAM_SIZE
    /\ kernel' = [kernel EXCEPT !.busy = FALSE, !.retc = "FAILURE"]
    /\ UNCHANGED <<processVars, bufferVars, gbuf, dbuf, card_mem, top, historyVars>>

\* read_burst_of_data_from_mem: exactly n bytes into the buffer of that side.
ReadHost(n) ==
    [c \in Cells |-> IF kernel.src = "file" /\ c < n /\ HostReached
                     THEN ibuff[kernel.pos + c] ELSE gbuf[c]]
ReadCard(n) ==
    [c \in Cells |-> IF kernel.src = "card" /\ c < n
                     THEN card_mem[Source(kernel) + kernel.pos + c] ELSE dbuf[c]]

\* write_burst_of_data_to_mem moves whole words: the last one of a block goes
\* out with whatever the buffer held behind the data.
\* Mutant: the number of words is rounded down.
MutWords(n, w) == (n \div w) * w

Words(n, w) == RoundUp(n, w)

\* Mutant: words of the host bus are counted on the card bus.
MutCardWords(n) == Words(n, Wide)

CardWords(n) == Words(n, Narrow)

\* What the two buffers hold when the words go out.
HostBuffer(n) ==
    IF kernel.src = "card" /\ kernel.dst = "file"
    THEN [c \in Cells |-> IF c < Words(n, Wide) THEN ReadCard(n)[c] ELSE gbuf[c]]
    ELSE ReadHost(n)
CardBuffer(n) ==
    IF kernel.src = "file" /\ kernel.dst = "card"
    THEN [c \in Cells |-> IF c < Words(n, Wide) THEN ReadHost(n)[c] ELSE dbuf[c]]
    ELSE ReadCard(n)

\* Words ws, from position p of the memory m on.
Written(m, p, ws, buffer) ==
    [c \in DOMAIN m |-> IF c \in p .. p + ws - 1 THEN buffer[c - p] ELSE m[c]]

\* One pass of loop L0.
MemcopyBlock ==
    /\ prog = "snap_memcopy" /\ kernel.busy /\ kernel.left > 0
    /\ kernel.pos = 0 /\ "card" \in {kernel.src, kernel.dst} => kernel.left <= CARD_DRAM_SIZE
    /\ LET n == Least(kernel.left, NBlock)
       IN  /\ gbuf' = HostBuffer(n) /\ dbuf' = CardBuffer(n)
           /\ IF kernel.dst = "file" /\ HostReached
              THEN /\ obuff' = Written(obuff, kernel.pos, Words(n, Wide), HostBuffer(n))
                   /\ top' = kernel.pos + Words(n, Wide)
              ELSE UNCHANGED <<obuff, top>>
           /\ card_mem' = IF kernel.dst # "card" THEN card_mem
                          ELSE Written(card_mem, kernel.at + kernel.pos, CardWords(n), CardBuffer(n))
           /\ kernel' = [kernel EXCEPT !.left = @ - n, !.pos = @ + n]
    /\ UNCHANGED <<processVars, ibuff, file, retc, historyVars>>

\* process_action of helloworld: one word of the bus is read, converted and
\* written, whatever part of it the input fills.
UppercaseWord ==
    /\ prog = "snap_helloworld" /\ kernel.busy /\ kernel.left > 0
    /\ IF HostReached
       THEN /\ obuff' = Written(obuff, kernel.pos, Narrow,
                                [c \in 0 .. Narrow - 1 |-> Upper(ibuff[kernel.pos + c])])
            /\ top' = kernel.pos + Narrow
       ELSE UNCHANGED <<obuff, top>>
    /\ kernel' = [kernel EXCEPT !.left = @ - Least(@, Narrow), !.pos = @ + Narrow]
    /\ UNCHANGED <<processVars, ibuff, file, retc, gbuf, dbuf, card_mem, historyVars>>

KernelReturns ==
    /\ kernel.busy /\ kernel.left = 0
    /\ kernel' = [kernel EXCEPT !.busy = FALSE, !.retc = "SUCCESS"]
    /\ UNCHANGED <<processVars, bufferVars, gbuf, dbuf, card_mem, top, historyVars>>

KernelStep == MemcopyRefuses \/ MemcopyBlock \/ UppercaseWord \/ KernelReturns

-----------------------------------------------------------------------------
CopyPrograms == {"snap_memcopy", "snap_helloworld"}

CopyStart ==
    \/ prog = "snap_memcopy" /\ \E o \in MemcopyOptions : CopyRun(prog, o)
    \/ prog = "snap_helloworld" /\ \E o \in HelloworldOptions : CopyRun(prog, o)

MemcopyStep == CopyStep("snap_memcopy")

\* main() of helloworld is the one of memcopy without the card's memory.
HelloworldStep == CopyStep("snap_helloworld")

CopySteps == MemcopyStep \/ HelloworldStep

Done(code) == prog \in CopyPrograms /\ pc = Shell /\ exit = code

Converted == [c \in DOMAIN want |-> IF prog = "snap_memcopy" THEN want[c] ELSE Upper(want[c])]

\* A program that succeeds has written the source of its job to the output
\* file, as it was when the program started and for any size: nothing of the
\* words the kernel moves beyond the data is in it.
CopyRight == Done("ok") /\ opt.dst = "file" /\ opt.src # "unused" => file = Converted

\* What a program has put on the card stays there until a later job is sent to
\* the same words, whatever other jobs do, fail or are given up.
StoredStays == \A c \in DOMAIN stored : card_mem[c] = stored[c]

\* The words the kernel writes behind the data are still within the buffer of
\* the process, and the buffers are there as long as the kernel can reach
\* them, even when the process gave up waiting for it.
KernelInBuffers ==
    /\ top <= Cardinality(DOMAIN obuff)
    /\ kernel.busy /\ HostReached =>
         /\ kernel.src = "file" => "ibuff" \in held
         /\ kernel.dst = "file" => "obuff" \in held

\* -X accepts only a buffer that holds the data and zeros behind it.  It
\* refuses a correct copy only if the kernel's last word was not full: what
\* the kernel's buffer held behind the data is taken for an overrun.
VerifyVerdict ==
    /\ Done("ok") /\ opt.verify => Same /\ TrailingZeros
    /\ Done("EX_ERR_VERIFY") /\ prog = "snap_memcopy" => Same /\ opt.size % Wide # 0
=============================================================================
