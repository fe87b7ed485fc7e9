----------------------------- MODULE MemoryTest -----------------------------
(***************************************************************************)
(* snap_example_ddr: a test of the memory of the card by copies of the     *)
(* HDL example action between a host buffer and the card.                  *)
(*                                                                         *)
(* Four tests go over all blocks: every word its own address, every word   *)
(* the complement of its address, the same random data in all blocks, and  *)
(* random data written and read block by block.  A word holds only the low *)
(* 32 bits of its address, so the pattern repeats every Period blocks.     *)
(*                                                                         *)
(* The memory under test may be broken: two addresses may share a cell,    *)
(* and a cell may not take what is written.  A copy that does not end in   *)
(* time is taken not to have happened.                                     *)
(***************************************************************************)
EXTENDS HostProcess, Integers

CONSTANTS
    NBlocks,  \* blocks of the card's memory
    Period,   \* blocks in 4 GiB
    MaxIter   \* bound: -i

ASSUME MemoryTestAssumption ==
    {NBlocks, Period, MaxIter} \subseteq Nat \ {0} /\ Period <= NBlocks

VARIABLES
    cell,      \* the cell that answers to a block's address
    stuck,     \* cells that keep what they hold
    ddr,       \* the cells
    src, dest, \* the host buffers
    block,     \* the block that is next in the loop
    reading,   \* the second loop of a test
    iter,      \* iterations begun
    test_rc,
    test_late       \* history: a copy of this program did not end in time

boardVars == <<cell, stuck>>
testVars  == <<ddr, src, dest, block, reading, iter, test_rc, test_late>>
ddrVars   == <<boardVars, testVars>>

Blocks == 0 .. NBlocks - 1

-----------------------------------------------------------------------------
(* The data of a block.                                                    *)

\* memset_ad fills a word with the low half of its address and, above it, the
\* low half of the complement.
memset_ad(b, inverse) == <<IF inverse THEN "inverse" ELSE "address", b % Period>>

memset_rnd(test) == <<test, iter>>

memset_pat == <<"pattern", 0>>
Unknown    == <<"unknown", 0>>

\* memcmp2 and memcmp_pat give up after more than 10 wrong words and return 0
\* otherwise, so that a buffer of at most 10 words is never wrong.
memcmp2(data, expect) == IF data # expect /\ opt.buffer # "small" THEN 11 ELSE 0

MemoryInit ==
    \* bound: at most one fault
    /\ cell \in {[b \in Blocks |-> IF b = x THEN y ELSE b] : x, y \in Blocks}
    /\ stuck \in {{}} \cup {{b} : b \in Blocks}
    /\ stuck = {} \/ \A b \in Blocks : cell[b] = b
    /\ ddr = [b \in Blocks |-> Unknown]
    /\ src = Unknown /\ dest = Unknown /\ block = 0 /\ reading = FALSE
    /\ iter = 0 /\ test_rc = 1 /\ test_late = FALSE

-----------------------------------------------------------------------------
\* -e 0 stands for no -e: the memory the card has.
DdrOptions ==
    {o \in [start : {0, 1}, end : {0, 2, NBlocks + 1}, buffer : {"zero", "small", "large"},
            iter : 1 .. MaxIter, irq : BOOLEAN] :
        o.irq \/ o.buffer = "zero" => o.start = 0 /\ o.end = 0 /\ o.iter = 1}

FirstBlock == opt.start
EndBlock   == IF opt.end = 0 THEN NBlocks ELSE opt.end

DdrRun(o) ==
    /\ Run("snap_example_ddr", o, "open")
    /\ src' = Unknown /\ dest' = Unknown /\ block' = o.start /\ reading' = FALSE
    /\ iter' = 0 /\ test_rc' = 1 /\ test_late' = FALSE
    /\ UNCHANGED <<boardVars, ddr>>

DdrOpen ==
    /\ At("snap_example_ddr", "open")
    /\ CardAlloc("parms", "no_card")
    /\ UNCHANGED ddrVars

\* A buffer size of 0 passes the checks and is divided by.
check_parms ==
    /\ At("snap_example_ddr", "parms")
    /\ CASE FirstBlock >= EndBlock \/ EndBlock > NBlocks -> test_rc' = -1 /\ Goto("free")
         [] FirstBlock < EndBlock /\ EndBlock <= NBlocks /\ opt.buffer = "zero" -> test_rc' = test_rc /\ Exit({}, "signal")
         [] OTHER -> test_rc' = test_rc /\ Goto("src")
    /\ UNCHANGED <<boardVars, ddr, src, dest, block, reading, iter, test_late>>

get_mem ==
    /\ \/ At("snap_example_ddr", "src") /\ TakeOr("src", "dest", "free")
       \/ At("snap_example_ddr", "dest") /\ TakeOr("dest", "loop", "free")
    /\ UNCHANGED ddrVars

AttachLoop ==
    /\ At("snap_example_ddr", "loop")
    /\ IF iter < opt.iter
       THEN iter' = iter + 1 /\ (IF opt.irq THEN AttachWithIrq ELSE AttachAction("clear"))
       ELSE iter' = iter /\ Goto("free")
    /\ UNCHANGED <<boardVars, ddr, src, dest, block, reading, test_rc, test_late>>

-----------------------------------------------------------------------------
(* The copies.  action_wait_idle prints a timeout and returns 0.  Bound:   *)
(* one copy of a program times out.                                        *)

CopyHD(b, data) ==
    \/ /\ ddr' = IF cell[b] \in stuck THEN ddr ELSE [ddr EXCEPT ![cell[b]] = data]
       /\ test_late' = test_late
    \/ ~test_late /\ test_late' = TRUE /\ ddr' = ddr

CopyDH(b) ==
    \/ dest' = ddr[cell[b]] /\ test_late' = test_late
    \/ ~test_late /\ test_late' = TRUE /\ dest' = dest

\* The next block, or the first one of what comes after the loop.
\* Mutant: the index is not set back after the last block.
MutNextBlock == block + 1

NextBlock == IF block + 1 < EndBlock THEN block + 1 ELSE FirstBlock
LastBlock == block + 1 = EndBlock

ram_clear ==
    /\ At("snap_example_ddr", "clear")
    /\ src' = memset_pat /\ CopyHD(block, memset_pat)
    /\ block' = NextBlock
    /\ test_rc' = IF LastBlock THEN 0 ELSE test_rc
    /\ Goto(IF LastBlock THEN "ad" ELSE pc)
    /\ UNCHANGED <<boardVars, dest, reading, iter>>

\* A test writes all its blocks ...
WriteBlock(test, next, data) ==
    /\ At("snap_example_ddr", test) /\ ~reading
    /\ src' = data /\ CopyHD(block, data)
    /\ block' = NextBlock /\ reading' = LastBlock
    /\ Goto(pc) /\ UNCHANGED <<boardVars, dest, iter, test_rc>>

\* ... and then reads all of them; the first one that is wrong ends it, and
\* breaks the loop of main() before the action is detached.
ReadBlock(test, next, expect) ==
    /\ At("snap_example_ddr", test) /\ reading
    /\ CopyDH(block)
    /\ test_rc' = memcmp2(dest', expect)
    /\ block' = IF test_rc' # 0 THEN FirstBlock ELSE NextBlock
    /\ reading' = (test_rc' = 0 /\ ~LastBlock)
    /\ Goto(IF test_rc' # 0 THEN "free" ELSE IF LastBlock THEN next ELSE pc)
    /\ UNCHANGED <<boardVars, ddr, src, iter>>

\* Mutant: each block is read back before the next one is written.
Mutram_test_ad(test, next, inverse) ==
    \/ /\ At("snap_example_ddr", test) /\ ~reading
       /\ src' = memset_ad(block, inverse) /\ CopyHD(block, src')
       /\ reading' = TRUE
       /\ Goto(pc) /\ UNCHANGED <<boardVars, dest, block, iter, test_rc>>
    \/ /\ ReadBlock(test, next, memset_ad(block, inverse)) /\ test_rc' # 0
    \/ /\ At("snap_example_ddr", test) /\ reading
       /\ CopyDH(block) /\ memcmp2(dest', memset_ad(block, inverse)) = 0
       /\ test_rc' = 0 /\ block' = NextBlock /\ reading' = FALSE
       /\ Goto(IF LastBlock THEN next ELSE pc)
       /\ UNCHANGED <<boardVars, ddr, src, iter>>

ram_test_ad(test, next, inverse) ==
    \/ WriteBlock(test, next, memset_ad(block, inverse))
    \/ ReadBlock(test, next, memset_ad(block, inverse))

ram_test_rnd1 ==
    \/ WriteBlock("rnd1", "rnd2", memset_rnd("random 1"))
    \/ ReadBlock("rnd1", "rnd2", src)

\* The same data for all blocks, written and read one by one.
ram_test_rnd2 ==
    /\ At("snap_example_ddr", "rnd2")
    /\ IF ~reading
       THEN /\ src' = memset_rnd("random 2") /\ CopyHD(block, src')
            /\ reading' = TRUE
            /\ Goto(pc) /\ UNCHANGED <<dest, block, test_rc>>
       ELSE /\ CopyDH(block)
            /\ test_rc' = memcmp2(dest', src)
            /\ block' = IF test_rc' # 0 THEN FirstBlock ELSE NextBlock
            /\ reading' = FALSE
            /\ Goto(IF test_rc' # 0 THEN "free" ELSE IF LastBlock THEN "detach" ELSE pc)
            /\ UNCHANGED <<ddr, src>>
    /\ UNCHANGED <<boardVars, iter>>

Tests ==
    \/ ram_test_ad("ad", "nad", FALSE)
    \/ ram_test_ad("nad", "rnd1", TRUE)
    \/ ram_test_rnd1
    \/ ram_test_rnd2

DetachLoop ==
    /\ At("snap_example_ddr", "detach")
    /\ DetachAction("loop")
    /\ UNCHANGED ddrVars

\* __exit frees the buffers and then the card.
DdrExit ==
    /\ prog = "snap_example_ddr"
    /\ \/ pc = "free" /\ Drop({"src", "dest"}, "free_card")
       \/ pc = "free_card" /\ Exit({"card"}, IF test_rc = 0 THEN "ok" ELSE "failure")
       \/ pc = "no_card" /\ Exit({}, "failure")
    /\ UNCHANGED ddrVars

DdrStart == \E o \in DdrOptions : DdrRun(o)

DdrStep ==
    \/ DdrOpen \/ check_parms \/ get_mem \/ AttachLoop \/ ram_clear \/ Tests
    \/ DetachLoop \/ DdrExit

-----------------------------------------------------------------------------
Passed == prog = "snap_example_ddr" /\ pc = Shell /\ exit = "ok"

Tested == FirstBlock .. EndBlock - 1

\* A memory that passes is good as far as the test can tell: no tested block is
\* stuck, and two tested addresses share a cell only if they are a multiple of
\* 4 GiB apart.  (Not with a buffer of at most 10 words, and not after a
\* copy that timed out.)
FaultsFound ==
    Passed /\ opt.buffer = "large" /\ ~test_late =>
        /\ \A b \in Tested : cell[b] \notin stuck
        /\ \A a, b \in Tested : cell[a] = cell[b] => a % Period = b % Period
=============================================================================
