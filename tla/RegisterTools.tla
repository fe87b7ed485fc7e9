--------------------------- MODULE RegisterTools ---------------------------
(***************************************************************************)
(* The tools that look at and set single registers: snap_peek, snap_poke   *)
(* and oc_maint.                                                           *)
(*                                                                         *)
(* A register has a high and a low half, each 0 or 1.  The 64-bit accesses *)
(* of the tools move both; the 32-bit ones move the low half and leave the *)
(* other half of the tool's variable alone.  An access outside the mapped  *)
(* registers fails, and a register may ignore what is written to it.  (The *)
(* 32-bit accesses are to the registers of the action, the 64-bit ones to  *)
(* the global ones; a program uses one width.)                             *)
(***************************************************************************)
EXTENDS HostProcess, Integers

CONSTANTS
    NReg,      \* mapped registers
    MaxCount,  \* bound: -c, how often the loop runs
    MaxDump    \* bound: -d, how many registers are dumped

ASSUME RegisterToolsAssumption == {NReg, MaxCount, MaxDump} \subseteq Nat \ {0}

VARIABLES
    regs,     \* the registers
    fixed,    \* the registers that ignore a write
    offs,     \* the register that is accessed next
    val,      \* val of snap_peek, rbval of snap_poke
    i, dump,  \* loop counters
    seen      \* history: the registers snap_peek read and checked

regVars  == <<regs, fixed>>
loopVars == <<offs, val, i, dump, seen>>
toolVars == <<regVars, loopVars>>

Reg   == 0 .. NReg - 1
Half  == 0 .. 1
Val   == [hi : Half, lo : Half]
Zero  == [hi |-> 0, lo |-> 0]
Ones  == [hi |-> 1, lo |-> 1]
Not(v) == [hi |-> 1 - v.hi, lo |-> 1 - v.lo]

ToolInit ==
    /\ regs \in [Reg -> {Zero, Ones}] /\ fixed = {0}
    /\ offs = 0 /\ val = Ones /\ i = 0 /\ dump = 1 /\ seen = <<>>

-----------------------------------------------------------------------------
(* Register access of the library, and what it leaves in a 64-bit variable.*)

Mapped(r) == r \in Reg

Read32(r, v) == [hi |-> v.hi, lo |-> regs[r].lo]
Read64(r, v) == regs[r]

Write32(r, v) == IF r \in fixed THEN regs ELSE [regs EXCEPT ![r].lo = v.lo]
Write64(r, v) == IF r \in fixed THEN regs ELSE [regs EXCEPT ![r] = v]

-----------------------------------------------------------------------------
(* snap_peek                                                               *)

PeekOptions ==
    {o \in [offs : Reg, width : {32, 64}, count : {0, MaxCount}, dump : 0 .. MaxDump,
            check : SUBSET {"equal", "not_equal"}, want : {Zero, Ones}] :
        /\ Cardinality(o.check) # 1 => o.want = Zero
        /\ Cardinality(o.check) = 2 => o.dump = 0}

PeekRun(o) ==
    /\ Run("snap_peek", o, "args")
    /\ offs' = o.offs /\ val' = Ones /\ i' = 0 /\ dump' = o.dump /\ seen' = <<>>
    /\ UNCHANGED regVars

\* -e and -n exclude each other.
PeekOpen ==
    /\ At("snap_peek", "args")
    /\ IF opt.check = {"equal", "not_equal"}
       THEN Exit({}, "failure")
       ELSE CardAlloc("loop", "no_card")
    /\ UNCHANGED toolVars

PeekRead(v) == IF opt.width = 32 THEN [Read32(offs, v) EXCEPT !.hi = 0] ELSE Read64(offs, v)

PeekWrong(v) ==
    \/ "equal" \in opt.check /\ v # opt.want
    \/ "not_equal" \in opt.check /\ v = opt.want

\* One pass through the label dump_more: read, check, and go on to the next
\* register while there is something left to dump, or else to the next pass of
\* the loop, which looks at the last register again.
\* Mutant: the registers after the first one are dumped without a check.
MutPeekPass ==
    /\ At("snap_peek", "loop") /\ i < opt.count /\ Mapped(offs)
    /\ i # 0 \/ dump < opt.dump \/ ~PeekWrong(PeekRead(val))
    /\ val' = PeekRead(val)
    /\ seen' = Append(seen, offs)
    /\ dump' = dump - 1
    /\ IF dump' >= 1
       THEN offs' = offs + 1 /\ i' = i
       ELSE offs' = offs /\ i' = i + 1
    /\ Goto("loop") /\ UNCHANGED regVars

PeekPass ==
    /\ At("snap_peek", "loop") /\ i < opt.count /\ Mapped(offs)
    /\ ~PeekWrong(PeekRead(val))
    /\ val' = PeekRead(val)
    /\ seen' = Append(seen, offs)
    /\ dump' = dump - 1
    /\ IF dump' >= 1
       THEN offs' = offs + 1 /\ i' = i
       ELSE offs' = offs /\ i' = i + 1
    /\ Goto("loop") /\ UNCHANGED regVars

PeekFails ==
    /\ At("snap_peek", "loop") /\ i < opt.count
    /\ \/ ~Mapped(offs) /\ Goto("failure")
       \/ Mapped(offs) /\ PeekWrong(PeekRead(val)) /\ Goto("data")
    /\ UNCHANGED toolVars

\* Mutant: a wrong value ends without closing the card.
MutPeekEnd ==
    /\ prog = "snap_peek"
    /\ \/ pc = "loop" /\ i >= opt.count /\ Exit({"card"}, "ok")
       \/ pc = "failure" /\ Exit({"card"}, pc)
       \/ pc = "data" /\ Exit({}, pc)
       \/ pc = "no_card" /\ Exit({}, "failure")
    /\ UNCHANGED toolVars

PeekEnd ==
    /\ prog = "snap_peek"
    /\ \/ pc = "loop" /\ i >= opt.count /\ Exit({"card"}, "ok")
       \/ pc \in {"failure", "data"} /\ Exit({"card"}, pc)
       \/ pc = "no_card" /\ Exit({}, "failure")
    /\ UNCHANGED toolVars

-----------------------------------------------------------------------------
(* snap_poke                                                               *)

PokeOptions ==
    {o \in [offs : 0 .. NReg, width : {32, 64}, count : {0, MaxCount}, rd_back : BOOLEAN,
            val : {Zero, Ones}, card_no : {0, 5}] :
        o.card_no # 0 => o.offs = 0 /\ o.rd_back}

PokeRun(o) ==
    /\ Run("snap_poke", o, "args")
    /\ offs' = o.offs /\ val' = Not(o.val) /\ i' = 0 /\ dump' = 1 /\ seen' = <<>>
    /\ UNCHANGED regVars

PokeOpen ==
    /\ At("snap_poke", "args")
    /\ IF opt.card_no > 4
       THEN Exit({}, "failure")
       ELSE CardAlloc("loop", "no_card")
    /\ UNCHANGED toolVars

PokeWrite ==
    /\ At("snap_poke", "loop") /\ i < opt.count
    /\ IF Mapped(offs)
       THEN /\ regs' = IF opt.width = 32 THEN Write32(offs, opt.val) ELSE Write64(offs, opt.val)
            /\ Goto(IF opt.rd_back THEN "rd_back" ELSE "next")
       ELSE Goto("failure") /\ UNCHANGED regs
    /\ UNCHANGED <<fixed, loopVars>>

\* The comparison is of 64 bits whatever the width: a 32-bit read leaves the
\* high half of rbval at the complement it was given.
\* Mutant: what was read is not compared with what was written.
MutPokeReadBack ==
    /\ At("snap_poke", "rd_back")
    /\ val' = IF opt.width = 32 THEN Read32(offs, val) ELSE Read64(offs, val)
    /\ Goto("next")
    /\ UNCHANGED <<regVars, offs, i, dump, seen>>

PokeReadBack ==
    /\ At("snap_poke", "rd_back")
    /\ val' = IF opt.width = 32 THEN Read32(offs, val) ELSE Read64(offs, val)
    /\ Goto(IF val' = opt.val THEN "next" ELSE "failure")
    /\ UNCHANGED <<regVars, offs, i, dump, seen>>

\* Mutant: the loop does not count.
MutPokeNext ==
    /\ At("snap_poke", "next")
    /\ Goto("loop") /\ UNCHANGED toolVars

PokeNext ==
    /\ At("snap_poke", "next")
    /\ i' = i + 1
    /\ Goto("loop") /\ UNCHANGED <<regVars, offs, val, dump, seen>>

PokeEnd ==
    /\ prog = "snap_poke"
    /\ \/ pc = "loop" /\ i >= opt.count /\ Exit({"card"}, "ok")
       \/ pc = "failure" /\ Exit({"card"}, "failure")
       \/ pc = "no_card" /\ Exit({}, "failure")
    /\ UNCHANGED toolVars

-----------------------------------------------------------------------------
(* oc_maint: the card's identification, the action's, and for each -m one  *)
(* more word of output, in a fixed order.                                  *)

Modes == <<"GET_NVME_ENABLED", "GET_SDRAM_SIZE", "GET_CARD_NAME", "GET_DMA_ALIGN",
           "GET_DMA_MIN_SIZE">>

\* Bound: one -m, all of them, or none.
MaintOptions ==
    [mode : {{}, {Modes[m] : m \in DOMAIN Modes}} \cup {{Modes[m]} : m \in DOMAIN Modes}]

MaintRun(o) ==
    /\ Run("oc_maint", o, "args")
    /\ offs' = 0 /\ val' = Ones /\ i' = 0 /\ dump' = 1 /\ seen' = <<>>
    /\ UNCHANGED regVars

SnapOpen ==
    /\ At("oc_maint", "args")
    /\ CardAlloc("version", "no_card")
    /\ UNCHANGED toolVars

\* snap_version asks for every field.
SnapVersion(cap) ==
    /\ At("oc_maint", "version")
    /\ seen' = << <<"version", CardIoctl(cap, "GET_CARD_TYPE"),
                     [m \in DOMAIN Modes |-> CardIoctl(cap, Modes[m])]>> >>
    /\ Goto("info") /\ UNCHANGED <<regVars, offs, val, i, dump>>

\* snap_action_info reads two registers and returns 0 for any action.
SnapActionInfo ==
    /\ At("oc_maint", "info")
    /\ Goto("show") /\ UNCHANGED toolVars

\* A feature the card does not have is left out.
Shown(cap, m) ==
    /\ m \in opt.mode
    /\ m \in {"GET_NVME_ENABLED", "GET_SDRAM_SIZE"} => CardIoctl(cap, m) # 0

SnapShowCap(cap) ==
    /\ At("oc_maint", "show")
    /\ LET shows(m) == Shown(cap, m)
           words    == SelectSeq(Modes, shows)
       IN  seen' = seen \o [w \in DOMAIN words |-> <<words[w], CardIoctl(cap, words[w])>>]
    /\ Goto("close") /\ UNCHANGED <<regVars, offs, val, i, dump>>

MaintEnd ==
    /\ prog = "oc_maint"
    /\ \/ pc = "close" /\ Exit({"card"}, "ok")
       \/ pc = "no_card" /\ Exit({}, "ENODEV")
    /\ UNCHANGED toolVars

-----------------------------------------------------------------------------
\* The capabilities of the cards of the repository, with and without DRAM.
Capabilities ==
    {[card |-> 49, nvme |-> FALSE, sdram |-> s, align |-> 6, min |-> 6] : s \in {0, 8}}

ToolRun ==
    \/ \E o \in PeekOptions : PeekRun(o)
    \/ \E o \in PokeOptions : PokeRun(o)
    \/ \E o \in MaintOptions : MaintRun(o)

ToolStep ==
    \/ PeekOpen \/ PeekPass \/ PeekFails \/ PeekEnd
    \/ PokeOpen \/ PokeWrite \/ PokeReadBack \/ PokeNext \/ PokeEnd
    \/ SnapOpen \/ SnapActionInfo \/ MaintEnd
    \/ \E cap \in Capabilities : SnapVersion(cap) \/ SnapShowCap(cap)

\* The registers snap_peek goes through: dump of them from offs on, and the
\* last one again in every further pass of the loop.
Walk(o) ==
    LET n == IF o.dump = 0 THEN 1 ELSE o.dump
    IN  [k \in 1 .. n + o.count - 1 |-> o.offs + (IF k < n THEN k - 1 ELSE n - 1)]

\* snap_peek -e v ends with success only if each register it was asked for
\* was read and holds v, and snap_peek -n v only if none of them does.  (With
\* -c 0 it reads nothing and ends with success.)
PeekChecked ==
    prog = "snap_peek" /\ exit = "ok" /\ opt.count > 0 =>
        /\ seen = Walk(opt)
        /\ \A k \in DOMAIN seen :
             LET v == IF opt.width = 32 THEN [regs[seen[k]] EXCEPT !.hi = 0] ELSE regs[seen[k]]
             IN  /\ "equal" \in opt.check => v = opt.want
                 /\ "not_equal" \in opt.check => v # opt.want

\* snap_poke -r ends with success only if the register holds the value, and a
\* 64-bit one fails only for a reason.  (A 32-bit one always fails: half of
\* what it compares was not read.)
PokeVerified ==
    prog = "snap_poke" /\ opt.rd_back /\ opt.count > 0 =>
        /\ exit = "ok" => regs[offs] = opt.val /\ opt.width = 64
        /\ pc = "failure" /\ opt.width = 64 => ~Mapped(offs) \/ regs[offs] # opt.val
=============================================================================
