# OC-Accel in TLA+

OC-Accel connects FPGA actions to a host over OpenCAPI. A C library on the host
(`software/lib`) drives an action through memory-mapped registers; a hardware
bridge (`hardware/hdl/oc`) turns the action's AXI traffic into OpenCAPI commands
and the responses back into AXI. Tools and job programs use the library. This
directory holds TLA+ models of the host side and of parts of the bridge, the TLC runs that check
them on small instances, and TLAPS proofs of their invariants. Paths below are relative to `src/`.

## Contents

| module | what it is |
|---|---|
| `OrderMng` | the transaction order manager, register by register, one clock cycle per step |
| `OrderedBeats` | what it promises: per AXI id, beats come back in issue order with the right code |
| `OrderMngRefinement` | `OrderMng` implements `OrderedBeats` |
| `OrderMngProof` | TLAPS: type, list, tag and output invariants of `OrderMng` |
| `OrderListProof` | TLAPS: the lists as sequences of tags; no beat is lost; `OrderMng` implements `OrderedBeats` |
| `SnapJob` | a host process that runs jobs on an HLS action, and the interrupt that comes back |
| `SnapJobProof` | TLAPS: types, isolation of a call, success from an idle action; calls in calm surroundings |
| `PartialCommands` | a byte strobe cut into partial commands, and the batch of their responses |
| `PartialCommandsProof` | TLAPS: types, the batch counter, strobes, and coverage by the commands of a batch |
| `RetryQueue` | the commands the host wants again, and when they are sent again |
| `ResponseDecode` | the write channel's responses: full, partial and retried, around `RetryQueue` |
| `ResponseDecodeProof` | TLAPS: types, one place per full command and its code; each half retried once, and reported when it is answered |
| `HostProcess` | what every program that uses the card has in common: steps, what it holds, calls of the library |
| `RegisterTools` | `snap_peek`, `snap_poke`, `oc_maint` |
| `CopyJobs` | `snap_memcopy` and `snap_helloworld` with their HLS kernels, word by word |
| `MemoryTest` | `snap_example_ddr`, the test of a memory that may be broken |
| `ExampleJobs` | `snap_example`: delays and copies of the HDL example action |
| `EngineJobs` | `hdl_single_engine`, `hdl_multi_process` and the engines they drive |
| `HostPrograms` | all of them, started one after the other |
| `ProgramsProof` | TLAPS: the steps of the tools, the memory test, the example and the engine programs |
| `CopyJobsProof` | TLAPS: the steps of the copy jobs and their kernels, word by word |
| `HostProgramsProof` | TLAPS: the invariant of the whole, and every safety property of `HostPrograms` |
| `MC*` | the instances for TLC, with their `.cfg` files |

Check one with `tlc -config MCOrderMng_control.cfg MCOrderMng`, prove one with
`tlapm OrderMngProof.tla`.

## Inventory

### Host software

**libosnap** (`software/lib/osnap.c`). State: `struct snap_card` (open AFU, mapped
MMIO areas, attach flags, interrupt handle). Operations: alloc, attach, detach and
free; MMIO access; `assign_irq`; `execute_job` = write the parameters, start, wait
(poll with a timeout, or one interrupt), read the results. It shares registers with
the action and events with the driver, and nothing locks either. Hard: the action
outlives the process; a timeout leaves it running; events, status bits and enables
survive a call. Correct means: a call that reports success returns its own job's
results, every call returns, and the action is handed back as it was found.
*Modelled in `SnapJob`.*

**Command line tools** (`software/tools`). State: one register address, one value, the
counters of two nested loops. `snap_peek` and `snap_poke` read and write a register, again
and again or one after the other, and compare; `oc_maint` shows the capability register.
Hard: a 32-bit access into a 64-bit variable; a register that ignores a write; loops that
share a counter. Correct means: success is said of registers that were read and compared.
*Modelled in `RegisterTools`.*

**Action programs** (`actions/*/sw`). State: host buffers, the card, the action, and what
is left of an earlier program in the action and in card memory. Each takes resources one by
one and gives them back on labels of an error path. `snap_memcopy` and `snap_helloworld`
let an HLS kernel copy or convert; `snap_example` counts or copies and
`snap_example_ddr` tests memory with the HDL example action; `hdl_single_engine` drives one
traffic engine, `hdl_multi_process` forks one process per engine and waits for them. Hard:
hardware that works on after a process gave up; kernels that move whole words; error paths
that give back too little or in the wrong order; waits without a timeout. Correct means:
what a program reports as done has been done, by this program; nothing is kept; the action
never reaches memory that was freed; every program ends. *Modelled in `CopyJobs`,
`MemoryTest`, `ExampleJobs` and `EngineJobs`.*

### Bridge (`hardware/hdl/oc`)

Commands: AXI slave -> data bridge -> command encode -> command converter -> TLX.
Responses: TLX -> response converter -> response decode (with the retry queue) ->
data bridge -> order manager -> AXI slave. There is one copy for writes and one for
reads; they meet in the command converter. The bridge has its own AFU clock.

| component | state | operations | what is hard | correct means |
|---|---|---|---|---|
| order manager (`brdg_wr_/rd_order_mng_array.v`) | linked lists by tag, latch per id, output latch | reserve, respond, link, arbitrate, return, recycle | all of them in one cycle, with one cycle of latch between reservation and link | no beat lost, per-id order, no tag in two places |
| data bridge (`brdg_data_bridge.v`) | tag recycle FIFO, retry FIFO, two buffers indexed by tag | accept a beat, issue, retry, return data | a retry reuses the tag's buffers while new beats arrive | a tag's data is stable until it is recycled; every retry is re-sent |
| command encode, partial sequencer | partial FIFO, two FSMs, strobe register | bypass full commands, cut strobes | ready of the next stage drops between two of its stages | every enabled byte is sent exactly once |
| response decode (`brdg_response_decode.v`) | batch counters, good and bad FIFOs | classify, count a batch, report one code | responses in any order, interleaved with sending | a batch closes once, when it is complete, with the code of its own responses |
| retry queue (`brdg_retry_queue.v`) | FIFO, RAM of translation results, backoff counter | queue, wait for the translation, back off, re-send | translation result before or after the pending response, several retries of one batch | every retry is sent once, after its reason has gone |
| context surveillance (`brdg_context_surveil.v`) | current PASID and actag, three requesters | drain, assign an actag, switch | write, read and interrupt ask together | no command under a stale actag |
| command converter (`brdg_tlx_cmd_converter.v`) | FIFOs across clocks, credits | alternate read and write, send interrupts | credits returned while spent; multi-cycle handshake of the interrupt | never a command without a credit |
| response converter (`brdg_tlx_rsp_converter.v`) | FIFOs across clocks | route to write, read, interrupt | | no response lost |
| interrupt FSM (`brdg_interrupt.v`) | FSM, backoff counter | request, wait, retry, acknowledge | response before ready, second interrupt during the first | one request per interrupt |
| AXI slave (`brdg_axi_slave.v`) | burst FSMs and counters | split bursts, collect the last beat's response | | as many beats out as in |
| MMIO path (`mmio.v`, `tlx_mmio_converter.v`, `axi_lite_master.v`) | one access at a time | capability registers, forward to the action | byte lanes, 32 and 64 bit accesses | every access is answered once |

### Action shells

`hardware/hdl/hls/action_wrapper.v` turns the level interrupt of an HLS kernel into
a request with the handle it finds in two 32-bit registers. *In `SnapJob`.* The engines of
`actions/hdl_*_engine` and `hdl_multi_process` have a register block and two masters that
send bursts and compare what they read. *The register block and the masters, as far as a
program sees them, are in `EngineJobs`.* The VHDL example action latches a start, takes it when
it is back in `IDLE`, and copies or counts. Hard: the latch holds a start whose registers are
written again before it is taken. *Modelled in `ExampleJobs`; `MemoryTest` has its copies as one
step of the program.*

### ODMA (`hardware/hdl/odma`)

An alternative to the AXI slave: a descriptor manager fetches descriptors in blocks,
eight channels move data in each direction, a completion manager writes status back.
*Planned.*

### Left aside

`hardware/hdl/nvme` (a controller of other cards), `hardware/hdl/core` (wiring and
configuration space), `hardware/sim` (the UVM environment), build scripts.
`PROJECT.json` lists every component, and the hazards at their lines.

## Modules and code

### OrderMng

The variables are the registers of the array, named as in the code without
`beat_info_`; a vector `reg x[D-1:0]` is the set of the indices whose bit is one.
An operator is a wire, a group of primed conjuncts is an `always` block, and `Clock`
is one cycle of all blocks. A cycle takes three inputs: a reservation (a free tag,
an id, the halves it waits for), a response (tag, half, good or bad), and the ready
of the AXI slave. `pool` is the recycle FIFO of the data bridge as a set. `IsWrite`
selects the write or the read array, which differ in the last flag. A host answers
each half of a beat once.

`OrderedBeats` has a queue of beats per id, each with the halves the host still owes
and its error, and the beat that is presented at the output. The refinement mapping follows the links from
the head of each list, adds the latch in front of its link, and puts ready and
output latches at the front.

| run | instance | shows |
|---|---|---|
| `order_control` | 3 tags, 2 ids, one half | all list configurations: a list of three, two lists, unlink and link in one cycle |
| `order_data` | 2 tags, 2 ids, both halves or none, good and bad, read array | codes come back with their beats, a beat without strobes too; all tags return |

Three tags are the smallest number for which a beat in the middle of a list exists;
two ids are the smallest for which two lists compete for the output.

### SnapJob

`pc` is the line the library is at; each MMIO access, each wait and each return is a
step, so the kernel, the interrupt path and the driver can move between any two. A
parameter or result word is the number of the job it belongs to. `KernelRead` reads
one parameter at a time, because the HLS kernel reads its AXI-lite registers while
it runs. `Interrupt`, `Answered` and `Deliver` are the handshake of
`action_wrapper.v` and `brdg_interrupt.v` between two accesses, and the driver, which
is external. The four flags in the configurations say what may go wrong: a poll
may time out, a process may be killed, the host may answer late, the driver may
report a translation fault.

| run | instance | shows |
|---|---|---|
| `job_calm` | 3 jobs, 2 processes, nothing goes wrong | own results, no timeout by interrupt, clean hand-back, every call returns |
| `job_rough` | the same, everything may go wrong | a call that finds the action idle still succeeds only with its own results |
| `job_timeout`, `job_kill` | one thing goes wrong | counterexamples, below |

Three jobs and two processes let a job be overlapped by the next one and a process
inherit what another left. Two parameter words are the least that can be torn.
The calm run assumes what two other settings of the same instance break: with a late
answer of the host an interrupt raised meanwhile is lost and the job waits for ever,
and a translation fault ends a wait as if it were a timeout (`PROJECT.json`, hazards).
These runs do not check deadlock: when all jobs are done the process stops.

### PartialCommands

One step is one cycle. The half has `2^Levels` bytes instead of 64, and the counters
scale with it, so that a strobe of alternating ones still wraps
`prt_inflight_cnt`. The converter's FIFO is a number of commands, seen by the
encoder with the two cycles of delay of `wr_data_count`. The host takes and answers
commands in any order and at any time; `left` is a history variable, the bytes not
yet covered.

| run | instance | shows |
|---|---|---|
| `partial_batches` | 16 bytes, two beats, one or two halves, four kinds of strobes | each byte is covered once and in its half, batches do not overlap, each one closes |
| `partial_stall` | the same, the FIFO half full at any time | counterexample, below |

`Half`, the commands that make the FIFO half full, has to be more than 2 (`PartialAssumption`; the
code has 16): with 1 or 2 a batch may be closed while its last command waits for the FIFO, and
TLC finds `BatchAnswered` violated.

The strobes (`SomeBeats`) are chosen for their shape: alternating ones make the most
commands, one run the fewest, a strobe may be empty in one half, and a run may cross
a section of the sequencer. `held` records the command the sequencer held in the
previous cycle: `BatchCovered` speaks of instances in which a command fits in the
FIFO at the moment the ready falls.

### RetryQueue and ResponseDecode

`RetryQueue` gives the registers of `brdg_retry_queue` their next values from the
inputs of a cycle (`rsp`, `rty_rdy`, `prt_cmd_start`); `ResponseDecode` extends it with
the partial bookkeeper and the output multiplexer of `brdg_response_decode`, one cycle
per step, and closes it with a sender (data bridge and encoder: a half that is reported
"retry" is sent again) and a host. The pipelines are kept to the cycle, because the next
batch may begin while the last entry of the previous one is still being checked: an
entry is counted one cycle after it was written, and is compared three cycles after it
was read. Left out are the data (nothing depends on them in the write channel), and the
length of the backoff, which is any number of cycles. `asked` and `failed` are history:
what the host wanted of a half since it was last sent.

| run | instance | shows |
|---|---|---|
| `response_paths` | two halves of one tag with 2 and 1 partial commands, a full one, 2 retries | each half is retried once per request, reported once and with its code if full, and all are in the end |
| `response_code` | the same | counterexample, below |
| `response_twice` | the same, 3 retries on any command | counterexample, below |

In `response_paths` the host asks either for partial or for full commands again
(`Regimes`), because with both the counterexample of `response_twice` exists. Two
retries are the least for which one is skipped; larger instances (3 commands,
4 retries) were checked for safety and behave alike.

### HostProcess and the programs

`HostProcess` has the state every program shares: `prog` and `pc` (the next step of its
`main`), `opt` (the command line, as the values that change what it does), `held` (the card,
the action, the buffers by name), `exit` and `runs`. `Take`, `TakeOr`, `Drop` and `Exit` are
the successful or failing allocation, the release and the exit; a label of an error path is
a value of `pc`. `CardAlloc` to `CardIoctl` are the calls of `osnap.c` as seen from outside; what
happens inside a job is in `SnapJob`. A module per family adds the program's variables and
one action per step of `main`:

* `RegisterTools`: a register is a high and a low half, because a 32-bit access moves one of
  them. `PeekPass` is a pass through the label `dump_more`.
* `CopyJobs`: a memory is a function of cells. The kernel has the two buffers of
  `action_memcopy` (`gbuf`, `dbuf`) that keep old data; `MemcopyBlock` is a pass of its loop `L0`
  and moves whole words, `UppercaseWord` a pass of `main_loop`. `KernelStep` goes on after the
  process gave up. `snap_helloworld` has the same `main` without card memory.
* `MemoryTest`: `cell` says which cell answers to a block, `stuck` which cells take no
  write. `memset_ad` keeps only the low half of an address, so blocks `Period` apart
  get the same pattern.
* `ExampleJobs`: an area of memory holds one value; `EngineDone` is the end of a job, at any
  time after the start, also when the process no longer waits. Nothing keeps a copy or a program from starting
  the action while it is still at work: the start is latched (`engine.next`) and taken when
  the action is back in `IDLE` (`EngineTakes`). Its idle bit is up between the two, and a process that
  looks then takes the end of the old job for that of its own. A job is `lost` when its
  wait timed out or a start was written over it; `calm` says that this program has not started
  the action while it was at work. Simplified: the start of an idle action takes effect before the next
  access of the process (two clock cycles); a start that is taken while its registers are being written
  sees a mixture of the two jobs' areas, not of single address words; a count configured over
  a copy turns the rest of it into a fill, and the data it leaves behind spoils the copies
  after it (`foul`, until the end of the behaviour).
* `EngineJobs`: a process per engine (`child`), a register block (`slave`) and two masters
  (`rd`, `wr`) which work for the last kick ("own"), an earlier one ("stale"), or, a write master that
  was started again with responses outstanding, for "both": the soft reset clears the registers and not
  the masters. Bursts of an earlier kick go where the live registers point, which may be the target
  buffer of the process that is there by now; the model changes it only in `hdl_single_engine`, where somebody
  looks at it. `worked` notes a wrong read ("bad") when it happens, and that a
  response error came after it ("hidden"), which clears its flag. It is not kept on an
  engine that is spoiled, about which nothing is claimed.

A card has one action, so `HostPrograms` is a sum: a behaviour runs the programs of one
action, and `OfTools` to `OfEngine` leave the state of the other families alone. History
variables (`seen`, `want`, `stored`, `top`, `test_late`, `calm`, `landed`, `spoiled`,
`worked`) record what a program cannot see and are read by no step of a program. `Ran` and
`Running` say when the command line and the exit code mean something; only the proofs use them.

| run | instance | shows |
|---|---|---|
| `host_programs` | every program, twice, with any of its options | what success stands for, what is given back, that every program ends |

| bound | value | why it is enough |
|---|---|---|
| `NRun` | 2 | the second program meets what the first has left; a third would meet the same |
| `NReg`, `MaxCount`, `MaxDump` | 2 | a dump that leaves the mapped registers, a second pass of each loop |
| `Narrow`, `NBlock` | 2, 4 | a host word is two card words and fills a block; a word can be half full on either bus |
| `Sizes`, `CARD_DRAM_SIZE` | 5 and 8, 5 | two blocks, the last full or not a multiple of either word; too large for the card |
| `Junk` | 0, 99 | memory that looks cleared and memory that does not |
| `NBlocks`, `Period`, `MaxIter` | 3, 2, 1 | two blocks with the same address pattern and one with another |
| `SDRAM`, `MaxCopy`, `MaxDelay` | 0 and 4, 2, 2 | a card without memory, a card to card copy that fits and one that does not; a second copy or program after a late one |
| `NEngine`, `MaxTest` | 2, 2 | two processes at once, a second test on an engine that was reset |

Deadlock is not checked: the operator stops after `NRun` programs. Where a property names
an exception, the code has it, and the hazard in `PROJECT.json` names the line:

* `NothingKept` and `ActionBeforeCard`: a failed test of `snap_example_ddr` breaks out of the
  loop before the detach, as its comment says.
* `FaultsFound`: a copy that times out counts as done, ten wrong words are forgiven, addresses
  4 GiB apart have one pattern.
* `VerifyVerdict`: `-X` may refuse a correct copy, because the kernel's last word carries old
  data into the zeros behind it. It never accepts a wrong one. `tests/hw_test.sh:91,123` of `hls_memcopy_1024`
  demands success for 64 bytes, half a word of the 1024-bit kernel: whether it gets
  it depends on what the kernel's buffer held before.
* `SuccessEarned`: not on engines which a process was killed on or gave up while they worked.
  In `hdl_multi_process` the data that was written is not compared, because the comparison is behind a return code that
  never comes, and a wrong read goes unnoticed if a response error comes after it: the register keeps
  the last error (`axi_lite_slave.v:434`). `hdl_single_engine` claims nothing of reads: an error may
  come too late to be looked at.
* `EveryCopyLanded`: `HH` and `HDH` compare, and are claimed whatever happened before. `HD`, `DH` and `DD` are
  claimed for a program that always found the action idle (`calm`), on a card where no count was started
  over a copy (`foul`). Without these the code breaks the property: a program started while
  a copy that timed out is still running takes its idle bit for that of its own latched copy
  and succeeds (`snap_example.c:180-187`).
* `NoDmaToFreed`: not for a job that is `lost`. `snap_example` frees its buffers after a timeout while the
  card is open and the copy runs, and a latched start may be taken after its program has
  freed them. Who lost the job does not matter, nor whose buffers they are: a job that is not
  lost is covered in whatever program it runs.
* `ProgramEnds`: two waits are for an interrupt nobody raises (`WaitsForIrq`).

## Fairness

* `OrderMng`: the clock runs; the host answers every beat (weak fairness of a cycle
  that answers a given half, a promise of the OpenCAPI host); the AXI slave is ready
  again and again. `Drains` is stated for a pool that stops issuing, because the
  arbiter of the code keeps serving one id as long as it has beats.
* `SnapJob`: weak fairness of the process's own steps, of the kernel (an action that
  never finishes is a broken action), of the driver's delivery and of the host's
  answer. None for open, call, kill and timeout.
* `PartialCommands`: the clock runs, the host takes and answers commands, and the
  retry queue runs empty in the end (its entries wait for the host as well).

* `ResponseDecode`: the clock runs, the host answers and ends its translations, the
  sender sends what is to be sent, the backoff counter runs down. The bound on retries
  makes the host give up asking, which no code can force.
* `HostPrograms`: the operating system lets the process run, and the example action (`EngineDone`,
  `EngineTakes`) ends what it has begun and takes what it has latched: its two FSMs count down or go through a given
  number of blocks, and `IDLE` looks at the latch every cycle. `snap_example -I` on
  a delay waits for its interrupt without a timeout. Nothing of the HLS kernels and the engines: the
  programs that use them give up in time, and `ProgramEnds` holds for hardware that never answers. None
  for the operator.

## Proofs

All for every value of the constants that meets the named assumptions.

**OrderMngProof.** `TypeCorrect` needs one real argument: the grant of the ready
latches is one-hot (`GrantOneHot`). `ListsIntact` proves `ListInvariant`, which is
inductive together with the type and has six parts: heads and links point to reserved
beats; each beat that is in a list is the head or has exactly one
predecessor, never both; `pre_ptr` of an id with beats is the last of its
list; the latch holds the beat that was
reserved last; a ready latch holds a beat that left its list; each tag is in one
place. Neither `TagsAccounted` nor the absence of lost beats is inductive without the others: a tag could
be recycled while a link still points to it. There is one lemma per part and step,
over the wires that cause it. `TagsSafe` and `OutputStable` follow.

**OrderListProof.** `ListInvariant` speaks of single entries; that the lists are lists, without cycles and without
beats nobody reaches, needs whole ones. `Lists` says that for every id there is a sequence of tags
(`OnList`): it has no tag twice, it holds exactly the valid entries of the id, neighbours are
linked or about to be linked by the latch, it begins at the head register and ends at `pre_ptr`; and that only
a valid entry has an error. A cycle drops the first tag of it, appends the reserved one,
or both (`OnListStep`), and the sequence that results is again one the registers describe. The sequence
is at most as long as there are tags (`ListLength`, by
cardinality), hence the walk along the pointers reaches its end and reads it out (`ListShown`). The walk is a
recursive function; that it exists and what it returns is proved by the smallest number for which
it would not (`FromExists`, `WalkIsList`), since the induction theorems cannot be used. `NoBeatIsLost` follows.
For the refinement a queue is put in numbers (`Counted`): beats in the ready latch, taken from it,
moved there from the list, kept, and reserved; `QueueStepFacts` derives the step of `OrderedBeats` from these, and
`BeatsStep` that a beat changes only by its answers wherever it is kept or moved.
The output takes the head of the granted id, or keeps its beat, or becomes empty (`OutMoves`).
`ReturnsInOrder` then maps initial states, cycles and stuttering, and with it the proof holds for every depth of
the array, any number of ids, any back-pressure and both channels.

**SnapJobProof.** `TypeCorrect` splits the types into Booleans and data and has one
step per action. `CallsIsolated` proves `CallInvariant`: from a call on an idle
action to its return the action stays idle while parameters are written, runs on this call's
parameters alone once started, and is idle again only with its results. Because
`WaitIrq` may be ended by any stale event, the invariant says nothing of events; it is the
read of the idle bit in `CheckIdle` that makes it hold. `SuccessFromIdle` follows.
The properties of `job_calm` are proved under `CalmSurroundings`, the four settings of that run; the
other runs show that none of them can be given up. `CalmInv` says where the interrupts are enabled,
and that during a wait the interrupt path is in one of three states: the kernel runs and
nothing is under way, a request is on its way, or its event is in the queue. A call that finds the path
quiet therefore leaves it quiet (`HandsBack`, `IrqWaitsForDone`), and the next one finds the action
idle (`CalmSuccess`, by way of `SuccessFromIdle`).

**ProgramsProof, CopyJobsProof, HostProgramsProof.** Any number of programs, registers, sizes, word
widths, blocks, engines and tests. `HostInv` is the conjunction of one invariant per family, and
each of those speaks of its own programs and says of all others that their state is of its type
and at rest. A step is therefore proved in its family (`ToolInvStep` to `EngineInvStep`), and the others rest
(`ToolRests` to `EngineRests`). Every family has a part `...Held`, what is held at each label of `main`:
`NothingKept` and `ActionBeforeCard` follow from those five parts. The arguments beyond that:

* *Tools* (`PeekInv`, `PokeInv`): the walk of `snap_peek` as a function of the number of registers seen,
  across the two loops that share a counter; at the loop of `snap_poke` the register
  holds the value that was compared in the pass before.
* *Copy jobs* (`CopyInv`): how far the kernel is (at the end of a block and of a word, unless all is done:
  `KernelPlace`), that all cells before that are where they belong (`Landed`), that nothing behind
  the last word was touched (`BuffersKnown`), and that the words a running job may write are not
  among those stored by others (`StoredApart`). The last word of a job may be a half: `RoundUp` gives the least multiple
  (`RoundUpLeast`), the allocation is rounded up to a multiple of both words, and so
  the kernel stays within it (`Room`). `KernelInBuffers` needs the labels: the buffers go after the card.
* *Memory test* (`DdrShows`): what each of the tests has shown of the blocks so far. The pass over
  addresses alone does not find a stuck cell and the pass over complements does not
  find a shared one; `StuckKeep` carries what the first knew of a stuck cell into the second.
* *Example* (`EngineAwaited`, `CopyInFlight`, `Counted`): a job that is not lost is one its program waits for, with the
  areas of this command line, and a program that is `calm` has no other; `landed` is the number of turns
  except between a start and the end of that copy. For `HH` and `HDH` it is the comparison that counts, with
  whatever came of the action. A lost job and a latched one may be of any
  areas, so nothing that is claimed rests on them.
* *Engines* (`EngineOk`): on an engine nobody spoiled no master works for an earlier kick, a master is at work
  only while its process waits for done, a flag that is up was earned since the last kick, and a
  wrong read has its flag or is hidden.

TLC checked each of these invariants on the instance of `host_programs` before it was proved.

**PartialCommandsProof.** Halves of any size, any beats. The hard one is the counter: it counts the
commands without an answer modulo half the bytes, so that it is zero both when nothing and when everything is
under way, and `prt_rsp_last` has to tell the two apart. `PartialInv` therefore counts three things
at once: the commands without an answer (in the FIFO or at the host), the one the sequencer holds, and the pairs of
neighbouring bytes a rest of the strobe still has a byte in. They are never more than the most
commands a strobe can make, because a command takes at least one of those pairs away
(`CommandTakesPair`: the longest section that is left is taken, `CutInv`, so two neighbours
never make two commands). `CounterCorrect` and `ClosedWhenAnswered` follow from it. `StrobeOnlyToIdle` is about the two FSMs
alone. `ClosedWhenCovered` and `CommandsCorrect` add the history variable: what is `left` is what the
sequencer has still to send (`LeftInv`), provided no valid had to wait for the FIFO, which is what
`partial_stall` breaks. `FarRight` and the section lengths are recursive functions of bounded depth and are used by
what defines them (`LengthFacts`, `SectionFacts`).

**ResponseDecodeProof.** Any tags, halves, numbers of commands and retries. A full command is in one place (`Places`): to be sent, at the
host, at one of the four points it passes in the retry queue, reported as a retry or with its code,
or finished (`FullOnce`); `QueueInv` says when the entry that was read is the one that is looked at. Once reported, the code that
went with it is the one the host gave (`FullFailed`), which is `FullCode`. This holds for any mix of retries. No such thing holds for partial commands:
their code is kept per batch, and `response_code` is the counterexample.

`RetriesOnce` proves `RetriedOnce`. Its invariant `RetryInv` needs no sum over the halves, because one half at a
time has partial commands out (`BatchIs`): `prt_inflight_cnt` is the number this half has, modulo 32. It is never
ambiguous: a half has at most 32 commands (one for each pair of bytes, as proved in `PartialCommandsProof`), and the next
batch is enabled only when all are answered. The entries of the queue are then of that half (`QueueOfBatch`), and
an entry that is looked at is wanted, or is the one retried last and will be skipped (`EntryWanted`). The narrow place is the end of a batch: the strobe of the
next one allows its half to be retried again, and the last duplicate may still be in `RETRY_CHECK`. It is skipped in time
because the next batch is enabled when the queue is empty, and its strobe comes a cycle later at the earliest. For full commands `FullAsked` says the
same of each on its own, and `FullCounted` that the translations under way are counted. The hypotheses:

* `OneKindAsked`: the host asks either for full or for partial commands again. Without it the property is false
  (`response_twice`).
* `XlateCounted`: fewer translations are under way at once than `xlate_pending_cnt` has values, because the host asks for
  fewer retries than that or there are fewer commands. The counter has 5 bits for 128 tags, and
  nothing in the code excludes more (hazard at `brdg_retry_queue.v:194`).

`FinishesWhenAnswered` proves `FinishedWhenAnswered` under the same hypotheses and one more, `[]ReportedInTime`: the response of a batch
is out before the next batch is enabled. From the last answer on it waits for a cycle without a full
response and without a retry, and the enable comes a fixed distance of 9 cycles later; a stream of full
responses could make it wait longer (hazard at `brdg_response_decode.v:654`), so this is a condition on the traffic. `ReportInv` says that while a
batch is under way and none of its commands has to be repeated, its half is neither asked again nor to be sent, and
not after its report either. The constants of `response_paths` satisfy every hypothesis, and TLC checks the property
there without the condition on time.

**Only model-checked:** liveness (`Drains`, `JobReturns`, `BatchEnds`, `AllFinished`,
`ProgramEnds`). Every invariant and every action property the passing runs check is the subject of a theorem, `FinishedWhenAnswered` and
`RetriedOnce` under the hypotheses named above.

## Findings

Each is a violation run with the code's own words against it; the quotes are in `PROJECT.json`.

* `job_timeout`: a call after a timeout can succeed with a mix of two jobs.
* `job_kill`: after a kill in interrupt mode the next interrupt-mode call waits for ever.
* `partial_stall`: a ready that drops in one particular cycle makes the partial
  sequencer skip a section of the strobe and send the next one twice.

* `response_code`: a batch of partial commands is reported with the code of the batch
  before it.
* `response_twice`: a retry of a full command between two of a half makes the half be
  sent twice.

## Not modelled

* **Bridge**: the data bridge, context surveillance, command and response converter, interrupt
  FSM, AXI slave and MMIO path. They need no new abstraction, only models of their own; the
  interrupt FSM and the handshake with the shell are in `SnapJob` by their effect, the
  pool of free tags is in `OrderMng`, the sender of retries in `ResponseDecode`. The two clocks of the asynchronous FIFOs
  are below what a model with one step per cycle can show.
* **Action hardware**: the AXI channels of the engines (one step sends a burst), their address and
  data generators, the trace memories, the job manager of `hdl_multi_process` (its programs use
  none of its queues), `hdl_unit_sim` (drives signals in simulation); of the example action
  the bursts and the data path of a copy, and the fills and NVMe copies that its programs do not start.
* **ODMA and NVMe** (`hardware/hdl/odma`, `nvme`): an alternative front end and a controller for
  other cards.
* **Tools**: `simple_reg_access.c` reads fixed registers and compares nothing, the scripts call
  the tools; `force_cpu.c` pins a thread. `SET_SDRAM_SIZE` of `snap_card_ioctl` has no caller.
* **Wiring, build, UVM environment**: no behaviour of their own.

## Plan

1. `ReportedInTime` for a stream of full commands: a model in which finished halves are sent again, with a scaled
   distance, to find the traffic at which the response of a batch is overwritten.
2. `DataBridge` around `OrderMng`, with retries and tag recycling, and the composition
   of command and response path; the read channel of `ResponseDecode`, which closes a
   batch when its data has been drained.
3. `ContextSurveil`, `InterruptPath` (the clocked handshake), `TlxCredits`.
4. `AxiSlave`, `MmioPath`; ODMA's channels against an abstract one (descriptors complete once
   and in order).
