# Verification of EEOS (armv8_os)

TLA+ models of the AArch64 kernel in `src/`, the TLC runs that check them, and
the TLAPS proofs about them. Every definition is translated from the source;
`PROJECT.json` maps each one to its lines.

## The system

EEOS is a small kernel for QEMU's `virt` machine (one CPU, GICv3, generic
timer, PL011). It boots in assembler, builds its page tables, brings up a
console, the interrupt controller and a timer, and loops. There is no
scheduler in this commit (`kernel/task.c` is empty), so the concurrency is that
of one CPU: a thread, the IRQ frames that nest on its stack, and the hardware.

| Component | Source | State | Operations | What makes it correct |
|---|---|---|---|---|
| exception entry | `arch/arm64/vector.S` | frames on the stack, `ELR_EL1`, `SPSR_EL1` | save, restore, `eret` | an `eret` resumes exactly what was interrupted, however IRQs nest |
| dispatcher | `driver/interrupt/interrupt.c` | `irq_desc[]`, `handle_arch_irq`, `_irq_chip`, `interrupt_nest` | `request_irq`, `mask_irq`, `unmask_irq`, `handle_domain_irq`, `generic_handle_irq` | exact nesting count, handler and data belong together, a request is served |
| GICv3 driver | `driver/interrupt/gicv3/` | the controller's registers | `gicv3_hw_init`, mask, unmask, acknowledge, end | end in reverse order of acknowledgement, own bit only, nothing fires before it is configured |
| mask helpers | `asm/irqflags.h` | `PSTATE.I` | enable, disable, save, restore | a closed thread is not interrupted, save and restore nest |
| timer driver | `driver/timer/arm64_timer.c` | `CNTP_CTL`, `CNTP_TVAL`, `cpu_khz` | init, handler | never early, quiets its level line, never stops |
| start_kernel | `init/main.c` | boot stage | calls the drivers in order | the tick reaches the CPU |
| boot and page tables | `startup.S`, `mmu_v3.c`, `asm/memory.h`, linker script | tables, TTBRs, TLB, `kimage_voffset` | `map_memory`, `create_kernel_map`, `switch_mm` | running code stays mapped, conversions agree with the tables |
| printk, console, UART | `kernel/printk.c`, `driver/uart/` | `struct printf_spec`, `p_buf`, `uart_console` | `format_decode`, `number`, `vsnprintf`, `console_write` | every field as specified, the buffer holds the text cut to fit, the UART gets it |
| string library | `lib/libc/string.c`, `lib/ctype.c` | none of its own | copy, compare, search, `strtoul` | results as on whole strings, overlapping blocks moved exactly, no read past a NUL or a count |
| list | `include/eeos/list.h` | the two pointers of every node | add, delete, replace, loops | both directions agree, a reader between two stores sees a list, a loop misses nothing |
| plic, riscv_timer, task | | | | not built, or empty |

How they interact: a device raises a line at the GIC; if it beats what is
active and `PSTATE.I` is clear, the CPU enters `IRQInterruptHandler`, which calls
`handle_domain_irq`, which calls the GIC's root handler through
`handle_arch_irq`, which calls the client's handler through `irq_desc`. Clients
reach the GIC through the function pointers of `_irq_chip`, which are NULL until
`gicv3_driver_init`. The timer and the GIC share one wire, line 30. Thread,
handlers and exceptions all print through the one console, each from a buffer on
its own part of the stack; `console_init` and the formatter call the string
library. Everything
in C addresses memory through tables that boot built, and the MMU code converts
with `kimage_voffset`, which boot stored.

What is hard: IRQs that strike between two instructions that belong together
(the count, `request_irq`, `local_irq_save`, the stores of a list operation, the
characters of a text), one copy of `ELR_EL1` for all
frames, hardware that acts late (GIC disables, redistributor wake-up, the TLB),
state left by firmware, and orders of calls that nobody checks. `PROJECT.json`
lists these under `hazards`, each at its line; those that no property covers say why:
the code does not prevent them and nothing promises that it would (re-registering an
enabled line, enabling a level line without a handler, requesting an irq past the
enable bits, a text longer than `p_buf`), or
what decides them is outside the models.

## Modules

| Module | Models | Role |
|---|---|---|
| `Irq` | vector.S, interrupt.c, the root handler, irqflags.h | detailed interrupt path |
| `IrqService` | | what that path promises; `Irq` implements it |
| `MCIrq` | | constants for the runs of `Irq` |
| `IrqProofs` | | theorems about `Irq` |
| `Gic` | gicv3.c register by register | driver against the controller |
| `GicProofs` | | the driver's address arithmetic and its initialisation, for every line |
| `TimerConstants` | arm64_timer.c | its clock and period |
| `Timer` | arm64_timer.c | driver against the timer |
| `TimerProofs` | | safety of the tick for every frequency |
| `Kernel` | main.c | composes `Gic` and `Timer`; implements `Timer` |
| `KernelProofs` | | the tick reaches the CPU; every step is one of `Timer` |
| `Decimal` | printk.c, put_dec | decimal digits by multiplication |
| `Printk` | printk.c, console.c, qemu_uart.c | a printk call from format to UART |
| `PrintkProofs` | | the buffer holds the text cut to fit, and the UART receives it, for every format and size; `put_dec` is exact for every 64-bit number |
| `PrintkText` | | what a format and its arguments are meant to say, written apart from the decoder |
| `MCPrintk` | | the calls of its runs, each with what it means |
| `Console` | console.c, qemu_uart.c, vprintk, who interrupts whom | texts of nested contexts on one UART; composes with `IrqService` |
| `MCConsole` | | console tables and texts of its run |
| `ConsoleProofs` | | texts arrive whole, for any texts, tables and number of calls |
| `ListContents` | | what list.h promises: sequences; `List` implements it |
| `List` | list.h | the pointers, store by store, and the loops |
| `MCList` | | symmetry of its run |
| `ListProofs` | | the pointers and contents of any number of lists, and the loops over them |
| `LibString` | string.c, ctype.h | every function, one round of its loop a step |
| `LibStringProofs` | | moves and results exact, nothing read past the end, for every size |
| `Boot` | startup.S, mmu_v3.c, memory.h | address space from reset to `switch_mm` |

### Irq

The CPU runs a stack of contexts: 0 is the thread, `d > 0` the d-th IRQ frame;
only the top one steps. `pc[d]` is its next step, and one step is one access to
state that someone else touches, so `interrupt_nest++` is a load (`irq_enter`)
and a store (`irq_enter_store`), `request_irq` is the handler store, the data
store and the unmask, and `local_irq_save` is `mrs` and `msr`. The kernel is
built with `-O0`, so the order of the stores in the source is that of the
machine. General registers are saved and restored by a frame and never shared,
so only the two system registers are modelled. After `eret` the dead fields of a
frame are reset, which merges states that differ in nothing anyone reads.

The handlers are those a client may pass: one that keeps IRQs masked, and one
that calls `local_irq_enable` and, before it returns, `local_irq_disable`. The
latter is required: returning with IRQs open would let an IRQ strike between
`restore_context` and `eret`, where nothing protects `ELR_EL1`; no code in `src/`
says so, and the model takes it as the contract of a handler. The GIC is external:
it presents a pending, enabled line whose priority beats all active ones.
Masking takes effect at once here; `Gic` models the delay.

`IrqService` has two variables: the sequence of lines in service, and whether
the thread asked for a mask. The refinement maps frames that run a handler to
the former; split counter, register copies and races are stutters.

### Gic

One action per group of register writes of `gicv3_hw_init`, from any state that
firmware may leave: lines enabled, pending or active, distributor on or off, CPU
interface open or closed, redistributor asleep or not, all lines in one of the groups and
with one priority. Nothing before line 188 closes the CPU interface, so what is promised
begins at the wait on RWP, where the SPIs are configured and off, and for the other
lines when the init returns. Nothing writes `ICACTIVER` either: a line that firmware left
active stays unsignalled, and `Kernel` and `Irq` assume that theirs are inactive.
`Serve` waits for the end of the init, during which the CPU has IRQs masked. Clearing an enable takes effect later (`clearing`,
`Cleared`), which is what `GICD_CTLR.RWP` reports. `Decode` is the
distributor's decoder: which register and bit a word written at an offset reaches.
`OwnBitOnly` says of every INTID that has an enable bit, those below 1024, that masking
and unmasking reach that bit alone. Of the others it says nothing, and could not:
`request_irq` accepts every irq below 8192, and past the banks the driver writes other
registers. Unmasking 1057, a step that `gic_init` takes, disables line 33. No caller in
this commit requests such an irq; the case is a hazard without a property.
`opened` is auxiliary: lines a client unmasked and no mask has taken back.

### Timer

Time is relative: `left` is the compare value minus the count, so the model is
finite with no bound on time; `since` counts up to one period and stays there.
TVAL is signed and narrower than what is written to it.
`FrequencyAssumption` excludes clocks below 1 kHz (period 0) and periods beyond
31 bits, where the code storms; it stands in `TimerConstants`, which `Kernel` shares.
The module leaves open whether IRQs are masked while the driver sets the timer up, and
so do the theorems about it; model-checked it is within `Kernel`, where they are masked.

### Kernel

`Kernel` instantiates `Gic` and `Timer`. The GIC's pending state of line 30 is not
a variable but the timer's output. `Next` is `start_kernel` and its handlers;
`MainLoopSpec` gives it, in place of its empty loop, one that opens and closes IRQs,
which is what a kernel built on this one would have (a loop that never does is
one of its behaviours). The constants are as the drivers ask
for: a GIC of up to 31 words (`KernelAssumption`), and a clock of at least 1 kHz whose
period is a positive TVAL (`FrequencyAssumption`). `NeverEarly`, `HandlerQuiets` and
`TickForever` are `Timer`'s properties, stated of the kernel. `TickDelivered` says of the composition what neither driver can promise
alone: a tick that is asserted and not being served is at the CPU. `ImplementsTimer` says that
the composition implements `Timer`'s specification with its fairness: Timer
assumes that an asserted, requested tick is taken, and Kernel shows that the GIC
driver and the boot order provide it.

### Boot

Addresses are pages. `mem` holds the tables, in the physical pages of the image
where the linker script puts them; `Walk` is the CPU's walk. `map_memory` is one
action per level with its registers `tbl`, `rtbl`, `count`. The C code writes
tables through the current mapping (`Reach`), so a wrong `kimage_voffset` or a
missing mapping is felt where it would be. The CPU may cache any translation at
any time (`TlbFill`). Memory of the tables is zero at reset: nothing clears
`.idmap_pg_dir` and `.init_pg_dir`, and QEMU's RAM is zero.
The `init_pagetables_done` guard has no effect, the function is called once.

### Printk and Decimal

A call of `printk` runs one iteration of `vsnprintf`'s loop per action: decode a
directive, take its argument, write. `format_decode` is cut where the code has its
labels (`precision`, `qualifier`), because an iteration that takes a width or a
precision from an argument ends there and the next one goes on from there with the
`spec` that was left. Characters are strings of length one; loops over them are
operators on sequences. `text` is auxiliary: the whole text, without the bound
of the buffer; for strings it is built apart from `move_right`. `field_width` and
`precision` are the signed bit-fields of `struct printf_spec`: what is stored in them is
cut to their widths (`Kept`), from the format, from an argument and in the countdown of
`%c`. The model's qualifier for `%t` is that of the code, which reads an int.

`TextMeant` compares `text` with what the author of a call means. Each call of
`MCPrintk` carries a sequence of pieces, with flags, width, precision and value as he
thinks of them, and `PrintkText` says what each piece reads as, from the comments at the
flags and at `struct printf_spec`. It shares no operator with `Printk` and never
parses a format, so a flag that outlives its directive, a width taken up wrongly or a
digit too many shows. It says nothing of sizes that their bit-field cannot hold, and of the
spaces in front of an integer only that they do not exceed the width, for there the code
deviates: `number` decrements the width before it pads with spaces (line 231), and the
field is one short. `FullWidth` ("width of output field") is violated by it.
Of a text longer than the buffer, `console_write` is given all of the length: what
comes behind `p_buf` is left open in the model, and `ConsoleShows` says nothing of it.
The arguments a caller passes need not fit the format: `va_arg` yields the argument if
it has the type that is read, and anything of that type if not, which is undefined in
C. Integer widths are constants. `Decimal` computes the 64-bit products of the code
from 16-bit halves, so that TLC's integers suffice.

### Console

A stack of contexts, the last one running: the thread, IRQ frames that call
`printk` from a handler (with IRQs open or not), the root handler that reports
"irqnr invalid", and `unexpected_exception`, which prints and never returns. Which
IRQs may nest is not modelled again: `TakeIrq` and `gicv3_eoi_irq` are the
`Acknowledge` and `Complete` of `IrqService`, which `Irq` is shown to implement. The
render into `p_buf` and the writes to the UART are one character a step, a line
feed is two. `BufferOf` says which array a context's `vprintk` uses: its own part of
the stack, which still holds what the last call there left. `wire` is auxiliary beyond its characters:
each entry names its call, the place `at` in that call's text it stands for, and
whether it is the CR of a line feed (`cr`). So `TextsWhole` can be said place by place,
without recursion over texts: each call's characters come in order (`InOrder`) and all
of them (`Complete`), what comes between two of them are only whole texts of calls
that began later (`Nested`), all of it through the first console called qemu, after
its init (`ThroughConsole`). The code's order is the only thing that makes it so.
The guard of `console_write` for a NULL text is left out, as vprintk passes an array.
The UART is external and takes every character: `uart_putchar` does not wait for room
in the FIFO, which QEMU's PL011 never lacks. `uart_getchar`, which nothing calls, reads
the data register when the flag it tests (`RXFE`, bit 4) says that the FIFO is empty.

### List

The header's functions are sequences of stores (`Stores`), and a step is one store.
`list_add` and `list_del` read the neighbours when they are called and keep them in
`op`; `list_replace` reads as it goes, so its stores are computed from the pointers
of the moment: for an empty head the second store changes what the third reads.
The contract of the callers is in the guards: only what is on no list is added, only
what is on one is deleted or replaced, a head by a head. `owner` is auxiliary, and
changes at the store that makes a call visible to a reader along `next`.

A loop is a state of its own whose body makes any of the calls. One record stands for
all the macros: direction, whether the next node is read ahead (`safe`), where it is
entered. The body may do what the macro allows: it must not take away the node that
the loop steps from, which is the current one for a plain loop and the one read ahead
for a safe one. `due` and `fresh` are auxiliary: what the loop still has to visit, and
what its body added.

`ListContents` has a sequence for every head in use and calls that take effect at one
moment between start and return; the refinement maps a head to what a walk along
`next` finds (`Told`) and the call to what is shown of it (`Shown`). A walk (`Walk`)
ends at the head, or after more nodes than there are: a broken list never ends it
otherwise. Between two stores a walk along `prev` may find anything, and nothing
is promised of it. No compiled file includes the header in this commit.

### LibString

A call works on a memory of `Size` bytes with its NULs where they happen to be;
`Legal` is the contract (strings end, blocks lie inside, only memmove's overlap; what
strncpy and its like read ends at the NUL or the count, whichever comes first).
One round of a loop is one step, and `read` collects the addresses it looked at.
`char` is unsigned on AArch64. `strstr` and `strnsrt` call `strlen` and `memcmp`, which
are taken at their result, and compare with them at every place.

`ResultExact` is written from whole strings. It states three things as the code has
them, none of which a comment of the repository contradicts: `strcmp` and `strncmp`
return 1 when the first string is the *smaller* one, the opposite of `memcmp` (their only
caller tests for 0); `strtoul` wraps at the width of `unsigned long`; and it takes a
digit that equals the base (`value > base`, line 211), a case the property leaves out.

## Runs

| Run | Shows | Bounds |
|---|---|---|
| `irq_safety` | return addresses, count, EOI order, nesting, masks, data, and `IrqService` as abstract specification | lines 1 (SGI), 30 (PPI), 33 (SPI): two priorities and two lines of the same one; room for 3 frames, so that a third would be seen; each line raised once |
| `irq_live` | requests are served, `request_irq` ends; the inductive invariant | lines 1 and 30 |
| `gic_init` | from the wait on RWP no SPI, and after the init no line, fires unconfigured; no SPI unrequested; own bit only; init returns | lines 1, 30, 33, 63: SGI, PPI, first and last of the configured SPIs; masks and unmasks of 30, 33, 63 and of 1057, which has no bit |
| `gic_tail` | violation: the last 32 lines are not configured (ITLinesNumber + 1) | line 70 with ITLinesNumber 2 |
| `kernel_boot` | GIC, timer and boot order implement `Timer`; every tick that is asserted and not being served is signalled; tick never early, quiet after its handler, never stops | line 30; every state of the GIC's registers for it, but active; period 10 counts, TVAL of 5 bits, stale compare up to 12 counts, two past a period |
| `boot_map` | init map exact and within its pages, image always mapped, TLB and conversions agree with the tables | tables of 32 entries; as in the real layout the image starts a quarter block in and the linear, vmalloc and device windows follow one another, each of one `PUD_SIZE` where the real ones have four; four image sizes, one and two blocks, two of them filling their last block |
| `printk_calls` | text as meant; buffer, NUL and UART right wherever the buffer ends | 1163 formats, `p_buf` of 8 bytes so that every kind of directive meets its end; short, int and long of 10, 16 and 30 bits, values on both sides of 10^8; width and precision of 5 and 4 bits, with sizes at and past their ends |
| `printk_width` | violation: `%3d` of 7 is two characters wide | six combinations of width and precision of one integer |
| `list_ops` | types, both directions, predicates, loops, and `ListContents` as abstract specification | two heads, initialised or not, and three entries, interchangeable: an entry between two others, lists of every length up to three, moves from list to list |
| `lib_strings` | every function right and within its bytes | five bytes, so that a needle of two meets a partial match and every overlap of blocks occurs; bytes 0, one letter and one above 127; for numbers digits, `a`, `X` and 8, an `unsigned long` of 8 bits that three digits overflow |
| `console_nested` | texts arrive whole and nested | three calls, of which up to three are nested; an SGI and an SPI, so that one handler interrupts another; tables without a console, with one, and with another before it and a second of its name |
| `boot_tail` | violation: an image whose size mod 2 MB is above 1.5 MB loses its tail | size 28 of 32 |

`MaxRaise` bounds how often a device raises its line; a second raise of the same
line meets the same frames again, since an SGI or level that was served leaves no
trace but its descriptor. `MaxDepth` is proved irrelevant: `StackBounded` holds
for every value. The violations are findings, quoted in `PROJECT.json`; each
is one property in a run of its own.

### Fairness

* `Irq`: the CPU executes the running context (weak fairness of the IRQ path and
  of a call that began); an IRQ that may be taken again and again is taken
  (strong fairness: the thread may close and open IRQs for ever). The thread
  is not obliged to call anything.
* `irq_live` uses `CarefulSpec`: a client enables a line only with a handler.
  Without it liveness is false, which is the hazard at `handle_bad_irq`: a level line
  without a handler comes back for ever, and `irq_count`, which nothing increments,
  stays 0.
  Devices raise finitely often; for a device that never stops, a
  higher-priority storm starves the others, and the code has nothing against that.
* `Gic`: the CPU runs the init, the hardware finishes what it was told.
* `Timer`, `Kernel`: the counter counts, the CPU runs, an IRQ is taken as above.

## Proofs

`IrqProofs` proves, for every set of lines, handlers, depth and raise bound:

* `InductiveInvariant`: `Spec => []IInv`. `IInv` adds to the types: every frame
  below the top sits in the open part of its handler (`StackInv`); who has IRQs
  unmasked (`MaskInv`); where each frame's return address is at each step
  (`ReturnInv`); the value of the counter and of the copy in flight (`NestInv`);
  active lines are those of acknowledged frames, each outranking those below
  (`ActiveInv`); what a `request_irq` in progress knows (`RequestInv`). None
  of the safety properties is inductive alone: a return address is right because
  nobody below the top can move, which needs the mask, which needs the stack.
* `TypeCorrect`, `ReturnAddress`, `NestExact`, `EoiInOrder`, `StackBounded`,
  `MaskRespected`, `OwnData`: the safety properties of `irq_safety`.
* `Implementation`: `Spec => ImplementsService`, by a step-by-step mapping.

`TimerProofs` proves `NeverEarly` and `HandlerQuiets` for every frequency and TVAL
width the assumptions allow. `GicProofs` proves of the init, for every set of lines that
`Configurable` allows (none in the last word, which `gic_tail` shows to be missed, no
client INTID past the banks) and whatever firmware left, an open CPU interface included,
that it lets no line fire unconfigured (`Configured`) and no SPI unrequested
(`QuietUntilOpened`), from the wait on RWP on. `OwnBit`, that the driver's arithmetic
hits its own bit, needs no such assumption: it holds for every INTID below 1024.
`GicTypes` adds the types of the controller's registers.

`KernelProofs` proves about the composition, for every state that firmware may leave
in the GIC and the timer, but an active line 30:

* `KernelInvariant`: `KInv` adds to the types the order of the boot stages
  (`StageInv`: nothing is requested before the GIC is done and its chip registered),
  what `gicv3_hw_init` has made of line 30 at each of its steps (`InitInv`), and what
  the request leaves (`TickInv`: enabled, with no late disable still on its way, active
  exactly while its handler runs).
* `TickReachesCpu`: `TickDelivered`, which is not inductive alone: the line is signalled
  because every one of five registers was set in a step of its own, and a disable of
  the init that takes effect late would undo the last.
* `KernelIsTimer`: every step of the composition is one of `Timer` or a stutter, the
  safety half of `ImplementsTimer`; and from it `KernelNeverEarly` and `KernelHandlerQuiets`,
  the theorems of `TimerProofs` carried over.

`ConsoleProofs` proves `TextsWhole` with no bound on texts, console tables or the number
of calls that nest. It is not inductive: that texts nest on the wire depends on which
contexts are on the stack. `CInv` adds who can lie above whom (`StackInv`), what
`console_init` has found (`BootInv`), how far each call in progress has come and that
calls higher on the stack began later (`CallInv`), that its array still holds what it
rendered (`BufferInv`), that it has sent exactly what comes before its place
(`SentInv`), and that nothing of an earlier call lies between or behind characters of
a later one in progress (`NestInv`).

`PrintkProofs` proves `BufferHoldsText` and the types for every format, argument
and size of `p_buf`, also when the arguments do not fit the format. The invariant
(`PInv`) is nearly the property itself; the work is in the operators:

* `format_decode` yields a place inside the format and a `printf_spec`, width and
  precision inside their bit-fields, whatever the characters are (`DecodeYields`, phase by
  phase; `KeptIsSigned` and `Fields` for what a bit-field keeps), and `skip_atoi` a number
  (`AtoiIsNat`: its recursive function exists and its values are numbers, both by
  the least place at which that fails);
* everything `number` and `pointer_string` write is a text of definite length
  (`NumberIsText`);
* text put behind text is the joined text (`PutHolds`), and `move_right` makes room in
  the three cases the code distinguishes: the string begins behind the end, the pad
  reaches it, or part of the string still fits (`MoveHolds`).

It proves `ConsoleShows` too: what the UART receives is the text of `p_buf` with its
carriage returns. `WireInv` says that what was sent of the held text is on the wire,
and that bytes sent from behind `p_buf`, whatever they are, leave it there as a prefix
(`StillPrefix`). The property spells the bytes out with a fold of the community
modules, a recursion over sets of places; its function exists for every text
(`FoldedExists`, by the least number of places at which it would not), so that one more
character appends its one or two bytes (`WireMore`).

It proves last that `put_dec` writes the digits of every 64-bit number, lowest first,
without a leading zero and without losing one inside (`PutDecExact`). The two
reciprocals divide exactly: by 100 for every value below 10^8 (`HundredthExact`) and
below 10^4 (`ShortHundredthExact`); the argument is the rounding error: with
`r = 100q + s` the product is `2^32 q` plus `4q + 42949673 s`, which stays below
`2^32`. From the quotients, `put_dec_full8` stores eight digits (`FullDigits`) and
`put_dec_trunc8` those from the highest that is not zero (`TruncDecimal`), two at a time:
digits of a quotient behind the digits it leaves out are digits of the number
(`LowGrows`, `DecimalGrows`). The chunks of eight join the same way. `TextMeant` shows
the digits of the values of its run; the theorems are about all of them, those past
TLC's 32-bit integers included.

`ListProofs` proves `Mirrored` for any number of heads and entries. It is not inductive:
in the middle of a call the ring is broken at known places. `IInv` says which: outside
the call's own nodes every node has its neighbours point back (`RingInv`, with the
pointers still to be stored taken as stored: `Settled`), and the call's arguments are
what they were when it began (`CallInv`). One lemma for each function shows that each
of its stores keeps that, one for each publishing store that `owner` follows.

What a reader finds is proved too, for any heads and any finite set of entries. A list
is a `Ring`: a sequence of different entries which `next` passes from the head and
back. A walk is a recursion over the pointers, and no induction is needed to know what
it finds: its recursive function exists and follows the ring up to the head, both by
the least place at which that would fail (`MeetsIs`, `RingMeets`), so it finds the
sequence (`RingWalk`). Putting an entry in, taking one out and replacing one each need
one changed pointer to make a ring of another (`RingAdd`, `RingDel`, `RingReplace`,
`RingReplaceHead`), and backwards a ring is its reverse (`RingBack`). `ListsInv` adds to
`IInv` that every head in use has a ring of the very entries `owner` says
(`RingsInv`), and where an addition goes (`ArgsInv`); only the store that publishes a
call changes a ring, and then by one of these lemmas. From it follow:

* `PredicatesRight`: `PredicatesAgree`;
* `ContentsImplemented`: `ImplementsContents`, each store a step of `ListContents` or a
  stutter. `Told` is what the walks find, `Shown` how far the call has come;
* `LoopsVisitAll`: `LoopVisitsAll`. It needs `DueInv`: `due` holds exactly the entries of
  the list that lie ahead of the loop and that its body did not add, in the loop's
  direction. What the body adds, takes or replaces leaves the order of all others
  alone (`PrecedesAdd`, `PrecedesDel`, `PrecedesReplace`), and the node a loop steps to
  is the nearest of those ahead (`LoopAhead`).

`LibStringProofs` proves `MovesExact` for every memory, block and overlap. `MoveInv` says
how far a call has come: upwards, the bytes below `p` are done and the rest untouched;
downwards, those from `p` on. The crux is that the byte read next is still the one of
the call (`ReadUpwards`, `ReadDownwards`): memcpy's blocks are disjoint, and memmove
goes up only when its source is not below its target.

It proves `ReadsInside` too, for memories, strings and blocks of any size and every
function. `ReadInv` says of each loop why its next read is allowed: a cursor in a string
has met no NUL behind its start (`Scanned`), so it is at most at the NUL; a cursor in a
block is as far as the count says (`Left`); a copy has left untouched what lies above
its cursor, so the NUL it looks for is still there. That a string has an
end is where induction is needed: `LeastNumber` finds the first NUL, from the
library's theorem that `<` on the naturals is well founded, which takes no operator
as a parameter. `ReadInv` takes `MoveInv` for granted where memcpy and memmove count.

And it proves `ResultExact`: what every other function returns and leaves in memory is
what whole strings say, for every memory, set of bytes, base and width of `unsigned
long`. `ResultInv` says what each call knows of the part it has gone over (`SoFar`): no
wanted byte in it (`NotMet`; strrchr: the last one is at `q`, `LastMet`), no place in it
where the searched string lies, the two texts the same as far as they were compared
(`Alike`), the bytes of the source and NULs stored (`Copied`), the digits weighed
(`Weighed`). Each function returns where that decides the answer. What the answer is
called on whole strings is the work: a first place is the least of a set (`FirstMatch`,
`FirstPlace`); two texts that are alike up to a NUL or the count are the same sequence,
and two that are not sort by the byte at which they part (`PartsSame`, `PartsDiffer`);
and the weight of the digits is a recursion, of which the least place at which it would
fail shows that it exists and is unique (`WeighsExists`, `WeighsAgree`), so that one more
digit multiplies and adds (`WeighOneMore`). `RemainderWithDigit` is why `strtoul` may
wrap at every digit. `Weighed` knows nothing of the value once a digit that equals the
base was passed over; `NumEndIsBase` shows that the property leaves just those texts out.

Assumptions are the named `ASSUME`s of the modules: INTIDs below 1020, handlers
distinct from NULL and `handle_bad_irq`, at least one frame of stack; for the
timer, a clock of at least 1 kHz.

Only model-checked: liveness everywhere, and the fairness half of `ImplementsTimer`;
`TextMeant` of `Printk` (its reference is recursive); and `Boot` (exponents and a concrete walk).

## Plan

Done: every component is modelled and checked; the interrupt path, the GIC, the
timer, their composition, the console, the buffer, the UART output and the decimal digits of printk,
the lists and the string library are proved. Next:

1. `Boot`: what does not need the exponents (`ConversionsAgree`).
2. `Printk`: what `number` writes for a decimal conversion, from what is proved of `Decimal`.

Not modelled and why: floating point registers (vector.S does not save them;
which of them compiled code uses is not in the source), other CPUs (held in `hang`), `plic.c` and `riscv_timer.c` (not built; they include
`asm/csr.h`, which the repository does not have), tasks (empty files).
