-------------------------------- MODULE Boot --------------------------------
(***************************************************************************)
(* The address space from reset to start_kernel and through setup_arch:    *)
(* startup.S builds an identity map and an image map with map_memory,      *)
(* turns the MMU on and jumps to the link address; mmu_v3.c then builds    *)
(* the final tables through that map and switches to them.                 *)
(* Addresses are page numbers; those of the upper half (TTBR1) count from  *)
(* VIRT_OFFSET, those of the lower half (TTBR0) from 0.                    *)
(***************************************************************************)
EXTENDS Integers, FiniteSets

CONSTANTS
    PTRS,        \* entries of a table, 512
    ImageOffset, \* KIMAGE_VADDR - VIRT_OFFSET: 128 pages, a quarter of PTRS
    NrPmd,       \* tables in pmd_table, 16
    LinearPud,   \* PAGE_OFFSET in units of PUD_SIZE, 4
    VmallocPud,  \* VMALLOC_START, where the linear window ends, 8
    DevicePud,   \* DEVICE_START in units of PUD_SIZE, 12
    InitPages,   \* pages of .init_pg_dir, 11
    ImageSizes,  \* sizes of the image, __kimage_start to __kimage_end
    Probe        \* upper-half pages whose TLB entries the model follows

PMD == PTRS          \* PMD_SIZE and PUD_SIZE in pages
PUD == PTRS * PTRS
PHYS_OFFSET == PUD
PAGE_OFFSET == LinearPud * PUD
DEVICE_START == DevicePud * PUD

\* Where the loader puts the image, and where the linker script puts the
\* tables in it: those of mmu_v3.c in .bss, those of startup.S behind it.
KPhys == PHYS_OFFSET + ImageOffset
PgdOff  == 1
PudOff  == 2
PmdOff  == 3
IdOff   == PmdOff + NrPmd
InitOff == IdOff + 4
Bss     == {KPhys + o : o \in PgdOff .. IdOff - 1}
Table   == {KPhys + o : o \in PgdOff .. InitOff + InitPages - 1}

ASSUME GeometryAssumption ==
    /\ PTRS \in Nat /\ ImageOffset \in 1 .. PTRS - 1
    /\ 0 < LinearPud /\ LinearPud < VmallocPud
    /\ VmallocPud < DevicePud /\ DevicePud < NrPmd
    /\ NrPmd <= PTRS
\* The tables and the stack behind them are part of the image, and
\* .init_pg_dir has a last-level table for every PMD_SIZE of it.
ASSUME ImageAssumption ==
    \A size \in ImageSizes :
        /\ size > InitOff + InitPages
        /\ (ImageOffset + size - 1) \div PMD < InitPages - 3

VARIABLES
    pc,           \* step of the boot
    size,         \* of the image, in pages
    level, tbl, rtbl, count, \* map_memory: its level and registers
    mem,          \* the tables: page -> index -> entry
    ttbr0, ttbr1, \* physical page of the root table, NULL before MMU on
    kimage_voffset,
    tlb           \* upper-half page -> what the TLB caches for it

mapVars == <<level, tbl, rtbl, count>>
vars == <<pc, size, mapVars, mem, ttbr0, ttbr1, kimage_voffset, tlb>>

NULL  == -1
Fault == [pa |-> NULL, attr |-> NULL]
Empty == [pa |-> NULL, type |-> "invalid", attr |-> 0]
MT_NORMAL        == 0
MT_DEVICE_nGnRnE == 3

Desc == [pa : Int, type : {"invalid", "table", "block"}, attr : 0 .. 7]
TypeOK ==
    /\ pc \in {"idmap", "image", "mmu_on", "bss_clear", "init_pagetables",
               "map_image", "map_linear", "map_device", "switch_mm", "ttbr1",
               "done"}
    /\ size \in ImageSizes /\ level \in 0 .. 4
    /\ tbl \in Nat /\ rtbl \in Nat /\ count \in Int
    /\ mem \in [Table -> [0 .. PTRS - 1 -> Desc]]
    /\ ttbr0 \in {NULL, KPhys + IdOff} /\ ttbr1 \in Table \cup {NULL}
    /\ kimage_voffset \in {0, ImageOffset - KPhys}
    /\ tlb \in [Probe -> {Fault} \cup [pa : Nat, attr : 0 .. 7]]

-----------------------------------------------------------------------------
(* Descriptors and translation                                             *)

\* Index of page v in a table of the level: 0 PGD, 1 PUD, 2 PMD, 3 PTE.
Index(v, l) == (v \div PTRS ^ (3 - l)) % PTRS

\* A descriptor of type 3: a table, or at the last level a page.
TypeTable(pa) == [pa |-> pa, type |-> "table", attr |-> MT_NORMAL]

\* A block descriptor: the address bits below PMD_SIZE are reserved.
Block(pa, attr) == [pa |-> pa - (pa % PMD), type |-> "block", attr |-> attr]

\* What the CPU's walk of v from the root table finds.
Entry(t, v, l) == IF t \in Table THEN mem[t][Index(v, l)] ELSE Empty
Walk(root, v) ==
    LET pgd == Entry(root, v, 0)
        pud == Entry(pgd.pa, v, 1)
        pmd == Entry(pud.pa, v, 2)
        pte == Entry(pmd.pa, v, 3)
    IN  IF pmd.type = "block"
          THEN [pa |-> pmd.pa + (v % PMD), attr |-> pmd.attr]
        ELSE IF pmd.type = "table" /\ pte.type = "table"
          THEN [pa |-> pte.pa, attr |-> pte.attr]
          ELSE Fault

-----------------------------------------------------------------------------
(* map_memory of startup.S.  vend is exclusive: the macro takes one off.   *)

Last(vend) == vend - 1

\* Mutant: without the "sub vend, vend, #1".
IndexEnd_inclusive(vend, l) == Index(vend, l)
IndexEnd(vend, l) == Index(Last(vend), l)

\* compute_indices and populate_entries at one level: indices may run past
\* the table into the next pages, and the first entry is always written.
istart(v, l) == Index(v, l)
iend(vend, l) == IndexEnd(vend, l) + count * PTRS
Entries(v, vend, l) ==
    istart(v, l) .. (IF iend(vend, l) > istart(v, l) THEN iend(vend, l)
                                                     ELSE istart(v, l))

populate_entries(v, vend, l, first) ==
    mem' = [t \in Table |-> [e \in 0 .. PTRS - 1 |->
              LET i == (t - tbl) * PTRS + e
              IN  IF i \in Entries(v, vend, l)
                    THEN TypeTable(first + (i - istart(v, l)))
                    ELSE mem[t][e]]]

\* The next level's tables begin where this level's entries point to.
map_level(v, vend, phys) ==
    /\ populate_entries(v, vend, level, IF level < 3 THEN rtbl ELSE phys)
    /\ tbl' = rtbl
    /\ rtbl' = IF level < 3 THEN rtbl + Cardinality(Entries(v, vend, level))
                            ELSE rtbl
    /\ count' = iend(vend, level) - istart(v, level)
    /\ level' = level + 1

map_memory(step, v, vend, phys) ==
    /\ pc = step /\ level < 4
    /\ map_level(v, vend, phys)
    /\ UNCHANGED <<pc, size, ttbr0, ttbr1, kimage_voffset, tlb>>

\* The startup section fits in a page, so adrp gives both its ends the same
\* value: the range is empty, and its first page is mapped all the same.
map_identity == map_memory("idmap", KPhys, KPhys, KPhys)

start_image_map ==
    /\ pc = "idmap" /\ level = 4 /\ pc' = "image"
    /\ level' = 0 /\ count' = 0
    /\ tbl' = KPhys + InitOff /\ rtbl' = KPhys + InitOff + 1
    /\ UNCHANGED <<size, mem, ttbr0, ttbr1, kimage_voffset, tlb>>

map_image == map_memory("image", ImageOffset, ImageOffset + size, KPhys)

__enable_mmu ==
    /\ pc = "image" /\ level = 4 /\ pc' = "mmu_on"
    /\ ttbr0' = KPhys + IdOff /\ ttbr1' = KPhys + InitOff
    /\ tlb' = [v \in Probe |-> Fault]
    /\ UNCHANGED <<size, mapVars, mem, kimage_voffset>>

\* blr to the link address, and the loop that clears .bss.
bss_clear ==
    /\ pc = "mmu_on" /\ pc' = "bss_clear"
    /\ mem' = [t \in Table |-> IF t \in Bss THEN [e \in 0 .. PTRS - 1 |-> Empty]
                                           ELSE mem[t]]
    /\ kimage_voffset' = 0
    /\ UNCHANGED <<size, mapVars, ttbr0, ttbr1, tlb>>

\* Mutant: the offset is not stored, or stored before .bss is cleared.
store_voffset_missing ==
    /\ pc = "bss_clear" /\ pc' = "init_pagetables"
    /\ UNCHANGED <<size, mapVars, mem, ttbr0, ttbr1, kimage_voffset, tlb>>

store_voffset ==
    /\ pc = "bss_clear" /\ pc' = "init_pagetables"
    /\ kimage_voffset' = ImageOffset - KPhys
    /\ UNCHANGED <<size, mapVars, mem, ttbr0, ttbr1, tlb>>

-----------------------------------------------------------------------------
(* memory.h and mmu_v3.c                                                   *)

is_lm_address(v) == v >= PAGE_OFFSET /\ v < VmallocPud * PUD
lm_to_phys(v)    == v - PAGE_OFFSET + PHYS_OFFSET
kimg_to_phys(v)  == v - kimage_voffset
phys_to_kimg(p)  == p + kimage_voffset
virt_to_phys(v)  == IF is_lm_address(v) THEN lm_to_phys(v) ELSE kimg_to_phys(v)
phys_to_virt(p)  == p - PHYS_OFFSET + PAGE_OFFSET

\* The link addresses of the tables, and the memory they reach today.
pgd_table == ImageOffset + PgdOff
pud_table == ImageOffset + PudOff
pmd_table == ImageOffset + PmdOff
Reach(v)  == Walk(ttbr1, v).pa

init_pagetables ==
    /\ pc = "init_pagetables" /\ pc' = "map_image"
    /\ mem' = [t \in Table |-> [e \in 0 .. PTRS - 1 |->
          IF t = Reach(pgd_table) /\ e = 0
            THEN TypeTable(virt_to_phys(pud_table))
          ELSE IF t = Reach(pud_table) /\ e < NrPmd
            THEN TypeTable(virt_to_phys(pmd_table) + e)
            ELSE mem[t][e]]]
    /\ UNCHANGED <<size, mapVars, ttbr0, ttbr1, kimage_voffset, tlb>>

\* Mutants: the memory type is dropped, or is always that of devices.
SectOf_normal(pa, type)  == Block(pa, MT_NORMAL)
SectOf_device(pa, type)  == Block(pa, MT_DEVICE_nGnRnE)
SectOf(pa, type) == Block(pa, type)

\* The table that create_simple_map writes for v: it reads the entry of
\* pud_table and reaches the PMD table at that address in the image map.
PmdPage(v) ==
    Reach(phys_to_kimg(mem[Reach(pud_table)][Index(v, 1)].pa))

\* "while (va < va_end)" in steps of PMD_SIZE.
Steps(n) == {k \in 0 .. n \div PMD : k * PMD < n}

create_simple_map(va, pa, n, type) ==
    mem' = [t \in Table |-> [e \in 0 .. PTRS - 1 |->
        LET hit == {k \in Steps(n) : /\ PmdPage(va + k * PMD) = t
                                     /\ Index(va + k * PMD, 2) = e}
        IN  IF hit = {} THEN mem[t][e]
            ELSE LET k == CHOOSE j \in hit : TRUE
                 IN  SectOf(pa + k * PMD, type)]]

Mapping(step, next, va, pa, n, type) ==
    /\ pc = step /\ pc' = next
    /\ create_simple_map(va, pa, n, type)
    /\ UNCHANGED <<size, mapVars, ttbr0, ttbr1, kimage_voffset, tlb>>

create_kernel_map ==
    \/ Mapping("map_image", "map_linear", ImageOffset,
               ImageOffset - kimage_voffset, size, MT_NORMAL)
    \/ Mapping("map_linear", "map_device", PAGE_OFFSET, PHYS_OFFSET, PUD,
               MT_NORMAL)
    \/ Mapping("map_device", "switch_mm", DEVICE_START, 0, PUD \div 2,
               MT_DEVICE_nGnRnE)

switch_mm_tlbi ==
    /\ pc = "switch_mm" /\ pc' = "ttbr1"
    /\ tlb' = [v \in Probe |-> Fault]
    /\ UNCHANGED <<size, mapVars, mem, ttbr0, ttbr1, kimage_voffset>>

switch_mm_ttbr ==
    /\ pc = "ttbr1" /\ pc' = "done"
    /\ ttbr1' = virt_to_phys(pgd_table)
    /\ UNCHANGED <<size, mapVars, mem, ttbr0, kimage_voffset, tlb>>

\* The CPU may cache a translation at any time while the MMU is on.
TlbFill(v) ==
    /\ ttbr1 # NULL /\ Walk(ttbr1, v) # Fault
    /\ tlb' = [tlb EXCEPT ![v] = Walk(ttbr1, v)]
    /\ UNCHANGED <<pc, size, mapVars, mem, ttbr0, ttbr1, kimage_voffset>>

-----------------------------------------------------------------------------
\* The RAM of the tables reads as zero: nothing clears it, QEMU hands it out
\* that way.
Init ==
    /\ pc = "idmap" /\ size \in ImageSizes
    /\ level = 0 /\ count = 0
    /\ tbl = KPhys + IdOff /\ rtbl = KPhys + IdOff + 1
    /\ mem = [t \in Table |-> [e \in 0 .. PTRS - 1 |-> Empty]]
    /\ ttbr0 = NULL /\ ttbr1 = NULL /\ kimage_voffset = 0
    /\ tlb = [v \in Probe |-> Fault]

Next == \/ map_identity \/ start_image_map \/ map_image \/ __enable_mmu
        \/ bss_clear \/ store_voffset \/ init_pagetables \/ create_kernel_map
        \/ switch_mm_tlbi \/ switch_mm_ttbr
        \/ \E v \in Probe : TlbFill(v)

Spec == Init /\ [][Next]_vars

-----------------------------------------------------------------------------
(* Properties                                                              *)

Image == ImageOffset .. ImageOffset + size - 1
\* The whole upper half that any table here can map, block by block.
Blocks == {b * PMD : b \in 0 .. PTRS * NrPmd - 1}

\* map_memory takes its next table from behind the last one and checks no
\* bound: the tables stay in the pages that the linker script sets aside, and
\* every entry written to them is one of a descriptor's forms.
TablesFit ==
    /\ TypeOK
    /\ pc = "idmap" => rtbl <= KPhys + InitOff
    /\ pc = "image" => rtbl <= KPhys + InitOff + InitPages

\* map_memory maps exactly the image, page for page, and its level-by-level
\* indices neither leave a gap nor reach a page too far.
InitMapExact ==
    pc = "mmu_on" =>
        \A v \in 0 .. ImageOffset + size + PMD :
            Walk(ttbr1, v) = IF v \in Image
                               THEN [pa |-> v - ImageOffset + KPhys,
                                     attr |-> MT_NORMAL]
                               ELSE Fault

\* The instruction that turns the MMU on is followed, at the same physical
\* address, by the next one; and whenever the kernel runs at its link
\* address, every page of the image, code, data, tables and stack, is where
\* the loader put it.
ImageMapped ==
    /\ pc = "mmu_on" => Walk(ttbr0, KPhys).pa = KPhys
    /\ ttbr1 # NULL =>
           \A v \in Image : Walk(ttbr1, v).pa = v - ImageOffset + KPhys

\* switch_mm invalidates the TLB before it writes TTBR1, so translations of
\* the old tables may outlive them: none of them contradicts the new ones.
TlbAgrees ==
    ttbr1 # NULL => \A v \in Probe : tlb[v] \in {Fault, Walk(ttbr1, v)}

\* The address conversions of memory.h agree with the tables: virt_to_phys
\* is the translation of every image and linear address, phys_to_virt its
\* inverse, device registers are device memory, and all else faults.
ConversionsAgree ==
    pc = "done" =>
        /\ \A v \in Image : Walk(ttbr1, v).pa = virt_to_phys(v)
        /\ \A v \in Blocks : \A w \in {v, v + PMD - 1} :
            LET to == Walk(ttbr1, w)
            IN  IF w \in PAGE_OFFSET .. PAGE_OFFSET + PUD - 1
                  THEN /\ to = [pa |-> virt_to_phys(w), attr |-> MT_NORMAL]
                       /\ phys_to_virt(to.pa) = w
                ELSE IF w \in DEVICE_START .. DEVICE_START + PUD \div 2 - 1
                  THEN to = [pa |-> w - DEVICE_START,
                             attr |-> MT_DEVICE_nGnRnE]
                ELSE to # Fault => \E u \in Image : u \div PMD = w \div PMD
=============================================================================
