------------------------------- MODULE Memmap -------------------------------
(***************************************************************************)
(* The memory map (memmap.c): the regions of guest memory that a device    *)
(* has mapped, and the translations between the three address spaces they  *)
(* live in: guest physical (gpa), the client's virtual (uva) and this      *)
(* process' own.                                                           *)
(*                                                                         *)
(* An operator takes and returns the heap of the module, a record          *)
(*                                                                         *)
(*   region     what is stored at each region address, Null when freed     *)
(*   mm         what is stored at each memory map address, Null when freed *)
(*   g_regions  the regions on the global list, where add_slot looks for   *)
(*              one that is mapped already                                 *)
(*                                                                         *)
(* A pointer of this process is a pair <<region, offset>>: two mappings    *)
(* alive at once never overlap.  "file" stands for the device and inode of *)
(* the descriptor and the offset in it.  The callbacks of a map are those  *)
(* of its device, the same for every map here.                             *)
(***************************************************************************)
EXTENDS Integers, SequencesExt

CONSTANTS
    Region,      \* addresses of struct vhd_memory_region
    Map,         \* addresses of struct vhd_memory_map
    MaxSlots,    \* VHD_RAM_SLOTS_MAX
    AddrBits,    \* width of uint64_t and size_t
    Null

ASSUME MemmapAssumption ==
    /\ Null \notin Region \cup Map
    /\ MaxSlots \in Nat \ {0}
    /\ AddrBits \in Nat \ {0}

Address == 0 .. 2 ^ AddrBits - 1

\* What a client says about a region.
Desc == [gpa : Address, uva : Address, size : Address \ {0}, file : Nat]

RegionType == [desc : Desc, ref : Nat]

MapType == [ref : Nat, regions : Seq(Region)]

\* Arithmetic on uint64_t.
Wrap(a) == a % 2 ^ AddrBits

----------------------------------------------------------------------------
(* Translations. *)

DescAt(H, m, i) == H.region[H.mm[m].regions[i]].desc

\* The slots of map m whose description passes the test.
Slots(H, m, Test(_)) ==
    {i \in DOMAIN H.mm[m].regions : Test(DescAt(H, m, i))}

\* The loops over mm->regions stop at the first slot that passes.
FirstSlot(H, m, Test(_)) ==
    IF Slots(H, m, Test) = {} THEN 0 ELSE Min(Slots(H, m, Test))

uva_to_ptr(H, m, uva) ==
    LET i == FirstSlot(H, m, LAMBDA d : uva >= d.uva /\ uva - d.uva < d.size)
    IN  IF i = 0 THEN Null
        ELSE <<H.mm[m].regions[i], uva - DescAt(H, m, i).uva>>

\* Mutant: a range may start anywhere in the region that is long enough for it.
gpa_range_to_ptr_LenOnly(H, m, gpa, len) ==
    LET i == FirstSlot(H, m, LAMBDA d : gpa >= d.gpa /\ gpa - d.gpa < d.size)
        d == DescAt(H, m, i)
    IN  IF i = 0 THEN Null
        ELSE IF len > d.size THEN Null
        ELSE <<H.mm[m].regions[i], gpa - d.gpa>>

\* A range that starts in a region has to end in it.
gpa_range_to_ptr(H, m, gpa, len) ==
    LET i == FirstSlot(H, m, LAMBDA d : gpa >= d.gpa /\ gpa - d.gpa < d.size)
        d == DescAt(H, m, i)
    IN  IF i = 0 THEN Null
        ELSE IF len > d.size \/ Wrap(gpa - d.gpa + len) > d.size THEN Null
        ELSE <<H.mm[m].regions[i], gpa - d.gpa>>

ptr_to_gpa(H, m, ptr) ==
    LET regions == H.mm[m].regions
        hits == {i \in DOMAIN regions :
                    regions[i] = ptr[1] /\ ptr[2] < DescAt(H, m, i).size}
    IN  IF hits = {} THEN Null
        ELSE DescAt(H, m, Min(hits)).gpa + ptr[2]

----------------------------------------------------------------------------
(* Reference counts. *)

region_ref(H, r) == [H EXCEPT !.region[r].ref = @ + 1]

region_dec(H, r) == [H EXCEPT !.region[r].ref = @ - 1]

\* Off the list, unmapped and freed, in that order and by one thread.
region_release(H, r) ==
    [H EXCEPT !.region[r] = Null, !.g_regions = @ \ {r}]

vhd_memmap_ref(H, m) == [H EXCEPT !.mm[m].ref = @ + 1]

memmap_dec(H, m) == [H EXCEPT !.mm[m].ref = @ - 1]

----------------------------------------------------------------------------
(* Building a map. *)

vhd_memmap_new(H, m) == [H EXCEPT !.mm[m] = [ref |-> 1, regions |-> <<>>]]

\* Mutant: the regions are copied without a reference.
vhd_memmap_dup_NoRef(H, m, n) ==
    [H EXCEPT !.mm[n] = [ref |-> 1, regions |-> H.mm[m].regions]]

\* Every region of the copy gains a reference.
vhd_memmap_dup(H, m, n) ==
    [H EXCEPT
        !.mm[n] = [ref |-> 1, regions |-> H.mm[m].regions],
        !.region = [r \in Region |->
            IF r \in Range(H.mm[m].regions)
            THEN [@[r] EXCEPT !.ref = @ + 1] ELSE @[r]]]

\* The checks add_slot makes before it looks for a mapping.  A slot is let in
\* when it is apart from every other one in guest or in client addresses.
SlotAllowed(H, m, d) ==
    /\ ~(Wrap(d.gpa + d.size) < d.gpa \/ Wrap(d.uva + d.size) < d.uva)
    /\ Len(H.mm[m].regions) # MaxSlots
    /\ \A i \in DOMAIN H.mm[m].regions :
          LET e == DescAt(H, m, i)
          IN  \/ Wrap(e.gpa + e.size) <= d.gpa \/ Wrap(d.gpa + d.size) <= e.gpa
              \/ Wrap(e.uva + e.size) <= d.uva \/ Wrap(d.uva + d.size) <= e.uva

\* region_get_cached up to the reference it takes.
Cached(H, d) == {r \in H.g_regions : H.region[r].desc = d}

\* A region that map_region has mapped goes on the list.
MapNew(H, r, d) ==
    [H EXCEPT !.region[r] = [desc |-> d, ref |-> 1],
              !.g_regions = @ \cup {r}]

\* The table ascends in gpa.
InsertSlot(H, m, r) ==
    LET below == Slots(H, m, LAMBDA e : e.gpa < H.region[r].desc.gpa)
    IN  [H EXCEPT !.mm[m].regions = InsertAt(@, Max(below \cup {0}) + 1, r)]

\* The slot vhd_memmap_del_slot looks for, 0 when there is none.
SlotToDelete(H, m, d) ==
    FirstSlot(H, m, LAMBDA e :
        e.gpa = d.gpa /\ e.uva = d.uva /\ e.size = d.size)

RemoveSlot(H, m, i) == [H EXCEPT !.mm[m].regions = RemoveAt(@, i)]
=============================================================================
