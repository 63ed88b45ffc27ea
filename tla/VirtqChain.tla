----------------------------- MODULE VirtqChain -----------------------------
(***************************************************************************)
(* The walk over a descriptor chain (virt_queue.c), which collects the     *)
(* buffers of a request, and a definition of what it should find.          *)
(*                                                                         *)
(* A descriptor has a next index, or NoNext when VIRTQ_DESC_F_NEXT is      *)
(* clear; "in" is VIRTQ_DESC_F_WRITE; "mapped" tells if its range is in    *)
(* guest memory (gpa_range_to_ptr, in Memmap); "buf" is what it refers to. *)
(* An indirect descriptor refers to a table; "whole" tells if its length   *)
(* is a positive number of descriptors.  A table is a sequence, and index  *)
(* i its element i + 1.                                                    *)
(***************************************************************************)
EXTENDS Integers, SequencesExt

CONSTANTS
    QSz,           \* vq->qsz
    MaxChainLen,   \* vq->max_chain_len
    IdxBits        \* width of uint16_t

ASSUME ChainAssumption ==
    /\ QSz \in Nat \ {0}
    /\ MaxChainLen \in Nat /\ MaxChainLen >= QSz
    /\ IdxBits \in Nat \ {0}

NoNext == -1

Failed == [ok |-> FALSE, bufs |-> <<>>]

Found(bufs) == [ok |-> TRUE, bufs |-> bufs]

\* Mutant: a chain of one more buffer than there is room for is let through.
add_buffer_Over(bufs, d) ==
    IF Len(bufs) > MaxChainLen THEN Failed
    ELSE IF ~d.in /\ \E i \in DOMAIN bufs : bufs[i].in THEN Failed
    ELSE Found(Append(bufs, [in |-> d.in, buf |-> d.buf]))

\* Device-readable buffers come first.
add_buffer(bufs, d) ==
    IF Len(bufs) >= MaxChainLen THEN Failed
    ELSE IF ~d.in /\ \E i \in DOMAIN bufs : bufs[i].in THEN Failed
    ELSE Found(Append(bufs, [in |-> d.in, buf |-> d.buf]))

map_buffer(bufs, d) == IF d.mapped THEN add_buffer(bufs, d) ELSE Failed

\* The number of descriptors is kept in sixteen bits.
table_len(d) == Len(d.table) % 2 ^ IdxBits

\* The loops: "at" is idx, or NoNext once the loop is left.  An iteration adds
\* a buffer or is the last, so one more than the longest chain has is enough.
Looped(Iteration(_), first, bufs) ==
    LET after[n \in 0 .. MaxChainLen + 1] ==
            IF n = 0 THEN [at |-> first, res |-> Found(bufs)]
            ELSE IF after[n - 1].at = NoNext THEN after[n - 1]
            ELSE Iteration(after[n - 1])
    IN  after[MaxChainLen + 1].res

\* Goes on at the next descriptor, which has to be in a table of len.
GoOn(d, res, len) ==
    IF res.ok /\ d.next < len THEN [at |-> d.next, res |-> res]
    ELSE [at |-> NoNext, res |-> Failed]

walk_indirect_table(desc, bufs) ==
    LET iteration(s) ==
            LET d == desc.table[s.at + 1]
            IN  GoOn(d, IF d.indirect THEN Failed ELSE map_buffer(s.res.bufs, d),
                     table_len(desc))
    IN  IF desc.whole /\ desc.mapped THEN Looped(iteration, 0, bufs) ELSE Failed

walk_chain(table, head) ==
    LET iteration(s) ==
            LET d == table[s.at + 1]
            IN  IF ~d.indirect THEN GoOn(d, map_buffer(s.res.bufs, d), QSz)
                ELSE [at |-> NoNext,
                      res |-> IF d.next # NoNext THEN Failed
                              ELSE walk_indirect_table(d, s.res.bufs)]
    IN  Looped(iteration, head, <<>>)

----------------------------------------------------------------------------
(* What a chain means. *)

\* The paths of at most n descriptors from index first to a last one, along
\* descriptors that are linked and refer to buffers.
Paths(table, len, first, n) ==
    {p \in UNION {[1 .. k -> 0 .. len - 1] : k \in 1 .. n} :
        /\ p[1] = first
        /\ \A i \in 1 .. Len(p) - 1 : /\ ~table[p[i] + 1].indirect
                                      /\ table[p[i] + 1].next = p[i + 1]
        /\ table[p[Len(p)] + 1].next = NoNext}

Along(table, p) == [i \in DOMAIN p |-> table[p[i] + 1]]

\* The lists of descriptors that the chain from head stands for: the direct
\* ones, with an indirect one at the end replaced by those of its table.
Chains(table, head) ==
    UNION {LET ds == Along(table, p)
               last == ds[Len(ds)]
           IN  IF ~last.indirect THEN {ds}
               ELSE {Front(ds) \o Along(last.table, q) :
                        q \in IF last.whole /\ last.mapped
                              THEN Paths(last.table, table_len(last), 0, MaxChainLen)
                              ELSE {}} :
              p \in Paths(table, QSz, head, MaxChainLen + 1)}

\* Those a device accepts.
Accepted(table, head) ==
    {ds \in Chains(table, head) :
        /\ Len(ds) <= MaxChainLen
        /\ \A i \in DOMAIN ds : ~ds[i].indirect /\ ds[i].mapped
        /\ \A i, j \in DOMAIN ds : i < j /\ ds[i].in => ds[j].in}

\* For one chain: walk_chain finds the buffers that it stands for, or fails if
\* it is malformed, endless or too long.
WalkCorrect(table, head) ==
    LET res == walk_chain(table, head)
        meant == {[i \in DOMAIN ds |-> [in |-> ds[i].in, buf |-> ds[i].buf]] :
                     ds \in Accepted(table, head)}
    IN  meant = IF res.ok THEN {res.bufs} ELSE {}
=============================================================================
