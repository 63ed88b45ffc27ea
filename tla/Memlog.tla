------------------------------- MODULE Memlog -------------------------------
(***************************************************************************)
(* The dirty log (memlog.c): a bitmap with a bit per page of guest memory, *)
(* shared with the client, that the device sets for the pages it has       *)
(* written.  The log is the set of the bits that are set.                  *)
(***************************************************************************)
EXTENDS Integers

CONSTANTS
    LogPage,       \* VHOST_LOG_PAGE
    BitsPerWord,   \* bits_per_word
    LogBits        \* log->size * 8

\* The client sizes the log, in whole words as it is written.
ASSUME MemlogAssumption ==
    /\ LogPage \in Nat \ {0}
    /\ BitsPerWord \in Nat \ {0}
    /\ LogBits \in Nat
    /\ LogBits % BitsPerWord = 0

\* ~0UL shifted: the bits of word i from lo up to hi - 1.
WordBits(i, lo, hi) == {i * BitsPerWord + b : b \in lo .. hi - 1}

\* The bits set for start .. end - 1: a first partial word, full words, and a
\* last partial word that may be the first one too.
bitmap_set_atomic(start, end) ==
    LET start_idx == start \div BitsPerWord
        end_idx   == end \div BitsPerWord
        start_in_word == start % BitsPerWord
        end_in_word   == end % BitsPerWord
        partial == start_in_word # 0 /\ start_idx < end_idx
        first   == IF partial THEN start_idx + 1 ELSE start_idx
        from    == IF partial THEN 0 ELSE start_in_word
        nr_clear_bits == BitsPerWord - (end_in_word - from)
    IN  (IF partial THEN WordBits(start_idx, start_in_word, BitsPerWord) ELSE {})
        \cup UNION {WordBits(i, 0, BitsPerWord) : i \in first .. end_idx - 1}
        \cup (IF end_in_word # 0
              THEN WordBits(end_idx, from, from + BitsPerWord - nr_clear_bits)
              ELSE {})

vhd_mark_gpa_range_dirty(gpa, len) ==
    LET start == gpa \div LogPage
        end   == (gpa + len - 1) \div LogPage + 1
    IN  bitmap_set_atomic(start, IF end > LogBits THEN LogBits ELSE end)
=============================================================================
