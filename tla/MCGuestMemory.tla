--------------------------- MODULE MCGuestMemory ---------------------------
(* Instances of GuestMemory.  Addresses have five bits and a log page two    *)
(* addresses; a word of the log has four bits and the log three words.       *)
EXTENDS GuestMemory

CONSTANTS r1, r2, r3, m1, m2, m3, h1, h2

D(gpa, uva, size, file) == [gpa |-> gpa, uva |-> uva, size |-> size, file |-> file]

Ram  == D(4, 20, 10, 1)
High == D(16, 2, 12, 1)
\* Meets Ram in both spaces.
Overlapping == D(12, 18, 4, 2)
\* Ends past the address space.
Wrapping == D(28, 14, 6, 2)

Tables == {<<Ram>>, <<High, Ram>>, <<Ram, Overlapping>>, <<Wrapping>>}

B(gpa, len, in) == [gpa |-> gpa, len |-> len, in |-> in]

\* The pages are one within a word, some across a word, some past the log.
Requests ==
    {<<B(4, 1, FALSE), B(6, 8, TRUE)>>,
     <<B(17, 10, TRUE)>>}

RegionSym == Permutations({r1, r2, r3}) \cup Permutations({m1, m2, m3}) \cup
             Permutations({h1, h2})
=============================================================================
