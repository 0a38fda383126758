----------------------------- MODULE FreeFrames -----------------------------
(***************************************************************************)
(* What a page frame manager of lab2 promises (struct pmm_manager of       *)
(* lab2/kern/mm/pmm.h): alloc_pages returns the first of n consecutive     *)
(* free frames whenever there are any, the lowest under first fit, the     *)
(* start of the smallest hole under best fit; free_pages frees frames.     *)
(***************************************************************************)
EXTENDS Integers, FiniteSetsExt

CONSTANTS N, MaxRequest, NULL

VARIABLES
    manager,        \* which manager pmm_manager points to
    free,           \* the free frames
    page            \* what the last alloc_pages returned

Frames == 0 .. N - 1
Run(b, n) == b .. b + n - 1

Fits(n) == {b \in Frames : Run(b, n) \subseteq free}

\* A hole is a run of free frames between frames that are not free.
HoleSize(b) == Max({n \in 1 .. N : Run(b, n) \subseteq free})
Holes == {b \in free : b - 1 \notin free}
TightestFits(n) ==
    LET fits == Holes \cap Fits(n) IN
    {b \in fits : \A c \in fits : HoleSize(b) <= HoleSize(c)}

Init ==
    /\ manager \in {"default", "best_fit"}
    /\ free = Frames
    /\ page = NULL

Alloc(n) ==
    /\ IF Fits(n) = {}
       THEN page' = NULL /\ UNCHANGED free
       ELSE /\ page' = Min(IF manager = "default" THEN Fits(n) ELSE TightestFits(n))
            /\ free' = free \ Run(page', n)
    /\ UNCHANGED manager

Free(b, n) ==
    /\ Run(b, n) \subseteq Frames \ free
    /\ free' = free \cup Run(b, n)
    /\ UNCHANGED <<manager, page>>

Next ==
    \/ \E n \in 1 .. MaxRequest : Alloc(n)
    \/ \E b \in Frames, n \in 1 .. N : Free(b, n)

Spec == Init /\ [][Next]_<<manager, free, page>>
=============================================================================
