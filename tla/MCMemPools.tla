----------------------------- MODULE MCMemPools -----------------------------
(***************************************************************************)
(* Small instances of MemPools.                                            *)
(***************************************************************************)
EXTENDS MemPools

\* A kind for each pool, of which that of the second just fills its block; one that
\* is freed into a smaller pool, as times are; and one too large for all pools.
Allocated == [k \in {"adt", "time", "sv", "blob"} |->
                CASE k = "adt" -> 1 [] k = "time" -> 2 [] k = "sv" -> 2 [] k = "blob" -> 3]
Freed     == [Allocated EXCEPT !["time"] = 1]
=============================================================================
