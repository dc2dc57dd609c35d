--------------------------- MODULE MCKernelMutex ----------------------------
(* Instances of KernelMutex for TLC.                                       *)
EXTENDS KernelMutex, TLC

CONSTANTS low, mid, high, top, inner, outer

\* low and top lock inner while they hold outer, and each of them alone; the others share
\* outer with them, mid with a block time.  Any of them may keep the processor for ever.
Priorities == (low :> 1) @@ (mid :> 2) @@ (high :> 3) @@ (top :> 4)
MutexUses ==
    (low :> {<<outer, "max">>, <<inner, "max">>}) @@ (mid :> {<<outer, "left">>, <<outer, "zero">>})
    @@ (high :> {<<outer, "max">>}) @@ (top :> {<<outer, "max">>, <<inner, "max">>})

\* mid has the priority of low and waits for the mutex that low unlocks last.
EqualPriorities == (low :> 1) @@ (mid :> 1) @@ (high :> 3) @@ (top :> 4)
SwitchUses ==
    (low :> {<<outer, "max">>, <<inner, "max">>}) @@ (mid :> {<<inner, "max">>})
    @@ (high :> {<<outer, "max">>}) @@ (top :> {<<inner, "max">>})

NestsInner == {<<outer, inner>>}
=============================================================================
