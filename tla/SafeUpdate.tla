------------------------------ MODULE SafeUpdate ------------------------------
(***************************************************************************)
(* What an over-the-air update promises: there is always an image that has *)
(* served a host to fall back on, a new one is on trial for a single boot, *)
(* and only the image that is running can be proved.                       *)
(***************************************************************************)
CONSTANTS Images, NoImage,
    Working     \* the images that serve hosts

VARIABLES
    keeper,     \* the image to fall back on
    trial,      \* the image offered, NoImage for none
    trying      \* the trial image runs

updateVars == <<keeper, trial, trying>>

Deliver ==
    /\ trial = NoImage /\ trial' \in Images
    /\ UNCHANGED <<keeper, trying>>

Try ==
    /\ trial # NoImage /\ ~trying /\ trying' = TRUE
    /\ UNCHANGED <<keeper, trial>>

Prove ==
    /\ trying /\ trial \in Working /\ keeper' = trial /\ trial' = NoImage /\ trying' = FALSE

Revert ==
    /\ trying /\ trial' = NoImage /\ trying' = FALSE
    /\ UNCHANGED keeper

SafeInit == keeper \in Working /\ trial = NoImage /\ trying = FALSE

SafeNext == Deliver \/ Try \/ Prove \/ Revert

SafeSpec == SafeInit /\ [][SafeNext]_updateVars
=============================================================================
