------------------------------ MODULE MCUpdates ------------------------------
(* Three helper processes and the two newer versions that can be released.   *)
EXTENDS Updates

(* Two helpers at once undo each other: every property about files is about   *)
(* behaviours without that, so those are not followed further.  And helpers   *)
(* are interchangeable: they start in the order of their numbers.             *)
OneAtATime ==
    /\ ~overlap
    /\ \A h, g \in Helpers : h < g /\ helper[h].pc = "unborn" => helper[g].pc = "unborn"
=============================================================================
