----------------------------- MODULE RemoteCall -----------------------------
(***************************************************************************)
(* What an application may rely on when it makes one call on a service     *)
(* that may be slow, mute or break off: the call takes effect once at      *)
(* most, and the verdict it gets is true for ever.  A "no" means that it   *)
(* did not and will not take effect; after an "unknown" it still may.      *)
(***************************************************************************)
VARIABLES applied,  \* the call took effect
          verdict   \* "pending", "yes", "no" or "unknown"

vars == <<applied, verdict>>

Init == applied = FALSE /\ verdict = "pending"

TakesEffect ==
    /\ ~applied /\ verdict # "no"
    /\ applied' = TRUE /\ UNCHANGED verdict

Ends ==
    /\ verdict = "pending"
    /\ \/ applied /\ verdict' = "yes"
       \/ ~applied /\ verdict' = "no"
       \/ verdict' = "unknown"
    /\ UNCHANGED applied

Next == TakesEffect \/ Ends

Spec == Init /\ [][Next]_vars
=============================================================================
