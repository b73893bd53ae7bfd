--------------------------- MODULE AtomicDelivery ---------------------------
(***************************************************************************)
(* What a file or folder transfer promises, whatever happens on the way:   *)
(* the receiving side only ever gains whole copies of what the manifest    *)
(* describes, a copy stays under its name, and the sender is told of       *)
(* success only after there is one.  A sender that is not told may try     *)
(* again, so there may be several copies.                                  *)
(***************************************************************************)
CONSTANT Content      \* what the manifest describes

VARIABLES copies,     \* copies[name]: what has been published under name
          told        \* the sender has been told of success

Init == copies = [name \in {} |-> Content] /\ told = FALSE

\* A copy appears under a name that held none.
Publish ==
    /\ \E new \in DOMAIN copies' \ DOMAIN copies :
          copies' = [name \in DOMAIN copies \cup {new} |->
                        IF name = new THEN Content ELSE copies[name]]
    /\ UNCHANGED told

Tell == DOMAIN copies # {} /\ told' = TRUE /\ UNCHANGED copies

Next == Publish \/ Tell

Spec == Init /\ [][Next]_<<copies, told>>
=============================================================================
