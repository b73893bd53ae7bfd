------------------------- MODULE MCClipboardSession -------------------------
(* What the two users copy.  In MCCopies one device has the large image, so *)
(* that only one of them ever has to fetch; in MCBothLarge each has one.    *)
EXTENDS ClipboardSession

(* The clock of device 1 runs ahead of the clock of device 2.               *)
MCWall == [d \in Device |-> IF d = 1 THEN {2} ELSE {1}]
MCCopies == [d \in Device |-> IF d = 1 THEN {"photo", "note"} ELSE {"page", "files"}]
MCBothLarge == [d \in Device |-> IF d = 1 THEN {"photo"} ELSE {"scan"}]
MCText == [d \in Device |-> IF d = 1 THEN {"note"} ELSE {"page"}]
=============================================================================
