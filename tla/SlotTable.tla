----------------------------- MODULE SlotTable ------------------------------
(***************************************************************************)
(* What a session promises its callers, without threads, locks or a        *)
(* kernel: each slot is free, being worked on by one caller, usable or     *)
(* broken for good, and the whole disk is never usable together with one   *)
(* of its partitions (include/anyfs_session.h).                            *)
(***************************************************************************)
CONSTANTS Parts, Whole

Slots == Parts \cup {Whole}

VARIABLE table

States == {"NEW", "MOUNTING", "MOUNTED", "FAILED"}

\* No usable slot lies over s.
Exclusive(s) ==
    \A c \in IF s = Whole THEN Parts ELSE {Whole} : table[c] # "MOUNTED"

Init == table = [s \in Slots |-> "NEW"]

Move(s, from, to) ==
    /\ table[s] = from
    /\ table' = [table EXCEPT ![s] = to]

Claim(s) == Move(s, "NEW", "MOUNTING")

Succeed(s) == Move(s, "MOUNTING", "MOUNTED") /\ Exclusive(s)

GiveUp(s) == Move(s, "MOUNTING", "NEW")

\* The whole disk is never marked broken: its probe says nothing final.
Fail(s) == Move(s, "MOUNTING", "FAILED") /\ s # Whole

Release(s) == Move(s, "MOUNTED", "NEW")

\* The session ends and with it every slot; the next one starts afresh.
\* Nobody is working on a slot at that time.
Reset ==
    /\ \A s \in Slots : table[s] # "MOUNTING"
    /\ table' = [s \in Slots |-> "NEW"]

Next ==
    \/ \E s \in Slots : Claim(s) \/ Succeed(s) \/ GiveUp(s) \/ Fail(s) \/ Release(s)
    \/ Reset

Spec == Init /\ [][Next]_table

=============================================================================
