------------------------------ MODULE Delivery ------------------------------
(***************************************************************************)
(* What the outbox promises about task outcomes, with no queue, lock or    *)
(* inbox in sight: an outcome is owed once its task is finished, reaches a *)
(* transport any number of times, and is written down as delivered only    *)
(* after it has reached one.  The user may withdraw a task; a stamp is     *)
(* never taken back.                                                       *)
(***************************************************************************)
CONSTANT Tasks

VARIABLES
    owed,      \* tasks whose outcome the user is to see
    reached,   \* tasks whose terminal event some subscriber accepted
    stamped    \* tasks recorded as delivered

vars == <<owed, reached, stamped>>

Init == owed = {} /\ reached = {} /\ stamped = {}

(* The task's row takes its outcome; one that streamed to the end is        *)
(* stamped by the same write.                                               *)
Finish(t) ==
    /\ t \notin owed
    /\ owed' = owed \cup {t}
    /\ stamped' \in {stamped} \cup (IF t \in reached THEN {stamped \cup {t}} ELSE {})
    /\ UNCHANGED reached

Reach(t) ==
    /\ reached' = reached \cup {t}
    /\ UNCHANGED <<owed, stamped>>

Stamp(t) ==
    /\ t \in reached
    /\ stamped' = stamped \cup {t}
    /\ UNCHANGED <<owed, reached>>

Withdraw(t) ==
    /\ owed' = owed \ {t}
    /\ UNCHANGED <<reached, stamped>>

Next == \E t \in Tasks : Finish(t) \/ Reach(t) \/ Stamp(t) \/ Withdraw(t)

Spec == Init /\ [][Next]_vars
=============================================================================
