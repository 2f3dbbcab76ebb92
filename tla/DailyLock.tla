------------------------------ MODULE DailyLock ------------------------------
(***************************************************************************)
(* What the daily loss lock promises, without threads, broker or database. *)
(* Orders enter the market only while the account is open.  A breach shuts *)
(* it until a later 09:15 opening, or for good when the calendar names no  *)
(* later opening.  It opens again only at that time and only after the     *)
(* liquidation was reported complete.  A restart keeps the shut account    *)
(* shut once the lock is durable; only a lock that never reached the       *)
(* database can be lost.                                                   *)
(***************************************************************************)
EXTENDS Naturals

VARIABLES
    day,     \* number of 09:15 openings that have passed
    shut,    \* the account is locked
    until,   \* the opening at which a shut account may open; 0 is never
    done,    \* the liquidation of this lock is reported complete
    durable, \* the lock has reached the database
    entered  \* orders submitted so far

vars == <<day, shut, until, done, durable, entered>>

Init ==
    /\ day = 0 /\ entered = 0
    /\ shut = FALSE /\ until = 0 /\ done = FALSE /\ durable = FALSE

\* An open account has no lock to describe.
Opened == shut' = FALSE /\ until' = 0 /\ done' = FALSE /\ durable' = FALSE

NewDay ==
    /\ day' = day + 1
    /\ UNCHANGED <<shut, until, done, durable, entered>>

Enter ==
    /\ ~shut
    /\ entered' = entered + 1
    /\ UNCHANGED <<day, shut, until, done, durable>>

Shut ==
    /\ ~shut
    /\ shut' = TRUE
    /\ until' = 0 \/ until' > day
    /\ done' = FALSE
    /\ durable' \in BOOLEAN
    /\ UNCHANGED <<day, entered>>

\* Liquidation progress moves and a lock may become durable; neither changes
\* when the account opens.
Progress ==
    /\ shut
    /\ done' \in BOOLEAN
    /\ durable => durable'
    /\ durable' \in BOOLEAN
    /\ UNCHANGED <<day, shut, until, entered>>

Open ==
    /\ shut /\ done
    /\ until # 0 /\ day >= until
    /\ Opened
    /\ UNCHANGED <<day, entered>>

\* The documented window: the database failed when the lock was taken and the
\* process died before a retry succeeded.
Lose ==
    /\ shut /\ ~durable
    /\ Opened
    /\ UNCHANGED <<day, entered>>

Next == NewDay \/ Enter \/ Shut \/ Progress \/ Open \/ Lose

Spec == Init /\ [][Next]_vars
==============================================================================
