------------------------------ MODULE ClaimedWork ------------------------------
(***************************************************************************)
(* What the claim protocol of the outbox and of the scheduled events       *)
(* promises: a task is claimed by one claimant at a time, only the         *)
(* claimant whose claim has not lapsed settles it, and a settled task is   *)
(* never claimed again.                                                    *)
(***************************************************************************)
CONSTANTS
    Task,
    Claimant,   \* claim tokens in use
    NoClaimant, \* the task is not claimed
    Gone,       \* the claim is one whose claimant has given up or died
    Terminal    \* states in which a task stays

VARIABLES
    status,  \* [Task -> {"absent", "pending", "claimed"} \cup Terminal]
    holder,  \* [Task -> Claimant \cup {NoClaimant, Gone}]
    live     \* [Task -> BOOLEAN]: the claim has not lapsed

workVars == <<status, holder, live>>

WorkTypeOK ==
    /\ status \in [Task -> {"absent", "pending", "claimed"} \cup Terminal]
    /\ holder \in [Task -> Claimant \cup {NoClaimant, Gone}]
    /\ live \in [Task -> BOOLEAN]

WorkInit ==
    /\ status = [t \in Task |-> "absent"]
    /\ holder = [t \in Task |-> NoClaimant]
    /\ live = [t \in Task |-> FALSE]

Holds(c, t) == status[t] = "claimed" /\ holder[t] = c /\ live[t]

Claimable(t) == status[t] = "pending" \/ (status[t] = "claimed" /\ ~live[t])

Add(t) ==
    /\ status[t] = "absent"
    /\ status' = [status EXCEPT ![t] = "pending"]
    /\ UNCHANGED <<holder, live>>

\* c is Gone if the claimant never learns of its claim.
Claim(c, T) ==
    /\ \A t \in T : Claimable(t)
    /\ status' = [t \in Task |-> IF t \in T THEN "claimed" ELSE status[t]]
    /\ holder' = [t \in Task |-> IF t \in T THEN c ELSE holder[t]]
    /\ live' = [t \in Task |-> IF t \in T THEN TRUE ELSE live[t]]

Settle(c, t, s) ==
    /\ Holds(c, t)
    /\ status' = [status EXCEPT ![t] = s]
    /\ holder' = [holder EXCEPT ![t] = NoClaimant]
    /\ live' = [live EXCEPT ![t] = FALSE]

Abandon(c) ==
    /\ holder' = [t \in Task |-> IF holder[t] = c THEN Gone ELSE holder[t]]
    /\ UNCHANGED <<status, live>>

Expire(t) ==
    /\ live[t]
    /\ live' = [live EXCEPT ![t] = FALSE]
    /\ UNCHANGED <<status, holder>>

Withdraw(t, s) ==
    /\ status[t] = "pending"
    /\ status' = [status EXCEPT ![t] = s]
    /\ UNCHANGED <<holder, live>>

WorkNext ==
    \/ \E t \in Task : Add(t) \/ Expire(t)
    \/ \E T \in SUBSET Task, c \in Claimant \cup {Gone} : Claim(c, T)
    \/ \E c \in Claimant : Abandon(c)
    \/ \E t \in Task, c \in Claimant, s \in {"pending"} \cup Terminal : Settle(c, t, s)
    \/ \E t \in Task, s \in Terminal : Withdraw(t, s)

WorkSpec == WorkInit /\ [][WorkNext]_workVars
=============================================================================
