-------------------------- MODULE ResourceManagers --------------------------
(***************************************************************************)
(* Whether a server admits an operation, and when: the aggregation of the  *)
(* rulings of the resource managers (Warehouse.evaluateManagers) and the   *)
(* token bucket of BurstRatePolicy.  Time passes in units of one permit,   *)
(* period / permitLimit.                                                   *)
(***************************************************************************)
EXTENDS Integers

CONSTANTS
    Capacity,       \* permitLimit + burstLimit
    QueueLimit      \* delayed reservations of a connection and member

ASSUME ResourceManagersAssumption == Capacity \in Nat \ {0} /\ QueueLimit \in Nat

-----------------------------------------------------------------------------
Ruling == {"Denied", "Allowed", "DontCare"}
Category == {"permissions", "rateControl", "auditing"}
Verdict == [category : Category, ruling : Ruling]

(* Deny overrides allow within a category.                                 *)
Aggregate(verdicts, category) ==
    LET rulings == {v.ruling : v \in {w \in verdicts : w.category = category}}
    IN  IF "Denied" \in rulings THEN "Denied"
        ELSE IF "Allowed" \in rulings THEN "Allowed" ELSE "DontCare"

(* Permissions must allow, the other categories must not deny.  When no    *)
(* manager rules, calls are permitted and changes of a property are not.   *)
IsAllowed(verdicts, action) ==
    LET permissions == Aggregate(verdicts, "permissions")
    IN  /\ \/ permissions = "Allowed"
           \/ permissions = "DontCare" /\ action = "Execute"
        /\ Aggregate(verdicts, "rateControl") # "Denied"
        /\ Aggregate(verdicts, "auditing") # "Denied"

-----------------------------------------------------------------------------
Bucket == [tokens : {t \in Int : t <= Capacity}, queued : 0 .. QueueLimit]
FullBucket == [tokens |-> Capacity, queued |-> 0]

(* BurstRatePolicy.applicable: a token at once, or one of those to come    *)
(* while there are queue positions.                                        *)
RateVerdict(b) ==
    [category |-> "rateControl",
     ruling |-> IF b.tokens >= 1 \/ b.queued < QueueLimit THEN "Allowed" ELSE "Denied"]

Reserved(b) ==
    IF b.tokens >= 1 THEN [b EXCEPT !.tokens = @ - 1]
    ELSE IF b.queued < QueueLimit THEN [tokens |-> b.tokens - 1, queued |-> b.queued + 1]
    ELSE b

(* Mutant: every delayed reservation waits for one permit.                 *)
Delay_OnePermit(b) == IF b.tokens >= 1 THEN 0 ELSE 1

(* The permits a reservation has to wait for.                              *)
Delay(b) == IF b.tokens >= 1 THEN 0 ELSE 1 - b.tokens

Replenished(b) == [b EXCEPT !.tokens = IF @ < Capacity THEN @ + 1 ELSE @]

QueuePositionReleased(b) == [b EXCEPT !.queued = IF @ > 0 THEN @ - 1 ELSE 0]
=============================================================================
