--------------------------- MODULE CircuitBreaker ---------------------------
(***************************************************************************)
(* The breaker of one <rail>:<endpoint> scope (internal/rail/circuit).     *)
(* Every operation runs under the breaker's own mutex, so each is one      *)
(* step.  The wall clock is read only as "has the cool-down passed since   *)
(* openedAt?", so time is kept as the number of ticks since openedAt,      *)
(* which stops counting at CoolDown.                                       *)
(***************************************************************************)
EXTENDS Integers

CONSTANTS
    MaxFailures,    \* CIRCUIT_MAX_FAILURES
    CoolDown        \* the cool-down, in ticks

\* envInt accepts only n >= 1 for CIRCUIT_MAX_FAILURES; nothing bounds the
\* cool-down below except that a duration that is not positive acts as zero.
ASSUME BreakerAssumption ==
    /\ MaxFailures \in Nat \ {0}
    /\ CoolDown \in Nat

VARIABLES
    state,      \* "closed", "open" or "halfopen"
    failures,   \* failures since the last success
    elapsed,    \* ticks since openedAt, at most CoolDown
    opens       \* the rail_circuit_open counter

breakerVars == <<state, failures, elapsed, opens>>

BreakerTypeOK ==
    /\ state \in {"closed", "open", "halfopen"}
    /\ failures \in Nat
    /\ elapsed \in 0 .. CoolDown
    /\ opens \in Nat

BreakerInit ==
    /\ state = "closed"
    /\ failures = 0
    /\ elapsed = 0
    /\ opens = 0

CooledDown == elapsed = CoolDown

\* Mutant: the clock is compared off by one tick.
AllowOneTickEarly ==
    /\ state = "open" => elapsed + 1 >= CoolDown
    /\ state' = IF state = "open" THEN "halfopen" ELSE state
    /\ UNCHANGED <<failures, elapsed, opens>>

\* Allow returned true: the first call after the cool-down makes an open
\* breaker half-open, and a half-open breaker lets every call through.
Allow ==
    /\ state = "open" => CooledDown
    /\ state' = IF state = "open" THEN "halfopen" ELSE state
    /\ UNCHANGED <<failures, elapsed, opens>>

\* Allow returned false.
Refuse ==
    /\ state = "open"
    /\ ~CooledDown
    /\ UNCHANGED breakerVars

\* Mutant: the success closes the breaker but does not reset the count.
RecordSuccessKeepsCount ==
    /\ state' = "closed"
    /\ UNCHANGED <<failures, elapsed, opens>>

\* The breaker closes whatever its state was.
RecordSuccess ==
    /\ failures' = 0
    /\ state' = "closed"
    /\ UNCHANGED <<elapsed, opens>>

Open ==
    /\ state' = "open"
    /\ elapsed' = 0
    /\ opens' = opens + 1

RecordFailure ==
    /\ failures' = failures + 1
    /\ IF state = "halfopen" \/ failures + 1 >= MaxFailures
          THEN Open
          ELSE UNCHANGED <<state, elapsed, opens>>

\* Time passes.  Only an open breaker reads the clock.
Tick ==
    /\ state = "open"
    /\ ~CooledDown
    /\ elapsed' = elapsed + 1
    /\ UNCHANGED <<state, failures, opens>>

=============================================================================
