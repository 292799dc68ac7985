------------------------------- MODULE Budget -------------------------------
(***************************************************************************)
(* BudgetController (budget.ts) as transport.ts drives it: the grant budget *)
(* follows the greatest delivery rate of the last rounds and the smallest  *)
(* recent round trip.                                                      *)
(*                                                                         *)
(* Time is counted in units of MIN_INTERVAL_MS and kept relative to now, as *)
(* ages and time left; the rounds of samples likewise.  A rate is kept in  *)
(* Scale-ths of a byte per unit, so that the quotients are whole.          *)
(***************************************************************************)
EXTENDS Integers, FiniteSetsExt

CONSTANTS
    Floor, Cap, K, LossPercent,   \* BudgetOptions
    RateWindow,    \* RATE_WINDOW_ROUNDS
    RttWindow,     \* MIN_RTT_WINDOW_MS
    Rtts,          \* round trips that samples may show
    Bytes,         \* new bytes that a datagram may bring
    MaxBytes,      \* bound: bytes of one interval
    MaxElapsed,    \* bound: length of an interval
    Scale          \* a common multiple of the lengths of intervals

VARIABLES
    minRtt,     \* 0 for null
    rttAge,     \* time since minRtt was set
    samples,    \* rates of the window, each with its age in rounds
    interval,   \* none, or [age, bytes, limited]
    hold,       \* time left until the budget may grow again
    current     \* the budget

vars == <<minRtt, rttAge, samples, interval, hold, current>>

-----------------------------------------------------------------------------
MaxRate == Max({0} \cup {s.rate : s \in samples})
Bdp     == (MaxRate * minRtt) \div Scale

Init ==
    /\ minRtt = 0 /\ rttAge = 0 /\ samples = {} /\ hold = 0 /\ current = Floor
    /\ interval = [open |-> FALSE, age |-> 0, bytes |-> 0, limited |-> FALSE]

OnRttSample(rtt) ==
    /\ IF minRtt = 0 \/ rtt <= minRtt \/ rttAge > RttWindow
       THEN minRtt' = rtt /\ rttAge' = 0
       ELSE UNCHANGED <<minRtt, rttAge>>
    /\ UNCHANGED <<samples, interval, hold, current>>

\* pumpGrants: the budget left a transfer wanting more.
NoteLimited ==
    /\ interval' = [interval EXCEPT !.limited = TRUE]
    /\ UNCHANGED <<minRtt, rttAge, samples, hold, current>>

\* A round ends: older samples leave the window, and its own counts if the budget
\* was the limit or it raises the maximum of those that stay.
Windowed(rate, limited) ==
    LET kept == {[s EXCEPT !.age = @ + 1] : s \in {r \in samples : r.age + 1 < RateWindow}}
    IN  IF limited \/ rate > Max({0} \cup {s.rate : s \in kept})
        THEN kept \cup {[rate |-> rate, age |-> 0]} ELSE kept

Clamped(target) == Min({Cap, Max({Floor, target})})

Updated ==
    LET target == Clamped((K * MaxRate' * minRtt) \div Scale)
    IN  current' = IF hold > 0 THEN Min({current, target}) ELSE target

OnDelivered(bytes) ==
    LET total == interval.bytes + bytes
        fresh == [open |-> TRUE, age |-> 0, bytes |-> 0, limited |-> FALSE]
    IN  /\ total <= MaxBytes
        /\ IF ~interval.open
           THEN interval' = [interval EXCEPT !.open = TRUE, !.age = 0] /\ UNCHANGED <<samples, current>>
           ELSE IF interval.age < Max({1, minRtt})
           THEN interval' = [interval EXCEPT !.bytes = total] /\ UNCHANGED <<samples, current>>
           ELSE /\ interval' = fresh
                /\ samples' = Windowed((Scale * total) \div interval.age, interval.limited)
                /\ Updated
        /\ UNCHANGED <<minRtt, rttAge, hold>>

OnLoss ==
    /\ current' = Max({Floor, (current * LossPercent) \div 100}) /\ hold' = minRtt
    /\ UNCHANGED <<minRtt, rttAge, samples, interval>>

Elapse ==
    /\ interval.open => interval.age < MaxElapsed
    /\ rttAge' = Min({RttWindow + 1, rttAge + 1}) /\ hold' = Max({0, hold - 1})
    /\ interval' = [interval EXCEPT !.age = IF interval.open THEN @ + 1 ELSE 0]
    /\ UNCHANGED <<minRtt, samples, current>>

Next == \/ \E rtt \in Rtts : OnRttSample(rtt)
        \/ \E bytes \in Bytes : OnDelivered(bytes)
        \/ NoteLimited \/ OnLoss \/ Elapse

Spec == Init /\ [][Next]_vars

-----------------------------------------------------------------------------
\* "Samples from intervals where the budget wasn't the limit only count if they
\* raise the max, so a quiet period doesn't shrink the estimate": while the
\* round-trip time stays, no step outside a limited interval makes the BDP smaller.
QuietKeepsEstimate == [][~interval.limited /\ minRtt' = minRtt => Bdp' >= Bdp]_vars
=============================================================================
