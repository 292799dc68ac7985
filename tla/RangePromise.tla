---------------------------- MODULE RangePromise ----------------------------
(***************************************************************************)
(* What the header of RepairTracker (reassembly.ts) promises of the        *)
(* RESENDs of one transfer, told byte by byte: a missing byte that a timer *)
(* or early detection wants is asked for at once, unless it was asked for  *)
(* less than the repair delay ago.                                         *)
(***************************************************************************)
EXTENDS Naturals

CONSTANTS
    Size,      \* bytes of the transfer, in units
    Delays     \* the repair delays there may be

VARIABLES
    arrived,   \* the bytes that have arrived
    due,       \* each byte: time until its RESEND is overdue; 0 without one
    wanted,    \* the missing bytes the last step wanted
    sent       \* those it sent a RESEND for

Unit == 0..Size-1

promiseVars == <<arrived, due, wanted, sent>>

PromiseInit ==
    /\ arrived \in SUBSET Unit /\ due = [u \in Unit |-> 0]
    /\ wanted = {} /\ sent = {}

\* Bytes are wanted when the RESENDs under way have the given times left.
Ask(left) ==
    /\ wanted' \in SUBSET (Unit \ arrived')
    /\ sent' = {u \in wanted' : left[u] = 0}
    /\ \E delay \in Delays :
          due' = [u \in Unit |-> IF u \in sent' THEN delay ELSE left[u]]

Arrival == /\ arrived' \in SUBSET Unit /\ arrived \subseteq arrived'
           /\ Ask([u \in Unit |-> IF u \in arrived' THEN 0 ELSE due[u]])

Time == /\ arrived' = arrived
        /\ Ask([u \in Unit |-> IF due[u] = 0 THEN 0 ELSE due[u] - 1])

Promise == PromiseInit /\ [][Arrival \/ Time]_promiseVars
=============================================================================
