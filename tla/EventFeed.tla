----------------------------- MODULE EventFeed -----------------------------
(***************************************************************************)
(* What the event log of a project promises (ADR-0002): one append-only    *)
(* order of events, and readers who each receive it from the start, in     *)
(* that order, without gaps or repetitions, whatever their connections do. *)
(***************************************************************************)
EXTENDS Naturals, Sequences

CONSTANTS Commands,  \* what appends events
          Readers,
          MaxAppends \* the most events one command appends

VARIABLES log,      \* the published events in order: <<c, k>> is the k-th of command c
          received  \* the events each reader has received

vars == <<log, received>>

Init ==
    /\ log = <<>>
    /\ received = [r \in Readers |-> <<>>]

\* The events of one command are published together.
Publish(c, n) ==
    /\ log' = log \o [k \in 1..n |-> <<c, k>>]
    /\ UNCHANGED received

Deliver(r) ==
    /\ Len(received[r]) < Len(log)
    /\ received' = [received EXCEPT ![r] = Append(@, log[Len(@) + 1])]
    /\ UNCHANGED log

\* A reader that is reloaded starts again from the beginning.
Forget(r) ==
    /\ received' = [received EXCEPT ![r] = <<>>]
    /\ UNCHANGED log

Next ==
    \/ \E c \in Commands, n \in 1..MaxAppends : Publish(c, n)
    \/ \E r \in Readers : Deliver(r) \/ Forget(r)

Spec == Init /\ [][Next]_vars
=============================================================================
