---------------------------- MODULE DecisionLog ----------------------------
(***************************************************************************)
(* What the ledger promises its readers, without chains, stores or crashes:*)
(* a log that only grows, in which an admissible decision appears at most  *)
(* once ("one event per decision", packages/ledger/src/write.ts:347-356).  *)
(***************************************************************************)
EXTENDS Sequences, Naturals

CONSTANT Admissible     \* the decisions the write path may book at all

VARIABLE log            \* the decisions booked, in order

Logged == {log[i] : i \in DOMAIN log}

Init == log = <<>>

Book(d) == /\ d \notin Logged
           /\ log' = Append(log, d)

Next == \E d \in Admissible : Book(d)

Spec == Init /\ [][Next]_log
=============================================================================
