---------------------------- MODULE MCProbeLoop ----------------------------
(* Small instance of ProbeLoop: three observed settlements (2 is the       *)
(* target's own, 1 sorts before it, the report of 3 names nothing observed)*)
(* and a string not shaped like an id (4); components of every outcome,    *)
(* with the bounds (epsilon, tau) met exactly and missed by one.           *)
EXTENDS ProbeLoop, TLC

MCBatch == 1 :> {"m3"} @@ 2 :> {"m1", "m2"} @@ 3 :> {} @@ 4 :> {}

Booked ==
  [m1 |-> [bank |-> 30, fee |-> 5, receivable |-> 0 - 35],
   m2 |-> [bank |-> 90, fee |-> 5, receivable |-> 0 - 95],
   m3 |-> [bank |-> 70, receivable |-> 0 - 70]]

Component(allocations, lags) ==
  [exceeds_k_max |-> FALSE, target |-> 2, bank_evidence |-> TRUE,
   members |-> allocations, lag |-> lags, lines |-> DOMAIN lags,
   mode_days |-> modalLagDays(lags, DOMAIN lags),
   booked |-> Booked, total_value_paise |-> 195]

\* Two ticks to a day: all settled after two days; the first two half a day apart
\* from them; the second past the window; the third at its far end.
Even == [m1 |-> 4, m2 |-> 4, m3 |-> 4]
Late == [m1 |-> 7, m2 |-> 8, m3 |-> 4]
Past == [m1 |-> 4, m2 |-> 17, m3 |-> 4]
Far  == [m1 |-> 0, m2 |-> 0, m3 |-> 12]

TwoApart == <<{"m1", "m2"}, {"m3"}>>
TwoAlike == <<{"m1"}, {"m2"}>>
Three    == <<{"m3"}, {"m1", "m3"}, {"m1", "m2"}>>

MCComponents ==
  { Component(TwoApart, Even),         \* the target's report decides
    Component(TwoApart, Late),         \* it overturns the first rank
    \* no report can decide; material, above tau by one
    [Component(TwoAlike, Even) EXCEPT !.total_value_paise = 59999],
    Component(Three, Past),
    Component(TwoApart, Far),          \* discriminated, exactly at epsilon
    [Component(TwoApart, Far) EXCEPT !.lines = {"m3"}, !.mode_days = 6],
    [Component(TwoApart, Even) EXCEPT !.bank_evidence = FALSE],
    [Component(TwoApart, Even) EXCEPT !.total_value_paise = 60000],  \* immaterial, at tau
    Component(<<{"m1"}>>, Even),       \* unique
    [Component(<<>>, Even) EXCEPT !.target = NoId, !.bank_evidence = FALSE],  \* a bank line
    [Component(TwoApart, Even) EXCEPT !.exceeds_k_max = TRUE] }
=============================================================================
