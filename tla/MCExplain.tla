----------------------------- MODULE MCExplain -----------------------------
(* A sealed run with a component of two abstained targets, a member of each *)
(* and a reconciled line; answers that name, quote and begin with what the  *)
(* evidence holds, and with what it does not.                               *)
EXTENDS Explain, TLC

row(id, obs, entity, comp, state, value, suspense, cert) ==
  [id |-> id, obs |-> obs, entity |-> entity, comp |-> comp, state |-> state,
   value |-> value, suspense |-> suspense, cert |-> cert]

MCRows == <<
  row("dec_t1", "obs_t1", "setl_1", "comp_1", "ABSTAINED", "v_t1", TRUE, "k1"),
  row("dec_t2", "obs_t2", "setl_2", "comp_1", "ABSTAINED", "v_t2", TRUE, "k2"),
  row("dec_m", "obs_m", "pay_m", "comp_1", "ABSTAINED", "v_m", FALSE, "k2"),
  row("dec_r", "obs_r", "pay_r", Null, "RECONCILED", "v_r", FALSE, Null) >>

MCCerts ==
  [k1 |-> [comp |-> "comp_1", materiality |-> "mat_1",
           a |-> [cand |-> "cand_1", total |-> "sum_1", members |-> <<"obs_m">>],
           b |-> [cand |-> "cand_2", total |-> "sum_2", members |-> <<"obs_n">>]],
   k2 |-> [comp |-> "comp_1", materiality |-> "mat_2",
           a |-> [cand |-> "cand_3", total |-> "sum_3", members |-> <<"obs_m", "obs_n">>],
           b |-> [cand |-> "cand_4", total |-> "sum_4", members |-> <<"obs_m">>]]]

MCTerms == [obs_m |-> "term_m", obs_n |-> Null]

\* The field that begins with an identifier: that identifier, or a sentence.
Openings == {<<Null, Null>>, <<"obs_t2", "obs_t2">>, <<"obs_t2", "obs_t2 is open">>,
             <<"pay_x", "pay_x">>}

MCProse == {[tokens |-> t, figures |-> f, opens |-> o[1], field |-> o[2]] :
              t \in {{}, {"obs_m"}, {"setl_1"}, {"pay_x"}},
              f \in {{}, {"v_t1"}, {"v_r", "unresolved"}, {"sum_4"}},
              o \in Openings}
=============================================================================
