---------------------------- MODULE GroundTruth ----------------------------
(***************************************************************************)
(* The answer key of a dataset, as packages/generator writes it and its    *)
(* readers project it: which settlement every line is in, and which        *)
(* settlements a line of was withheld from the observations.               *)
(***************************************************************************)
EXTENDS Candidates

\* A line of the merchant's: settled, in INR, not on hold, a refund of an order it was
\* paid on.
OfMerchant(m) == obs[m].settled # 0 /\ c1({m}) /\ c2Refund({m}) /\ c8({m})

\* Every such line is in one settlement, the one it names if it still names any;
\* a settlement is the net of its lines, who settle at one instant, before its
\* credit arrives.
Truths ==
  LET ids == {obs[s].entity : s \in Settlements}
      net(f, s) == Net({m \in MemberEligible : f[m] = obs[s].entity})
      conforms(f, withheld) ==
        /\ \A m \in MemberEligible : /\ f[m] # 0 <=> OfMerchant(m)
                                    /\ obs[m].settlement \in {0, f[m]}
        /\ \A m, n \in MemberEligible : f[m] = f[n] => obs[m].settled = obs[n].settled
        /\ \A m \in MemberEligible, s \in Settlements : \A b \in CreditsFor(s) :
             f[m] = obs[s].entity => obs[m].settled <= obs[b].value_date
        /\ \A s \in Settlements : IF obs[s].entity \in withheld THEN net(f, s) < obs[s].amount
                                  ELSE net(f, s) = obs[s].amount
  IN  {x \in [line : [MemberEligible -> ids \cup {0}], withheld : SUBSET ids] :
         conforms(x.line, x.withheld)}

\* The true members of a settlement that the dataset shows.
MembersIn(line, s) == {m \in DOMAIN line : line[m] = obs[s].entity}
=============================================================================
