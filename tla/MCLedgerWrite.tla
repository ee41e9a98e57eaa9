--------------------------- MODULE MCLedgerWrite ---------------------------
(* Small instance of LedgerWrite: one decision of each kind the path must  *)
(* tell apart, and totals that overflow on the third posted amount.        *)
EXTENDS LedgerWrite, TLC

CONSTANTS rec1, rec2, exc, abst, failed, uncertified, lopsided

MCAttr ==
  rec1        :> [type |-> "RECONCILED", failed |-> FALSE, certified |-> FALSE, dr |-> 2, cr |-> 2] @@
  rec2        :> [type |-> "RECONCILED", failed |-> FALSE, certified |-> FALSE, dr |-> 1, cr |-> 1] @@
  exc         :> [type |-> "EXCEPTION",  failed |-> FALSE, certified |-> FALSE, dr |-> 3, cr |-> 3] @@
  abst        :> [type |-> "ABSTAINED",  failed |-> FALSE, certified |-> TRUE,  dr |-> 0, cr |-> 0] @@
  failed      :> [type |-> "RECONCILED", failed |-> TRUE,  certified |-> FALSE, dr |-> 1, cr |-> 1] @@
  uncertified :> [type |-> "ABSTAINED",  failed |-> FALSE, certified |-> FALSE, dr |-> 1, cr |-> 1] @@
  lopsided    :> [type |-> "EXCEPTION",  failed |-> FALSE, certified |-> FALSE, dr |-> 2, cr |-> 1]
=============================================================================
