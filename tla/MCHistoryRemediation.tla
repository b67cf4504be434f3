------------------------ MODULE MCHistoryRemediation ------------------------
(* Small lanes for model checking HistoryRemediation.                      *)
EXTENDS HistoryRemediation

CONSTANTS cheap, dear      \* amounts

Observed(t, a, until, disputed, occ) ==
    [fact |-> [at |-> t, amount |-> a],
     state |-> [until |-> until, disputed |-> disputed, rolled |-> FALSE],
     stamp |-> 0, occ |-> occ]

(* A row as it should be, and the next one recorded twice and closed when  *)
(* it opened.                                                              *)
Duplicated ==
    <<Observed(1, cheap, 2, FALSE, 1), Observed(2, dear, 2, FALSE, 1),
      Observed(2, dear, 2, FALSE, 1)>>

(* Two facts of one instant, undisputed: a plan that may not be applied.   *)
Contradicted ==
    <<Observed(1, cheap, Open, FALSE, 1), Observed(1, dear, Open, FALSE, 1)>>

(* A disputed fact left alone, which cannot have an interval: excluded.    *)
Stranded ==
    <<Observed(1, cheap, 1, TRUE, 1), Observed(2, dear, 2, FALSE, 1)>>

Lanes == {Duplicated, Contradicted, Stranded}

Prices == {[at |-> 2, amount |-> cheap], [at |-> 3, amount |-> cheap]}

=============================================================================
