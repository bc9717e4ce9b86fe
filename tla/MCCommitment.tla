----------------------------- MODULE MCCommitment -----------------------------
EXTENDS Commitment

Generator(up, down, cutoffs) ==
  [minUp |-> up, minDown |-> down, cutoffs |-> cutoffs]

(* Times shorter than a timepoint, as long as one or several, and longer than  *)
(* a horizon; none to three start types.                                       *)
MCUnits == {Generator(3, 1, <<1, 2, 4>>), Generator(2, 2, <<2, 3>>),
            Generator(1, 3, <<>>), Generator(4, 0, <<0, 2>>)}

MCHorizonHours == UNION {[1..n -> 1..2] : n \in 1..3}
===============================================================================
