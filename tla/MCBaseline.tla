----------------------------- MODULE MCBaseline -----------------------------
(* The instance of Baseline for TLC.                                         *)
EXTENDS Baseline, TLC

Symmetry == Permutations(Keys) \cup Permutations(Vals)

\* averageFloat64 leaves out two values that no other is less than and two
\* that no other exceeds, for every list of up to seven of three numbers.
ASSUME AverageOfTheMiddle ==
    \A n \in 0 .. 7 : \A s \in [1 .. n -> 0 .. 2] :
        LET a == averageFloat64(s) IN
        \/ n < 5 /\ a = <<0, 1>>
        \/ \E low, high \in kSubset(2, DOMAIN s) :
            LET middle == DOMAIN s \ (low \cup high) IN
            /\ low \cap high = {}
            /\ \A i \in low, j \in middle \cup high : s[i] <= s[j]
            /\ \A i \in low \cup middle, j \in high : s[i] <= s[j]
            /\ a = <<MapThenSumSet(LAMBDA i : s[i], middle), n - 4>>
=============================================================================
