------------------------------ MODULE MCRelay -------------------------------
(***************************************************************************)
(* Two groups for TLC: a belongs to group 0, b and c to group 1.           *)
(***************************************************************************)
EXTENDS Relay, TLC

CONSTANTS m0, m1, m2, m3

Owners == "a" :> 0 @@ "b" :> 1 @@ "c" :> 1

Firsts == 0 :> "g0" @@ 1 :> "g1"

Out(t, i) == [hash |-> t, index |-> i]

\* Coinbases: two first ones, and those of miners of both groups.
Coinbases == "g0" :> <<"a">> @@ "g1" :> <<"b">> @@ m0 :> <<"a">> @@ m1 :> <<"b">>
             @@ m2 :> <<"a">> @@ m3 :> <<"b">>

\* a pays b and gets change, which he sends to c; b pays c with what he got, and
\* pays a.
Payments == "ab" :> <<"b", "a">> @@ "ac" :> <<"c">> @@ "bc" :> <<"c">> @@ "ba" :> <<"a">>

AllOutputs == Coinbases @@ Payments

AllInputs ==
    [t \in DOMAIN Coinbases |-> {}]
    @@ "ab" :> {Out("g0", 1)} @@ "ac" :> {Out("ab", 2)}
    @@ "bc" :> {Out("ab", 1)} @@ "ba" :> {Out("g1", 1)}

\* Coinbases that pay the same owner.
Symmetry == Permutations({m0, m2}) \cup Permutations({m1, m3})

=============================================================================
