------------------------------ MODULE MCBarrier ------------------------------
EXTENDS Barrier, TLC
CONSTANTS s1, s2, t1, t2, b1, b2
TwoShards == <<s1, s2>>
Quiet == [foot |-> [t \in Txns |-> {}], foreign |-> {}, runs |-> {b1}, retired |-> {}, operator |-> FALSE, faults |-> 1]
Apart == [Quiet EXCEPT !.foot = (t1 :> {s1} @@ t2 :> {s2})]
Together == [Quiet EXCEPT !.foot[t1] = {s1, s2}]
ByHand == [Together EXCEPT !.foreign = {t1}]
Operated(p) == [p EXCEPT !.operator = TRUE]
Each(p) == {[p EXCEPT !.runs = {r}] : r \in Runs}
Writing == Each(Operated(Apart)) \cup Each(Operated(Together)) \cup {[ByHand EXCEPT !.runs = Runs]}
AnyRun == Permutations(Runs)
Overlap == [Quiet EXCEPT !.runs = {b1, b2}, !.retired = {s2}]
Interrupted == {[Quiet EXCEPT !.faults = 2], Overlap}
==============================================================================
