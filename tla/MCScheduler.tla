---- MODULE MCScheduler ----
EXTENDS Scheduler, TLC
CONSTANTS r1, r2, r3
MCClass == r1 :> "elevated" @@ r2 :> "background" @@ r3 :> "elevated"
MCJob == r1 :> 2 @@ r2 :> 1 @@ r3 :> 1
MCWeight == [elevated |-> 2, background |-> 1]
MCLoads == {[requests |-> {}, leaves |-> 0, cycles |-> 3, starts |-> 2, time |-> 0],
            [requests |-> {r1, r2}, leaves |-> 1, cycles |-> 4, starts |-> 0, time |-> 1],
            [requests |-> {r1, r2, r3}, leaves |-> 0, cycles |-> 1, starts |-> 0, time |-> 2],
            [requests |-> {r1}, leaves |-> 1, cycles |-> 2, starts |-> 1, time |-> 1]}
MCProcessLoad == {[requests |-> {}, leaves |-> 0, cycles |-> 1, starts |-> 1, time |-> 0]}
ThreadsInterchangeable == Permutations(Threads)
====
