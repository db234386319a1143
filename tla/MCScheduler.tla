----------------------------- MODULE MCScheduler -----------------------------
(* Scheduler on small instances: weights that make the byte bound bite before *)
(* the size bound for some orders of arrival and after it for others; two     *)
(* Shutdowns, for one that overtakes or follows another that expired.         *)
EXTENDS Scheduler

CONSTANTS r1, r2, r3, w1, w2, s1, s2

\* The calls of Shutdown are interchangeable: no fairness condition and no
\* temporal property names one, and every other definition quantifies over all of
\* them, so exchanging two changes neither an invariant nor which of the fair
\* actions are enabled or taken.  That is what makes it sound for WorkersDrain too.
MCSymmetry == Permutations(Stoppers)

MCWeight == [r \in Requests |-> IF r = r1 THEN 1 ELSE 2]
=============================================================================
