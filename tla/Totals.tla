------------------------------- MODULE Totals -------------------------------
(***************************************************************************)
(* Sums of natural numbers over a finite set.  Total(f) counts the tickets *)
(* numbered 1..f[x] that every x holds, so that what is known about the    *)
(* cardinality of finite sets is known about sums.                         *)
(***************************************************************************)
EXTENDS Integers, FiniteSets

Tickets(f) == UNION {{x} \X (1..f[x]) : x \in DOMAIN f}
Total(f) == Cardinality(Tickets(f))

=============================================================================
