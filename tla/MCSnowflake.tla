----------------------------- MODULE MCSnowflake -----------------------------
(* Instances of Snowflake for TLC: two bits of machine id, one of sequence. *)
EXTENDS Snowflake, TLC

CONSTANTS g1, g2, g3, p1, p2

Sym == Permutations({g1, g2})

\* g1 and g2 contend for the generator of p1; g3 is alone in p2.
MCServerOf == (g1 :> p1) @@ (g2 :> p1) @@ (g3 :> p2)
MCMachine == (p1 :> 1) @@ (p2 :> 2)

MCOr == [x \in MachineIds \X MachineIds |->
           LET bit(n, k) == (n \div k) % 2
               or(k) == IF bit(x[1], k) + bit(x[2], k) > 0 THEN k ELSE 0
           IN  or(1) + or(2)]
==============================================================================
