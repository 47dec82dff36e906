---------------------------- MODULE MCClientIntake ----------------------------
(***************************************************************************)
(* Small instances of ClientIntake.                                        *)
(***************************************************************************)
EXTENDS ClientIntake, TLC

\* Rows and requests are interchangeable, and no property is a liveness property.
RowSymmetry ==
    Permutations(Clients) \union Permutations(Matters) \union Permutations(Workers)

\* Bound: the plan is above the least one only while a matter is being made,
\* since nothing else asks for it.
PlanIsAskedFor ==
    (\E w \in Workers : req[w].op = "createMatter") \/ \A n \in Plans : maxMatters <= n
=============================================================================
