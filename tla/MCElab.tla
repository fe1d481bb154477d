------------------------------- MODULE MCElab -------------------------------
(***************************************************************************)
(* Instances of Elaboration for TLC: three unknown rows, two fields, one   *)
(* of them under two spellings, and two rigid rows.  The equations reach   *)
(* every rule of unify_rows from both sides.  The first two tails are not  *)
(* equated with each other beside the rigid row R alone: a row             *)
(* ?1 ++ ?2 that has become ?1 ++ ?1 is solved twice by the rigid-row rule.*)
(***************************************************************************)
EXTENDS Elaboration

CONSTANTS A, B, a, R, S, int, string

MCCanon == [n \in {A, B, a} |-> IF n = a THEN A ELSE n]

FA == <<Field(A, int)>>
Fa == <<Field(a, string)>>
FB == <<Field(B, int)>>
U(c) == <<Unif(c)>>
RR == <<Rigid(R)>>
SS == <<Rigid(S)>>

MCEquations ==
    { <<U(2), FB>>,
      <<U(3), U(1) \o U(2)>>,
      <<U(1), FA \o U(1)>>,
      <<U(1) \o U(2), RR>>,
      <<U(1) \o U(2), FA \o FB>>,
      <<U(1) \o U(2), RR \o SS>>,
      <<U(1) \o U(2), FA \o U(3)>>,
      <<FA \o U(2), FB \o U(3)>>,
      <<FA \o U(1), Fa \o U(3)>>,
      <<RR \o U(1), FA \o U(2)>>,
      <<RR \o U(1) \o U(2), SS \o RR>> }

MCApart == { <<U(1), FA>>, <<U(2), U(3)>>, <<U(1) \o FB, RR>> }
MCAssumptions == { <<FB, RR>> }
MCFolders == { U(1), U(1) \o U(2) }
=============================================================================
