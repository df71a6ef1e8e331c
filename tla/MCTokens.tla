------------------------------ MODULE MCTokens ------------------------------
(***************************************************************************)
(* A port and an action: the port has one reader or two, the action is     *)
(* logical or physical and has no spacing or one with any of the policies. *)
(***************************************************************************)
EXTENDS Tokens

CONSTANTS out, act

MCProgram(readers, spacing, policy_, physical) ==
  [num_destinations |-> (out :> readers), min_spacing |-> (act :> spacing),
   policy |-> (act :> policy_), is_physical |-> (act :> physical)]

MCNever == -2
MCStopTag == <<2, 0>>
MCPrograms ==
  {MCProgram(1, -1, "defer", FALSE), MCProgram(2, -1, "defer", FALSE), MCProgram(1, -1, "defer", TRUE)}
    \cup {MCProgram(1, 1, p, FALSE) : p \in {"defer", "drop", "replace", "update"}}

MCSymmetry == Permutations(Token) \cup Permutations(Value)
=============================================================================
