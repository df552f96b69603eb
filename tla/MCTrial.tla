------------------------------ MODULE MCTrial ------------------------------
(***************************************************************************)
(* Instances of Trial for TLC: a tool that anybody may call, one that      *)
(* needs an approval for its permission, and one that asks for an approval *)
(* itself and is denied for what it is able to do.  Usages below, at and   *)
(* above what the tools reserve.                                           *)
(***************************************************************************)
EXTENDS Trial

CONSTANTS free, asked, sworn, tokens, cost

Use(t, c) == [r \in Resources |-> IF r = tokens THEN t ELSE c]

Declared(permission, capabilities, requires, reserved) ==
  [permission |-> permission, capabilities |-> capabilities,
   requiresApproval |-> requires, reserved |-> reserved]

MCSpecs == [t \in {free, asked, sworn} |->
  CASE t = free  -> Declared("read", {}, FALSE, Use(1, 0))
    [] t = asked -> Declared("write", {"net"}, FALSE, Use(1, 1))
    [] t = sworn -> Declared("read", {"net", "disk"}, TRUE, Use(1, 0))]

MCPolicy == [tools |-> {free, asked, sworn}, permissions |-> {"read", "write"},
             capabilities |-> {"net"}, approvalTools |-> {},
             approvalPermissions |-> {"write"}]

MCMaxUsage == Use(2, 1)
MCUsages   == {Use(0, 0), Use(1, 0), Use(0, 2)}
=============================================================================
