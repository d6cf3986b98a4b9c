------------------------- MODULE MCIsolateProtocol -------------------------
(* Instances of IsolateProtocol for TLC.                                   *)
EXTENDS IsolateProtocol, TLC

CONSTANTS p1, p2, s1

(* One prompt of a scope, one without.                                     *)
OneScoped == p1 :> s1 @@ p2 :> NoScope
=============================================================================
