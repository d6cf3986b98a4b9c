-------------------------- MODULE MCSessionService --------------------------
(* Instances of SessionService for TLC.                                    *)
EXTENDS SessionService, TLC

Symmetry == Permutations(Id) \cup Permutations(Obj) \cup Permutations(Slot)
            \cup Permutations(Caller)

(* Two states that differ only in the fields of garbage are one.           *)
Field(f) == [o \in Obj |-> IF Reachable(o) THEN <<f[o]>> ELSE <<>>]
View == <<slots, io, call, loop, shutdown, Field(ident), Field(status),
          Field(tier), Field(seq), Field(buf), Field(archived), Field(nPos),
          Field(pending)>>
=============================================================================
