-------------------------- MODULE MCSessionRequests --------------------------
(* Instances of SessionRequests for TLC.                                   *)
EXTENDS SessionRequests

(* What nothing reads any more is left out: the fields of a caller that    *)
(* does not use them, the number of an empty buffer, the text and the end  *)
(* of requests that are neither current nor listened to.                   *)
Used(c) ==
    CASE at[c] = "restoring" -> <<how[c]>>
      [] at[c] = "opening"   -> <<req[c]>>
      [] at[c] = "listening" -> <<req[c], queue[c], got[c], heard[c], late[c]>>
      [] at[c] = "done"      -> <<req[c], got[c], late[c]>>
      [] OTHER -> <<>>
Asked == {rid} \cup {req[c] : c \in {d \in Caller : at[d] \in {"opening", "listening", "done"}}}

View == <<session, loop, rid, registered, buffer, IF buffer = <<>> THEN 0 ELSE bufId, raw, at,
          [c \in Caller |-> Used(c)], [r \in Asked |-> <<made[r], fate[r], r \in ended>>]>>
=============================================================================
