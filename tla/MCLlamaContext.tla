--------------------------- MODULE MCLlamaContext ---------------------------
(* Instances of LlamaContext for TLC.                                      *)
EXTENDS LlamaContext

(* What no guard and no invariant reads is left out: nPrompt and due, the  *)
(* position of an empty batch, the nPast of a stream that has ended, the   *)
(* contents of a freed slot, the backend of an instance that never trims.  *)
View == <<slots, current, [s \in slots |-> <<nPos[s], cells[s]>>],
          n, IF n = 0 THEN 0 ELSE pos, status, stream, meddled, autoTrim,
          IF stream = "media" THEN past ELSE 0, IF autoTrim THEN backend ELSE "",
          <<saved.pos, saved.cells>>>>
=============================================================================
