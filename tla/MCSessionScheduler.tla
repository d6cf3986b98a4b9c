------------------------- MODULE MCSessionScheduler -------------------------
(* Instances of SessionScheduler for TLC.                                  *)
EXTENDS SessionScheduler

(* Text before an image at the end; the cap splits the image.              *)
SmallMedia == {<<Token, Image(2)>>}

(* After a failed decode nothing is claimed of the cells, and no guard     *)
(* reads them.                                                             *)
View == <<status, pending, nPos, nKeep, gap, called, turn, vision, last, signal, at,
          pass, didWork, [i \in Sess |-> IF gap[i] THEN {} ELSE cells[i]]>>
=============================================================================
