------------------------------ MODULE TextLog ------------------------------
(***************************************************************************)
(* What a session promises about texts: each request is a log that only    *)
(* the current request extends, until it is decided once and for all; a    *)
(* reader takes the log of its request piece by piece, in order, with      *)
(* nothing left out and nothing twice, and from the first piece unless it  *)
(* came late.  It is told of the end only when the request is decided or   *)
(* replaced.  How much of the log it has by then is not promised.          *)
(* SessionRequests implements this specification with one buffer and one   *)
(* stream of events for all requests.                                      *)
(***************************************************************************)
EXTENDS Naturals, Sequences

CONSTANTS Reader, MaxRid, MaxText

VARIABLES
    current,      \* the request whose log may grow
    made, fate,   \* length of each log, and what was decided
    mode,         \* of each reader: "off", "reading", "done"
    req, got,     \* its request and what it took
    late          \* it came when there was something to miss

vars == <<current, made, fate, mode, req, got, late>>

Init ==
    /\ current = 0
    /\ made = [r \in 0 .. MaxRid |-> 0]
    /\ fate = [r \in 0 .. MaxRid |-> IF r = 0 THEN "finished" ELSE "open"]
    /\ mode = [c \in Reader |-> "off"] /\ req = [c \in Reader |-> 0]
    /\ got = [c \in Reader |-> <<>>] /\ late = [c \in Reader |-> FALSE]

(* The n pieces of log r behind the first a.                               *)
Log(r, a, n) == [k \in 1 .. n |-> <<r, a + k>>]

Decide(r, end) == fate' = [fate EXCEPT ![r] = IF @ = "open" THEN end ELSE @]

(* Whoever comes before the first piece is not late.                       *)
Attach(c, r) ==
    /\ mode' = [mode EXCEPT ![c] = "reading"] /\ req' = [req EXCEPT ![c] = r]
    /\ got' = [got EXCEPT ![c] = <<>>]
    /\ \E l \in BOOLEAN : /\ l => made[r] > 0 \/ fate[r] = "failed"
                          /\ late' = [late EXCEPT ![c] = l]

Detach(c) ==
    /\ mode' = [mode EXCEPT ![c] = "off"] /\ req' = [req EXCEPT ![c] = 0]
    /\ got' = [got EXCEPT ![c] = <<>>] /\ late' = [late EXCEPT ![c] = FALSE]

(* A request begins, or not; c reads it or an older one, or nothing; or it *)
(* fails to begin.                                                         *)
Ask(c) ==
    /\ mode[c] # "reading"
    /\ current' \in {current, current + 1} /\ current' <= MaxRid
    /\ \/ (Detach(c) \/ \E r \in 0 .. current' : Attach(c, r)) /\ UNCHANGED fate
       \/ Detach(c) /\ Decide(current', "failed")
    /\ UNCHANGED made

Extend ==
    /\ fate[current] = "open" /\ made[current] < MaxText
    /\ made' = [made EXCEPT ![current] = @ + 1]
    /\ \/ Decide(current, "finished")
       \/ made[current] + 1 < MaxText /\ UNCHANGED fate
    /\ UNCHANGED <<current, mode, req, got, late>>

Stop ==
    /\ Decide(current, "failed") \/ Decide(current, "cancelled")
    /\ UNCHANGED <<current, made, mode, req, got, late>>

(* What comes next behind what c has.                                      *)
Continues(c, a) ==
    IF got[c] = <<>> THEN late[c] \/ a = 0
                     ELSE got[c][Len(got[c])] = <<req[c], a>>

Read(c) ==
    /\ mode[c] = "reading"
    /\ \E a \in 0 .. made[req[c]], n \in 1 .. made[req[c]] :
          /\ Continues(c, a) /\ a + n <= made[req[c]]
          /\ got' = [got EXCEPT ![c] = @ \o Log(req[c], a, n)]
    /\ UNCHANGED <<current, made, fate, mode, req, late>>

(* A request that another one replaced may be left open.                   *)
Told(c) ==
    /\ mode[c] = "reading" /\ (fate[req[c]] # "open" \/ req[c] # current)
    /\ mode' = [mode EXCEPT ![c] = "done"]
    /\ UNCHANGED <<current, made, fate, req, got, late>>

(* c is told of an error.                                                  *)
Fail(c) ==
    /\ mode[c] = "reading"
    /\ Detach(c)
    /\ UNCHANGED <<current, made, fate>>

Next ==
    \/ Extend \/ Stop
    \/ \E c \in Reader : Ask(c) \/ Read(c) \/ Told(c) \/ Fail(c)

Spec == Init /\ [][Next]_vars
=============================================================================
