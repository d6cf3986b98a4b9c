------------------------------ MODULE SlotPool ------------------------------
(***************************************************************************)
(* What LlamaService promises about the sequence slots of its context,     *)
(* whatever happens inside: a slot is free or held by one session, it is   *)
(* taken only while free or handed over by its holder, and returning it    *)
(* makes it free once.  SessionService implements this specification.      *)
(***************************************************************************)
CONSTANTS Obj, Slot, NoObj

VARIABLES free, holder, open

Init ==
    /\ free = Slot
    /\ holder = [s \in Slot |-> NoObj]
    /\ open = TRUE

Take(s, o) ==
    /\ open /\ s \in free
    /\ free' = free \ {s}
    /\ holder' = [holder EXCEPT ![s] = o]
    /\ UNCHANGED open

(* The holder is evicted for another session.                              *)
HandOver(s, o) ==
    /\ open /\ holder[s] # NoObj
    /\ holder' = [holder EXCEPT ![s] = o]
    /\ UNCHANGED <<free, open>>

(* Several slots are returned at once when the service is persisted.       *)
Return(S) ==
    /\ open /\ S \cap free = {}
    /\ free' = free \cup S
    /\ holder' = [s \in Slot |-> IF s \in S THEN NoObj ELSE holder[s]]
    /\ UNCHANGED open

(* The context is freed with whatever is still held.                       *)
Close ==
    /\ open /\ open' = FALSE
    /\ holder' = [s \in Slot |-> NoObj]
    /\ UNCHANGED free

(* The next service starts with a context of its own.                      *)
Reopen ==
    /\ free' = Slot
    /\ holder' = [s \in Slot |-> NoObj]
    /\ open' = TRUE

Next ==
    \/ \E s \in Slot, o \in Obj : Take(s, o) \/ HandOver(s, o)
    \/ \E S \in SUBSET Slot : Return(S)
    \/ Close
    \/ Reopen

Spec == Init /\ [][Next]_<<free, holder, open>>
=============================================================================
