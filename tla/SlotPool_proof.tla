--------------------------- MODULE SlotPool_proof ---------------------------
(***************************************************************************)
(* SessionService implements SlotPool: whatever a step of the service does *)
(* to _freeSeqIds, _sessionsBySeqId and the reservations of suspended      *)
(* restores is one step of the abstract pool, or none.                     *)
(***************************************************************************)
EXTENDS SessionService_proof

freeSlots == {s \in Slot : nFree[s] > 0}

(* What holder says, without its CHOOSE.                                   *)
HolderOK ==
    \A s \in Slot :
        /\ bySeq[s] # NoObj => holder[s] = bySeq[s] /\ s \notin freeSlots
        /\ \A c \in Holders(s) : holder[s] = call[c].obj /\ s \notin freeSlots
        /\ (bySeq[s] = NoObj /\ Holders(s) = {}) => holder[s] = NoObj /\ s \in freeSlots
        /\ s \in freeSlots <=> holder[s] = NoObj
        /\ s \in freeSlots <=> nFree[s] = 1

LEMMA HolderIs == IInv /\ ~ContextFreed => HolderOK
<1> SUFFICES ASSUME IInv, ~ContextFreed, NEW s \in Slot
             PROVE  /\ bySeq[s] # NoObj => holder[s] = bySeq[s] /\ s \notin freeSlots
                    /\ \A c \in Holders(s) : holder[s] = call[c].obj /\ s \notin freeSlots
                    /\ (bySeq[s] = NoObj /\ Holders(s) = {})
                          => holder[s] = NoObj /\ s \in freeSlots
                    /\ s \in freeSlots <=> holder[s] = NoObj
                    /\ s \in freeSlots <=> nFree[s] = 1
  BY DEF HolderOK
<1> USE Nulls
<1>1. /\ nFree[s] \in {0, 1}
      /\ nFree[s] = 1 <=> (bySeq[s] = NoObj /\ Holders(s) = {})
      /\ bySeq[s] # NoObj => Holders(s) = {}
      /\ \A c, d \in Holders(s) : c = d
  BY DEF IInv, SlotsOK, SlotAccounting
<1>2. CASE bySeq[s] # NoObj
  BY <1>1, <1>2 DEF holder, freeSlots, IInv, TypeOK
<1>3. CASE bySeq[s] = NoObj /\ Holders(s) = {}
  BY <1>1, <1>3 DEF holder, freeSlots
<1>4. CASE bySeq[s] = NoObj /\ Holders(s) # {}
  <2>1. PICK c \in Caller : c \in Holders(s)
    BY <1>4 DEF Holders
  <2>2. (CHOOSE d \in Holders(s) : TRUE) = c
    BY <1>1, <2>1
  <2>3. holder[s] = call[c].obj /\ call[c].obj \in Obj
    BY <1>4, <2>1, <2>2 DEF holder, Holders, IInv, CallOK
  <2> QED BY <1>1, <1>4, <2>1, <2>3 DEF freeSlots
<1> QED BY <1>2, <1>3, <1>4

LEMMA HolderIsPrimed == IInv' /\ ~ContextFreed' => HolderOK'
  BY HolderIs, PTL

LEMMA HolderTyped ==
  ASSUME IInv', NEW q \in Slot, holder'[q] # NoObj
  PROVE  holder'[q] \in Obj
<1>1. CASE bySeq'[q] # NoObj
  BY <1>1 DEF holder, IInv, TypeOK
<1>2. CASE bySeq'[q] = NoObj
  <2>1. PICK c \in Caller : c \in Holders(q)' /\ holder'[q] = call'[c].obj
    <3>1. Holders(q)' # {}
      BY <1>2 DEF holder
    <3>2. (CHOOSE c \in Holders(q)' : TRUE) \in Holders(q)'
      BY <3>1
    <3>3. holder'[q] = call'[CHOOSE c \in Holders(q)' : TRUE].obj
      BY <1>2, <3>1 DEF holder
    <3> QED BY <3>2, <3>3 DEF Holders
  <2> QED BY <2>1 DEF Holders, IInv, CallOK
<1> QED BY <1>1, <1>2

(* A step that moves no slot.                                              *)
LEMMA PoolQuiet ==
  ASSUME ReadsKept, UNCHANGED <<bySeq, nFree>>, ContextFreed' <=> ContextFreed
  PROVE  UNCHANGED <<freeSlots, holder>> /\ (~ContextFreed)' = ~ContextFreed
<1>1. \A s \in Slot : Holders(s)' = Holders(s)
  BY HoldersKept
<1>2. \A s \in Slot : \A c \in Holders(s) : call'[c].obj = call[c].obj
  BY DEF ReadsKept, Holders
<1>3. \A s \in Slot : Holders(s) # {} => (CHOOSE c \in Holders(s) : TRUE) \in Holders(s)
  OBVIOUS
<1>4. holder' = holder
  BY <1>1, <1>2, <1>3 DEF holder
<1> QED BY <1>4 DEF freeSlots

LEMMA HolderFcn == holder = [s \in Slot |-> holder[s]] /\ holder' = [s \in Slot |-> holder'[s]]
  BY DEF holder

PoolStep == Pool!Next \/ UNCHANGED <<freeSlots, holder, ~ContextFreed>>

LEMMA ReturnStep ==
  ASSUME ~ContextFreed, ~ContextFreed', NEW S \in SUBSET Slot, S \cap freeSlots = {},
         freeSlots' = freeSlots \cup S,
         \A s \in Slot : holder'[s] = IF s \in S THEN NoObj ELSE holder[s]
  PROVE  PoolStep
<1>1. holder' = [s \in Slot |-> IF s \in S THEN NoObj ELSE holder[s]]
  BY HolderFcn
<1>2. Pool!Return(S)
  BY <1>1 DEF Pool!Return, freeSlots
<1> QED BY <1>2 DEF PoolStep, Pool!Next

LEMMA SameHolder ==
  ASSUME HolderOK, HolderOK', NEW s \in Slot,
         bySeq'[s] = bySeq[s], Holders(s)' = Holders(s),
         \A c \in Holders(s) : call'[c] = call[c]
  PROVE  holder'[s] = holder[s]
<1>1. CASE bySeq[s] # NoObj
  BY <1>1 DEF HolderOK
<1>2. CASE bySeq[s] = NoObj /\ Holders(s) = {}
  BY <1>2 DEF HolderOK
<1>3. CASE bySeq[s] = NoObj /\ Holders(s) # {}
  <2>1. PICK c \in Caller : c \in Holders(s) /\ c \in Holders(s)' /\ call'[c] = call[c]
    BY <1>3 DEF Holders
  <2>2. holder[s] = call[c].obj
    BY <2>1 DEF HolderOK
  <2>3. holder'[s] = call'[c].obj
    BY <2>1 DEF HolderOK
  <2> QED BY <2>1, <2>2, <2>3
<1> QED BY <1>1, <1>2, <1>3

LEMMA SameAll ==
  ASSUME freeSlots' = freeSlots, holder' = holder, ~ContextFreed, ~ContextFreed'
  PROVE  PoolStep
<1>1. (~ContextFreed)' = ~ContextFreed
  OBVIOUS
<1> QED BY <1>1 DEF PoolStep

(* A step that changes the place of one slot only, whatever its new place. *)
LEMMA OneSlot ==
  ASSUME HolderOK, HolderOK', IInv', ~ContextFreed, ~ContextFreed', NEW q \in Slot,
         \A s \in Slot \ {q} : /\ bySeq'[s] = bySeq[s] /\ Holders(s)' = Holders(s)
                              /\ \A c \in Holders(s) : call'[c] = call[c]
  PROVE  PoolStep
<1>1. \A s \in Slot \ {q} : holder'[s] = holder[s]
  BY SameHolder
<1>2. /\ freeSlots \subseteq Slot /\ freeSlots' \subseteq Slot
      /\ \A s \in Slot : s \in freeSlots <=> holder[s] = NoObj
      /\ \A s \in Slot : s \in freeSlots' <=> holder'[s] = NoObj
  BY DEF HolderOK, freeSlots
<1>3. holder' = [holder EXCEPT ![q] = holder'[q]]
  BY <1>1, HolderFcn
<1>4. CASE holder'[q] = NoObj /\ holder[q] # NoObj
  <2>1. freeSlots' = freeSlots \cup {q} /\ {q} \cap freeSlots = {}
    BY <1>1, <1>2, <1>4
  <2>2. \A s \in Slot : holder'[s] = IF s \in {q} THEN NoObj ELSE holder[s]
    BY <1>1, <1>4
  <2> QED BY <2>1, <2>2, ReturnStep
<1>5. CASE holder'[q] # NoObj /\ holder[q] = NoObj
  <2>1. freeSlots' = freeSlots \ {q} /\ q \in freeSlots
    BY <1>1, <1>2, <1>5
  <2>2. PICK o \in Obj : o = holder'[q]
    BY <1>5, HolderTyped
  <2>3. Pool!Take(q, o)
    BY <1>3, <2>2, <2>1 DEF Pool!Take, freeSlots
  <2> QED BY <2>2, <2>3 DEF PoolStep, Pool!Next
<1>6. CASE holder'[q] # NoObj /\ holder[q] # NoObj
  <2>1. freeSlots' = freeSlots
    BY <1>1, <1>2, <1>6
  <2>2. PICK o \in Obj : o = holder'[q]
    BY <1>6, HolderTyped
  <2>3. Pool!HandOver(q, o)
    BY <1>3, <2>2, <1>6, <2>1 DEF Pool!HandOver, freeSlots
  <2> QED BY <2>2, <2>3 DEF PoolStep, Pool!Next
<1>7. CASE holder'[q] = NoObj /\ holder[q] = NoObj
  <2>1. freeSlots' = freeSlots /\ holder' = holder
    BY <1>1, <1>2, <1>3, <1>7, HolderFcn
  <2> QED BY <2>1, SameAll
<1> QED BY <1>4, <1>5, <1>6, <1>7

LEMMA QuietStep ==
  ASSUME ReadsKept, UNCHANGED <<bySeq, nFree>>, ContextFreed' <=> ContextFreed
  PROVE  PoolStep
  BY PoolQuiet DEF PoolStep

LEMMA PoolDetach ==
  ASSUME IInv, IInv', ReadsKept, NEW i \in Id, sessions[i] # NoObj, Detach(i),
         UNCHANGED shutdown
  PROVE  PoolStep
<1> USE Nulls
<1>1. ~ContextFreed /\ ~ContextFreed'
  BY DEF IInv, SlotsOK, GoneIsEmpty, ContextFreed
<1>2. CASE seq[sessions[i]] = NoSlot
  BY <1>1, <1>2, QuietStep DEF Detach
<1>3. CASE seq[sessions[i]] # NoSlot
  <2> DEFINE q == seq[sessions[i]]
  <2>1. q \in Slot /\ GiveBack(q)
    BY <1>3 DEF Detach, IInv, TypeOK
  <2>2. \A s \in Slot \ {q} : bySeq'[s] = bySeq[s]
    BY <2>1 DEF GiveBack, IInv, TypeOK
  <2>3. \A s \in Slot : /\ Holders(s)' = Holders(s)
                        /\ \A c \in Holders(s) : call'[c] = call[c]
    BY HoldersKept DEF ReadsKept, Holders
  <2>4. HolderOK /\ HolderOK'
    BY <1>1, HolderIs, HolderIsPrimed
  <2> HIDE DEF q
  <2> QED BY <1>1, <2>1, <2>2, <2>3, <2>4, OneSlot
<1> QED BY <1>2, <1>3

(* A restore moves the slot it acquires, a read the slot it had reserved.  *)
LEMMA PoolAcquire ==
  ASSUME IInv, IInv', NEW c \in Caller, NEW i \in Id, NEW b \in BOOLEAN,
         PromptWarm(c, i, b) \/ PromptCold(c, i, b)
  PROVE  PoolStep
<1> USE Nulls
<1>1. ~ContextFreed /\ ~ContextFreed' /\ call[c].pc = "idle"
  BY DEF PromptWarm, PromptCold, Reserve, CanPrompt, IInv, SlotsOK, GoneIsEmpty, ContextFreed
<1>2. PICK q \in Slot : \A s \in Slot \ {q} :
          bySeq'[s] = bySeq[s] /\ ~ (call'[c].pc = "reading" /\ call'[c].slot = s)
  <2>1. CASE PromptWarm(c, i, b)
    <3>1. call'[c].pc = "resume"
      BY <2>1 DEF PromptWarm, IInv, TypeOK, Idle
    <3>2. PICK q \in Slot : bySeq' = [bySeq EXCEPT ![q] = sessions[i]]
      BY <2>1 DEF PromptWarm
    <3> QED BY <3>1, <3>2 DEF IInv, TypeOK
  <2>2. CASE PromptCold(c, i, b)
    <3>1. PICK q \in Slot : /\ bySeq' = [bySeq EXCEPT ![q] = NoObj]
                            /\ call' = [call EXCEPT ![c] = [Idle EXCEPT !.pc = "reading",
                                 !.id = i, !.obj = sessions[i], !.slot = q, !.clear = b]]
      BY <2>2 DEF PromptCold, Reserve
    <3>2. call'[c].slot = q
      BY <3>1 DEF IInv, TypeOK, Idle
    <3> QED BY <3>1, <3>2 DEF IInv, TypeOK
  <2> QED BY <2>1, <2>2
<1>3. \A d \in Caller \ {c} : call'[d] = call[d]
  <2>1. CASE PromptWarm(c, i, b)
    BY <2>1 DEF PromptWarm, IInv, TypeOK
  <2>2. CASE PromptCold(c, i, b)
    <3>1. PICK r : call' = [call EXCEPT ![c] = r]
      BY <2>2 DEF PromptCold, Reserve
    <3> QED BY <3>1 DEF IInv, TypeOK
  <2> QED BY <2>1, <2>2
<1>4. \A s \in Slot \ {q} : /\ Holders(s)' = Holders(s)
                            /\ \A d \in Holders(s) : call'[d] = call[d]
  BY <1>1, <1>2, <1>3 DEF Holders
<1>5. HolderOK /\ HolderOK'
  BY <1>1, HolderIs, HolderIsPrimed
<1> QED BY <1>1, <1>2, <1>4, <1>5, OneSlot

LEMMA PoolRead ==
  ASSUME IInv, IInv', NEW c \in Caller, ReadDone(c) \/ ReadFail(c)
  PROVE  PoolStep
<1> USE Nulls
<1> DEFINE q == call[c].slot
<1>1. ~ContextFreed /\ ~ContextFreed' /\ call[c].pc = "reading" /\ q \in Slot
  BY DEF ReadDone, Bind, ReadFail, GiveUp, IInv, CallOK, ContextFreed
<1>2. \A s \in Slot \ {q} : bySeq'[s] = bySeq[s]
  BY DEF ReadDone, Bind, ReadFail, GiveUp, IInv, TypeOK
<1>3. call'[c].pc # "reading" /\ \A d \in Caller \ {c} : call'[d] = call[d]
  BY DEF ReadDone, Bind, ReadFail, GiveUp, IInv, TypeOK, Call, Idle
<1>4. \A s \in Slot \ {q} : /\ Holders(s)' = Holders(s)
                            /\ \A d \in Holders(s) : call'[d] = call[d]
  BY <1>1, <1>3 DEF Holders
<1>5. HolderOK /\ HolderOK'
  BY <1>1, HolderIs, HolderIsPrimed
<1> HIDE DEF q
<1> QED BY <1>1, <1>2, <1>4, <1>5, OneSlot

LEMMA PoolEvictAll ==
  ASSUME IInv, IInv', PersistEvict
  PROVE  PoolStep
<1> USE Nulls
<1> DEFINE hot == {o \in Obj : Live(o) /\ tier[o] = "hot" /\ seq[o] # NoSlot}
           left == {seq[o] : o \in hot}
<1>1. /\ bySeq' = [s \in Slot |-> IF s \in left THEN NoObj ELSE bySeq[s]]
      /\ nFree' = [s \in Slot |-> IF s \in left THEN nFree[s] + 1 ELSE nFree[s]]
      /\ UNCHANGED call /\ ~ContextFreed /\ ~ContextFreed'
  BY DEF PersistEvict, ContextFreed
<1>2. left \subseteq Slot /\ \A s \in left : bySeq[s] # NoObj
  BY <1>1 DEF IInv, SlotsOK, BoundIsMapped, TypeOK
<1> HIDE DEF hot, left
<1>3. HolderOK /\ HolderOK'
  BY <1>1, HolderIs, HolderIsPrimed
<1>4. \A s \in left : s \notin freeSlots /\ nFree[s] = 0 /\ Holders(s) = {}
  BY <1>1, <1>2, <1>3 DEF HolderOK, IInv, SlotsOK, SlotAccounting
<1>5. \A s \in Slot : Holders(s)' = Holders(s)
  BY <1>1 DEF Holders
<1>6. freeSlots' = freeSlots \cup left
  BY <1>1, <1>2, <1>4 DEF freeSlots
<1>7. \A s \in Slot : holder'[s] = IF s \in left THEN NoObj ELSE holder[s]
  <2> SUFFICES ASSUME NEW s \in Slot
               PROVE  holder'[s] = IF s \in left THEN NoObj ELSE holder[s]
    OBVIOUS
  <2>1. CASE s \in left
    BY <1>1, <1>3, <1>4, <1>5, <2>1 DEF HolderOK
  <2>2. CASE s \notin left
    BY <1>1, <1>3, <1>5, <2>2, SameHolder
  <2> QED BY <2>1, <2>2
<1> QED BY <1>1, <1>2, <1>4, <1>6, <1>7, ReturnStep

LEMMA PoolTeardown ==
  ASSUME IInv, Teardown
  PROVE  PoolStep
<1>1. ~ContextFreed /\ ContextFreed' /\ UNCHANGED freeSlots
  BY DEF Teardown, ContextFreed, freeSlots
<1>2. holder' = [s \in Slot |-> NoObj]
  BY <1>1 DEF holder
<1>3. Pool!Close
  BY <1>1, <1>2 DEF Pool!Close, freeSlots, ContextFreed
<1> QED BY <1>3 DEF PoolStep, Pool!Next

LEMMA PoolRestart ==
  ASSUME Restart
  PROVE  PoolStep
<1>1. ~ContextFreed' /\ freeSlots' = Slot /\ \A s \in Slot : Holders(s)' = {}
  BY DEF Restart, ContextFreed, freeSlots, Holders, Idle
<1>2. holder' = [s \in Slot |-> NoObj]
  BY <1>1 DEF holder, Restart
<1>3. Pool!Reopen
  BY <1>1, <1>2 DEF Pool!Reopen, freeSlots
<1> QED BY <1>3 DEF PoolStep, Pool!Next

LEMMA PoolNext ==
  ASSUME IInv, IInv', Next
  PROVE  PoolStep
<1>1. ASSUME NEW i \in Id, CreateSession(i) \/ Cancel(i) PROVE PoolStep
  <2>1. ReadsKept /\ UNCHANGED <<bySeq, nFree>> /\ (ContextFreed' <=> ContextFreed)
    BY <1>1 DEF CreateSession, Cancel, slots, ReadsKept, ContextFreed
  <2> QED BY <2>1, QuietStep
<1>2. ASSUME NEW i \in Id, FreeSession(i) PROVE PoolStep
  BY <1>2, PoolDetach DEF FreeSession, ReadsKept
<1>3. ASSUME NEW c \in Caller, NEW i \in Id, NEW b \in BOOLEAN, PromptHot(c, i, b)
      PROVE  PoolStep
  BY <1>3, QuietStep DEF PromptHot, ReadsKept, ContextFreed
<1>4. ASSUME NEW c \in Caller, NEW i \in Id, NEW b \in BOOLEAN,
             PromptWarm(c, i, b) \/ PromptCold(c, i, b)
      PROVE  PoolStep
  BY <1>4, PoolAcquire
<1>5. ASSUME NEW c \in Caller, NEW i \in Id, PromptNoSlot(c, i) PROVE PoolStep
  BY <1>5, QuietStep DEF PromptNoSlot, slots, ReadsKept, ContextFreed
<1>6. ASSUME NEW c \in Caller, NEW i \in Id, FreeAndDelete(c, i) PROVE PoolStep
  <2>1. ReadsKept
    BY <1>6 DEF FreeAndDelete, ReadsKept, IInv, TypeOK, Idle
  <2> QED BY <1>6, <2>1, PoolDetach DEF FreeAndDelete
<1>7. ASSUME NEW c \in Caller, ReadDone(c) \/ ReadFail(c) PROVE PoolStep
  BY <1>7, PoolRead
<1>8. ASSUME NEW c \in Caller, DeleteFile(c) \/ Resume(c) \/ SaveDone(c) \/ LoadRead(c)
                               \/ LoadFail(c) \/ SaveFailed(c)
      PROVE  PoolStep
  <2>1. call' = [call EXCEPT ![c] = Idle] /\ call[c].pc # "reading"
    BY <1>8 DEF DeleteFile, Resume, SaveDone, LoadRead, LoadFail, SaveFailed
  <2>2. ReadsKept
    BY <2>1 DEF ReadsKept, IInv, TypeOK, Idle
  <2> QED BY <1>8, <2>2, QuietStep DEF DeleteFile, Resume, SaveDone, LoadRead, LoadFail, SaveFailed,
                                       slots, ContextFreed
<1>9. ASSUME NEW c \in Caller, LoadCheck(c) PROVE PoolStep
  <2>1. ReadsKept
    BY <1>9 DEF LoadCheck, ReadsKept, IInv, TypeOK, Call, Idle
  <2>2. call[c].id \in Id /\ UNCHANGED shutdown
    BY <1>9 DEF LoadCheck, IInv, CallOK
  <2>3. CASE UNCHANGED <<slots, pending>>
    BY <2>1, <2>2, <2>3, QuietStep DEF slots, ContextFreed
  <2>4. CASE Detach(call[c].id) /\ sessions[call[c].id] # NoObj
    BY <2>1, <2>2, <2>4, PoolDetach
  <2> QED BY <1>9, <2>3, <2>4 DEF LoadCheck
<1>10. ASSUME NEW c \in Caller, SaveRead(c) PROVE PoolStep
  <2>1. call'[c].pc # "reading" /\ \A d \in Caller \ {c} : call'[d] = call[d]
    <3>1. CASE call' = [call EXCEPT ![c] = Idle]
      BY <3>1 DEF IInv, TypeOK, Idle
    <3>2. ASSUME NEW f, OpenForWrite(c, call[c].id, call[c].obj, call[c].path, f)
          PROVE  call'[c].pc # "reading" /\ \A d \in Caller \ {c} : call'[d] = call[d]
      BY <3>2, OpenedCall DEF IInv
    <3> QED BY <1>10, <3>1, <3>2 DEF SaveRead
  <2>2. ReadsKept
    BY <1>10, <2>1 DEF SaveRead, ReadsKept
  <2> QED BY <1>10, <2>2, QuietStep DEF SaveRead, slots, ContextFreed
<1>11. ASSUME NEW c \in Caller, NEW i \in Id, NEW p \in UserPath, SaveSession(c, i, p)
       PROVE  PoolStep
  <2>1. call'[c].pc # "reading" /\ \A d \in Caller \ {c} : call'[d] = call[d]
    <3>1. ASSUME NEW f, OpenForWrite(c, i, sessions[i], p, f)
          PROVE  call'[c].pc # "reading" /\ \A d \in Caller \ {c} : call'[d] = call[d]
      BY <3>1, OpenedCall DEF IInv
    <3>2. CASE call' = [call EXCEPT ![c] = [Idle EXCEPT !.pc = "saveRead", !.id = i,
                                                !.obj = sessions[i], !.path = p]]
      BY <3>2 DEF IInv, TypeOK, Idle
    <3> QED BY <1>11, <3>1, <3>2 DEF SaveSession
  <2>2. ReadsKept
    BY <1>11, <2>1 DEF SaveSession, ReadsKept
  <2> QED BY <1>11, <2>2, QuietStep DEF SaveSession, slots, ContextFreed
<1>12. ASSUME NEW c \in Caller, NEW i \in Id, NEW p \in UserPath, LoadSession(c, i, p)
       PROVE  PoolStep
  <2>1. ReadsKept
    BY <1>12 DEF LoadSession, ReadsKept, IInv, TypeOK, Idle
  <2> QED BY <1>12, <2>1, QuietStep DEF LoadSession, slots, ContextFreed
<1>13. ASSUME NEW o \in Obj, \/ NotHot(o) \/ JanitorNext(o) \/ JanitorWritten(o)
                             \/ JanitorFailed(o) \/ PersistWritten(o) \/ PersistFailed(o)
       PROVE  PoolStep
  <2>1. UNCHANGED <<bySeq, nFree, call, shutdown>>
    BY <1>13 DEF NotHot, JanitorNext, JanitorWritten, JanitorFailed, PersistWritten,
                 PersistFailed, slots
  <2> QED BY <2>1, QuietStep DEF ReadsKept, ContextFreed
<1>14. ASSUME NEW S \in SUBSET Obj, DecodeFail(S) PROVE PoolStep
  BY <1>14, QuietStep DEF DecodeFail, slots, ReadsKept, ContextFreed
<1>15. ASSUME NEW S \in SUBSET Obj, NEW D \in SUBSET S, Advance(S, D) PROVE PoolStep
  BY <1>15, QuietStep DEF Advance, ReadsKept, ContextFreed
<1>16. ASSUME \/ LoopExit \/ JanitorStart \/ JanitorStop \/ PersistBegin \/ PersistDispose
              \/ Dispose
       PROVE  PoolStep
  <2>1. UNCHANGED <<bySeq, nFree, call>> /\ (ContextFreed' <=> ContextFreed)
    BY <1>16 DEF LoopExit, JanitorStart, JanitorStop, PersistBegin, PersistDispose,
                 Dispose, slots, ContextFreed
  <2> QED BY <2>1, QuietStep DEF ReadsKept
<1>17. CASE PersistEvict
  BY <1>17, PoolEvictAll
<1>18. CASE Teardown
  BY <1>18, PoolTeardown
<1>19. CASE Restart
  BY <1>19, PoolRestart
<1> QED
  BY <1>1, <1>2, <1>3, <1>4, <1>5, <1>6, <1>7, <1>8, <1>9, <1>10, <1>11, <1>12, <1>13,
     <1>14, <1>15, <1>16, <1>17, <1>18, <1>19 DEF Next, Clearing

LEMMA PoolInit == Init => Pool!Init
<1> SUFFICES ASSUME Init PROVE Pool!Init
  OBVIOUS
<1>1. ~ContextFreed /\ freeSlots = Slot /\ \A s \in Slot : Holders(s) = {}
  BY DEF Init, ContextFreed, freeSlots, Holders, Idle
<1>2. holder = [s \in Slot |-> NoObj]
  BY <1>1 DEF holder, Init
<1> QED BY <1>1, <1>2 DEF Pool!Init, freeSlots

(* LlamaService implements SlotPool: no interleaving of callers, janitor   *)
(* and shutdown takes a slot that is not free, returns it twice, or moves  *)
(* two slots at once other than by returning them.                         *)
THEOREM Refinement == Spec => PoolSpec
<1>1. Init => Pool!Init
  BY PoolInit
<1>2. ASSUME IInv, IInv', [Next]_vars
      PROVE  [Pool!Next]_<<{s \in Slot : nFree[s] > 0}, holder, ~ContextFreed>>
  <2>1. CASE Next
    BY <1>2, <2>1, PoolNext DEF PoolStep, freeSlots
  <2>2. CASE UNCHANGED vars
    <3>1. ReadsKept /\ UNCHANGED <<bySeq, nFree>> /\ (ContextFreed' <=> ContextFreed)
      BY <2>2 DEF vars, slots, ReadsKept, ContextFreed
    <3> QED BY <3>1, QuietStep DEF PoolStep, freeSlots
  <2> QED BY <1>2, <2>1, <2>2
<1> QED BY <1>1, <1>2, Inductive, PTL DEF Spec, PoolSpec, Pool!Spec
=============================================================================
