----------------------- MODULE SessionService_proof -----------------------
(***************************************************************************)
(* Proofs about SessionService for every number of sessions, slots and     *)
(* callers and for everything the environment may do.                      *)
(***************************************************************************)
EXTENDS SessionService, TLAPS

(***************************************************************************)
(* The inductive invariant.  SlotAccounting and BoundIsMapped are not      *)
(* inductive: giving a slot back needs its owner to be Live, which is      *)
(* NamesMatch, and a failing read gives its slot back only because         *)
(* ReservedApart makes the test of the catch clause true.                  *)
(***************************************************************************)

(* A suspended call refers to what its continuation will use.              *)
CallOK ==
    \A c \in Caller :
        /\ call[c].pc \in {"reading", "resume", "saveRead"} => call[c].obj \in Obj
        /\ call[c].pc = "reading" => call[c].slot \in Slot
        /\ call[c].pc # "idle" => call[c].id \in Id
        /\ call[c].pc \in {"loadCheck", "loadRead", "saveRead", "saving"}
              => call[c].path \in UserPath
        /\ call[c].pc = "saving" => call[c].data \in File

(* A session is registered under its own name, so under one name only.     *)
NamesMatch == \A i \in Id : sessions[i] # NoObj => ident[sessions[i]] = i

(* The slot reserved for a session is not the one it believes to have.     *)
ReservedApart ==
    ~ContextFreed =>
    \A c \in Caller : call[c].pc = "reading" => seq[call[c].obj] # call[c].slot

(* A slot that is mapped to nobody has no cells.                           *)
UnmappedIsEmpty == \A s \in Slot : bySeq[s] = NoObj => kv[s] = Empty

(* The maps are empty once the context is gone.                            *)
GoneIsEmpty ==
    ContextFreed => /\ \A i \in Id : sessions[i] = NoObj
                    /\ \A s \in Slot : bySeq[s] = NoObj

SlotsOK ==
    /\ NamesMatch /\ SlotAccounting /\ BoundIsMapped
    /\ ReservedApart /\ UnmappedIsEmpty /\ GoneIsEmpty

IInv == TypeOK /\ CallOK /\ SlotsOK

-----------------------------------------------------------------------------
(***************************************************************************)
(* Types.                                                                  *)
(***************************************************************************)

LEMMA IdleTyped == Idle \in Call
  BY DEF Idle, Call, Pc

LEMMA EmptyTyped == Empty \in Hist
  BY DEF Empty, Hist

LEMMA FileParts ==
  ASSUME NEW f \in File
  PROVE  /\ f.hist \in Hist /\ f.pos \in 0 .. MaxLen /\ Torn(f) \in File
         /\ \A p \in 0 .. MaxLen : HeaderPos(f, p) \subseteq 0 .. MaxLen
  BY EmptyTyped DEF File, Torn, HeaderPos

LEMMA SavedTyped ==
  ASSUME NEW h \in Hist, NEW p \in 0 .. MaxLen
  PROVE  Saved(h, p) \in File
  BY DEF Saved, File

(* The objects and slots that the variables hand to an action.             *)
LEMMA Nulls ==
  /\ NoObj \notin Obj /\ NoSlot \notin Slot /\ NoFile \notin File
  /\ NoHist \notin Hist /\ NoId \notin Id
  BY NullAssumption DEF Path

LEMMA WrittenTyped ==
  ASSUME TypeOK, NEW p, NEW d \in File, NEW b \in BOOLEAN
  PROVE  Written(p, d, b) \in [Path -> File \cup {NoFile}]
<1>1. Torn(d) \in File
  BY FileParts
<1> QED BY <1>1 DEF Written, TypeOK

LEMMA InitTyped == Init => TypeOK /\ CallOK
<1>1. 0 \in 0 .. MaxLen
  BY NullAssumption
<1> QED
  BY <1>1, IdleTyped, EmptyTyped DEF Init, TypeOK, CallOK, Status, Tier, Idle

(* Giving a slot back.                                                     *)
LEMMA GiveBackTyped ==
  ASSUME TypeOK, NEW q \in Slot, GiveBack(q)
  PROVE  /\ bySeq' \in [Slot -> Obj \cup {NoObj}]
         /\ nFree' \in [Slot -> Nat] /\ kv' \in [Slot -> Hist]
  BY EmptyTyped DEF TypeOK, GiveBack

LEMMA DetachTyped ==
  ASSUME TypeOK, NEW i \in Id, Detach(i), sessions[i] # NoObj
  PROVE  /\ sessions' \in [Id -> Obj \cup {NoObj}]
         /\ pending' \in [Obj -> BOOLEAN]
         /\ bySeq' \in [Slot -> Obj \cup {NoObj}]
         /\ nFree' \in [Slot -> Nat] /\ kv' \in [Slot -> Hist]
<1>1. sessions[i] \in Obj
  BY DEF TypeOK
<1>2. sessions' \in [Id -> Obj \cup {NoObj}] /\ pending' \in [Obj -> BOOLEAN]
  BY <1>1 DEF TypeOK, Detach
<1>3. CASE seq[sessions[i]] = NoSlot
  BY <1>2, <1>3 DEF TypeOK, Detach
<1>4. CASE seq[sessions[i]] # NoSlot
  <2>1. seq[sessions[i]] \in Slot /\ GiveBack(seq[sessions[i]])
    BY <1>1, <1>4 DEF TypeOK, Detach
  <2> QED BY <2>1, <1>2, GiveBackTyped
<1> QED BY <1>3, <1>4

LEMMA StartRequestTyped ==
  ASSUME TypeOK, NEW o \in Obj, NEW b \in BOOLEAN, StartRequest(o, b)
  PROVE  /\ kv' \in [Slot -> Hist] /\ nPos' \in [Obj -> 0 .. MaxLen]
         /\ status' \in [Obj -> Status] /\ pending' \in [Obj -> BOOLEAN]
<1>1. 0 \in 0 .. MaxLen
  BY NullAssumption
<1> QED
  BY <1>1, EmptyTyped DEF TypeOK, StartRequest, BasePos, Status

LEMMA NewTyped ==
  ASSUME TypeOK, NEW o \in Obj, NEW i \in Id, NEW t \in Tier,
         NEW b \in Hist \cup {NoHist}, NEW a \in BOOLEAN, NEW p \in 0 .. MaxLen,
         New(o, i, t, b, a, p)
  PROVE  /\ sessions' \in [Id -> Obj \cup {NoObj}]
         /\ ident' \in [Obj -> Id \cup {NoId}] /\ status' \in [Obj -> Status]
         /\ tier' \in [Obj -> Tier] /\ seq' \in [Obj -> Slot \cup {NoSlot}]
         /\ buf' \in [Obj -> Hist \cup {NoHist}] /\ archived' \in [Obj -> BOOLEAN]
         /\ nPos' \in [Obj -> 0 .. MaxLen] /\ pending' \in [Obj -> BOOLEAN]
  BY DEF TypeOK, New, Status

(* Every step keeps the types and what suspended calls refer to.           *)
LEMMA TypeStep ==
  ASSUME IInv, Next
  PROVE  TypeOK' /\ CallOK'
<1> USE Nulls DEF IInv, SlotsOK
<1>1. ASSUME NEW i \in Id, CreateSession(i) PROVE TypeOK' /\ CallOK'
  <2>1. 0 \in 0 .. MaxLen
    BY NullAssumption
  <2>2. PICK o \in Obj : IF files[i] = NoFile THEN New(o, i, "warm", NoHist, FALSE, 0)
                                              ELSE New(o, i, "cold", NoHist, TRUE, 0)
    BY <1>1 DEF CreateSession
  <2>3. /\ sessions' \in [Id -> Obj \cup {NoObj}]
        /\ ident' \in [Obj -> Id \cup {NoId}] /\ status' \in [Obj -> Status]
        /\ tier' \in [Obj -> Tier] /\ seq' \in [Obj -> Slot \cup {NoSlot}]
        /\ buf' \in [Obj -> Hist \cup {NoHist}] /\ archived' \in [Obj -> BOOLEAN]
        /\ nPos' \in [Obj -> 0 .. MaxLen] /\ pending' \in [Obj -> BOOLEAN]
    <3>1. "warm" \in Tier /\ "cold" \in Tier /\ NoHist \in Hist \cup {NoHist}
      BY DEF Tier
    <3>2. CASE New(o, i, "warm", NoHist, FALSE, 0)
      BY <2>1, <3>1, <3>2, NewTyped
    <3>3. CASE New(o, i, "cold", NoHist, TRUE, 0)
      BY <2>1, <3>1, <3>3, NewTyped
    <3> QED BY <2>2, <3>2, <3>3
  <2> QED BY <1>1, <2>3 DEF CreateSession, TypeOK, CallOK, io
<1>2. ASSUME NEW i \in Id, Cancel(i) PROVE TypeOK' /\ CallOK'
  BY <1>2 DEF Cancel, TypeOK, CallOK, Status, slots, io
<1>3. ASSUME NEW i \in Id, FreeSession(i) PROVE TypeOK' /\ CallOK'
  <2>1. Detach(i) /\ sessions[i] # NoObj
    BY <1>3 DEF FreeSession
  <2> QED BY <1>3, <2>1, DetachTyped DEF FreeSession, TypeOK, CallOK, io
<1>4. ASSUME NEW c \in Caller, NEW i \in Id, NEW b \in BOOLEAN, PromptHot(c, i, b)
      PROVE  TypeOK' /\ CallOK'
  <2>1. sessions[i] \in Obj /\ StartRequest(sessions[i], b)
    BY <1>4 DEF PromptHot, CanPrompt, TypeOK
  <2> QED BY <1>4, <2>1, StartRequestTyped DEF PromptHot, TypeOK, CallOK, io
<1>5. ASSUME NEW c \in Caller, NEW i \in Id, NEW b \in BOOLEAN, PromptWarm(c, i, b)
      PROVE  TypeOK' /\ CallOK'
  <2>1. sessions[i] \in Obj
    BY <1>5 DEF PromptWarm, CanPrompt, TypeOK
  <2>2. call' \in [Caller -> Call] /\ CallOK'
    <3>1. call' = [call EXCEPT ![c] = [Idle EXCEPT !.pc = "resume", !.id = i,
                                          !.obj = sessions[i], !.clear = b]]
      BY <1>5 DEF PromptWarm
    <3> QED BY <2>1, <3>1, IdleTyped DEF TypeOK, CallOK, Call, Pc
  <2>3. PICK q \in Slot, v \in Obj \cup {NoObj} :
          /\ Acquire(q, v)
          /\ bySeq' = [bySeq EXCEPT ![q] = sessions[i]]
          /\ kv' = [kv EXCEPT ![q] = RestoredCells(sessions[i], q)]
          /\ seq' = [x \in Obj |-> IF x = sessions[i] THEN q ELSE IF x = v THEN NoSlot ELSE seq[x]]
          /\ tier' = [x \in Obj |-> IF x = sessions[i] THEN "hot" ELSE IF x = v THEN "warm" ELSE tier[x]]
          /\ buf' = [x \in Obj |-> IF x = sessions[i] THEN NoHist ELSE IF x = v THEN kv[q] ELSE buf[x]]
    BY <1>5 DEF PromptWarm
  <2>4. nFree' \in [Slot -> Nat]
    BY <2>3 DEF Acquire, Take, TypeOK
  <2>5. RestoredCells(sessions[i], q) \in Hist
    BY <2>1, EmptyTyped DEF RestoredCells, TypeOK
  <2>6. bySeq' \in [Slot -> Obj \cup {NoObj}] /\ kv' \in [Slot -> Hist]
    BY <2>1, <2>3, <2>5 DEF TypeOK
  <2>7. seq' \in [Obj -> Slot \cup {NoSlot}] /\ tier' \in [Obj -> Tier]
    BY <2>3 DEF TypeOK, Tier
  <2>8. buf' \in [Obj -> Hist \cup {NoHist}]
    BY <2>3 DEF TypeOK
  <2> QED BY <1>5, <2>1, <2>2, <2>4, <2>6, <2>7, <2>8 DEF PromptWarm, TypeOK, Status, io
<1>6. ASSUME NEW c \in Caller, NEW i \in Id, NEW b \in BOOLEAN, PromptCold(c, i, b)
      PROVE  TypeOK' /\ CallOK'
  <2>1. sessions[i] \in Obj
    BY <1>6 DEF PromptCold, Reserve, CanPrompt, TypeOK
  <2>2. PICK q \in Slot, v \in Obj \cup {NoObj} :
          /\ Acquire(q, v)
          /\ bySeq' = [bySeq EXCEPT ![q] = NoObj]
          /\ kv' = [kv EXCEPT ![q] = Empty]
          /\ seq' = [x \in Obj |-> IF x = v THEN NoSlot ELSE seq[x]]
          /\ tier' = [x \in Obj |-> IF x = v THEN "warm" ELSE tier[x]]
          /\ buf' = [x \in Obj |-> IF x = v THEN kv[q] ELSE buf[x]]
          /\ call' = [call EXCEPT ![c] = [Idle EXCEPT !.pc = "reading", !.id = i,
                          !.obj = sessions[i], !.slot = q, !.clear = b]]
    BY <1>6 DEF PromptCold, Reserve
  <2>3. call' \in [Caller -> Call] /\ CallOK'
    BY <2>1, <2>2, IdleTyped DEF TypeOK, CallOK, Call, Pc
  <2>4. nFree' \in [Slot -> Nat]
    BY <2>2 DEF Acquire, Take, TypeOK
  <2>5. bySeq' \in [Slot -> Obj \cup {NoObj}] /\ kv' \in [Slot -> Hist]
    BY <2>2, EmptyTyped DEF TypeOK
  <2>6. seq' \in [Obj -> Slot \cup {NoSlot}] /\ tier' \in [Obj -> Tier]
    BY <2>2 DEF TypeOK, Tier
  <2>7. buf' \in [Obj -> Hist \cup {NoHist}]
    BY <2>2 DEF TypeOK
  <2> QED BY <1>6, <2>1, <2>3, <2>4, <2>5, <2>6, <2>7 DEF PromptCold, Reserve, TypeOK, Status, io
<1>7. ASSUME NEW c \in Caller, NEW i \in Id, PromptNoSlot(c, i) PROVE TypeOK' /\ CallOK'
  BY <1>7 DEF PromptNoSlot, TypeOK, CallOK, Status, slots, io
<1>8. ASSUME NEW c \in Caller, NEW i \in Id, FreeAndDelete(c, i) PROVE TypeOK' /\ CallOK'
  <2>1. Detach(i) /\ sessions[i] # NoObj
    BY <1>8 DEF FreeAndDelete
  <2>2. call' \in [Caller -> Call] /\ CallOK'
    BY <1>8, IdleTyped DEF FreeAndDelete, TypeOK, CallOK, Call, Pc
  <2> QED BY <1>8, <2>1, <2>2, DetachTyped DEF FreeAndDelete, TypeOK, io
<1>9. ASSUME NEW c \in Caller, DeleteFile(c) PROVE TypeOK' /\ CallOK'
  BY <1>9, IdleTyped DEF DeleteFile, TypeOK, CallOK, Idle, slots, fields, io
<1>10. ASSUME NEW c \in Caller, ReadDone(c) PROVE TypeOK' /\ CallOK'
  <2> DEFINE o == call[c].obj
             q == call[c].slot
             f == files[call[c].id]
  <2>1. o \in Obj /\ q \in Slot /\ f \in File /\ nPos[o] \in 0 .. MaxLen
    BY <1>10 DEF ReadDone, Bind, TypeOK, CallOK, Path
  <2>2. f.hist \in Hist /\ HeaderPos(f, nPos[o]) \subseteq 0 .. MaxLen
    BY <2>1, FileParts
  <2>3. nPos' \in [Obj -> 0 .. MaxLen]
    BY <1>10, <2>1, <2>2 DEF ReadDone, Bind, TypeOK
  <2>4. call' \in [Caller -> Call] /\ CallOK'
    BY <1>10 DEF ReadDone, Bind, TypeOK, CallOK, Call, Pc
  <2>5. /\ kv' \in [Slot -> Hist] /\ seq' \in [Obj -> Slot \cup {NoSlot}]
        /\ tier' \in [Obj -> Tier] /\ buf' \in [Obj -> Hist \cup {NoHist}]
        /\ bySeq' \in [Slot -> Obj \cup {NoObj}]
    BY <1>10, <2>1, <2>2 DEF ReadDone, Bind, TypeOK, Tier
  <2> QED BY <1>10, <2>3, <2>4, <2>5 DEF ReadDone, Bind, TypeOK, io
<1>11. ASSUME NEW c \in Caller, ReadFail(c) PROVE TypeOK' /\ CallOK'
  <2>1. nFree' \in [Slot -> Nat]
    BY <1>11 DEF ReadFail, GiveUp, TypeOK, CallOK
  <2> QED BY <1>11, <2>1, IdleTyped DEF ReadFail, GiveUp, TypeOK, CallOK, Idle, fields, io
<1>12. ASSUME NEW c \in Caller, Resume(c) PROVE TypeOK' /\ CallOK'
  <2>1. call[c].obj \in Obj /\ call[c].clear \in BOOLEAN
    BY <1>12 DEF Resume, TypeOK, CallOK, Call
  <2>2. /\ kv' \in [Slot -> Hist] /\ nPos' \in [Obj -> 0 .. MaxLen]
        /\ status' \in [Obj -> Status] /\ pending' \in [Obj -> BOOLEAN]
    <3>1. CASE StartRequest(call[c].obj, call[c].clear)
      BY <2>1, <3>1, StartRequestTyped
    <3>2. CASE UNCHANGED <<kv, nPos, status, pending>>
      BY <3>2 DEF TypeOK
    <3> QED BY <1>12, <3>1, <3>2 DEF Resume
  <2> QED BY <1>12, <2>2, IdleTyped DEF Resume, TypeOK, CallOK, Idle, io
<1>13. ASSUME NEW c \in Caller, SaveRead(c) PROVE TypeOK' /\ CallOK'
  <2> DEFINE f == files[call[c].id]
  <2>1. call[c].obj \in Obj /\ call[c].id \in Id /\ call[c].path \in UserPath
    BY <1>13 DEF SaveRead, CallOK
  <2>2. CASE f = NoFile
    <3>1. call' = [call EXCEPT ![c] = Idle] /\ UNCHANGED files
      BY <1>13, <2>2 DEF SaveRead
    <3> QED BY <1>13, <3>1, IdleTyped DEF SaveRead, TypeOK, CallOK, Idle, slots, fields
  <2>3. CASE f # NoFile
    <3>1. f \in File /\ nPos[call[c].obj] \in 0 .. MaxLen
      BY <2>1, <2>3 DEF TypeOK, Path
    <3>2. PICK p \in HeaderPos(f, nPos[call[c].obj]) :
             OpenForWrite(c, call[c].id, call[c].obj, call[c].path, Saved(f.hist, p))
      BY <1>13, <2>3 DEF SaveRead
    <3>3. Saved(f.hist, p) \in File /\ Torn(Saved(f.hist, p)) \in File
      BY <3>1, FileParts, SavedTyped
    <3>4. files' \in [Path -> File \cup {NoFile}]
      BY <3>2, <3>3 DEF OpenForWrite, TypeOK
    <3>5. call' \in [Caller -> Call] /\ CallOK'
      BY <2>1, <3>2, <3>3, IdleTyped DEF OpenForWrite, TypeOK, CallOK, Call, Pc
    <3> QED BY <1>13, <3>4, <3>5 DEF SaveRead, TypeOK, slots, fields
  <2> QED BY <2>2, <2>3
<1>14. ASSUME NEW c \in Caller, SaveDone(c) PROVE TypeOK' /\ CallOK'
  <2>1. call[c].data \in File
    BY <1>14 DEF SaveDone, CallOK
  <2>2. files' \in [Path -> File \cup {NoFile}]
    BY <1>14, <2>1, WrittenTyped DEF SaveDone
  <2> QED BY <1>14, <2>2, IdleTyped DEF SaveDone, TypeOK, CallOK, Idle, slots, fields
<1>15. ASSUME NEW c \in Caller, LoadCheck(c) PROVE TypeOK' /\ CallOK'
  <2>1. call[c].id \in Id
    BY <1>15 DEF LoadCheck, CallOK
  <2>2. call' \in [Caller -> Call] /\ CallOK'
    <3>1. CASE call' = [call EXCEPT ![c] = Idle]
      BY <3>1, IdleTyped DEF TypeOK, CallOK, Idle
    <3>2. CASE call' = [call EXCEPT ![c].pc = "loadRead"]
      <4>1. call[c].pc = "loadCheck" /\ call[c] \in Call
        BY <1>15 DEF LoadCheck, TypeOK
      <4> QED BY <3>2, <4>1 DEF TypeOK, CallOK, Call, Pc
    <3> QED BY <1>15, <3>1, <3>2 DEF LoadCheck
  <2>3. CASE UNCHANGED <<slots, pending>>
    BY <1>15, <2>2, <2>3 DEF LoadCheck, TypeOK, slots, io
  <2>4. CASE Detach(call[c].id) /\ sessions[call[c].id] # NoObj
    BY <1>15, <2>1, <2>2, <2>4, DetachTyped DEF LoadCheck, TypeOK, io
  <2> QED BY <1>15, <2>3, <2>4 DEF LoadCheck
<1>16. ASSUME NEW c \in Caller, LoadRead(c) PROVE TypeOK' /\ CallOK'
  <2> DEFINE f == files[call[c].path]
             i == call[c].id
             h == [own |-> IF f.hist.len = 0 THEN NoId ELSE i, len |-> f.hist.len]
  <2>1. i \in Id /\ f \in File /\ 0 \in 0 .. MaxLen
    BY <1>16, NullAssumption DEF LoadRead, TypeOK, CallOK, Path
  <2>2. f.hist \in Hist /\ HeaderPos(f, 0) \subseteq 0 .. MaxLen
    BY <2>1, FileParts
  <2>3. h \in Hist
    BY <2>1, <2>2 DEF Hist
  <2>4. PICK o \in Obj, p \in HeaderPos(f, 0) : New(o, i, "warm", h, FALSE, p)
    BY <1>16 DEF LoadRead
  <2>5. /\ sessions' \in [Id -> Obj \cup {NoObj}]
        /\ ident' \in [Obj -> Id \cup {NoId}] /\ status' \in [Obj -> Status]
        /\ tier' \in [Obj -> Tier] /\ seq' \in [Obj -> Slot \cup {NoSlot}]
        /\ buf' \in [Obj -> Hist \cup {NoHist}] /\ archived' \in [Obj -> BOOLEAN]
        /\ nPos' \in [Obj -> 0 .. MaxLen] /\ pending' \in [Obj -> BOOLEAN]
    <3>1. "warm" \in Tier /\ p \in 0 .. MaxLen
      BY <2>2 DEF Tier
    <3> HIDE DEF f, i, h
    <3> QED BY <2>1, <2>3, <2>4, <3>1, NewTyped
  <2> HIDE DEF f, i, h
  <2> QED BY <1>16, <2>5, IdleTyped DEF LoadRead, TypeOK, CallOK, Idle, io
<1>17. ASSUME NEW c \in Caller, LoadFail(c) \/ SaveFailed(c) PROVE TypeOK' /\ CallOK'
  <2>1. call' = [call EXCEPT ![c] = Idle] /\ UNCHANGED <<slots, fields, io, loop, shutdown>>
    BY <1>17 DEF LoadFail, SaveFailed
  <2> QED BY <2>1, IdleTyped DEF TypeOK, CallOK, Idle, slots, fields, io
<1>18. ASSUME NEW c \in Caller, NEW i \in Id, NEW p \in UserPath, SaveSession(c, i, p)
       PROVE  TypeOK' /\ CallOK'
  <2> DEFINE o == sessions[i]
  <2>1. o \in Obj /\ nPos[o] \in 0 .. MaxLen
    BY <1>18 DEF SaveSession, TypeOK
  <2>2. ASSUME NEW h \in Hist, OpenForWrite(c, i, o, p, Saved(h, nPos[o]))
        PROVE  /\ files' \in [Path -> File \cup {NoFile}]
               /\ call' \in [Caller -> Call] /\ CallOK'
    <3> DEFINE f == Saved(h, nPos[o])
    <3>1. f \in File
      BY <2>1, SavedTyped
    <3>2. Torn(f) \in File
      BY <3>1, FileParts
    <3>3. /\ files' = [files EXCEPT ![p] = Torn(f)]
          /\ call' = [call EXCEPT ![c] = [Idle EXCEPT !.pc = "saving", !.id = i,
                                          !.obj = o, !.path = p, !.data = f]]
      BY <2>2 DEF OpenForWrite
    <3> HIDE DEF f
    <3>4. files' \in [Path -> File \cup {NoFile}]
      BY <3>2, <3>3 DEF TypeOK
    <3>5. call' \in [Caller -> Call] /\ CallOK'
      BY <2>1, <3>1, <3>3, IdleTyped DEF TypeOK, CallOK, Call, Pc
    <3> QED BY <3>4, <3>5
  <2>3. CASE tier[o] = "hot" /\ seq[o] # NoSlot
             /\ OpenForWrite(c, i, o, p, Saved(kv[seq[o]], nPos[o]))
    <3>1. kv[seq[o]] \in Hist
      BY <2>1, <2>3 DEF TypeOK
    <3> QED BY <1>18, <2>2, <2>3, <3>1 DEF SaveSession, TypeOK, slots, fields
  <2>4. CASE tier[o] = "warm" /\ buf[o] # NoHist
             /\ OpenForWrite(c, i, o, p, Saved(buf[o], nPos[o]))
    <3>1. buf[o] \in Hist
      BY <2>1, <2>4 DEF TypeOK
    <3> QED BY <1>18, <2>2, <2>4, <3>1 DEF SaveSession, TypeOK, slots, fields
  <2>5. CASE /\ call' = [call EXCEPT ![c] = [Idle EXCEPT !.pc = "saveRead", !.id = i,
                                              !.obj = o, !.path = p]]
             /\ UNCHANGED files
    <3>1. call' \in [Caller -> Call] /\ CallOK'
      BY <2>1, <2>5, IdleTyped DEF TypeOK, CallOK, Call, Pc
    <3> QED BY <1>18, <2>5, <3>1 DEF SaveSession, TypeOK, slots, fields
  <2> QED BY <1>18, <2>3, <2>4, <2>5 DEF SaveSession
<1>19. ASSUME NEW c \in Caller, NEW i \in Id, NEW p \in UserPath, LoadSession(c, i, p)
       PROVE  TypeOK' /\ CallOK'
  <2>1. call' \in [Caller -> Call] /\ CallOK'
    BY <1>19, IdleTyped DEF LoadSession, TypeOK, CallOK, Call, Pc
  <2> QED BY <1>19, <2>1 DEF LoadSession, TypeOK, slots, fields, io
<1>20. ASSUME NEW o \in Obj, NotHot(o) PROVE TypeOK' /\ CallOK'
  BY <1>20 DEF NotHot, TypeOK, CallOK, Status, slots, io
<1>21. ASSUME NEW o \in Obj, JanitorNext(o) PROVE TypeOK' /\ CallOK'
  <2>1. CASE buf[o] = NoHist
    BY <1>21, <2>1 DEF JanitorNext, TypeOK, CallOK, slots, fields
  <2>2. CASE buf[o] # NoHist
    <3> DEFINE f == Saved(buf[o], nPos[o])
    <3>1. f \in File
      BY <2>2, SavedTyped DEF TypeOK
    <3>2. Torn(f) \in File
      BY <3>1, FileParts
    <3>3. jwrite' = [jwrite EXCEPT ![o] = f] /\ files' = [files EXCEPT ![ident[o]] = Torn(f)]
      BY <1>21, <2>2 DEF JanitorNext
    <3> HIDE DEF f
    <3> QED BY <1>21, <3>1, <3>2, <3>3 DEF JanitorNext, TypeOK, CallOK, slots, fields
  <2> QED BY <2>1, <2>2
<1>22. ASSUME NEW o \in Obj, JanitorWritten(o) PROVE TypeOK' /\ CallOK'
  <2>1. jwrite[o] \in File
    BY <1>22 DEF JanitorWritten, TypeOK
  <2>2. files' \in [Path -> File \cup {NoFile}]
    BY <1>22, <2>1, WrittenTyped DEF JanitorWritten
  <2> QED BY <1>22, <2>2 DEF JanitorWritten, BecomeCold, TypeOK, CallOK, Tier, slots
<1>23. ASSUME NEW o \in Obj, JanitorFailed(o) PROVE TypeOK' /\ CallOK'
  BY <1>23 DEF JanitorFailed, TypeOK, CallOK, slots, fields
<1>24. ASSUME NEW o \in Obj, PersistWritten(o) PROVE TypeOK' /\ CallOK'
  <2>1. pwrite[o] \in File
    BY <1>24 DEF PersistWritten, TypeOK
  <2>2. files' \in [Path -> File \cup {NoFile}]
    BY <1>24, <2>1, WrittenTyped DEF PersistWritten
  <2> QED BY <1>24, <2>2 DEF PersistWritten, BecomeCold, TypeOK, CallOK, Tier, slots
<1>25. ASSUME NEW o \in Obj, PersistFailed(o) PROVE TypeOK' /\ CallOK'
  BY <1>25 DEF PersistFailed, TypeOK, CallOK, slots, fields
<1>26. ASSUME NEW S \in SUBSET Obj, DecodeFail(S) PROVE TypeOK' /\ CallOK'
  <2>1. \A o \in S : nPos[o] + 1 \in 0 .. MaxLen
    BY <1>26, NullAssumption DEF DecodeFail, Batchable, TypeOK
  <2>2. nPos' \in [Obj -> 0 .. MaxLen]
    BY <1>26, <2>1 DEF DecodeFail, TypeOK
  <2> QED BY <1>26, <2>2 DEF DecodeFail, NextLoop, TypeOK, CallOK, Status, slots, io
<1>27. ASSUME NEW S \in SUBSET Obj, NEW D \in SUBSET S, Advance(S, D) PROVE TypeOK' /\ CallOK'
  <2>1. \A o \in S : nPos[o] + 1 \in 0 .. MaxLen
    BY <1>27, NullAssumption DEF Advance, Batchable, TypeOK
  <2>2. nPos' \in [Obj -> 0 .. MaxLen]
    BY <1>27, <2>1 DEF Advance, TypeOK
  <2>3. \A s \in Slot : (\E o \in S : seq[o] = s) => bySeq[s] \in Obj
    BY <1>27 DEF Advance, Batchable, Schedulable, BoundIsMapped, TypeOK
  <2>4. kv' \in [Slot -> Hist]
    <3> SUFFICES ASSUME NEW s \in Slot, \E o \in S : seq[o] = s
                 PROVE  [own |-> IF kv[s].len = 0 THEN ident[bySeq[s]] ELSE kv[s].own,
                         len |-> kv[s].len + 1] \in Hist
      BY <1>27 DEF Advance, TypeOK
    <3>1. kv[s] \in Hist /\ ident[bySeq[s]] \in Id \cup {NoId}
      BY <2>3 DEF TypeOK
    <3> QED BY <3>1 DEF Hist
  <2> QED BY <1>27, <2>2, <2>4 DEF Advance, NextLoop, TypeOK, CallOK, Status, io
<1>28. ASSUME LoopExit PROVE TypeOK' /\ CallOK'
  BY <1>28 DEF LoopExit, TypeOK, CallOK, slots, fields, io
<1>29. ASSUME JanitorStart \/ JanitorStop PROVE TypeOK' /\ CallOK'
  BY <1>29 DEF JanitorStart, JanitorStop, TypeOK, CallOK, slots, fields
<1>30. ASSUME PersistBegin \/ PersistDispose \/ Dispose PROVE TypeOK' /\ CallOK'
  BY <1>30 DEF PersistBegin, PersistDispose, Dispose, TypeOK, CallOK, slots, fields, io
<1>31. ASSUME PersistEvict PROVE TypeOK' /\ CallOK'
  <2> DEFINE hot == {o \in Obj : Live(o) /\ tier[o] = "hot" /\ seq[o] # NoSlot}
             left == {seq[o] : o \in hot}
             image == [o \in Obj |-> IF o \in ToWrite THEN Saved(buf'[o], nPos[o]) ELSE NoFile]
  <2>1. /\ buf' = [o \in Obj |-> IF o \in hot THEN kv[seq[o]] ELSE buf[o]]
        /\ tier' = [o \in Obj |-> IF o \in hot THEN "warm" ELSE tier[o]]
        /\ seq' = [o \in Obj |-> IF o \in hot THEN NoSlot ELSE seq[o]]
        /\ bySeq' = [s \in Slot |-> IF s \in left THEN NoObj ELSE bySeq[s]]
        /\ kv' = [s \in Slot |-> IF s \in left THEN Empty ELSE kv[s]]
        /\ nFree' = [s \in Slot |-> IF s \in left THEN nFree[s] + 1 ELSE nFree[s]]
        /\ pwrite' = image
        /\ files' = [p \in Path |-> IF p \in Id /\ sessions[p] \in ToWrite
                                    THEN Torn(image[sessions[p]]) ELSE files[p]]
    BY <1>31 DEF PersistEvict
  <2>2. \A o \in hot : kv[seq[o]] \in Hist
    BY DEF TypeOK
  <2>3. buf' \in [Obj -> Hist \cup {NoHist}]
    BY <2>1, <2>2 DEF TypeOK
  <2>4. /\ tier' \in [Obj -> Tier] /\ seq' \in [Obj -> Slot \cup {NoSlot}]
        /\ bySeq' \in [Slot -> Obj \cup {NoObj}] /\ nFree' \in [Slot -> Nat]
    <3> HIDE DEF hot, left
    <3> QED BY <2>1 DEF TypeOK, Tier
  <2>5. kv' \in [Slot -> Hist]
    <3> HIDE DEF left
    <3> QED BY <2>1, EmptyTyped DEF TypeOK
  <2>6. \A o \in Obj : image[o] \in File \cup {NoFile} /\ (o \in ToWrite => image[o] \in File)
    BY <2>3, SavedTyped DEF ToWrite, TypeOK
  <2>7. pwrite' \in [Obj -> File \cup {NoFile}]
    BY <2>1, <2>6
  <2>8. files' \in [Path -> File \cup {NoFile}]
    <3>1. \A o \in ToWrite : o \in Obj /\ image[o] \in File
      BY <2>6 DEF ToWrite
    <3>2. \A o \in ToWrite : Torn(image[o]) \in File
      <4> HIDE DEF image
      <4> QED BY <3>1, FileParts
    <3> HIDE DEF image
    <3> QED BY <2>1, <3>2 DEF TypeOK
  <2> HIDE DEF hot, left, image
  <2> QED BY <1>31, <2>3, <2>4, <2>5, <2>7, <2>8 DEF PersistEvict, TypeOK, CallOK
<1>32. ASSUME Teardown PROVE TypeOK' /\ CallOK'
  BY <1>32, EmptyTyped DEF Teardown, TypeOK, CallOK, fields, io
<1>33. ASSUME Restart PROVE TypeOK' /\ CallOK'
  <2>1. 0 \in 0 .. MaxLen
    BY NullAssumption
  <2> QED BY <1>33, <2>1, IdleTyped, EmptyTyped DEF Restart, TypeOK, CallOK, Status, Tier, Idle
<1> QED
  BY <1>1, <1>2, <1>3, <1>4, <1>5, <1>6, <1>7, <1>8, <1>9, <1>10, <1>11, <1>12,
     <1>13, <1>14, <1>15, <1>16, <1>17, <1>18, <1>19, <1>20, <1>21, <1>22, <1>23,
     <1>24, <1>25, <1>26, <1>27, <1>28, <1>29, <1>30, <1>31, <1>32, <1>33 DEF Next, Clearing

-----------------------------------------------------------------------------
(***************************************************************************)
(* Slots.                                                                  *)
(***************************************************************************)

(* What a suspended read looks like from outside.                          *)
ReadsKept == \A c \in Caller :
    (call[c].pc = "reading" \/ call'[c].pc = "reading") => call'[c] = call[c]

LEMMA HoldersKept ==
  ASSUME ReadsKept
  PROVE  \A s \in Slot : Holders(s)' = Holders(s)
  BY DEF ReadsKept, Holders

(* A step that moves no slot, whatever else it does.                       *)
LEMMA Quiet ==
  ASSUME IInv, TypeOK', ReadsKept,
         UNCHANGED <<sessions, bySeq, nFree, ident, seq>>,
         ContextFreed' <=> ContextFreed,
         \A o \in Obj : Live(o) => tier'[o] \in {tier[o], "cold"},
         \A s \in Slot : bySeq[s] = NoObj => kv'[s] \in {kv[s], Empty}
  PROVE  SlotsOK'
<1> USE Nulls DEF IInv, SlotsOK
<1>1. NamesMatch'
  BY DEF NamesMatch
<1>2. SlotAccounting'
  BY HoldersKept DEF SlotAccounting
<1>3. BoundIsMapped'
  BY DEF BoundIsMapped, Live
<1>4. ReservedApart'
  BY DEF ReservedApart, ReadsKept
<1>5. UnmappedIsEmpty'
  BY DEF UnmappedIsEmpty
<1>6. GoneIsEmpty'
  BY DEF GoneIsEmpty
<1> QED BY <1>1, <1>2, <1>3, <1>4, <1>5, <1>6

(* The owner of a slot is Live, so the slot it gives back is nobody else's.*)
LEMMA DetachStep ==
  ASSUME IInv, TypeOK', ReadsKept, NEW i \in Id, sessions[i] # NoObj, Detach(i),
         UNCHANGED <<ident, seq, tier, shutdown>>
  PROVE  SlotsOK'
<1> USE Nulls DEF IInv, SlotsOK
<1> DEFINE o == sessions[i]
<1>1. o \in Obj /\ ident[o] = i /\ Live(o) /\ ~ContextFreed /\ ~ContextFreed'
  BY DEF TypeOK, NamesMatch, Live, GoneIsEmpty, ContextFreed
<1>2. sessions' = [sessions EXCEPT ![i] = NoObj]
  BY DEF Detach
<1>3. \A x \in Obj : Live(x)' => Live(x) /\ x # o
  BY <1>1, <1>2 DEF Live, TypeOK
<1>4. NamesMatch'
  BY <1>2 DEF NamesMatch, TypeOK
<1>5. ReservedApart' /\ GoneIsEmpty'
  BY <1>1 DEF ReservedApart, ReadsKept, GoneIsEmpty
<1>6. CASE seq[o] = NoSlot
  <2>1. UNCHANGED <<bySeq, kv, nFree>>
    BY <1>6 DEF Detach
  <2>2. SlotAccounting'
    BY <2>1, <1>1, HoldersKept DEF SlotAccounting
  <2>3. BoundIsMapped'
    BY <2>1, <1>1, <1>3 DEF BoundIsMapped
  <2>4. UnmappedIsEmpty'
    BY <2>1 DEF UnmappedIsEmpty
  <2> QED BY <1>4, <1>5, <2>2, <2>3, <2>4
<1>7. CASE seq[o] # NoSlot
  <2> DEFINE q == seq[o]
  <2>1. q \in Slot /\ bySeq[q] = o /\ GiveBack(q)
    BY <1>1, <1>7 DEF Detach, BoundIsMapped, TypeOK
  <2>2. nFree[q] = 0 /\ Holders(q) = {}
    BY <1>1, <2>1 DEF SlotAccounting
  <2> HIDE DEF o, q
  <2>3. SlotAccounting'
    BY <1>1, <2>1, <2>2, HoldersKept DEF SlotAccounting, GiveBack, TypeOK
  <2>4. BoundIsMapped'
    BY <1>1, <1>3, <2>1 DEF BoundIsMapped, GiveBack, TypeOK
  <2>5. UnmappedIsEmpty'
    BY <2>1 DEF UnmappedIsEmpty, GiveBack, TypeOK
  <2> QED BY <1>4, <1>5, <2>3, <2>4, <2>5
<1> QED BY <1>6, <1>7

(* A new session has no slot; the one it may replace is Live no more.      *)
LEMMA NewStep ==
  ASSUME IInv, TypeOK', ReadsKept, ~ContextFreed,
         NEW o \in Obj, NEW i \in Id, NEW t \in {"warm", "cold"}, NEW b, NEW a, NEW p,
         New(o, i, t, b, a, p),
         UNCHANGED <<bySeq, nFree, kv, shutdown>>
  PROVE  SlotsOK'
<1> USE Nulls DEF IInv, SlotsOK
<1>1. ~Reachable(o) /\ ~ContextFreed'
  BY DEF New, ContextFreed
<1>2. /\ sessions' = [sessions EXCEPT ![i] = o] /\ ident' = [ident EXCEPT ![o] = i]
      /\ tier' = [tier EXCEPT ![o] = t] /\ seq' = [seq EXCEPT ![o] = NoSlot]
  BY DEF New
<1>3. \A x \in Obj : Live(x)' /\ x # o => Live(x)
  BY <1>2 DEF Live, TypeOK
<1>4. NamesMatch'
  BY <1>1, <1>2 DEF NamesMatch, Reachable, TypeOK
<1>5. SlotAccounting'
  BY HoldersKept, <1>1 DEF SlotAccounting
<1>6. BoundIsMapped'
  BY <1>1, <1>2, <1>3 DEF BoundIsMapped, TypeOK
<1>7. ReservedApart'
  <2> SUFFICES ASSUME NEW c \in Caller, call'[c].pc = "reading"
               PROVE  seq'[call'[c].obj] # call'[c].slot
    BY DEF ReservedApart
  <2>1. call'[c] = call[c] /\ call[c].obj \in Obj /\ call[c].obj # o
    BY <1>1 DEF ReadsKept, Reachable, CallOK
  <2> QED BY <1>2, <2>1 DEF ReservedApart, TypeOK
<1>8. UnmappedIsEmpty' /\ GoneIsEmpty'
  BY <1>1 DEF UnmappedIsEmpty, GoneIsEmpty
<1> QED BY <1>4, <1>5, <1>6, <1>7, <1>8

(* A slot that is acquired was free, or belonged to v alone.               *)
LEMMA AcquireFacts ==
  ASSUME IInv, ~ContextFreed, NEW q \in Slot, NEW v \in Obj \cup {NoObj}, Acquire(q, v)
  PROVE  /\ Holders(q) = {} /\ bySeq[q] = v
         /\ nFree' = [nFree EXCEPT ![q] = 0]
         /\ v \in Obj => Live(v) /\ tier[v] = "hot" /\ seq[v] = q
         /\ \A x \in Obj : Live(x) /\ seq[x] = q => x = v
<1> USE Nulls DEF IInv, SlotsOK
<1>1. CASE v = NoObj /\ Take(q)
  <2>1. nFree[q] = 1
    BY <1>1 DEF Take, SlotAccounting, TypeOK
  <2>2. bySeq[q] = NoObj /\ Holders(q) = {}
    BY <2>1 DEF SlotAccounting
  <2>3. nFree' = [nFree EXCEPT ![q] = 0]
    BY <1>1, <2>1 DEF Take, TypeOK
  <2>4. \A x \in Obj : ~ (Live(x) /\ seq[x] = q)
    BY <2>2 DEF BoundIsMapped
  <2> QED BY <1>1, <2>2, <2>3, <2>4
<1>2. CASE NoneFree /\ v \in Evictable /\ seq[v] = q /\ UNCHANGED nFree
  <2>1. v \in Obj /\ Live(v) /\ tier[v] = "hot" /\ bySeq[q] = v
    BY <1>2 DEF Evictable, BoundIsMapped
  <2>2. Holders(q) = {} /\ nFree[q] = 0
    BY <2>1 DEF SlotAccounting
  <2>3. nFree' = [nFree EXCEPT ![q] = 0]
    BY <1>2, <2>2 DEF TypeOK
  <2>4. \A x \in Obj : Live(x) /\ seq[x] = q => x = v
    BY <2>1 DEF BoundIsMapped
  <2> QED BY <1>2, <2>1, <2>2, <2>3, <2>4
<1> QED BY <1>1, <1>2 DEF Acquire

LEMMA PromptWarmStep ==
  ASSUME IInv, TypeOK', NEW c \in Caller, NEW i \in Id, NEW b \in BOOLEAN,
         PromptWarm(c, i, b)
  PROVE  SlotsOK'
<1> USE Nulls DEF IInv, SlotsOK
<1> DEFINE o == sessions[i]
<1>1. /\ o \in Obj /\ ident[o] = i /\ Live(o) /\ tier[o] = "warm"
      /\ ~ContextFreed /\ ~ContextFreed' /\ call[c].pc = "idle"
  BY DEF PromptWarm, CanPrompt, TypeOK, NamesMatch, Live, GoneIsEmpty, ContextFreed
<1>2. PICK q \in Slot, v \in Obj \cup {NoObj} :
        /\ Acquire(q, v)
        /\ bySeq' = [bySeq EXCEPT ![q] = o]
        /\ kv' = [kv EXCEPT ![q] = RestoredCells(o, q)]
        /\ seq' = [x \in Obj |-> IF x = o THEN q ELSE IF x = v THEN NoSlot ELSE seq[x]]
        /\ tier' = [x \in Obj |-> IF x = o THEN "hot" ELSE IF x = v THEN "warm" ELSE tier[x]]
  BY DEF PromptWarm
<1>3. /\ Holders(q) = {} /\ bySeq[q] = v
      /\ nFree' = [nFree EXCEPT ![q] = 0]
      /\ v \in Obj => Live(v) /\ tier[v] = "hot" /\ seq[v] = q
      /\ \A x \in Obj : Live(x) /\ seq[x] = q => x = v
  BY <1>1, <1>2, AcquireFacts
<1>4. call' = [call EXCEPT ![c] = [Idle EXCEPT !.pc = "resume", !.id = i,
                                      !.obj = o, !.clear = b]]
  BY DEF PromptWarm
<1>5. ReadsKept
  BY <1>1, <1>4 DEF ReadsKept, TypeOK, Call, Idle
<1>6. UNCHANGED <<sessions, ident>>
  BY DEF PromptWarm
<1>7. NamesMatch' /\ GoneIsEmpty'
  BY <1>1, <1>6 DEF NamesMatch, GoneIsEmpty
<1> HIDE DEF o
<1>8. SlotAccounting'
  BY <1>1, <1>2, <1>3, <1>5, HoldersKept DEF SlotAccounting, TypeOK
<1>9. BoundIsMapped'
  <2> SUFFICES ASSUME NEW x \in Obj, Live(x)
               PROVE  /\ seq'[x] # NoSlot => bySeq'[seq'[x]] = x
                      /\ tier'[x] = "hot" => seq'[x] # NoSlot
                      /\ tier'[x] = "warm" => seq'[x] = NoSlot
    BY <1>6 DEF BoundIsMapped, Live
  <2>1. CASE x = o
    BY <1>1, <1>2, <2>1 DEF TypeOK
  <2>2. CASE x # o /\ x = v
    BY <1>2, <2>2 DEF TypeOK
  <2>3. CASE x # o /\ x # v
    BY <1>1, <1>2, <1>3, <2>3 DEF TypeOK, BoundIsMapped
  <2> QED BY <2>1, <2>2, <2>3
<1>10. ReservedApart'
  <2> SUFFICES ASSUME NEW d \in Caller, call'[d].pc = "reading"
               PROVE  seq'[call'[d].obj] # call'[d].slot
    BY DEF ReservedApart
  <2>1. /\ call'[d] = call[d] /\ call[d].obj \in Obj /\ call[d].slot \in Slot
        /\ d \in Holders(call[d].slot)
    BY <1>5 DEF ReadsKept, CallOK, Holders
  <2>2. call[d].slot # q /\ seq[call[d].obj] # call[d].slot
    BY <1>1, <1>3, <2>1 DEF ReservedApart
  <2> QED BY <1>2, <2>1, <2>2
<1>11. UnmappedIsEmpty'
  BY <1>1, <1>2 DEF UnmappedIsEmpty, TypeOK
<1> QED BY <1>7, <1>8, <1>9, <1>10, <1>11

LEMMA PromptColdStep ==
  ASSUME IInv, TypeOK', NEW c \in Caller, NEW i \in Id, NEW b \in BOOLEAN,
         PromptCold(c, i, b)
  PROVE  SlotsOK'
<1> USE Nulls DEF IInv, SlotsOK
<1> DEFINE o == sessions[i]
<1>1. /\ o \in Obj /\ ident[o] = i /\ Live(o) /\ tier[o] = "cold"
      /\ ~ContextFreed /\ ~ContextFreed' /\ call[c].pc = "idle"
  BY DEF PromptCold, Reserve, CanPrompt, TypeOK, NamesMatch, Live, GoneIsEmpty, ContextFreed
<1>2. PICK q \in Slot, v \in Obj \cup {NoObj} :
        /\ Acquire(q, v)
        /\ bySeq' = [bySeq EXCEPT ![q] = NoObj]
        /\ kv' = [kv EXCEPT ![q] = Empty]
        /\ seq' = [x \in Obj |-> IF x = v THEN NoSlot ELSE seq[x]]
        /\ tier' = [x \in Obj |-> IF x = v THEN "warm" ELSE tier[x]]
        /\ call' = [call EXCEPT ![c] = [Idle EXCEPT !.pc = "reading", !.id = i,
                                        !.obj = o, !.slot = q, !.clear = b]]
  BY DEF PromptCold, Reserve
<1>3. /\ Holders(q) = {} /\ bySeq[q] = v
      /\ nFree' = [nFree EXCEPT ![q] = 0]
      /\ v \in Obj => Live(v) /\ tier[v] = "hot" /\ seq[v] = q
      /\ \A x \in Obj : Live(x) /\ seq[x] = q => x = v
  BY <1>1, <1>2, AcquireFacts
<1>4. /\ call'[c].pc = "reading" /\ call'[c].slot = q /\ call'[c].obj = o
      /\ \A d \in Caller \ {c} : call'[d] = call[d]
  BY <1>2 DEF TypeOK, Idle
<1>5. UNCHANGED <<sessions, ident>>
  BY DEF PromptCold, Reserve
<1>6. NamesMatch' /\ GoneIsEmpty'
  BY <1>1, <1>5 DEF NamesMatch, GoneIsEmpty
<1>7. \A s \in Slot : Holders(s)' = IF s = q THEN {c} ELSE Holders(s)
  BY <1>1, <1>3, <1>4 DEF Holders
<1> HIDE DEF o
<1>8. SlotAccounting'
  <2> SUFFICES ASSUME NEW s \in Slot
               PROVE  /\ nFree'[s] \in {0, 1}
                      /\ nFree'[s] = 1 <=> (bySeq'[s] = NoObj /\ Holders(s)' = {})
                      /\ bySeq'[s] # NoObj => Holders(s)' = {}
                      /\ \A d, e \in Holders(s)' : d = e
    BY DEF SlotAccounting
  <2>1. CASE s = q
    <3>1. Holders(s)' = {c}
      BY <1>7, <2>1
    <3>2. nFree'[s] = 0 /\ bySeq'[s] = NoObj
      BY <1>2, <1>3, <2>1 DEF TypeOK
    <3> QED BY <3>1, <3>2
  <2>2. CASE s # q
    <3>1. Holders(s)' = Holders(s) /\ nFree'[s] = nFree[s] /\ bySeq'[s] = bySeq[s]
      BY <1>2, <1>3, <1>7, <2>2 DEF TypeOK
    <3> QED BY <1>1, <3>1 DEF SlotAccounting
  <2> QED BY <2>1, <2>2
<1>9. BoundIsMapped'
  <2> SUFFICES ASSUME NEW x \in Obj, Live(x)
               PROVE  /\ seq'[x] # NoSlot => bySeq'[seq'[x]] = x
                      /\ tier'[x] = "hot" => seq'[x] # NoSlot
                      /\ tier'[x] = "warm" => seq'[x] = NoSlot
    BY <1>5 DEF BoundIsMapped, Live
  <2>1. CASE x = v
    BY <1>2, <2>1 DEF TypeOK
  <2>2. CASE x # v
    BY <1>1, <1>2, <1>3, <2>2 DEF TypeOK, BoundIsMapped
  <2> QED BY <2>1, <2>2
<1>10. ReservedApart'
  <2> SUFFICES ASSUME NEW d \in Caller, call'[d].pc = "reading"
               PROVE  seq'[call'[d].obj] # call'[d].slot
    BY DEF ReservedApart
  <2>1. CASE d = c
    <3>1. seq[o] # q
      BY <1>1, <1>3
    <3> QED BY <1>1, <1>2, <1>4, <2>1, <3>1
  <2>2. CASE d # c
    <3>1. call'[d] = call[d] /\ call[d].obj \in Obj /\ call[d].slot \in Slot
      BY <1>4, <2>2 DEF CallOK
    <3>2. seq[call[d].obj] # call[d].slot
      BY <1>1, <3>1 DEF ReservedApart
    <3> QED BY <1>2, <3>1, <3>2
  <2> QED BY <2>1, <2>2
<1>11. UnmappedIsEmpty'
  BY <1>2 DEF UnmappedIsEmpty, TypeOK
<1> QED BY <1>6, <1>8, <1>9, <1>10, <1>11

(* The reserved slot becomes the session's; the caller was its only holder.*)
LEMMA ReadDoneStep ==
  ASSUME IInv, TypeOK', NEW c \in Caller, ReadDone(c)
  PROVE  SlotsOK'
<1> USE Nulls DEF IInv, SlotsOK
<1> DEFINE o == call[c].obj
           q == call[c].slot
<1>1. /\ o \in Obj /\ q \in Slot /\ c \in Holders(q)
      /\ ~ContextFreed /\ ~ContextFreed'
  BY DEF ReadDone, Bind, CallOK, Holders, ContextFreed
<1>2. /\ nFree[q] = 0 /\ bySeq[q] = NoObj /\ Holders(q) = {c}
  BY <1>1 DEF SlotAccounting
<1>3. /\ bySeq' = [bySeq EXCEPT ![q] = o] /\ seq' = [seq EXCEPT ![o] = q]
      /\ tier' = [tier EXCEPT ![o] = "hot"]
      /\ UNCHANGED <<sessions, ident, nFree>>
      /\ \A s \in Slot \ {q} : kv'[s] = kv[s]
  BY DEF ReadDone, Bind, TypeOK
<1>4. call'[c].pc = "resume" /\ \A d \in Caller \ {c} : call'[d] = call[d]
  BY DEF ReadDone, Bind, TypeOK, Call
<1>5. \A s \in Slot : Holders(s)' = IF s = q THEN {} ELSE Holders(s)
  BY <1>2, <1>4 DEF Holders
<1> HIDE DEF o, q
<1>6. NamesMatch' /\ GoneIsEmpty'
  BY <1>1, <1>3 DEF NamesMatch, GoneIsEmpty
<1>7. SlotAccounting'
  BY <1>1, <1>2, <1>3, <1>5 DEF SlotAccounting, TypeOK
<1>8. BoundIsMapped'
  <2> SUFFICES ASSUME NEW x \in Obj, Live(x)
               PROVE  /\ seq'[x] # NoSlot => bySeq'[seq'[x]] = x
                      /\ tier'[x] = "hot" => seq'[x] # NoSlot
                      /\ tier'[x] = "warm" => seq'[x] = NoSlot
    BY <1>3 DEF BoundIsMapped, Live
  <2>1. CASE x = o
    BY <1>1, <1>3, <2>1 DEF TypeOK
  <2>2. CASE x # o
    <3>1. seq[x] # q
      BY <1>1, <1>2 DEF BoundIsMapped
    <3> QED BY <1>1, <1>3, <2>2, <3>1 DEF TypeOK, BoundIsMapped
  <2> QED BY <2>1, <2>2
<1>9. ReservedApart'
  <2> SUFFICES ASSUME NEW d \in Caller, call'[d].pc = "reading"
               PROVE  seq'[call'[d].obj] # call'[d].slot
    BY DEF ReservedApart
  <2>1. d # c /\ call'[d] = call[d] /\ call[d].obj \in Obj /\ call[d].slot \in Slot
    BY <1>4 DEF CallOK
  <2>2. call[d].slot # q
    BY <1>2, <2>1 DEF Holders
  <2> QED BY <1>1, <1>3, <2>1, <2>2 DEF ReservedApart, TypeOK
<1>10. UnmappedIsEmpty'
  BY <1>1, <1>3 DEF UnmappedIsEmpty, TypeOK
<1> QED BY <1>6, <1>7, <1>8, <1>9, <1>10

LEMMA ReadFailStep ==
  ASSUME IInv, TypeOK', NEW c \in Caller, ReadFail(c)
  PROVE  SlotsOK'
<1> USE Nulls DEF IInv, SlotsOK
<1> DEFINE q == call[c].slot
<1>1. /\ q \in Slot /\ c \in Holders(q) /\ ~ContextFreed /\ ~ContextFreed'
      /\ seq[call[c].obj] # q
  BY DEF ReadFail, GiveUp, CallOK, Holders, ContextFreed, ReservedApart
<1>2. /\ nFree[q] = 0 /\ bySeq[q] = NoObj /\ Holders(q) = {c}
  BY <1>1 DEF SlotAccounting
<1>3. /\ nFree' = [nFree EXCEPT ![q] = 1]
      /\ UNCHANGED <<sessions, bySeq, kv, ident, seq, tier>>
  BY <1>1, <1>2 DEF ReadFail, GiveUp, fields, TypeOK
<1>4. call'[c].pc = "idle" /\ \A d \in Caller \ {c} : call'[d] = call[d]
  BY DEF ReadFail, GiveUp, TypeOK, Idle
<1>5. \A s \in Slot : Holders(s)' = IF s = q THEN {} ELSE Holders(s)
  BY <1>2, <1>4 DEF Holders
<1> HIDE DEF q
<1>6. NamesMatch' /\ GoneIsEmpty' /\ UnmappedIsEmpty'
  BY <1>1, <1>3 DEF NamesMatch, GoneIsEmpty, UnmappedIsEmpty
<1>7. SlotAccounting'
  BY <1>1, <1>2, <1>3, <1>5 DEF SlotAccounting, TypeOK
<1>8. BoundIsMapped'
  BY <1>1, <1>3 DEF BoundIsMapped, Live
<1>9. ReservedApart'
  BY <1>1, <1>3, <1>4 DEF ReservedApart
<1> QED BY <1>6, <1>7, <1>8, <1>9

(* All hot sessions give their slots back at once: no two of them share    *)
(* one, because a slot is mapped to one session.                           *)
LEMMA PersistEvictStep ==
  ASSUME IInv, TypeOK', PersistEvict
  PROVE  SlotsOK'
<1> USE Nulls DEF IInv, SlotsOK
<1> DEFINE hot == {o \in Obj : Live(o) /\ tier[o] = "hot" /\ seq[o] # NoSlot}
           left == {seq[o] : o \in hot}
<1>1. /\ tier' = [o \in Obj |-> IF o \in hot THEN "warm" ELSE tier[o]]
      /\ seq' = [o \in Obj |-> IF o \in hot THEN NoSlot ELSE seq[o]]
      /\ bySeq' = [s \in Slot |-> IF s \in left THEN NoObj ELSE bySeq[s]]
      /\ kv' = [s \in Slot |-> IF s \in left THEN Empty ELSE kv[s]]
      /\ nFree' = [s \in Slot |-> IF s \in left THEN nFree[s] + 1 ELSE nFree[s]]
      /\ UNCHANGED <<sessions, ident, call>>
      /\ ~ContextFreed /\ ~ContextFreed'
  BY DEF PersistEvict, ContextFreed
<1>2. \A o \in hot : Live(o) /\ seq[o] \in Slot /\ bySeq[seq[o]] = o
  BY <1>1 DEF BoundIsMapped, TypeOK
<1>3. \A s \in left : s \in Slot /\ bySeq[s] \in hot /\ bySeq[s] # NoObj
  BY <1>2
<1>4. \A s \in left : nFree[s] = 0 /\ Holders(s) = {}
  BY <1>1, <1>3 DEF SlotAccounting
<1>5. \A s \in Slot : Holders(s)' = Holders(s)
  BY <1>1 DEF Holders
<1>6. NamesMatch' /\ GoneIsEmpty'
  BY <1>1 DEF NamesMatch, GoneIsEmpty
<1>7. BoundIsMapped'
  <2> SUFFICES ASSUME NEW x \in Obj, Live(x)
               PROVE  /\ seq'[x] # NoSlot => bySeq'[seq'[x]] = x
                      /\ tier'[x] = "hot" => seq'[x] # NoSlot
                      /\ tier'[x] = "warm" => seq'[x] = NoSlot
    BY <1>1 DEF BoundIsMapped, Live
  <2>1. CASE x \in hot
    <3> HIDE DEF hot, left
    <3> QED BY <1>1, <2>1
  <2>2. CASE x \notin hot
    <3>1. tier[x] # "hot" /\ (tier[x] = "warm" => seq[x] = NoSlot)
      BY <1>1, <2>2 DEF BoundIsMapped
    <3>2. seq[x] # NoSlot => seq[x] \in Slot /\ bySeq[seq[x]] = x /\ seq[x] \notin left
      BY <1>1, <1>3, <2>2 DEF BoundIsMapped, TypeOK
    <3> HIDE DEF hot, left
    <3> QED BY <1>1, <2>2, <3>1, <3>2
  <2> QED BY <2>1, <2>2
<1> HIDE DEF hot, left
<1>8. SlotAccounting'
  BY <1>1, <1>4, <1>5 DEF SlotAccounting
<1>9. ReservedApart'
  BY <1>1 DEF ReservedApart, CallOK
<1>10. UnmappedIsEmpty'
  BY <1>1 DEF UnmappedIsEmpty
<1> QED BY <1>6, <1>7, <1>8, <1>9, <1>10

LEMMA TeardownStep ==
  ASSUME IInv, TypeOK', Teardown
  PROVE  SlotsOK'
  BY DEF Teardown, SlotsOK, NamesMatch, SlotAccounting, BoundIsMapped, ReservedApart,
         UnmappedIsEmpty, GoneIsEmpty, ContextFreed

LEMMA RestartStep ==
  ASSUME Restart
  PROVE  SlotsOK'
<1> USE Nulls
<1>1. \A s \in Slot : Holders(s)' = {}
  BY DEF Restart, Holders, Idle
<1>2. SlotAccounting'
  BY <1>1 DEF Restart, SlotAccounting
<1> QED
  BY <1>2 DEF Restart, SlotsOK, NamesMatch, BoundIsMapped, Live, ReservedApart, Idle,
              UnmappedIsEmpty, GoneIsEmpty, ContextFreed

LEMMA InitInv == Init => IInv
<1> SUFFICES ASSUME Init PROVE SlotsOK
  BY InitTyped DEF IInv
<1> USE Nulls
<1>1. \A s \in Slot : Holders(s) = {}
  BY DEF Init, Holders, Idle
<1>2. SlotAccounting
  BY <1>1 DEF Init, SlotAccounting
<1> QED
  BY <1>2 DEF Init, SlotsOK, NamesMatch, BoundIsMapped, Live, ReservedApart, Idle,
              UnmappedIsEmpty, GoneIsEmpty, ContextFreed

(* Advance only adds to the cells of a slot that is mapped.                *)
LEMMA AdvanceCells ==
  ASSUME IInv, NEW S \in SUBSET Obj, NEW D \in SUBSET S, Advance(S, D)
  PROVE  \A s \in Slot : bySeq[s] = NoObj => kv'[s] = kv[s]
<1>1. \A o \in S : Live(o) /\ seq[o] # NoSlot /\ ~ContextFreed
  BY DEF Advance, Batchable, Schedulable
<1>2. \A o \in S : bySeq[seq[o]] = o /\ o # NoObj
  BY <1>1, Nulls DEF IInv, SlotsOK, BoundIsMapped
<1> QED BY <1>2 DEF Advance

(* The cells StartRequest leaves are the ones before or none.              *)
LEMMA StartCells ==
  ASSUME TypeOK, NEW o, NEW b, StartRequest(o, b)
  PROVE  \A s \in Slot : kv'[s] \in {kv[s], Empty}
  BY DEF StartRequest, TypeOK

LEMMA OpenedCall ==
  ASSUME TypeOK, NEW c \in Caller, NEW i, NEW o, NEW p, NEW f, OpenForWrite(c, i, o, p, f)
  PROVE  call'[c].pc # "reading" /\ \A d \in Caller \ {c} : call'[d] = call[d]
<1>1. call' = [call EXCEPT ![c] = [Idle EXCEPT !.pc = "saving", !.id = i,
                                      !.obj = o, !.path = p, !.data = f]]
  BY DEF OpenForWrite
<1> QED BY <1>1 DEF TypeOK, Idle

LEMMA SlotStep ==
  ASSUME IInv, Next, TypeOK'
  PROVE  SlotsOK'
<1> USE Nulls
<1>1. ASSUME NEW i \in Id, CreateSession(i) PROVE SlotsOK'
  <2>1. PICK o \in Obj : \/ New(o, i, "warm", NoHist, FALSE, 0)
                         \/ New(o, i, "cold", NoHist, TRUE, 0)
    BY <1>1 DEF CreateSession
  <2>2. ReadsKept /\ ~ContextFreed /\ UNCHANGED <<bySeq, nFree, kv, shutdown>>
    BY <1>1 DEF CreateSession, Accepting, Disposed, ContextFreed, ReadsKept
  <2> QED BY <2>1, <2>2, NewStep
<1>2. ASSUME NEW i \in Id, Cancel(i) PROVE SlotsOK'
  BY <1>2, Quiet DEF Cancel, slots, ReadsKept, ContextFreed
<1>3. ASSUME NEW i \in Id, FreeSession(i) PROVE SlotsOK'
  <2>1. /\ sessions[i] # NoObj /\ Detach(i) /\ ReadsKept
        /\ UNCHANGED <<ident, seq, tier, shutdown>>
    BY <1>3 DEF FreeSession, ReadsKept
  <2> QED BY <2>1, DetachStep
<1>4. ASSUME NEW c \in Caller, NEW i \in Id, NEW b \in BOOLEAN, PromptHot(c, i, b)
      PROVE  SlotsOK'
  <2>1. \A s \in Slot : kv'[s] \in {kv[s], Empty}
    BY <1>4, StartCells DEF PromptHot, IInv
  <2> QED BY <1>4, <2>1, Quiet DEF PromptHot, ReadsKept, ContextFreed
<1>5. ASSUME NEW c \in Caller, NEW i \in Id, NEW b \in BOOLEAN, PromptWarm(c, i, b)
      PROVE  SlotsOK'
  BY <1>5, PromptWarmStep
<1>6. ASSUME NEW c \in Caller, NEW i \in Id, NEW b \in BOOLEAN, PromptCold(c, i, b)
      PROVE  SlotsOK'
  BY <1>6, PromptColdStep
<1>7. ASSUME NEW c \in Caller, NEW i \in Id, PromptNoSlot(c, i) PROVE SlotsOK'
  BY <1>7, Quiet DEF PromptNoSlot, slots, ReadsKept, ContextFreed
<1>8. ASSUME NEW c \in Caller, NEW i \in Id, FreeAndDelete(c, i) PROVE SlotsOK'
  <2>1. /\ sessions[i] # NoObj /\ Detach(i)
        /\ UNCHANGED <<ident, seq, tier, shutdown>>
    BY <1>8 DEF FreeAndDelete
  <2>2. ReadsKept
    BY <1>8 DEF FreeAndDelete, ReadsKept, IInv, TypeOK, Idle
  <2> QED BY <2>1, <2>2, DetachStep
<1>9. ASSUME NEW c \in Caller, DeleteFile(c) PROVE SlotsOK'
  <2>1. ReadsKept
    BY <1>9 DEF DeleteFile, ReadsKept, IInv, TypeOK, Idle
  <2> QED BY <1>9, <2>1, Quiet DEF DeleteFile, slots, fields, ContextFreed
<1>10. ASSUME NEW c \in Caller, ReadDone(c) PROVE SlotsOK'
  BY <1>10, ReadDoneStep
<1>11. ASSUME NEW c \in Caller, ReadFail(c) PROVE SlotsOK'
  BY <1>11, ReadFailStep
<1>12. ASSUME NEW c \in Caller, Resume(c) PROVE SlotsOK'
  <2>1. ReadsKept
    BY <1>12 DEF Resume, ReadsKept, IInv, TypeOK, Idle
  <2>2. \A s \in Slot : kv'[s] \in {kv[s], Empty}
    BY <1>12, StartCells DEF Resume, IInv
  <2> QED BY <1>12, <2>1, <2>2, Quiet DEF Resume, ContextFreed
<1>13. ASSUME NEW c \in Caller, SaveRead(c) PROVE SlotsOK'
  <2>1. ReadsKept
    <3>1. call'[c].pc # "reading" /\ \A d \in Caller \ {c} : call'[d] = call[d]
      <4>1. CASE call' = [call EXCEPT ![c] = Idle]
        BY <4>1 DEF IInv, TypeOK, Idle
      <4>2. ASSUME NEW f, OpenForWrite(c, call[c].id, call[c].obj, call[c].path, f)
            PROVE  call'[c].pc # "reading" /\ \A d \in Caller \ {c} : call'[d] = call[d]
        BY <4>2, OpenedCall DEF IInv
      <4> QED BY <1>13, <4>1, <4>2 DEF SaveRead
    <3> QED BY <1>13, <3>1 DEF SaveRead, ReadsKept
  <2> QED BY <1>13, <2>1, Quiet DEF SaveRead, slots, fields, ContextFreed
<1>14. ASSUME NEW c \in Caller, SaveDone(c) PROVE SlotsOK'
  <2>1. ReadsKept
    BY <1>14 DEF SaveDone, ReadsKept, IInv, TypeOK, Idle
  <2> QED BY <1>14, <2>1, Quiet DEF SaveDone, slots, fields, ContextFreed
<1>15. ASSUME NEW c \in Caller, LoadCheck(c) PROVE SlotsOK'
  <2>1. ReadsKept
    BY <1>15 DEF LoadCheck, ReadsKept, IInv, TypeOK, Call, Idle
  <2>2. call[c].id \in Id /\ UNCHANGED <<ident, seq, tier, shutdown>>
    BY <1>15 DEF LoadCheck, IInv, CallOK
  <2>3. CASE UNCHANGED <<slots, pending>>
    BY <2>1, <2>2, <2>3, Quiet DEF slots, ContextFreed
  <2>4. CASE Detach(call[c].id) /\ sessions[call[c].id] # NoObj
    BY <2>1, <2>2, <2>4, DetachStep
  <2> QED BY <1>15, <2>3, <2>4 DEF LoadCheck
<1>16. ASSUME NEW c \in Caller, LoadRead(c) PROVE SlotsOK'
  <2> DEFINE f == files[call[c].path]
             h == [own |-> IF f.hist.len = 0 THEN NoId ELSE call[c].id, len |-> f.hist.len]
  <2>1. ReadsKept
    BY <1>16 DEF LoadRead, ReadsKept, IInv, TypeOK, Idle
  <2>2. call[c].id \in Id /\ ~ContextFreed /\ UNCHANGED <<bySeq, nFree, kv, shutdown>>
    BY <1>16 DEF LoadRead, IInv, CallOK
  <2>3. PICK o \in Obj, p \in HeaderPos(f, 0) : New(o, call[c].id, "warm", h, FALSE, p)
    BY <1>16 DEF LoadRead
  <2> HIDE DEF f, h
  <2> QED BY <2>1, <2>2, <2>3, NewStep
<1>17. ASSUME NEW c \in Caller, LoadFail(c) \/ SaveFailed(c) PROVE SlotsOK'
  <2>1. ReadsKept
    BY <1>17 DEF LoadFail, SaveFailed, ReadsKept, IInv, TypeOK, Idle
  <2> QED BY <1>17, <2>1, Quiet DEF LoadFail, SaveFailed, slots, fields, ContextFreed
<1>18. ASSUME NEW c \in Caller, NEW i \in Id, NEW p \in UserPath, SaveSession(c, i, p)
       PROVE  SlotsOK'
  <2>1. ReadsKept
    <3>1. call'[c].pc # "reading" /\ \A d \in Caller \ {c} : call'[d] = call[d]
      <4>1. ASSUME NEW f, OpenForWrite(c, i, sessions[i], p, f)
            PROVE  call'[c].pc # "reading" /\ \A d \in Caller \ {c} : call'[d] = call[d]
        BY <4>1, OpenedCall DEF IInv
      <4>2. CASE call' = [call EXCEPT ![c] = [Idle EXCEPT !.pc = "saveRead", !.id = i,
                                                  !.obj = sessions[i], !.path = p]]
        BY <4>2 DEF IInv, TypeOK, Idle
      <4> QED BY <1>18, <4>1, <4>2 DEF SaveSession
    <3> QED BY <1>18, <3>1 DEF SaveSession, ReadsKept
  <2> QED BY <1>18, <2>1, Quiet DEF SaveSession, slots, fields, ContextFreed
<1>19. ASSUME NEW c \in Caller, NEW i \in Id, NEW p \in UserPath, LoadSession(c, i, p)
       PROVE  SlotsOK'
  <2>1. ReadsKept
    BY <1>19 DEF LoadSession, ReadsKept, IInv, TypeOK, Idle
  <2> QED BY <1>19, <2>1, Quiet DEF LoadSession, slots, fields, ContextFreed
<1>20. ASSUME NEW o \in Obj, \/ NotHot(o) \/ JanitorNext(o) \/ JanitorFailed(o)
                             \/ PersistFailed(o)
       PROVE  SlotsOK'
  BY <1>20, Quiet DEF NotHot, JanitorNext, JanitorFailed, PersistFailed, slots, fields,
                      ReadsKept, ContextFreed
<1>21. ASSUME NEW o \in Obj, JanitorWritten(o) \/ PersistWritten(o) PROVE SlotsOK'
  <2>1. \A x \in Obj : tier'[x] \in {tier[x], "cold"}
    BY <1>21 DEF JanitorWritten, PersistWritten, BecomeCold, IInv, TypeOK
  <2> QED BY <1>21, <2>1, Quiet DEF JanitorWritten, PersistWritten, slots, ReadsKept,
                                    ContextFreed
<1>22. ASSUME NEW S \in SUBSET Obj, DecodeFail(S) PROVE SlotsOK'
  BY <1>22, Quiet DEF DecodeFail, slots, ReadsKept, ContextFreed
<1>23. ASSUME NEW S \in SUBSET Obj, NEW D \in SUBSET S, Advance(S, D) PROVE SlotsOK'
  BY <1>23, AdvanceCells, Quiet DEF Advance, ReadsKept, ContextFreed
<1>24. ASSUME LoopExit \/ JanitorStart \/ JanitorStop PROVE SlotsOK'
  BY <1>24, Quiet DEF LoopExit, JanitorStart, JanitorStop, slots, fields, ReadsKept,
                      ContextFreed
<1>25. ASSUME PersistBegin \/ PersistDispose \/ Dispose PROVE SlotsOK'
  BY <1>25, Quiet DEF PersistBegin, PersistDispose, Dispose, slots, fields, ReadsKept,
                      ContextFreed
<1>26. CASE PersistEvict
  BY <1>26, PersistEvictStep
<1>27. CASE Teardown
  BY <1>27, TeardownStep
<1>28. CASE Restart
  BY <1>28, RestartStep
<1> QED
  BY <1>1, <1>2, <1>3, <1>4, <1>5, <1>6, <1>7, <1>8, <1>9, <1>10, <1>11, <1>12,
     <1>13, <1>14, <1>15, <1>16, <1>17, <1>18, <1>19, <1>20, <1>21, <1>22, <1>23,
     <1>24, <1>25, <1>26, <1>27, <1>28 DEF Next, Clearing

LEMMA StutterStep ==
  ASSUME IInv, UNCHANGED vars
  PROVE  IInv'
  BY DEF IInv, SlotsOK, TypeOK, CallOK, NamesMatch, SlotAccounting, BoundIsMapped,
         ReservedApart, UnmappedIsEmpty, GoneIsEmpty, Live, Holders, ContextFreed,
         vars, slots, fields, io

(* The invariant of the whole service.                                     *)
THEOREM Inductive == Spec => []IInv
<1>1. Init => IInv
  BY InitInv
<1>2. IInv /\ [Next]_vars => IInv'
  <2>1. ASSUME IInv, Next PROVE IInv'
    <3>1. TypeOK' /\ CallOK'
      BY <2>1, TypeStep
    <3>2. SlotsOK'
      BY <2>1, <3>1, SlotStep
    <3> QED BY <3>1, <3>2 DEF IInv
  <2> QED BY <2>1, StutterStep
<1> QED BY <1>1, <1>2, PTL DEF Spec

-----------------------------------------------------------------------------
(* Every variable keeps its type: in particular the id of an evicted or    *)
(* restored session is always a slot of the context.                       *)
THEOREM TypeCorrect == Spec => []TypeOK
<1>1. IInv => TypeOK
  BY DEF IInv
<1> QED BY <1>1, Inductive, PTL

(* However callers, janitor and shutdown interleave, a slot is free once,  *)
(* reserved by one suspended restore, or mapped to one session.            *)
THEOREM SlotsAccounted == Spec => []SlotAccounting
<1>1. IInv => SlotAccounting
  BY DEF IInv, SlotsOK
<1> QED BY <1>1, Inductive, PTL

(* What a live session believes its slot to be is what _sessionsBySeqId    *)
(* says, so the sampled token of a slot goes to the right session.         *)
THEOREM BoundMapped == Spec => []BoundIsMapped
<1>1. IInv => BoundIsMapped
  BY DEF IInv, SlotsOK
<1> QED BY <1>1, Inductive, PTL

(* A slot in _freeSeqIds has no cells of an earlier conversation.          *)
THEOREM FreeClean == Spec => []FreeSlotsAreClean
<1>1. IInv => FreeSlotsAreClean
  <2> SUFFICES ASSUME IInv, NEW s \in Slot, nFree[s] > 0
               PROVE  kv[s] = Empty
    BY DEF FreeSlotsAreClean
  <2>1. CASE ContextFreed
    BY <2>1 DEF IInv, SlotsOK, GoneIsEmpty, UnmappedIsEmpty
  <2>2. CASE ~ContextFreed
    <3>1. nFree[s] = 1
      BY <2>2 DEF IInv, SlotsOK, SlotAccounting
    <3> QED BY <2>2, <3>1 DEF IInv, SlotsOK, SlotAccounting, UnmappedIsEmpty
  <2> QED BY <2>1, <2>2
<1> QED BY <1>1, Inductive, PTL

(* A step of a service that is not shutting down never unbinds a live      *)
(* session that generates: only sessions that do not are evicted.          *)
THEOREM EvictionSpares == Spec => EvictionSparesGenerating
<1> DEFINE A == \A o \in Obj :
                  (/\ Live(o) /\ Live(o)' /\ ident'[o] = ident[o]
                   /\ status[o] = "generating" /\ seq[o] # NoSlot /\ shutdown = "no")
                  => seq'[o] # NoSlot
<1>1. IInv /\ Next => A
  <2> SUFFICES ASSUME IInv, Next, NEW o \in Obj, Live(o), Live(o)', ident'[o] = ident[o],
                      status[o] = "generating", seq[o] # NoSlot, shutdown = "no"
               PROVE  seq'[o] # NoSlot
    OBVIOUS
  <2> USE Nulls
  <2>1. CASE UNCHANGED seq
    BY <2>1
  <2>2. ASSUME NEW x \in Obj, NEW i, NEW t, NEW b, NEW a, NEW p, New(x, i, t, b, a, p)
        PROVE  seq'[o] # NoSlot
    <3>1. o # x
      BY <2>2 DEF New, Reachable, Live, IInv, TypeOK
    <3> QED BY <2>2, <3>1 DEF New, IInv, TypeOK
  <2>3. ASSUME NEW i \in Id, CreateSession(i) PROVE seq'[o] # NoSlot
    BY <2>2, <2>3 DEF CreateSession
  <2>4. ASSUME NEW c \in Caller, LoadRead(c) PROVE seq'[o] # NoSlot
    BY <2>2, <2>4 DEF LoadRead
  <2>5. ASSUME NEW c \in Caller, NEW i \in Id, NEW b \in BOOLEAN,
               PromptWarm(c, i, b) \/ PromptCold(c, i, b)
        PROVE  seq'[o] # NoSlot
    <3>1. ASSUME NEW q \in Slot, NEW v \in Obj \cup {NoObj}, Acquire(q, v)
          PROVE  o # v
      BY <3>1 DEF Acquire, Evictable
    <3>2. CASE PromptWarm(c, i, b)
      <4>1. PICK q \in Slot, v \in Obj \cup {NoObj} :
              /\ Acquire(q, v)
              /\ seq' = [x \in Obj |-> IF x = sessions[i] THEN q
                                       ELSE IF x = v THEN NoSlot ELSE seq[x]]
        BY <3>2 DEF PromptWarm
      <4> QED BY <3>1, <4>1
    <3>3. CASE PromptCold(c, i, b)
      <4>1. PICK q \in Slot, v \in Obj \cup {NoObj} :
              /\ Acquire(q, v)
              /\ seq' = [x \in Obj |-> IF x = v THEN NoSlot ELSE seq[x]]
        BY <3>3 DEF PromptCold, Reserve
      <4> QED BY <3>1, <4>1
    <3> QED BY <2>5, <3>2, <3>3
  <2>6. ASSUME NEW c \in Caller, ReadDone(c) PROVE seq'[o] # NoSlot
    BY <2>6 DEF ReadDone, Bind, IInv, TypeOK, CallOK
  <2>7. CASE PersistEvict
    BY <2>7 DEF PersistEvict
  <2>8. CASE Restart
    BY <2>8 DEF Restart, Live
  <2> QED
    BY <2>1, <2>3, <2>4, <2>5, <2>6, <2>7, <2>8
       DEF Next, Clearing, Cancel, FreeSession, PromptHot, PromptNoSlot, FreeAndDelete, DeleteFile,
           ReadFail, GiveUp, Resume, SaveRead, SaveDone, LoadCheck, LoadFail, SaveFailed, SaveSession,
           LoadSession, NotHot, JanitorNext, JanitorWritten, JanitorFailed, PersistWritten,
           PersistFailed, DecodeFail, Advance, LoopExit, JanitorStart, JanitorStop,
           PersistBegin, PersistDispose, Dispose, Teardown, fields
<1>2. IInv /\ [Next]_vars => [A]_vars
  BY <1>1
<1> QED BY <1>2, Inductive, PTL DEF Spec, EvictionSparesGenerating

-----------------------------------------------------------------------------
(***************************************************************************)
(* A slot holds nobody's conversation but that of its session, provided    *)
(* that the application keeps its own files apart from the state files of  *)
(* the service.  A history moves from a slot into RAM, into a file and     *)
(* back, so each place it may rest in needs a conjunct.                    *)
(***************************************************************************)
Of(h, i) == h.own \in {NoId, i}

BufOwned   == \A o \in Obj : buf[o] # NoHist => Of(buf[o], ident[o])
WriteOwned == \A o \in Obj : /\ jwrite[o] # NoFile => Of(jwrite[o].hist, ident[o])
                             /\ pwrite[o] # NoFile => Of(pwrite[o].hist, ident[o])
FileOwned  == \A i \in Id : files[i] # NoFile => Of(files[i].hist, i)
ReadNamed  == \A c \in Caller : call[c].pc = "reading" => ident[call[c].obj] = call[c].id

OwnersOK == NoForeignHistory /\ BufOwned /\ WriteOwned /\ FileOwned /\ ReadNamed

LEMMA EmptyOwned == \A i : Of(Empty, i)
  BY DEF Of, Empty

LEMMA TornOwned == \A f, i : Of(Torn(f).hist, i)
  BY EmptyOwned DEF Torn

LEMMA SavedOwned ==
  ASSUME NEW h, NEW p, NEW i, Of(h, i)
  PROVE  Of(Saved(h, p).hist, i)
  BY DEF Saved

(* Nothing refers to the object that becomes a new session.                *)
LEMMA NewOwned ==
  ASSUME IInv, IInv', OwnersOK, ReadsKept,
         NEW o \in Obj, NEW i \in Id, NEW t, NEW b, NEW a, NEW p,
         New(o, i, t, b, a, p), b # NoHist => Of(b, i),
         UNCHANGED <<bySeq, kv, files, jwrite, pwrite>>
  PROVE  OwnersOK'
<1> USE Nulls DEF IInv
<1>1. /\ \A s \in Slot : bySeq[s] # o
      /\ \A c \in Caller : call[c].obj # o
      /\ jwrite[o] = NoFile /\ pwrite[o] = NoFile
  BY DEF New, Reachable
<1>2. ident' = [ident EXCEPT ![o] = i] /\ buf' = [buf EXCEPT ![o] = b]
  BY DEF New
<1>3. NoForeignHistory'
  BY <1>1, <1>2 DEF OwnersOK, NoForeignHistory, TypeOK
<1>4. BufOwned'
  BY <1>2 DEF OwnersOK, BufOwned, TypeOK
<1>5. WriteOwned'
  BY <1>1, <1>2 DEF OwnersOK, WriteOwned, TypeOK
<1>6. FileOwned'
  BY DEF OwnersOK, FileOwned
<1>7. ReadNamed'
  BY <1>1, <1>2 DEF OwnersOK, ReadNamed, ReadsKept, TypeOK, CallOK
<1> QED BY <1>3, <1>4, <1>5, <1>6, <1>7 DEF OwnersOK

(* A step that writes no history anywhere but may drop some.               *)
LEMMA QuietOwned ==
  ASSUME IInv, OwnersOK, ReadsKept, UNCHANGED ident,
         \A s \in Slot : \/ bySeq'[s] = NoObj \/ kv'[s] = Empty
                         \/ bySeq'[s] = bySeq[s] /\ kv'[s] = kv[s],
         \A o \in Obj : /\ buf'[o] \in {buf[o], NoHist}
                        /\ jwrite'[o] \in {jwrite[o], NoFile}
                        /\ pwrite'[o] \in {pwrite[o], NoFile},
         FileOwned'
  PROVE  OwnersOK'
<1>1. NoForeignHistory'
  BY EmptyOwned DEF OwnersOK, NoForeignHistory, Empty
<1>2. BufOwned' /\ WriteOwned'
  BY DEF OwnersOK, BufOwned, WriteOwned
<1>3. ReadNamed'
  BY DEF OwnersOK, ReadNamed, ReadsKept
<1> QED BY <1>1, <1>2, <1>3 DEF OwnersOK

LEMMA FilesKept == ASSUME OwnersOK, UNCHANGED files PROVE FileOwned'
  BY DEF OwnersOK, FileOwned

(* The end of a write leaves a file of the owner of what was written.      *)
LEMMA WrittenOwned ==
  ASSUME IInv, OwnersOK, NEW j, NEW d, Of(d.hist, j), NEW b \in BOOLEAN,
         files' = Written(j, d, b)
  PROVE  FileOwned'
<1>1. \A i \in Id : i # j => files'[i] = files[i]
  BY DEF Written, IInv, TypeOK
<1>2. j \in Id => files'[j] \in {files[j], d, Torn(d)}
  BY DEF Written, IInv, TypeOK, Path
<1> QED BY <1>1, <1>2, TornOwned DEF OwnersOK, FileOwned

LEMMA DetachOwned ==
  ASSUME IInv, OwnersOK, ReadsKept, NEW i \in Id, sessions[i] # NoObj, Detach(i),
         UNCHANGED <<ident, buf, jwrite, pwrite, files>>
  PROVE  OwnersOK'
<1>1. \A s \in Slot : \/ bySeq'[s] = NoObj
                      \/ bySeq'[s] = bySeq[s] /\ kv'[s] = kv[s]
  BY DEF Detach, GiveBack, IInv, TypeOK
<1> QED BY <1>1, FilesKept, QuietOwned

(* The evicted session takes the cells along, the restored one brings its  *)
(* own.                                                                    *)
LEMMA AcquireOwned ==
  ASSUME IInv, OwnersOK, NEW c \in Caller, NEW i \in Id, NEW b \in BOOLEAN,
         PromptWarm(c, i, b) \/ PromptCold(c, i, b)
  PROVE  OwnersOK'
<1> USE Nulls DEF IInv
<1> DEFINE o == sessions[i]
<1>1. /\ o \in Obj /\ ident[o] = i /\ ~ContextFreed
      /\ UNCHANGED <<ident, jwrite, pwrite, files>>
  BY DEF PromptWarm, PromptCold, Reserve, CanPrompt, TypeOK, SlotsOK, NamesMatch, GoneIsEmpty, io
<1>2. WriteOwned' /\ FileOwned'
  BY <1>1 DEF OwnersOK, WriteOwned, FileOwned
<1>3. \A q \in Slot, v \in Obj \cup {NoObj} :
         Acquire(q, v) /\ v \in Obj => Of(kv[q], ident[v])
  BY <1>1, AcquireFacts DEF OwnersOK, NoForeignHistory, Of
<1>4. CASE PromptWarm(c, i, b)
  <2>1. PICK q \in Slot, v \in Obj \cup {NoObj} :
          /\ Acquire(q, v)
          /\ bySeq' = [bySeq EXCEPT ![q] = o]
          /\ kv' = [kv EXCEPT ![q] = RestoredCells(o, q)]
          /\ buf' = [x \in Obj |-> IF x = o THEN NoHist ELSE IF x = v THEN kv[q] ELSE buf[x]]
    BY <1>4 DEF PromptWarm
  <2>2. Of(RestoredCells(o, q), i)
    BY <1>1, EmptyOwned DEF RestoredCells, OwnersOK, BufOwned
  <2>3. call'[c].pc = "resume" /\ \A d \in Caller \ {c} : call'[d] = call[d]
    BY <1>4 DEF PromptWarm, TypeOK, Idle
  <2> HIDE DEF o
  <2>4. NoForeignHistory'
    BY <1>1, <2>1, <2>2 DEF OwnersOK, NoForeignHistory, Of, TypeOK
  <2>5. BufOwned'
    BY <1>1, <1>3, <2>1 DEF OwnersOK, BufOwned
  <2>6. ReadNamed'
    BY <1>1, <2>3 DEF OwnersOK, ReadNamed
  <2> QED BY <1>2, <2>4, <2>5, <2>6 DEF OwnersOK
<1>5. CASE PromptCold(c, i, b)
  <2>1. PICK q \in Slot, v \in Obj \cup {NoObj} :
          /\ Acquire(q, v)
          /\ bySeq' = [bySeq EXCEPT ![q] = NoObj]
          /\ kv' = [kv EXCEPT ![q] = Empty]
          /\ buf' = [x \in Obj |-> IF x = v THEN kv[q] ELSE buf[x]]
          /\ call' = [call EXCEPT ![c] = [Idle EXCEPT !.pc = "reading", !.id = i,
                          !.obj = o, !.slot = q, !.clear = b]]
    BY <1>5 DEF PromptCold, Reserve
  <2>2. /\ call'[c].id = i /\ call'[c].obj = o
        /\ \A d \in Caller \ {c} : call'[d] = call[d]
    BY <2>1 DEF TypeOK, Idle
  <2> HIDE DEF o
  <2>3. NoForeignHistory'
    BY <1>1, <2>1 DEF OwnersOK, NoForeignHistory, TypeOK
  <2>4. BufOwned'
    BY <1>1, <1>3, <2>1 DEF OwnersOK, BufOwned
  <2>5. ReadNamed'
    BY <1>1, <2>2 DEF OwnersOK, ReadNamed
  <2> QED BY <1>2, <2>3, <2>4, <2>5 DEF OwnersOK
<1> QED BY <1>4, <1>5

LEMMA ReadDoneOwned ==
  ASSUME IInv, OwnersOK, NEW c \in Caller, ReadDone(c)
  PROVE  OwnersOK'
<1> USE Nulls DEF IInv
<1> DEFINE o == call[c].obj
           q == call[c].slot
           f == files[call[c].id]
<1>1. o \in Obj /\ q \in Slot /\ call[c].id \in Id /\ ident[o] = call[c].id
  BY DEF ReadDone, Bind, CallOK, OwnersOK, ReadNamed
<1>2. Of(f.hist, ident[o])
  BY <1>1 DEF ReadDone, Bind, OwnersOK, FileOwned
<1>3. /\ kv' = [kv EXCEPT ![q] = f.hist] /\ bySeq' = [bySeq EXCEPT ![q] = o]
      /\ buf' = [buf EXCEPT ![o] = NoHist]
      /\ UNCHANGED <<ident, jwrite, pwrite, files>>
      /\ call'[c].pc = "resume" /\ \A d \in Caller \ {c} : call'[d] = call[d]
  BY DEF ReadDone, Bind, io, TypeOK, Call
<1> HIDE DEF o, q, f
<1>4. NoForeignHistory'
  BY <1>1, <1>2, <1>3 DEF OwnersOK, NoForeignHistory, Of, TypeOK
<1>5. BufOwned' /\ WriteOwned' /\ FileOwned' /\ ReadNamed'
  BY <1>1, <1>3 DEF OwnersOK, BufOwned, WriteOwned, FileOwned, ReadNamed, TypeOK
<1> QED BY <1>4, <1>5 DEF OwnersOK

(* The tokens of a turn extend the history of the session of their slot.   *)
LEMMA AdvanceOwned ==
  ASSUME IInv, OwnersOK, NEW S \in SUBSET Obj, NEW D \in SUBSET S, Advance(S, D)
  PROVE  OwnersOK'
<1>1. UNCHANGED <<bySeq, ident, buf, jwrite, pwrite, files, call>>
  BY DEF Advance, io
<1>2. NoForeignHistory'
  <2> SUFFICES ASSUME NEW s \in Slot, bySeq[s] # NoObj
               PROVE  kv'[s].own \in {NoId, ident[bySeq[s]]}
    BY <1>1 DEF NoForeignHistory
  <2>1. kv'[s].own \in {kv[s].own, ident[bySeq[s]]}
    BY DEF Advance
  <2> QED BY <2>1 DEF OwnersOK, NoForeignHistory
<1>3. BufOwned' /\ WriteOwned' /\ FileOwned' /\ ReadNamed'
  BY <1>1 DEF OwnersOK, BufOwned, WriteOwned, FileOwned, ReadNamed
<1> QED BY <1>2, <1>3 DEF OwnersOK

LEMMA JanitorNextOwned ==
  ASSUME IInv, OwnersOK, NEW o \in Obj, JanitorNext(o)
  PROVE  OwnersOK'
<1> USE Nulls DEF IInv
<1>1. UNCHANGED <<bySeq, kv, ident, buf, pwrite, call>>
  BY DEF JanitorNext, slots, fields
<1>2. NoForeignHistory' /\ BufOwned' /\ ReadNamed'
  BY <1>1 DEF OwnersOK, NoForeignHistory, BufOwned, ReadNamed
<1>3. CASE buf[o] = NoHist
  BY <1>1, <1>2, <1>3, FilesKept DEF JanitorNext, OwnersOK, WriteOwned
<1>4. CASE buf[o] # NoHist
  <2> DEFINE f == Saved(buf[o], nPos[o])
  <2>1. Of(f.hist, ident[o])
    BY <1>4, SavedOwned DEF OwnersOK, BufOwned
  <2>2. jwrite' = [jwrite EXCEPT ![o] = f] /\ files' = [files EXCEPT ![ident[o]] = Torn(f)]
    BY <1>4 DEF JanitorNext
  <2> HIDE DEF f
  <2>3. WriteOwned'
    BY <1>1, <2>1, <2>2 DEF OwnersOK, WriteOwned, TypeOK
  <2>4. FileOwned'
    <3>1. \A i \in Id : files'[i] \in {files[i], Torn(f)}
      BY <2>2 DEF TypeOK, Path
    <3> QED BY <3>1, TornOwned DEF OwnersOK, FileOwned
  <2> QED BY <1>2, <2>3, <2>4 DEF OwnersOK
<1> QED BY <1>3, <1>4

LEMMA PersistEvictOwned ==
  ASSUME IInv, OwnersOK, PersistEvict
  PROVE  OwnersOK'
<1> USE Nulls DEF IInv
<1> DEFINE hot == {o \in Obj : Live(o) /\ tier[o] = "hot" /\ seq[o] # NoSlot}
           left == {seq[o] : o \in hot}
           image == [o \in Obj |-> IF o \in ToWrite THEN Saved(buf'[o], nPos[o]) ELSE NoFile]
<1>1. /\ buf' = [o \in Obj |-> IF o \in hot THEN kv[seq[o]] ELSE buf[o]]
      /\ bySeq' = [s \in Slot |-> IF s \in left THEN NoObj ELSE bySeq[s]]
      /\ kv' = [s \in Slot |-> IF s \in left THEN Empty ELSE kv[s]]
      /\ pwrite' = image
      /\ files' = [p \in Path |-> IF p \in Id /\ sessions[p] \in ToWrite
                                  THEN Torn(image[sessions[p]]) ELSE files[p]]
      /\ UNCHANGED <<ident, jwrite, call>> /\ ~ContextFreed
  BY DEF PersistEvict, ContextFreed
<1>2. \A o \in hot : seq[o] \in Slot /\ bySeq[seq[o]] = o
  BY <1>1 DEF SlotsOK, BoundIsMapped, TypeOK
<1>3. \A o \in hot : Of(kv[seq[o]], ident[o])
  BY <1>2 DEF OwnersOK, NoForeignHistory, Of
<1>4. BufOwned'
  BY <1>1, <1>3 DEF OwnersOK, BufOwned
<1>5. \A o \in ToWrite : Of(image[o].hist, ident[o])
  <2> SUFFICES ASSUME NEW o \in ToWrite PROVE Of(image[o].hist, ident[o])
    OBVIOUS
  <2>1. o \in Obj /\ Of(buf'[o], ident[o])
    BY <1>1, <1>4 DEF ToWrite, BufOwned
  <2> QED BY <2>1, SavedOwned
<1>6. WriteOwned'
  <2>1. \A o \in Obj : image[o] # NoFile => o \in ToWrite
    OBVIOUS
  <2> HIDE DEF image
  <2> QED BY <1>1, <1>5, <2>1 DEF OwnersOK, WriteOwned
<1> HIDE DEF hot, left, image
<1>7. NoForeignHistory'
  BY <1>1 DEF OwnersOK, NoForeignHistory
<1>8. FileOwned'
  BY <1>1, TornOwned DEF OwnersOK, FileOwned, Path
<1>9. ReadNamed'
  BY <1>1 DEF OwnersOK, ReadNamed
<1> QED BY <1>4, <1>6, <1>7, <1>8, <1>9 DEF OwnersOK

LEMMA RestartOwned ==
  ASSUME OwnersOK, Restart
  PROVE  OwnersOK'
  BY DEF Restart, OwnersOK, NoForeignHistory, BufOwned, WriteOwned, FileOwned, ReadNamed, Idle

(* saveSession writes to a path of the application's own.                  *)
LEMMA OpenedOwned ==
  ASSUME IInv, OwnersOK, UserPath \cap Id = {},
         NEW c, NEW i, NEW o, NEW p \in UserPath, NEW f, OpenForWrite(c, i, o, p, f)
  PROVE  FileOwned'
<1>1. \A j \in Id : files'[j] = files[j]
  BY DEF OpenForWrite, IInv, TypeOK, Path
<1> QED BY <1>1 DEF OwnersOK, FileOwned

LEMMA OwnersStep ==
  ASSUME IInv, IInv', OwnersOK, Next, UserPath \cap Id = {}
  PROVE  OwnersOK'
<1> USE Nulls
<1>1. ASSUME NEW i \in Id, CreateSession(i) PROVE OwnersOK'
  <2>1. PICK o \in Obj : \/ New(o, i, "warm", NoHist, FALSE, 0)
                         \/ New(o, i, "cold", NoHist, TRUE, 0)
    BY <1>1 DEF CreateSession
  <2>2. ReadsKept /\ UNCHANGED <<bySeq, kv, files, jwrite, pwrite>>
    BY <1>1 DEF CreateSession, ReadsKept, io
  <2> QED BY <2>1, <2>2, NewOwned
<1>2. ASSUME NEW i \in Id, Cancel(i) PROVE OwnersOK'
  BY <1>2, FilesKept, QuietOwned DEF Cancel, slots, io, ReadsKept
<1>3. ASSUME NEW i \in Id, FreeSession(i) PROVE OwnersOK'
  BY <1>3, DetachOwned DEF FreeSession, ReadsKept, io
<1>4. ASSUME NEW c \in Caller, NEW i \in Id, NEW b \in BOOLEAN, PromptHot(c, i, b)
      PROVE  OwnersOK'
  <2>1. \A s \in Slot : kv'[s] \in {kv[s], Empty}
    BY <1>4, StartCells DEF PromptHot, IInv
  <2> QED BY <1>4, <2>1, FilesKept, QuietOwned DEF PromptHot, io, ReadsKept
<1>5. ASSUME NEW c \in Caller, NEW i \in Id, NEW b \in BOOLEAN,
             PromptWarm(c, i, b) \/ PromptCold(c, i, b)
      PROVE  OwnersOK'
  BY <1>5, AcquireOwned
<1>6. ASSUME NEW c \in Caller, NEW i \in Id, PromptNoSlot(c, i) PROVE OwnersOK'
  BY <1>6, FilesKept, QuietOwned DEF PromptNoSlot, slots, io, ReadsKept
<1>7. ASSUME NEW c \in Caller, NEW i \in Id, FreeAndDelete(c, i) PROVE OwnersOK'
  <2>1. ReadsKept
    BY <1>7 DEF FreeAndDelete, ReadsKept, IInv, TypeOK, Idle
  <2> QED BY <1>7, <2>1, DetachOwned DEF FreeAndDelete, io
<1>8. ASSUME NEW c \in Caller, ReadDone(c) PROVE OwnersOK'
  BY <1>8, ReadDoneOwned
<1>9. ASSUME NEW c \in Caller, \/ DeleteFile(c) \/ ReadFail(c) \/ Resume(c) \/ SaveDone(c)
                               \/ LoadFail(c) \/ SaveFailed(c)
      PROVE  OwnersOK'
  <2>1. call' = [call EXCEPT ![c] = Idle]
    BY <1>9 DEF DeleteFile, ReadFail, GiveUp, Resume, SaveDone, LoadFail, SaveFailed
  <2>2. \A d \in Caller : call'[d].pc = "reading" => call'[d] = call[d]
    BY <2>1 DEF IInv, TypeOK, Idle
  <2>3. UNCHANGED <<bySeq, ident, buf, jwrite, pwrite>>
    BY <1>9 DEF DeleteFile, ReadFail, GiveUp, Resume, SaveDone, LoadFail, SaveFailed, slots, fields, io
  <2>4. \A s \in Slot : kv'[s] \in {kv[s], Empty}
    BY <1>9, StartCells DEF DeleteFile, ReadFail, GiveUp, Resume, SaveDone, LoadFail, SaveFailed, slots, IInv
  <2>5. FileOwned'
    <3>1. CASE DeleteFile(c)
      <4>1. \A i \in Id : files'[i] \in {files[i], NoFile}
        BY <3>1 DEF DeleteFile, IInv, TypeOK, Path
      <4> QED BY <4>1 DEF OwnersOK, FileOwned
    <3>2. CASE SaveDone(c)
      <4>1. call[c].path \in UserPath
        BY <3>2 DEF SaveDone, IInv, CallOK
      <4>2. \A i \in Id : files'[i] = files[i]
        BY <3>2, <4>1 DEF SaveDone, Written, IInv, TypeOK, Path
      <4> QED BY <4>2 DEF OwnersOK, FileOwned
    <3>3. CASE ReadFail(c) \/ Resume(c) \/ LoadFail(c) \/ SaveFailed(c)
      BY <3>3, FilesKept DEF ReadFail, GiveUp, Resume, LoadFail, SaveFailed, io
    <3> QED BY <1>9, <3>1, <3>2, <3>3
  <2>6. NoForeignHistory' /\ BufOwned' /\ WriteOwned'
    BY <2>3, <2>4, EmptyOwned DEF OwnersOK, NoForeignHistory, BufOwned, WriteOwned, Empty
  <2>7. ReadNamed'
    BY <2>2, <2>3 DEF OwnersOK, ReadNamed
  <2> QED BY <2>5, <2>6, <2>7 DEF OwnersOK
<1>10. ASSUME NEW c \in Caller, SaveRead(c) PROVE OwnersOK'
  <2>1. call[c].path \in UserPath /\ call[c].pc # "reading"
    BY <1>10 DEF SaveRead, IInv, CallOK
  <2>2. FileOwned'
    <3>1. CASE UNCHANGED files
      BY <3>1, FilesKept
    <3>2. ASSUME NEW f, OpenForWrite(c, call[c].id, call[c].obj, call[c].path, f)
          PROVE  FileOwned'
      BY <2>1, <3>2, OpenedOwned
    <3> QED BY <1>10, <3>1, <3>2 DEF SaveRead
  <2>3. call'[c].pc # "reading" /\ \A d \in Caller \ {c} : call'[d] = call[d]
    <3>1. CASE call' = [call EXCEPT ![c] = Idle]
      BY <3>1 DEF IInv, TypeOK, Idle
    <3>2. ASSUME NEW f, OpenForWrite(c, call[c].id, call[c].obj, call[c].path, f)
          PROVE  call'[c].pc # "reading" /\ \A d \in Caller \ {c} : call'[d] = call[d]
      BY <3>2, OpenedCall DEF IInv
    <3> QED BY <1>10, <3>1, <3>2 DEF SaveRead
  <2>4. ReadsKept
    BY <2>1, <2>3 DEF ReadsKept
  <2> QED BY <1>10, <2>2, <2>4, QuietOwned DEF SaveRead, slots, fields
<1>11. ASSUME NEW c \in Caller, NEW i \in Id, NEW p \in UserPath, SaveSession(c, i, p)
       PROVE  OwnersOK'
  <2>1. FileOwned'
    <3>1. CASE UNCHANGED files
      BY <3>1, FilesKept
    <3>2. ASSUME NEW f, OpenForWrite(c, i, sessions[i], p, f) PROVE FileOwned'
      BY <3>2, OpenedOwned
    <3> QED BY <1>11, <3>1, <3>2 DEF SaveSession
  <2>2. call'[c].pc # "reading" /\ \A d \in Caller \ {c} : call'[d] = call[d]
    <3>1. ASSUME NEW f, OpenForWrite(c, i, sessions[i], p, f)
          PROVE  call'[c].pc # "reading" /\ \A d \in Caller \ {c} : call'[d] = call[d]
      BY <3>1, OpenedCall DEF IInv
    <3>2. CASE call' = [call EXCEPT ![c] = [Idle EXCEPT !.pc = "saveRead", !.id = i,
                                                !.obj = sessions[i], !.path = p]]
      BY <3>2 DEF IInv, TypeOK, Idle
    <3> QED BY <1>11, <3>1, <3>2 DEF SaveSession
  <2>3. ReadsKept
    BY <1>11, <2>2 DEF SaveSession, ReadsKept
  <2> QED BY <1>11, <2>1, <2>3, QuietOwned DEF SaveSession, slots, fields
<1>12. ASSUME NEW c \in Caller, NEW i \in Id, NEW p \in UserPath, LoadSession(c, i, p)
       PROVE  OwnersOK'
  <2>1. ReadsKept
    BY <1>12 DEF LoadSession, ReadsKept, IInv, TypeOK, Idle
  <2> QED BY <1>12, <2>1, FilesKept, QuietOwned DEF LoadSession, slots, fields, io
<1>13. ASSUME NEW c \in Caller, LoadCheck(c) PROVE OwnersOK'
  <2>1. ReadsKept
    BY <1>13 DEF LoadCheck, ReadsKept, IInv, TypeOK, Call, Idle
  <2>2. call[c].id \in Id /\ UNCHANGED <<ident, buf, io>>
    BY <1>13 DEF LoadCheck, IInv, CallOK
  <2>3. CASE UNCHANGED <<slots, pending>>
    BY <2>1, <2>2, <2>3, FilesKept, QuietOwned DEF slots, io
  <2>4. CASE Detach(call[c].id) /\ sessions[call[c].id] # NoObj
    BY <2>1, <2>2, <2>4, DetachOwned DEF io
  <2> QED BY <1>13, <2>3, <2>4 DEF LoadCheck
<1>14. ASSUME NEW c \in Caller, LoadRead(c) PROVE OwnersOK'
  <2> DEFINE f == files[call[c].path]
             h == [own |-> IF f.hist.len = 0 THEN NoId ELSE call[c].id, len |-> f.hist.len]
  <2>1. ReadsKept
    BY <1>14 DEF LoadRead, ReadsKept, IInv, TypeOK, Idle
  <2>2. call[c].id \in Id /\ UNCHANGED <<bySeq, kv, files, jwrite, pwrite>>
    BY <1>14 DEF LoadRead, IInv, CallOK, io
  <2>3. PICK o \in Obj, p \in HeaderPos(f, 0) : New(o, call[c].id, "warm", h, FALSE, p)
    BY <1>14 DEF LoadRead
  <2>4. Of(h, call[c].id)
    BY DEF Of
  <2> HIDE DEF f, h
  <2> QED BY <2>1, <2>2, <2>3, <2>4, NewOwned
<1>15. ASSUME NEW o \in Obj, NotHot(o) PROVE OwnersOK'
  BY <1>15, FilesKept, QuietOwned DEF NotHot, slots, io, ReadsKept
<1>16. ASSUME NEW o \in Obj, JanitorNext(o) PROVE OwnersOK'
  BY <1>16, JanitorNextOwned
<1>17. ASSUME NEW o \in Obj, JanitorFailed(o) \/ PersistFailed(o) PROVE OwnersOK'
  <2>1. \A x \in Obj : /\ jwrite'[x] \in {jwrite[x], NoFile}
                       /\ pwrite'[x] \in {pwrite[x], NoFile}
    BY <1>17 DEF JanitorFailed, PersistFailed, IInv, TypeOK
  <2>2. UNCHANGED <<bySeq, kv, ident, buf, files, call>>
    BY <1>17 DEF JanitorFailed, PersistFailed, slots, fields
  <2> QED BY <2>1, <2>2, FilesKept, QuietOwned DEF ReadsKept
<1>18. ASSUME NEW o \in Obj, JanitorWritten(o) \/ PersistWritten(o) PROVE OwnersOK'
  <2>1. \A x \in Obj : /\ jwrite'[x] \in {jwrite[x], NoFile}
                       /\ pwrite'[x] \in {pwrite[x], NoFile}
                       /\ buf'[x] \in {buf[x], NoHist}
    BY <1>18 DEF JanitorWritten, PersistWritten, BecomeCold, IInv, TypeOK
  <2>2. UNCHANGED <<bySeq, kv, ident, call>>
    BY <1>18 DEF JanitorWritten, PersistWritten, slots
  <2>3. CASE JanitorWritten(o)
    <3>1. Of(jwrite[o].hist, ident[o])
      BY <2>3 DEF JanitorWritten, OwnersOK, WriteOwned
    <3>2. FileOwned'
      BY <2>3, <3>1, WrittenOwned DEF JanitorWritten
    <3> QED BY <2>1, <2>2, <3>2, QuietOwned DEF ReadsKept
  <2>4. CASE PersistWritten(o)
    <3>1. Of(pwrite[o].hist, ident[o])
      BY <2>4 DEF PersistWritten, OwnersOK, WriteOwned
    <3>2. FileOwned'
      BY <2>4, <3>1, WrittenOwned DEF PersistWritten
    <3> QED BY <2>1, <2>2, <3>2, QuietOwned DEF ReadsKept
  <2> QED BY <1>18, <2>3, <2>4
<1>19. ASSUME NEW S \in SUBSET Obj, DecodeFail(S) PROVE OwnersOK'
  BY <1>19, FilesKept, QuietOwned DEF DecodeFail, slots, io, ReadsKept
<1>20. ASSUME NEW S \in SUBSET Obj, NEW D \in SUBSET S, Advance(S, D) PROVE OwnersOK'
  BY <1>20, AdvanceOwned
<1>21. ASSUME \/ LoopExit \/ JanitorStart \/ JanitorStop \/ PersistBegin \/ PersistDispose
              \/ Dispose
       PROVE  OwnersOK'
  <2>1. UNCHANGED <<bySeq, kv, ident, buf, jwrite, pwrite, files, call>>
    BY <1>21 DEF LoopExit, JanitorStart, JanitorStop, PersistBegin, PersistDispose,
                 Dispose, slots, fields, io
  <2> QED BY <2>1, FilesKept, QuietOwned DEF ReadsKept
<1>22. CASE PersistEvict
  BY <1>22, PersistEvictOwned
<1>23. CASE Teardown
  BY <1>23, FilesKept, QuietOwned DEF Teardown, fields, io, ReadsKept
<1>24. CASE Restart
  BY <1>24, RestartOwned
<1> QED
  BY <1>1, <1>2, <1>3, <1>4, <1>5, <1>6, <1>7, <1>8, <1>9, <1>10, <1>11, <1>12, <1>13,
     <1>14, <1>15, <1>16, <1>17, <1>18, <1>19, <1>20, <1>21, <1>22, <1>23, <1>24 DEF Next, Clearing

(* Neither eviction, restore, archiving, a crash nor two requests at once  *)
(* put the cells of one session into the slot of another, as long as no    *)
(* path given to saveSession or loadSession is a state file.               *)
THEOREM NoForeign ==
  ASSUME UserPath \cap Id = {}
  PROVE  Spec => []NoForeignHistory
<1>1. Init => OwnersOK
  BY Nulls DEF Init, OwnersOK, NoForeignHistory, BufOwned, WriteOwned, FileOwned, ReadNamed,
               Idle, Path
<1>2. IInv /\ IInv' /\ OwnersOK /\ [Next]_vars => OwnersOK'
  <2>1. ASSUME IInv, IInv', OwnersOK, Next PROVE OwnersOK'
    BY <2>1, OwnersStep
  <2>2. ASSUME IInv, OwnersOK, UNCHANGED vars PROVE OwnersOK'
    BY <2>2, FilesKept, QuietOwned DEF vars, slots, fields, io, ReadsKept
  <2> QED BY <2>1, <2>2
<1>3. OwnersOK => NoForeignHistory
  BY DEF OwnersOK
<1> QED BY <1>1, <1>2, <1>3, Inductive, PTL DEF Spec
=============================================================================
