------------------------ MODULE SessionAwaited_proof ------------------------
(***************************************************************************)
(* What SessionService promises to an application that awaits its calls:   *)
(* no two of them are about one session or one path, none goes on while    *)
(* the service shuts down, and no janitor runs.  First the slots, whatever *)
(* fails; then the positions and files, when no decode, read or write      *)
(* fails and the process is not killed.                                    *)
(***************************************************************************)
EXTENDS SessionService_proof

(* The calls are awaited and the janitor does not run.                     *)
Careful == Env \cap {"overlap", "janitor", "late"} = {}

(* No two calls are about one session or one path.                         *)
OwnCall ==
    \A c, d \in Caller : c # d =>
        /\ call[c].id # NoId => call[d].id # call[c].id
        /\ call[c].path # NoId => call[d].path # call[c].path

(* What a suspended call r relies on still holds when it goes on.          *)
CallTidy(r) ==
    /\ r.pc \in {"reading", "resume"} => sessions[r.id] = r.obj
    /\ r.pc = "reading" => tier[r.obj] = "cold"
    /\ r.pc \in {"deleting", "loadRead"} => sessions[r.id] = NoObj
    /\ r.pc \in {"idle", "deleting"} => r.path = NoId
    /\ r.pc = "idle" => r.id = NoId
    /\ r.pc \notin {"idle", "deleting"} => shutdown = "no"

CallsTidy == OwnCall /\ \A c \in Caller : CallTidy(call[c])
SlotsTidy == NoSlotLeak /\ ColdMeansOnDisk
Parked    == \A o \in Obj : pwrite[o] # NoFile => shutdown = "archiving" /\ seq[o] = NoSlot
NoJanitor == todo = {} /\ \A o \in Obj : jwrite[o] = NoFile

TidyOK == CallsTidy /\ SlotsTidy /\ Parked /\ NoJanitor

-----------------------------------------------------------------------------
(***************************************************************************)
(* Slots and calls.                                                        *)
(***************************************************************************)
LEMMA TidyKinds == Careful => /\ "overlap" \notin Env /\ "janitor" \notin Env
                              /\ "late" \notin Env
  BY DEF Careful

(* A call that begins is about a session that no other call is about.      *)
LEMMA CallBegins ==
  ASSUME Careful, NEW i, Awaited(i)
  PROVE  \A c \in Caller : call[c].id # i
  BY TidyKinds DEF Awaited

LEMMA CallsKept ==
  ASSUME CallsTidy, UNCHANGED call,
         shutdown' = shutdown \/ \A c \in Caller : call[c].pc \in {"idle", "deleting"},
         \A c \in Caller : call[c].pc # "idle" => sessions'[call[c].id] = sessions[call[c].id],
         \A c \in Caller : call[c].pc = "reading" => tier'[call[c].obj] = tier[call[c].obj]
  PROVE  CallsTidy'
<1>1. OwnCall'
  BY DEF CallsTidy, OwnCall
<1>2. \A c \in Caller : CallTidy(call[c])'
  BY DEF CallsTidy, CallTidy
<1> QED BY <1>1, <1>2 DEF CallsTidy

(* Only c's call changes: it goes on, ends, or begins.                     *)
LEMMA CallMoved ==
  ASSUME CallsTidy, NEW c \in Caller, UNCHANGED shutdown,
         \A d \in Caller \ {c} : call'[d] = call[d],
         CallTidy(call[c])',
         call'[c].id \in {NoId, call[c].id} \/ \A d \in Caller : call[d].id # call'[c].id,
         call'[c].path \in {NoId, call[c].path} \/ \A d \in Caller : call[d].path # call'[c].path,
         \A d \in Caller \ {c} :
             /\ call[d].pc # "idle" => sessions'[call[d].id] = sessions[call[d].id]
             /\ call[d].pc = "reading" => tier'[call[d].obj] = tier[call[d].obj]
  PROVE  CallsTidy'
<1>1. OwnCall'
  BY DEF CallsTidy, OwnCall
<1>2. \A d \in Caller \ {c} : CallTidy(call[d])'
  BY DEF CallsTidy, CallTidy
<1> QED BY <1>1, <1>2 DEF CallsTidy

LEMMA SlotsKept ==
  ASSUME SlotsTidy, UNCHANGED <<sessions, ident, bySeq, seq>>,
         \A o \in Obj : Live(o) /\ tier'[o] = "cold" => tier[o] = "cold" \/ seq[o] = NoSlot
  PROVE  SlotsTidy'
  BY DEF SlotsTidy, NoSlotLeak, ColdMeansOnDisk, Live

(* While calls are accepted nothing is being persisted.                    *)
LEMMA NotParked ==
  ASSUME Parked, shutdown = "no", UNCHANGED pwrite
  PROVE  Parked'
  BY DEF Parked

LEMMA NewTidy ==
  ASSUME IInv, TidyOK, NEW o \in Obj, NEW i \in Id, NEW t \in Tier, NEW b, NEW a, NEW p,
         New(o, i, t, b, a, p), sessions[i] = NoObj, UNCHANGED bySeq
  PROVE  SlotsTidy'
<1> USE Nulls DEF IInv, SlotsOK
<1>1. /\ sessions' = [sessions EXCEPT ![i] = o] /\ ident' = [ident EXCEPT ![o] = i]
      /\ tier' = [tier EXCEPT ![o] = t] /\ seq' = [seq EXCEPT ![o] = NoSlot]
      /\ \A s \in Slot : bySeq[s] # o
  BY DEF New, Reachable
<1>2. \A x \in Obj \ {o} : Live(x)' <=> Live(x)
  BY <1>1 DEF Live, TypeOK
<1>3. NoSlotLeak'
  BY <1>1, <1>2 DEF TidyOK, SlotsTidy, NoSlotLeak, TypeOK
<1>4. ColdMeansOnDisk'
  BY <1>1, <1>2 DEF TidyOK, SlotsTidy, ColdMeansOnDisk, TypeOK
<1> QED BY <1>3, <1>4 DEF SlotsTidy

LEMMA DetachTidy ==
  ASSUME IInv, TidyOK, NEW i \in Id, sessions[i] # NoObj, Detach(i),
         UNCHANGED <<ident, seq, tier>>
  PROVE  SlotsTidy'
<1> USE Nulls DEF IInv, SlotsOK
<1> DEFINE o == sessions[i]
<1>1. o \in Obj /\ ident[o] = i /\ sessions' = [sessions EXCEPT ![i] = NoObj]
  BY DEF Detach, TypeOK, NamesMatch
<1>2. \A x \in Obj \ {o} : Live(x)' <=> Live(x)
  BY <1>1 DEF Live, TypeOK
<1>3. \A s \in Slot : bySeq'[s] # NoObj => bySeq'[s] = bySeq[s] /\ bySeq[s] # o
  <2>1. \A s \in Slot : bySeq[s] = o => seq[o] = s
    BY <1>1 DEF TidyOK, SlotsTidy, NoSlotLeak
  <2>2. CASE seq[o] = NoSlot
    BY <2>1, <2>2 DEF Detach
  <2>3. CASE seq[o] # NoSlot
    BY <2>1, <2>3 DEF Detach, GiveBack, TypeOK
  <2> QED BY <2>2, <2>3
<1> HIDE DEF o
<1>4. NoSlotLeak'
  BY <1>1, <1>2, <1>3 DEF TidyOK, SlotsTidy, NoSlotLeak, TypeOK
<1>5. ColdMeansOnDisk'
  <2>1. \A x \in Obj : Live(x)' => Live(x)
    BY <1>1 DEF Live, TypeOK
  <2> QED BY <2>1 DEF TidyOK, SlotsTidy, ColdMeansOnDisk
<1> QED BY <1>4, <1>5 DEF SlotsTidy

(* The victim leaves the slot q; the session of i takes it, or reserves it.*)
LEMMA AcquireTidy ==
  ASSUME IInv, TidyOK, Careful, NEW c \in Caller, NEW i \in Id, NEW b \in BOOLEAN,
         PromptWarm(c, i, b) \/ PromptCold(c, i, b)
  PROVE  TidyOK'
<1> USE Nulls DEF IInv, SlotsOK
<1> DEFINE o == sessions[i]
<1>1. /\ o \in Obj /\ ident[o] = i /\ Live(o) /\ ~ContextFreed /\ shutdown = "no"
      /\ call[c].pc = "idle" /\ Awaited(i)
      /\ UNCHANGED <<sessions, ident, jwrite, pwrite, todo, shutdown>>
  BY TidyKinds DEF PromptWarm, PromptCold, Reserve, CanPrompt, TypeOK, NamesMatch, GoneIsEmpty, io,
     Accepting, Live
<1>2. Parked' /\ NoJanitor'
  BY <1>1, NotParked DEF TidyOK, NoJanitor
<1>3. seq[o] = NoSlot /\ tier[o] \in {"warm", "cold"}
  BY <1>1 DEF PromptWarm, PromptCold, Reserve, TidyOK, SlotsTidy, ColdMeansOnDisk, BoundIsMapped
<1>4. \A s \in Slot : bySeq[s] # o
  BY <1>1, <1>3 DEF TidyOK, SlotsTidy, NoSlotLeak
<1>5. \A d \in Caller : call[d].id # i
  BY <1>1, CallBegins
<1>6. \A x \in Obj : Live(x)' <=> Live(x)
  BY <1>1 DEF Live
<1>7. \A d \in Caller \ {c} : call[d].pc = "reading" =>
         call[d].obj \in Obj /\ call[d].obj # o /\ tier[call[d].obj] = "cold"
  BY <1>1, <1>5 DEF CallOK, TidyOK, CallsTidy, CallTidy, NamesMatch
<1>8. CASE PromptWarm(c, i, b)
  <2>1. PICK q \in Slot, v \in Obj \cup {NoObj} :
          /\ Acquire(q, v)
          /\ bySeq' = [bySeq EXCEPT ![q] = o]
          /\ seq' = [x \in Obj |-> IF x = o THEN q ELSE IF x = v THEN NoSlot ELSE seq[x]]
          /\ tier' = [x \in Obj |-> IF x = o THEN "hot" ELSE IF x = v THEN "warm" ELSE tier[x]]
    BY <1>8 DEF PromptWarm
  <2>2. bySeq[q] = v /\ (v \in Obj => Live(v) /\ tier[v] = "hot" /\ seq[v] = q)
    BY <1>1, <2>1, AcquireFacts
  <2>3. /\ call'[c].pc = "resume" /\ call'[c].id = i /\ call'[c].obj = o
        /\ call'[c].path = NoId /\ \A d \in Caller \ {c} : call'[d] = call[d]
    BY <1>8 DEF PromptWarm, TypeOK, Idle
  <2> HIDE DEF o
  <2>4. SlotsTidy'
    <3>1. NoSlotLeak'
      BY <1>1, <1>4, <1>6, <2>1, <2>2 DEF TidyOK, SlotsTidy, NoSlotLeak, TypeOK
    <3>2. ColdMeansOnDisk'
      BY <1>1, <1>6, <2>1, <2>2 DEF TidyOK, SlotsTidy, ColdMeansOnDisk
    <3> QED BY <3>1, <3>2 DEF SlotsTidy
  <2>5. CallsTidy'
    <3>1. CallTidy(call[c])'
      BY <1>1, <2>3 DEF CallTidy, o
    <3>2. \A d \in Caller \ {c} : call[d].pc = "reading" => tier'[call[d].obj] = tier[call[d].obj]
      BY <1>7, <2>1, <2>2
    <3> QED BY <1>1, <1>5, <2>3, <3>1, <3>2, CallMoved DEF TidyOK
  <2> QED BY <1>2, <2>4, <2>5 DEF TidyOK
<1>9. CASE PromptCold(c, i, b)
  <2>1. PICK q \in Slot, v \in Obj \cup {NoObj} :
          /\ Acquire(q, v)
          /\ bySeq' = [bySeq EXCEPT ![q] = NoObj]
          /\ seq' = [x \in Obj |-> IF x = v THEN NoSlot ELSE seq[x]]
          /\ tier' = [x \in Obj |-> IF x = v THEN "warm" ELSE tier[x]]
          /\ call' = [call EXCEPT ![c] = [Idle EXCEPT !.pc = "reading", !.id = i,
                          !.obj = o, !.slot = q, !.clear = b]]
    BY <1>9 DEF PromptCold, Reserve
  <2>2. bySeq[q] = v /\ (v \in Obj => Live(v) /\ tier[v] = "hot" /\ seq[v] = q)
    BY <1>1, <2>1, AcquireFacts
  <2>3. /\ call'[c].pc = "reading" /\ call'[c].id = i /\ call'[c].obj = o
        /\ call'[c].path = NoId /\ \A d \in Caller \ {c} : call'[d] = call[d]
    BY <2>1 DEF TypeOK, Idle
  <2>4. tier[o] = "cold"
    BY <1>9 DEF PromptCold, Reserve
  <2> HIDE DEF o
  <2>5. SlotsTidy'
    <3>1. NoSlotLeak'
      BY <1>1, <1>6, <2>1, <2>2 DEF TidyOK, SlotsTidy, NoSlotLeak, TypeOK
    <3>2. ColdMeansOnDisk'
      BY <1>1, <1>6, <2>1, <2>2 DEF TidyOK, SlotsTidy, ColdMeansOnDisk
    <3> QED BY <3>1, <3>2 DEF SlotsTidy
  <2>6. CallsTidy'
    <3>1. CallTidy(call[c])'
      BY <1>1, <2>1, <2>2, <2>3, <2>4 DEF CallTidy, o
    <3>2. \A d \in Caller \ {c} : call[d].pc = "reading" => tier'[call[d].obj] = tier[call[d].obj]
      BY <1>7, <2>1, <2>2
    <3> QED BY <1>1, <1>5, <2>3, <3>1, <3>2, CallMoved DEF TidyOK
  <2> QED BY <1>2, <2>5, <2>6 DEF TidyOK
<1> QED BY <1>8, <1>9

LEMMA ReadDoneTidy ==
  ASSUME IInv, TidyOK, NEW c \in Caller, ReadDone(c)
  PROVE  TidyOK'
<1> USE Nulls DEF IInv, SlotsOK
<1> DEFINE o == call[c].obj
           q == call[c].slot
           i == call[c].id
<1>1. /\ o \in Obj /\ q \in Slot /\ i \in Id /\ sessions[i] = o /\ tier[o] = "cold"
      /\ shutdown = "no"
      /\ UNCHANGED <<sessions, ident, jwrite, pwrite, todo, shutdown>>
  BY DEF ReadDone, Bind, CallOK, TidyOK, CallsTidy, CallTidy, io
<1>2. ident[o] = i /\ Live(o) /\ seq[o] = NoSlot
  BY <1>1 DEF NamesMatch, Live, TidyOK, SlotsTidy, ColdMeansOnDisk
<1>3. Parked' /\ NoJanitor'
  BY <1>1, NotParked DEF TidyOK, NoJanitor
<1>4. \A s \in Slot : bySeq[s] # o
  BY <1>1, <1>2 DEF TidyOK, SlotsTidy, NoSlotLeak
<1>5. /\ bySeq' = [bySeq EXCEPT ![q] = o] /\ seq' = [seq EXCEPT ![o] = q]
      /\ tier' = [tier EXCEPT ![o] = "hot"]
  BY DEF ReadDone, Bind
<1>6. /\ call'[c].pc = "resume" /\ call'[c].id = i /\ call'[c].obj = o
      /\ call'[c].path = call[c].path /\ \A d \in Caller \ {c} : call'[d] = call[d]
  BY DEF ReadDone, Bind, TypeOK, Call
<1>7. \A x \in Obj : Live(x)' <=> Live(x)
  BY <1>1 DEF Live
<1> HIDE DEF o, q
<1>8. SlotsTidy'
  <2>1. NoSlotLeak'
    BY <1>1, <1>2, <1>4, <1>5, <1>7 DEF TidyOK, SlotsTidy, NoSlotLeak, TypeOK
  <2>2. ColdMeansOnDisk'
    BY <1>1, <1>5, <1>7 DEF TidyOK, SlotsTidy, ColdMeansOnDisk, TypeOK
  <2> QED BY <2>1, <2>2 DEF SlotsTidy
<1>9. CallsTidy'
  <2>1. CallTidy(call[c])'
    BY <1>1, <1>6 DEF CallTidy
  <2>2. \A d \in Caller \ {c} : call[d].pc = "reading" => call[d].obj # o
    BY <1>1, <1>2 DEF TidyOK, CallsTidy, CallTidy, OwnCall, NamesMatch, CallOK
  <2>3. \A d \in Caller \ {c} : call[d].pc = "reading" => tier'[call[d].obj] = tier[call[d].obj]
    BY <1>1, <1>5, <2>2 DEF TypeOK, CallOK
  <2> QED BY <1>1, <1>6, <2>1, <2>3, CallMoved DEF TidyOK
<1> QED BY <1>3, <1>8, <1>9 DEF TidyOK

(* Every hot session is parked, and each one that is parked is written.    *)
LEMMA PersistEvictTidy ==
  ASSUME IInv, TidyOK, PersistEvict
  PROVE  TidyOK'
<1> USE Nulls DEF IInv, SlotsOK
<1> DEFINE hot == {o \in Obj : Live(o) /\ tier[o] = "hot" /\ seq[o] # NoSlot}
           left == {seq[o] : o \in hot}
<1>1. /\ tier' = [o \in Obj |-> IF o \in hot THEN "warm" ELSE tier[o]]
      /\ seq' = [o \in Obj |-> IF o \in hot THEN NoSlot ELSE seq[o]]
      /\ bySeq' = [s \in Slot |-> IF s \in left THEN NoObj ELSE bySeq[s]]
      /\ \A o \in Obj : pwrite'[o] # NoFile => o \in ToWrite
      /\ UNCHANGED <<sessions, ident, jwrite, todo, call>>
      /\ shutdown = "stopping" /\ shutdown' = "archiving" /\ ~ContextFreed
  BY DEF PersistEvict, ContextFreed
<1>2. \A o \in Obj : Live(o)' <=> Live(o)
  BY <1>1 DEF Live
<1>3. Parked'
  <2> SUFFICES ASSUME NEW o \in Obj, o \in ToWrite PROVE seq'[o] = NoSlot
    BY <1>1 DEF Parked
  <2>1. Live(o) /\ tier'[o] = "warm"
    BY DEF ToWrite
  <2> QED BY <1>1, <2>1 DEF BoundIsMapped
<1> HIDE DEF hot, left
<1>4. SlotsTidy'
  <2>1. NoSlotLeak'
    <3> SUFFICES ASSUME NEW s \in Slot, bySeq'[s] # NoObj
                 PROVE  (Live(bySeq[s]) /\ seq[bySeq[s]] = s)'
      BY DEF NoSlotLeak
    <3>1. s \notin left /\ bySeq'[s] = bySeq[s]
      BY <1>1
    <3>2. bySeq[s] \in Obj /\ Live(bySeq[s]) /\ seq[bySeq[s]] = s
      BY <3>1 DEF TidyOK, SlotsTidy, NoSlotLeak, TypeOK
    <3>3. bySeq[s] \notin hot
      BY <3>1, <3>2 DEF left
    <3> QED BY <1>1, <3>1, <3>2, <3>3 DEF Live
  <2>2. ColdMeansOnDisk'
    BY <1>1, <1>2 DEF TidyOK, SlotsTidy, ColdMeansOnDisk
  <2> QED BY <2>1, <2>2 DEF SlotsTidy
<1>5. CallsTidy'
  <2>1. \A c \in Caller : call[c].pc \in {"idle", "deleting"}
    BY <1>1 DEF TidyOK, CallsTidy, CallTidy
  <2> QED BY <1>1, <2>1, CallsKept DEF TidyOK
<1>6. NoJanitor'
  BY <1>1 DEF TidyOK, NoJanitor
<1> QED BY <1>3, <1>4, <1>5, <1>6 DEF TidyOK

LEMMA RestartTidy ==
  ASSUME Restart
  PROVE  TidyOK'
<1>1. /\ \A c \in Caller : call'[c] = Idle
      /\ sessions' = [i \in Id |-> NoObj] /\ bySeq' = [s \in Slot |-> NoObj]
      /\ ident' = [o \in Obj |-> NoId] /\ todo' = {}
      /\ jwrite' = [o \in Obj |-> NoFile] /\ pwrite' = [o \in Obj |-> NoFile]
  BY DEF Restart
<1> QED BY <1>1 DEF TidyOK, CallsTidy, OwnCall, CallTidy, SlotsTidy, NoSlotLeak,
           ColdMeansOnDisk, Live, Parked, NoJanitor, Idle

(* Every step keeps slots and calls tidy.                                  *)
LEMMA TidyStep ==
  ASSUME IInv, IInv', TidyOK, Careful, Next
  PROVE  TidyOK'
<1> USE Nulls, TidyKinds DEF IInv, SlotsOK
<1>1. ASSUME NEW i \in Id, CreateSession(i) PROVE TidyOK'
  <2>1. PICK o \in Obj : \/ New(o, i, "warm", NoHist, FALSE, 0)
                         \/ New(o, i, "cold", NoHist, TRUE, 0)
    BY <1>1 DEF CreateSession
  <2>2. /\ sessions[i] = NoObj /\ Awaited(i) /\ shutdown = "no"
        /\ UNCHANGED <<bySeq, call, todo, jwrite, pwrite, shutdown>>
    BY <1>1 DEF CreateSession, io, Accepting
  <2>3. sessions' = [sessions EXCEPT ![i] = o] /\ \E t : tier' = [tier EXCEPT ![o] = t]
    BY <2>1 DEF New
  <2>4. SlotsTidy'
    BY <2>1, <2>2, NewTidy DEF Tier
  <2>5. Parked' /\ NoJanitor'
    BY <2>2, NotParked DEF TidyOK, NoJanitor
  <2>6. \A c \in Caller : call[c].id # i /\ call[c].obj # o
    BY <2>1, <2>2, CallBegins DEF New, Reachable
  <2>7. CallsTidy'
    <3>1. \A c \in Caller : call[c].pc = "reading" => tier'[call[c].obj] = tier[call[c].obj]
      BY <2>3, <2>6 DEF TypeOK, CallOK
    <3>2. \A c \in Caller : call[c].pc # "idle" => sessions'[call[c].id] = sessions[call[c].id]
      BY <2>3, <2>6 DEF TypeOK, CallOK
    <3> QED BY <2>2, <3>1, <3>2, CallsKept DEF TidyOK
  <2> QED BY <2>4, <2>5, <2>7 DEF TidyOK
(* Steps that move no slot and no call.                                    *)
<1>2. ASSUME UNCHANGED <<sessions, bySeq, ident, tier, seq, todo, jwrite, pwrite, call>>,
             \/ UNCHANGED shutdown
             \/ /\ \A c \in Caller : call[c].pc \in {"idle", "deleting"}
                /\ \A o \in Obj : pwrite[o] = NoFile
      PROVE  TidyOK'
  <2>1. SlotsTidy'
    BY <1>2, SlotsKept DEF TidyOK
  <2>2. CallsTidy'
    BY <1>2, CallsKept DEF TidyOK
  <2>3. Parked' /\ NoJanitor'
    BY <1>2 DEF TidyOK, Parked, NoJanitor
  <2> QED BY <2>1, <2>2, <2>3 DEF TidyOK
<1>3. ASSUME \/ \E i \in Id : Cancel(i)
             \/ \E c \in Caller, i \in Id, b \in BOOLEAN : PromptHot(c, i, b)
             \/ \E c \in Caller, i \in Id : PromptNoSlot(c, i)
             \/ \E o \in Obj : NotHot(o)
             \/ \E S \in SUBSET Obj : DecodeFail(S) \/ \E D \in SUBSET S : Advance(S, D)
             \/ LoopExit
      PROVE  TidyOK'
  BY <1>2, <1>3 DEF Cancel, PromptHot, PromptNoSlot, NotHot, DecodeFail, Advance, LoopExit,
                    slots, fields, io
<1>4. ASSUME PersistBegin \/ PersistDispose \/ Dispose PROVE TidyOK'
  <2>1. \A c \in Caller : call[c].pc \in {"idle", "deleting"}
    BY <1>4 DEF PersistBegin, PersistDispose, Dispose, TidyOK, CallsTidy, CallTidy
  <2>2. \A o \in Obj : pwrite[o] = NoFile
    BY <1>4 DEF PersistBegin, PersistDispose, Dispose, TidyOK, Parked
  <2> QED BY <1>2, <1>4, <2>1, <2>2 DEF PersistBegin, PersistDispose, Dispose, slots, fields, io
<1>5. ASSUME NEW i \in Id, FreeSession(i) PROVE TidyOK'
  <2>1. /\ Detach(i) /\ sessions[i] # NoObj /\ Awaited(i)
        /\ UNCHANGED <<ident, seq, tier, call, shutdown, todo, jwrite, pwrite>>
    BY <1>5 DEF FreeSession, io
  <2>2. SlotsTidy'
    BY <2>1, DetachTidy
  <2>3. \A c \in Caller : call[c].pc # "idle" => sessions'[call[c].id] = sessions[call[c].id]
    BY <2>1, CallBegins DEF Detach, TypeOK, CallOK
  <2>4. CallsTidy'
    BY <2>1, <2>3, CallsKept DEF TidyOK
  <2>5. Parked' /\ NoJanitor'
    BY <2>1 DEF TidyOK, Parked, NoJanitor
  <2> QED BY <2>2, <2>4, <2>5 DEF TidyOK
<1>6. ASSUME NEW c \in Caller, NEW i \in Id, FreeAndDelete(c, i) PROVE TidyOK'
  <2>1. /\ Detach(i) /\ sessions[i] # NoObj /\ Awaited(i) /\ call[c].pc = "idle"
        /\ UNCHANGED <<ident, seq, tier, shutdown, todo, jwrite, pwrite>>
    BY <1>6 DEF FreeAndDelete, io
  <2>2. SlotsTidy'
    BY <2>1, DetachTidy
  <2>3. /\ call'[c] = [Idle EXCEPT !.pc = "deleting", !.id = i]
        /\ \A d \in Caller \ {c} : call'[d] = call[d]
    BY <1>6 DEF FreeAndDelete, TypeOK
  <2>4. sessions'[i] = NoObj
        /\ \A d \in Caller : call[d].pc # "idle" => sessions'[call[d].id] = sessions[call[d].id]
    BY <2>1, CallBegins DEF Detach, TypeOK, CallOK
  <2>5. CallTidy(call[c])'
    BY <2>3, <2>4 DEF CallTidy, Idle
  <2>6. CallsTidy'
    <3>1. call'[c].id = i /\ call'[c].path = NoId
      BY <2>3 DEF Idle
    <3>2. \A d \in Caller : call[d].id # i
      BY <2>1, CallBegins
    <3> QED BY <2>1, <2>3, <2>4, <2>5, <3>1, <3>2, CallMoved DEF TidyOK
  <2>7. Parked' /\ NoJanitor'
    BY <2>1 DEF TidyOK, Parked, NoJanitor
  <2> QED BY <2>2, <2>6, <2>7 DEF TidyOK
(* Calls that end without touching a slot.                                 *)
<1>7. ASSUME NEW c \in Caller, \/ DeleteFile(c) \/ ReadFail(c) \/ Resume(c) \/ SaveDone(c)
                               \/ LoadFail(c) \/ SaveFailed(c)
      PROVE  TidyOK'
  <2>1. /\ call' = [call EXCEPT ![c] = Idle]
        /\ UNCHANGED <<sessions, bySeq, ident, tier, seq, todo, jwrite, pwrite, shutdown>>
    BY <1>7 DEF DeleteFile, ReadFail, GiveUp, Resume, SaveDone, LoadFail, SaveFailed, slots, fields, io
  <2>2. SlotsTidy'
    BY <2>1, SlotsKept DEF TidyOK
  <2>3. call'[c] = Idle /\ \A d \in Caller \ {c} : call'[d] = call[d]
    BY <2>1 DEF TypeOK
  <2>4. CallTidy(call[c])'
    BY <2>3 DEF CallTidy, Idle
  <2>5. CallsTidy'
    <3>1. call'[c].id = NoId /\ call'[c].path = NoId
      BY <2>3 DEF Idle
    <3> QED BY <2>1, <2>3, <2>4, <3>1, CallMoved DEF TidyOK
  <2>6. Parked' /\ NoJanitor'
    BY <2>1 DEF TidyOK, Parked, NoJanitor
  <2> QED BY <2>2, <2>5, <2>6 DEF TidyOK
<1>8. ASSUME NEW c \in Caller, NEW i \in Id, NEW b \in BOOLEAN,
             PromptWarm(c, i, b) \/ PromptCold(c, i, b)
      PROVE  TidyOK'
  BY <1>8, AcquireTidy
<1>9. ASSUME NEW c \in Caller, ReadDone(c) PROVE TidyOK'
  BY <1>9, ReadDoneTidy
(* Calls that begin or go on without touching a slot.                      *)
<1>10. ASSUME NEW c \in Caller,
              UNCHANGED <<sessions, bySeq, ident, tier, seq, todo, jwrite, pwrite, shutdown>>,
              \A d \in Caller \ {c} : call'[d] = call[d],
              call'[c].pc \in {"saveRead", "saving", "loadCheck"}, shutdown = "no",
              call'[c].id = call[c].id \/ \A d \in Caller : call[d].id # call'[c].id,
              call'[c].path = call[c].path \/ \A d \in Caller : call[d].path # call'[c].path
       PROVE  TidyOK'
  <2>1. SlotsTidy'
    BY <1>10, SlotsKept DEF TidyOK
  <2>2. CallTidy(call[c])'
    BY <1>10 DEF CallTidy
  <2>3. CallsTidy'
    BY <1>10, <2>2, CallMoved DEF TidyOK
  <2>4. Parked' /\ NoJanitor'
    BY <1>10 DEF TidyOK, Parked, NoJanitor
  <2> QED BY <2>1, <2>3, <2>4 DEF TidyOK
<1>11. ASSUME NEW c \in Caller, SaveRead(c) PROVE TidyOK'
  <2>1. UNCHANGED <<sessions, bySeq, ident, tier, seq, todo, jwrite, pwrite, shutdown>>
    BY <1>11 DEF SaveRead, slots, fields
  <2>2. shutdown = "no"
    BY <1>11 DEF SaveRead, TidyOK, CallsTidy, CallTidy
  <2>3. CASE call' = [call EXCEPT ![c] = Idle]
    <3>1. call'[c] = Idle /\ \A d \in Caller \ {c} : call'[d] = call[d]
      BY <2>3 DEF TypeOK
    <3>2. CallTidy(call[c])'
      BY <3>1 DEF CallTidy, Idle
    <3>3. CallsTidy'
      BY <2>1, <3>1, <3>2, CallMoved DEF TidyOK, Idle
    <3>4. SlotsTidy' /\ Parked' /\ NoJanitor'
      BY <2>1, SlotsKept DEF TidyOK, Parked, NoJanitor
    <3> QED BY <3>3, <3>4 DEF TidyOK
  <2>4. ASSUME NEW f, OpenForWrite(c, call[c].id, call[c].obj, call[c].path, f)
        PROVE  TidyOK'
    <3>1. /\ call'[c].pc = "saving" /\ call'[c].id = call[c].id
          /\ call'[c].path = call[c].path /\ \A d \in Caller \ {c} : call'[d] = call[d]
      BY <2>4 DEF OpenForWrite, TypeOK, Idle
    <3> QED BY <1>10, <2>1, <2>2, <3>1
  <2> QED BY <1>11, <2>3, <2>4 DEF SaveRead
<1>12. ASSUME NEW c \in Caller, NEW i \in Id, NEW p \in UserPath,
              SaveSession(c, i, p) \/ LoadSession(c, i, p)
       PROVE  TidyOK'
  <2>1. /\ UNCHANGED <<sessions, bySeq, ident, tier, seq, todo, jwrite, pwrite, shutdown>>
        /\ shutdown = "no" /\ Awaited(i) /\ FreePath(p)
    BY <1>12 DEF SaveSession, LoadSession, slots, fields, io, Accepting
  <2>2. /\ call'[c].pc \in {"saveRead", "saving", "loadCheck"}
        /\ call'[c].id = i /\ call'[c].path = p
        /\ \A d \in Caller \ {c} : call'[d] = call[d]
    <3>1. ASSUME NEW f, OpenForWrite(c, i, sessions[i], p, f)
          PROVE  /\ call'[c].pc = "saving" /\ call'[c].id = i /\ call'[c].path = p
                 /\ \A d \in Caller \ {c} : call'[d] = call[d]
      BY <3>1 DEF OpenForWrite, TypeOK, Idle
    <3>2. CASE call' = [call EXCEPT ![c] = [Idle EXCEPT !.pc = "saveRead", !.id = i,
                                                !.obj = sessions[i], !.path = p]]
      BY <3>2 DEF TypeOK, Idle
    <3>3. CASE LoadSession(c, i, p)
      BY <3>3 DEF LoadSession, TypeOK, Idle
    <3> QED BY <1>12, <3>1, <3>2, <3>3 DEF SaveSession
  <2>3. \A d \in Caller : call[d].id # i /\ call[d].path # p
    BY <2>1, CallBegins DEF FreePath
  <2> QED BY <1>10, <2>1, <2>2, <2>3
<1>13. ASSUME NEW c \in Caller, LoadCheck(c) PROVE TidyOK'
  <2> DEFINE i == call[c].id
  <2>1. /\ i \in Id /\ shutdown = "no" /\ call[c].pc = "loadCheck"
        /\ UNCHANGED <<ident, seq, tier, todo, jwrite, pwrite, shutdown>>
    BY <1>13 DEF LoadCheck, CallOK, TidyOK, CallsTidy, CallTidy, io
  <2>2. \A d \in Caller \ {c} : call[d].id # i
    BY <2>1 DEF TidyOK, CallsTidy, OwnCall
  <2>3. \/ call'[c] = Idle
        \/ /\ call'[c].pc = "loadRead" /\ call'[c].id = i /\ call'[c].path = call[c].path
           /\ sessions'[i] = NoObj
    <3>1. call' = [call EXCEPT ![c] = Idle] \/ call' = [call EXCEPT ![c].pc = "loadRead"]
      BY <1>13 DEF LoadCheck
    <3>2. CASE call' = [call EXCEPT ![c] = Idle]
      BY <3>2 DEF TypeOK
    <3>3. CASE files[call[c].path] # NoFile /\ call' = [call EXCEPT ![c].pc = "loadRead"]
      <4>1. sessions'[i] = NoObj
        BY <1>13, <2>1, <3>3 DEF LoadCheck, Detach, TypeOK, slots
      <4> QED BY <3>3, <4>1 DEF TypeOK, Call
    <3> QED BY <1>13, <3>1, <3>2, <3>3 DEF LoadCheck
  <2>4. \A d \in Caller \ {c} : call'[d] = call[d]
    BY <1>13 DEF LoadCheck, TypeOK
  <2>5. \A d \in Caller \ {c} : call[d].pc # "idle" => sessions'[call[d].id] = sessions[call[d].id]
    BY <1>13, <2>1, <2>2 DEF LoadCheck, Detach, TypeOK, CallOK, slots
  <2>6. CallsTidy'
    <3>1. CallTidy(call[c])'
      BY <2>1, <2>3 DEF CallTidy, Idle
    <3> HIDE DEF i
    <3> QED BY <2>1, <2>3, <2>4, <2>5, <3>1, CallMoved DEF TidyOK, Idle, i
  <2>7. SlotsTidy'
    <3>1. CASE UNCHANGED <<slots, pending>>
      BY <2>1, <3>1, SlotsKept DEF TidyOK, slots
    <3>2. CASE Detach(i) /\ sessions[i] # NoObj
      BY <2>1, <3>2, DetachTidy
    <3> QED BY <1>13, <3>1, <3>2 DEF LoadCheck
  <2>8. Parked' /\ NoJanitor'
    BY <2>1 DEF TidyOK, Parked, NoJanitor
  <2> QED BY <2>6, <2>7, <2>8 DEF TidyOK
<1>14. ASSUME NEW c \in Caller, LoadRead(c) PROVE TidyOK'
  <2> DEFINE i == call[c].id
  <2>1. /\ i \in Id /\ shutdown = "no" /\ sessions[i] = NoObj
        /\ UNCHANGED <<bySeq, todo, jwrite, pwrite, shutdown>>
    BY <1>14 DEF LoadRead, CallOK, TidyOK, CallsTidy, CallTidy, io
  <2>2. PICK o \in Obj : \E b, p : New(o, i, "warm", b, FALSE, p)
    BY <1>14 DEF LoadRead
  <2>3. /\ sessions' = [sessions EXCEPT ![i] = o] /\ tier' = [tier EXCEPT ![o] = "warm"]
        /\ \A d \in Caller : call[d].obj # o
    BY <2>2 DEF New, Reachable
  <2>4. call'[c] = Idle /\ \A d \in Caller \ {c} : call'[d] = call[d]
    BY <1>14 DEF LoadRead, TypeOK
  <2>5. \A d \in Caller \ {c} : call[d].id # i
    BY <2>1 DEF TidyOK, CallsTidy, OwnCall
  <2>6. SlotsTidy'
    <3> HIDE DEF i
    <3> QED BY <2>1, <2>2, NewTidy DEF Tier
  <2>7. CallsTidy'
    <3>1. CallTidy(call[c])'
      BY <2>4 DEF CallTidy, Idle
    <3>2. \A d \in Caller \ {c} :
             /\ call[d].pc # "idle" => sessions'[call[d].id] = sessions[call[d].id]
             /\ call[d].pc = "reading" => tier'[call[d].obj] = tier[call[d].obj]
      BY <2>1, <2>3, <2>5 DEF TypeOK, CallOK
    <3> QED BY <2>1, <2>4, <3>1, <3>2, CallMoved DEF TidyOK, Idle
  <2>8. Parked' /\ NoJanitor'
    BY <2>1 DEF TidyOK, Parked, NoJanitor
  <2> QED BY <2>6, <2>7, <2>8 DEF TidyOK
<1>15. ASSUME NEW o \in Obj, PersistWritten(o) PROVE TidyOK'
  <2>1. /\ pwrite[o] # NoFile /\ pwrite' = [pwrite EXCEPT ![o] = NoFile]
        /\ tier' = [tier EXCEPT ![o] = "cold"]
        /\ UNCHANGED <<sessions, bySeq, ident, seq, todo, jwrite, call, shutdown>>
    BY <1>15 DEF PersistWritten, BecomeCold, slots
  <2>2. shutdown = "archiving" /\ seq[o] = NoSlot
    BY <2>1 DEF TidyOK, Parked
  <2>3. SlotsTidy'
    <3>1. \A x \in Obj : tier'[x] = "cold" => tier[x] = "cold" \/ seq[x] = NoSlot
      BY <2>1, <2>2 DEF TypeOK
    <3> QED BY <2>1, <3>1, SlotsKept DEF TidyOK
  <2>4. CallsTidy'
    <3>1. \A c \in Caller : call[c].pc # "reading"
      BY <2>2 DEF TidyOK, CallsTidy, CallTidy
    <3> QED BY <2>1, <3>1, CallsKept DEF TidyOK
  <2>5. Parked' /\ NoJanitor'
    BY <2>1 DEF TidyOK, Parked, NoJanitor, TypeOK
  <2> QED BY <2>3, <2>4, <2>5 DEF TidyOK
<1>16. ASSUME NEW o \in Obj, PersistFailed(o) PROVE TidyOK'
  <2>1. /\ pwrite' = [pwrite EXCEPT ![o] = NoFile]
        /\ UNCHANGED <<sessions, bySeq, ident, seq, tier, todo, jwrite, call, shutdown>>
    BY <1>16 DEF PersistFailed, slots, fields
  <2>2. SlotsTidy' /\ CallsTidy'
    BY <2>1, SlotsKept, CallsKept DEF TidyOK
  <2>3. Parked' /\ NoJanitor'
    BY <2>1 DEF TidyOK, Parked, NoJanitor, TypeOK
  <2> QED BY <2>2, <2>3 DEF TidyOK
<1>17. ASSUME NEW o \in Obj, JanitorNext(o) \/ JanitorWritten(o) \/ JanitorFailed(o) PROVE TidyOK'
  BY <1>17 DEF JanitorNext, JanitorWritten, JanitorFailed, TidyOK, NoJanitor
<1>18. ASSUME JanitorStart \/ JanitorStop PROVE TidyOK'
  BY <1>18 DEF JanitorStart, JanitorStop, TidyOK, NoJanitor
<1>19. CASE PersistEvict
  BY <1>19, PersistEvictTidy
<1>20. CASE Teardown
  <2>1. /\ sessions' = [i \in Id |-> NoObj] /\ bySeq' = [s \in Slot |-> NoObj]
        /\ UNCHANGED <<ident, seq, tier, todo, jwrite, pwrite, call>>
        /\ shutdown \in {"persisted", "disposing"} /\ shutdown' = "gone"
    BY <1>20 DEF Teardown, fields, io
  <2>2. SlotsTidy'
    <3>1. \A o \in Obj : ~Live(o)'
      BY <2>1 DEF Live, TypeOK
    <3> QED BY <2>1, <3>1 DEF SlotsTidy, NoSlotLeak, ColdMeansOnDisk
  <2>3. CallsTidy'
    <3>1. OwnCall'
      BY <2>1 DEF TidyOK, CallsTidy, OwnCall
    <3>2. \A c \in Caller : call[c].pc \in {"idle", "deleting"}
      BY <2>1 DEF TidyOK, CallsTidy, CallTidy
    <3>3. \A c \in Caller : CallTidy(call[c])'
      BY <2>1, <3>2 DEF TidyOK, CallsTidy, CallTidy, CallOK
    <3> QED BY <3>1, <3>3 DEF CallsTidy
  <2>4. Parked' /\ NoJanitor'
    BY <2>1 DEF TidyOK, Parked, NoJanitor
  <2> QED BY <2>2, <2>3, <2>4 DEF TidyOK
<1>21. CASE Restart
  BY <1>21, RestartTidy
<1> QED
  BY <1>1, <1>3, <1>4, <1>5, <1>6, <1>7, <1>8, <1>9, <1>11, <1>12, <1>13, <1>14, <1>15,
     <1>16, <1>17, <1>18, <1>19, <1>20, <1>21 DEF Next, Clearing

(* The slots of an application that awaits its calls.                      *)
LEMMA TidyInv == ASSUME Careful PROVE Spec => []TidyOK
<1>1. Init => TidyOK
  BY DEF Init, TidyOK, CallsTidy, OwnCall, CallTidy, SlotsTidy, NoSlotLeak,
         ColdMeansOnDisk, Live, Parked, NoJanitor, Idle
<1>2. IInv /\ IInv' /\ TidyOK /\ [Next]_vars => TidyOK'
  <2>1. ASSUME IInv, IInv', TidyOK, Next PROVE TidyOK'
    BY <2>1, TidyStep
  <2>2. ASSUME IInv, TidyOK, UNCHANGED vars PROVE TidyOK'
    BY <2>2, CallsKept, SlotsKept DEF vars, slots, fields, io, TidyOK, Parked, NoJanitor
  <2> QED BY <2>1, <2>2
<1> QED BY <1>1, <1>2, Inductive, PTL DEF Spec

(* A slot that is not free serves a live session, whatever fails, as long  *)
(* as nobody calls while an earlier call on the session is suspended, the  *)
(* janitor does not archive behind the callers' backs, and nobody calls    *)
(* while the service shuts down.                                           *)
THEOREM NoLeak ==
  ASSUME Env \cap {"overlap", "janitor", "late"} = {}
  PROVE  Spec => []NoSlotLeak
<1>1. TidyOK => NoSlotLeak
  BY DEF TidyOK, SlotsTidy
<1>2. Careful
  BY DEF Careful
<1> QED BY <1>1, <1>2, TidyInv, PTL

(* A session is on disk and in the context at once only if the janitor or  *)
(* the shutdown archives it behind the back of a prompt, or calls overlap. *)
THEOREM ColdIsOnDisk ==
  ASSUME Env \cap {"overlap", "janitor", "late"} = {}
  PROVE  Spec => []ColdMeansOnDisk
<1>1. TidyOK => ColdMeansOnDisk
  BY DEF TidyOK, SlotsTidy
<1>2. Careful
  BY DEF Careful
<1> QED BY <1>1, <1>2, TidyInv, PTL

-----------------------------------------------------------------------------
(***************************************************************************)
(* Positions and files.                                                    *)
(***************************************************************************)
Exact == /\ Env \cap {"overlap", "janitor", "late", "crash", "ioerr", "decode"} = {}
         /\ UserPath \cap Id = {}

Whole(f)   == f.ok /\ f.hist.len = f.pos
Writing(p) == \/ \E o \in Obj : pwrite[o] # NoFile /\ ident[o] = p
              \/ \E c \in Caller : call[c].pc = "saving" /\ call[c].path = p
OnDisk(o)  == /\ files[ident[o]] # NoFile /\ files[ident[o]].ok
              /\ files[ident[o]].hist.len = nPos[o]

(* A file that nobody is writing is whole, and what is being saved is.     *)
FilesWhole == \A p \in Path : files[p] # NoFile /\ ~Writing(p) => Whole(files[p])
SavesWhole == \A c \in Caller : call[c].pc = "saving" => Whole(call[c].data)

(* Until shutdown a cold session is one that was not restored yet.         *)
ColdIsNew ==
    shutdown \in {"no", "stopping"} =>
        \A o \in Obj : Live(o) /\ tier[o] = "cold" => nPos[o] = 0

(* What persistAllAndDispose has not written yet is being written.         *)
ParkedRight(o) ==
    /\ tier[o] # "hot"
    /\ tier[o] = "warm" /\ buf[o] # NoHist => pwrite[o] # NoFile
    /\ tier[o] = "cold" => nPos[o] = 0 \/ OnDisk(o)
WrittenRight(o) ==
    /\ Whole(pwrite[o])
    /\ sessions[ident[o]] \in {o, NoObj}
    /\ Live(o) => /\ pwrite[o].pos = nPos[o]
                  /\ files[ident[o]] # NoFile
Parking ==
    shutdown \in {"archiving", "persisted"} =>
        /\ loop = "exited"
        /\ \A o \in Obj : Live(o) => ParkedRight(o)
        /\ \A o \in Obj : pwrite[o] # NoFile => WrittenRight(o)

MatchOK == FilesWhole /\ SavesWhole /\ ColdIsNew /\ Parking /\ PositionMatchesHistory

LEMMA ExactKinds == Exact => /\ Careful /\ UserPath \cap Id = {} /\ "crash" \notin Env
                             /\ "ioerr" \notin Env /\ "decode" \notin Env
  BY DEF Exact, Careful

(* A history is saved under its own length, and read back under it.        *)
LEMMA SavedWhole ==
  ASSUME NEW h, NEW p, h.len = p
  PROVE  Whole(Saved(h, p))
  BY DEF Whole, Saved

LEMMA WholeHeader ==
  ASSUME NEW f, Whole(f), NEW q, NEW p \in HeaderPos(f, q)
  PROVE  p = f.hist.len
  BY DEF Whole, HeaderPos

LEMMA SlotsApart ==
  ASSUME IInv, ~ContextFreed, NEW x \in Obj, NEW y \in Obj, Live(x), Live(y),
         seq[x] = seq[y], seq[x] # NoSlot
  PROVE  x = y
  BY DEF IInv, SlotsOK, BoundIsMapped

(* A state file is whole while no shutdown is writing it.                  *)
LEMMA StateFileWhole ==
  ASSUME IInv, TidyOK, MatchOK, UserPath \cap Id = {}, shutdown = "no",
         NEW i \in Id, files[i] # NoFile
  PROVE  Whole(files[i])
<1>1. ~Writing(i)
  BY DEF Writing, TidyOK, Parked, IInv, CallOK
<1> QED BY <1>1 DEF MatchOK, FilesWhole, Path

LEMMA FilesStay ==
  ASSUME MatchOK, UNCHANGED files,
         \A o \in Obj : pwrite[o] # NoFile => pwrite'[o] = pwrite[o] /\ ident'[o] = ident[o],
         \A c \in Caller : call[c].pc = "saving" => call'[c] = call[c]
  PROVE  FilesWhole'
<1>1. \A p \in Path : Writing(p) => Writing(p)'
  BY DEF Writing
<1> QED BY <1>1 DEF MatchOK, FilesWhole, Whole

LEMMA SavesStay ==
  ASSUME MatchOK, \A c \in Caller : call'[c].pc = "saving" => call'[c] = call[c]
  PROVE  SavesWhole'
  BY DEF MatchOK, SavesWhole, Whole

(* While the service is in use, only these four parts can change.          *)
LEMMA InUse ==
  ASSUME shutdown = "no", UNCHANGED shutdown,
         FilesWhole', SavesWhole', ColdIsNew', PositionMatchesHistory'
  PROVE  MatchOK'
  BY DEF MatchOK, Parking

(* Steps that move no history.                                             *)
LEMMA NothingMoves ==
  ASSUME MatchOK,
         UNCHANGED <<sessions, ident, kv, tier, seq, buf, nPos, files, pwrite, shutdown>>,
         loop' = loop \/ loop' = "exited",
         \A c \in Caller : call[c].pc = "saving" => call'[c] = call[c],
         \A c \in Caller : call'[c].pc = "saving" => call'[c] = call[c]
  PROVE  MatchOK'
<1>1. FilesWhole' /\ SavesWhole'
  BY FilesStay, SavesStay
<1>2. ColdIsNew'
  BY DEF MatchOK, ColdIsNew, Live
<1>3. Parking'
  BY DEF MatchOK, Parking, ParkedRight, WrittenRight, OnDisk, Whole, Live
<1>4. PositionMatchesHistory'
  BY DEF MatchOK, PositionMatchesHistory, Live, ContextFreed
<1> QED BY <1>1, <1>2, <1>3, <1>4 DEF MatchOK

(* An idle caller is saving nothing.                                       *)
LEMMA CallSwitch ==
  ASSUME IInv, NEW c \in Caller, NEW r, call' = [call EXCEPT ![c] = r],
         call[c].pc # "saving", r.pc # "saving"
  PROVE  /\ \A d \in Caller : call[d].pc = "saving" => call'[d] = call[d]
         /\ \A d \in Caller : call'[d].pc = "saving" => call'[d] = call[d]
  BY DEF IInv, TypeOK

LEMMA NewMatch ==
  ASSUME IInv, MatchOK, NEW o \in Obj, NEW i \in Id, NEW t \in Tier, NEW b, NEW a, NEW p,
         New(o, i, t, b, a, p), UNCHANGED <<kv, shutdown>>,
         \/ t \in {"warm", "cold"} /\ b = NoHist /\ p = 0
         \/ t = "warm" /\ b # NoHist /\ b.len = p
  PROVE  ColdIsNew' /\ PositionMatchesHistory'
<1> USE Nulls DEF IInv
<1>1. /\ sessions' = [sessions EXCEPT ![i] = o] /\ ident' = [ident EXCEPT ![o] = i]
      /\ tier' = [tier EXCEPT ![o] = t] /\ seq' = [seq EXCEPT ![o] = NoSlot]
      /\ buf' = [buf EXCEPT ![o] = b] /\ nPos' = [nPos EXCEPT ![o] = p]
  BY DEF New
<1>2. \A x \in Obj \ {o} : Live(x)' => Live(x)
  BY <1>1 DEF Live, TypeOK
<1>3. ColdIsNew'
  BY <1>1, <1>2 DEF MatchOK, ColdIsNew, TypeOK
<1>4. PositionMatchesHistory'
  <2> SUFFICES ASSUME NEW x \in Obj, Live(x)'
               PROVE  /\ (seq'[x] # NoSlot /\ ~ContextFreed') => kv'[seq'[x]].len = nPos'[x]
                      /\ (tier'[x] = "warm" /\ buf'[x] # NoHist) => buf'[x].len = nPos'[x]
                      /\ (tier'[x] = "warm" /\ buf'[x] = NoHist) => nPos'[x] = 0
    BY DEF PositionMatchesHistory
  <2>1. CASE x = o
    BY <1>1, <2>1 DEF TypeOK
  <2>2. CASE x # o
    BY <1>1, <1>2, <2>2 DEF MatchOK, PositionMatchesHistory, ContextFreed, TypeOK
  <2> QED BY <2>1, <2>2
<1> QED BY <1>3, <1>4

LEMMA CreateMatch ==
  ASSUME IInv, TidyOK, MatchOK, Exact, NEW i \in Id, CreateSession(i)
  PROVE  MatchOK'
<1> USE Nulls, ExactKinds, TidyKinds
<1>1. /\ shutdown = "no" /\ UNCHANGED <<kv, files, pwrite, call, shutdown>>
  BY DEF CreateSession, io, Accepting
<1>2. PICK o \in Obj : \/ New(o, i, "warm", NoHist, FALSE, 0)
                       \/ New(o, i, "cold", NoHist, TRUE, 0)
  BY DEF CreateSession
<1>3. ColdIsNew' /\ PositionMatchesHistory'
  BY <1>1, <1>2, NewMatch DEF Tier
<1>4. FilesWhole' /\ SavesWhole'
  BY <1>1, FilesStay, SavesStay DEF TidyOK, Parked
<1> QED BY <1>1, <1>3, <1>4, InUse

LEMMA LoadReadMatch ==
  ASSUME IInv, TidyOK, MatchOK, Exact, NEW c \in Caller, LoadRead(c)
  PROVE  MatchOK'
<1> USE Nulls, ExactKinds, TidyKinds
<1> DEFINE f == files[call[c].path]
           i == call[c].id
           h == [own |-> IF f.hist.len = 0 THEN NoId ELSE i, len |-> f.hist.len]
<1>1. /\ shutdown = "no" /\ UNCHANGED <<kv, files, pwrite, shutdown>> /\ i \in Id
      /\ call[c].path \in UserPath /\ f # NoFile /\ call[c].pc = "loadRead"
      /\ call' = [call EXCEPT ![c] = Idle]
  BY DEF LoadRead, io, TidyOK, CallsTidy, CallTidy, IInv, CallOK
<1>2. Whole(f)
  <2>1. call[c].path # NoId
    BY <1>1, NullAssumption DEF Path
  <2>2. \A d \in Caller : call[d].pc = "saving" => call[d].path # call[c].path
    BY <1>1, <2>1 DEF TidyOK, CallsTidy, OwnCall
  <2>3. ~Writing(call[c].path)
    BY <1>1, <2>2 DEF Writing, TidyOK, Parked
  <2> QED BY <1>1, <2>3 DEF MatchOK, FilesWhole, Path
<1>3. PICK o \in Obj, p \in HeaderPos(f, 0) : New(o, i, "warm", h, FALSE, p)
  BY DEF LoadRead
<1>4. p = h.len
  BY <1>2, <1>3, WholeHeader
<1>5. h # NoHist
  <2>1. f \in File
    BY <1>1 DEF IInv, TypeOK, Path
  <2>2. h \in Hist
    BY <1>1, <2>1 DEF File, Hist
  <2> QED BY <2>2
<1>6. ColdIsNew' /\ PositionMatchesHistory'
  <2> HIDE DEF f, i, h
  <2> QED BY <1>1, <1>3, <1>4, <1>5, NewMatch DEF Tier
<1>7. FilesWhole' /\ SavesWhole'
  BY <1>1, FilesStay, SavesStay, CallSwitch DEF TidyOK, Parked, Idle
<1> QED BY <1>1, <1>6, <1>7, InUse

(* What the end of a session leaves to the others.                         *)
LEMMA DetachMatch ==
  ASSUME IInv, TidyOK, MatchOK, NEW i \in Id, sessions[i] # NoObj, Detach(i),
         UNCHANGED <<ident, seq, tier, buf, nPos, loop, files, pwrite, shutdown>>,
         \A c \in Caller : call[c].pc = "saving" => call'[c] = call[c],
         \A c \in Caller : call'[c].pc = "saving" => call'[c] = call[c]
  PROVE  MatchOK'
<1> USE Nulls DEF IInv, SlotsOK
<1> DEFINE o == sessions[i]
<1>1. o \in Obj /\ ident[o] = i /\ sessions' = [sessions EXCEPT ![i] = NoObj] /\ Live(o)
      /\ ~ContextFreed
  BY DEF Detach, TypeOK, NamesMatch, Live, GoneIsEmpty
<1>2. \A x \in Obj : Live(x)' => Live(x) /\ x # o
  BY <1>1 DEF Live, TypeOK
<1>3. \A s \in Slot : s # seq[o] => kv'[s] = kv[s]
  BY DEF Detach, GiveBack, TypeOK
<1>4. FilesWhole' /\ SavesWhole'
  BY FilesStay, SavesStay
<1>5. ColdIsNew'
  BY <1>2 DEF MatchOK, ColdIsNew
<1>6. \A x \in Obj : sessions'[ident[x]] \in {sessions[ident[x]], NoObj}
  BY <1>1 DEF TypeOK
<1>7. Parking'
  BY <1>2, <1>6 DEF MatchOK, Parking, ParkedRight, WrittenRight, OnDisk, Whole
<1>8. PositionMatchesHistory'
  <2> SUFFICES ASSUME NEW x \in Obj, Live(x)'
               PROVE  /\ (seq[x] # NoSlot /\ ~ContextFreed') => kv'[seq[x]].len = nPos[x]
                      /\ (tier[x] = "warm" /\ buf[x] # NoHist) => buf[x].len = nPos[x]
                      /\ (tier[x] = "warm" /\ buf[x] = NoHist) => nPos[x] = 0
    BY DEF PositionMatchesHistory
  <2>1. Live(x) /\ x # o
    BY <1>2
  <2>2. seq[x] # NoSlot => seq[x] \in Slot /\ seq[x] # seq[o]
    BY <1>1, <2>1, SlotsApart DEF TypeOK
  <2> QED BY <1>1, <1>3, <2>1, <2>2 DEF MatchOK, PositionMatchesHistory
<1> QED BY <1>4, <1>5, <1>7, <1>8 DEF MatchOK

(* A request keeps its history with its position, or drops both.           *)
LEMMA StartMatch ==
  ASSUME IInv, TidyOK, MatchOK, NEW o \in Obj, NEW b, StartRequest(o, b), Live(o),
         ~ContextFreed, UNCHANGED <<sessions, ident, seq, tier, buf, shutdown>>
  PROVE  ColdIsNew' /\ PositionMatchesHistory'
<1> USE Nulls DEF IInv, SlotsOK
<1>1. \A x \in Obj : Live(x)' <=> Live(x)
  BY DEF Live
<1>2. seq[o] # NoSlot => seq[o] \in Slot /\ tier[o] = "hot"
  BY DEF BoundIsMapped, TidyOK, SlotsTidy, ColdMeansOnDisk, TypeOK, Tier
<1>3. \/ kv' = kv /\ nPos' = nPos
      \/ seq[o] # NoSlot /\ kv' = [kv EXCEPT ![seq[o]] = Empty] /\ nPos' = [nPos EXCEPT ![o] = 0]
  <2>1. CASE b /\ seq[o] # NoSlot
    BY <2>1 DEF StartRequest, BasePos
  <2>2. CASE ~(b /\ seq[o] # NoSlot)
    BY <2>2 DEF StartRequest, BasePos, TypeOK
  <2> QED BY <2>1, <2>2
<1>4. ColdIsNew'
  BY <1>1, <1>2, <1>3 DEF MatchOK, ColdIsNew, TypeOK
<1>5. PositionMatchesHistory'
  <2> SUFFICES ASSUME NEW x \in Obj, Live(x)
               PROVE  /\ (seq[x] # NoSlot /\ ~ContextFreed') => kv'[seq[x]].len = nPos'[x]
                      /\ (tier[x] = "warm" /\ buf[x] # NoHist) => buf[x].len = nPos'[x]
                      /\ (tier[x] = "warm" /\ buf[x] = NoHist) => nPos'[x] = 0
    BY <1>1 DEF PositionMatchesHistory
  <2>1. CASE kv' = kv /\ nPos' = nPos
    BY <2>1 DEF MatchOK, PositionMatchesHistory
  <2>2. CASE /\ seq[o] # NoSlot
             /\ kv' = [kv EXCEPT ![seq[o]] = Empty] /\ nPos' = [nPos EXCEPT ![o] = 0]
    <3>1. CASE x = o
      BY <1>2, <2>2, <3>1 DEF TypeOK, Empty
    <3>2. CASE x # o
      <4>1. seq[x] # NoSlot => seq[x] # seq[o] /\ seq[x] \in Slot
        BY <3>2, SlotsApart DEF TypeOK
      <4> QED BY <2>2, <3>2, <4>1 DEF MatchOK, PositionMatchesHistory, TypeOK
    <3> QED BY <3>1, <3>2
  <2> QED BY <1>3, <2>1, <2>2
<1> QED BY <1>4, <1>5

(* The victim takes its cells along, and the session of i finds its own.   *)
LEMMA AcquireMatch ==
  ASSUME IInv, TidyOK, MatchOK, Exact, NEW c \in Caller, NEW i \in Id, NEW b \in BOOLEAN,
         PromptWarm(c, i, b) \/ PromptCold(c, i, b)
  PROVE  MatchOK'
<1> USE Nulls, ExactKinds, TidyKinds DEF IInv, SlotsOK
<1> DEFINE o == sessions[i]
<1>1. /\ o \in Obj /\ Live(o) /\ ~ContextFreed /\ shutdown = "no" /\ call[c].pc = "idle"
      /\ UNCHANGED <<sessions, ident, nPos, files, pwrite, shutdown>>
  BY DEF PromptWarm, PromptCold, Reserve, CanPrompt, TypeOK, NamesMatch, GoneIsEmpty, io,
     Accepting, Live
<1>2. \A x \in Obj : Live(x)' <=> Live(x)
  BY <1>1 DEF Live
<1>3. seq[o] = NoSlot
  BY <1>1 DEF PromptWarm, PromptCold, Reserve, TidyOK, SlotsTidy, ColdMeansOnDisk, BoundIsMapped
<1>4. PICK q \in Slot, v \in Obj \cup {NoObj} :
        /\ Acquire(q, v)
        /\ \/ /\ tier[o] = "warm"
              /\ kv' = [kv EXCEPT ![q] = RestoredCells(o, q)]
              /\ seq' = [x \in Obj |-> IF x = o THEN q ELSE IF x = v THEN NoSlot ELSE seq[x]]
              /\ tier' = [x \in Obj |-> IF x = o THEN "hot" ELSE IF x = v THEN "warm" ELSE tier[x]]
              /\ buf' = [x \in Obj |-> IF x = o THEN NoHist ELSE IF x = v THEN kv[q] ELSE buf[x]]
           \/ /\ tier[o] = "cold"
              /\ kv' = [kv EXCEPT ![q] = Empty]
              /\ seq' = [x \in Obj |-> IF x = v THEN NoSlot ELSE seq[x]]
              /\ tier' = [x \in Obj |-> IF x = v THEN "warm" ELSE tier[x]]
              /\ buf' = [x \in Obj |-> IF x = v THEN kv[q] ELSE buf[x]]
  <2>1. CASE PromptWarm(c, i, b)
    BY <2>1, Zenon DEF PromptWarm
  <2>2. CASE PromptCold(c, i, b)
    <3>1. PICK q \in Slot, v \in Obj \cup {NoObj} :
            /\ Acquire(q, v)
            /\ bySeq' = [bySeq EXCEPT ![q] = NoObj]
            /\ kv' = [kv EXCEPT ![q] = Empty]
            /\ seq' = [x \in Obj |-> IF x = v THEN NoSlot ELSE seq[x]]
            /\ tier' = [x \in Obj |-> IF x = v THEN "warm" ELSE tier[x]]
            /\ buf' = [x \in Obj |-> IF x = v THEN kv[q] ELSE buf[x]]
            /\ call' = [call EXCEPT ![c] = [Idle EXCEPT !.pc = "reading", !.id = i,
                            !.obj = o, !.slot = q, !.clear = b]]
      BY <2>2 DEF PromptCold, Reserve
    <3>2. tier[o] = "cold"
      BY <2>2 DEF PromptCold, Reserve
    <3> QED BY <3>1, <3>2
  <2> QED BY <2>1, <2>2
<1>5. /\ v \in Obj => Live(v) /\ tier[v] = "hot" /\ seq[v] = q
      /\ \A x \in Obj : Live(x) /\ seq[x] = q => x = v
  BY <1>1, <1>4, AcquireFacts
<1>6. v # o
  BY <1>1, <1>3, <1>5
<1>7. tier[o] = "warm" => RestoredCells(o, q).len = nPos[o]
  BY <1>1 DEF RestoredCells, MatchOK, PositionMatchesHistory, Empty
<1>8. FilesWhole' /\ SavesWhole'
  <2>1. call'[c].pc # "saving" /\ \A d \in Caller \ {c} : call'[d] = call[d]
    <3>1. CASE PromptWarm(c, i, b)
      BY <3>1 DEF PromptWarm, TypeOK, Idle
    <3>2. CASE PromptCold(c, i, b)
      <4>1. \E r : call' = [call EXCEPT ![c] = [Idle EXCEPT !.pc = "reading", !.id = i,
                          !.obj = o, !.slot = r, !.clear = b]]
        BY <3>2 DEF PromptCold, Reserve
      <4> QED BY <4>1 DEF TypeOK, Idle
    <3> QED BY <3>1, <3>2
  <2> QED BY <1>1, <2>1, FilesStay, SavesStay
<1> HIDE DEF o
<1>9. ColdIsNew'
  BY <1>1, <1>2, <1>4 DEF MatchOK, ColdIsNew
<1>10. PositionMatchesHistory'
  <2> SUFFICES ASSUME NEW x \in Obj, Live(x)
               PROVE  /\ (seq'[x] # NoSlot /\ ~ContextFreed') => kv'[seq'[x]].len = nPos[x]
                      /\ (tier'[x] = "warm" /\ buf'[x] # NoHist) => buf'[x].len = nPos[x]
                      /\ (tier'[x] = "warm" /\ buf'[x] = NoHist) => nPos[x] = 0
    BY <1>1, <1>2 DEF PositionMatchesHistory
  <2>1. CASE x = o
    <3>1. CASE tier[o] = "warm"
      BY <1>4, <1>6, <1>7, <2>1, <3>1 DEF TypeOK
    <3>2. CASE tier[o] = "cold"
      BY <1>3, <1>4, <1>6, <2>1, <3>2
    <3> QED BY <1>4, <3>1, <3>2
  <2>2. CASE x = v
    <3>1. kv[q].len = nPos[x] /\ kv[q] \in Hist
      BY <1>1, <1>5, <2>2 DEF MatchOK, PositionMatchesHistory, TypeOK
    <3>2. seq'[x] = NoSlot /\ tier'[x] = "warm" /\ buf'[x] = kv[q]
      BY <1>4, <1>6, <2>2
    <3> QED BY <3>1, <3>2
  <2>3. CASE x # o /\ x # v
    <3>1. seq'[x] = seq[x] /\ tier'[x] = tier[x] /\ buf'[x] = buf[x]
      BY <1>4, <2>3
    <3>2. seq[x] # NoSlot => seq[x] # q /\ seq[x] \in Slot
      BY <1>5, <2>3 DEF TypeOK
    <3>3. seq[x] # NoSlot => kv'[seq[x]] = kv[seq[x]]
      BY <1>4, <3>2 DEF TypeOK
    <3> QED BY <1>1, <3>1, <3>3 DEF MatchOK, PositionMatchesHistory
  <2> QED BY <2>1, <2>2, <2>3
<1> QED BY <1>1, <1>8, <1>9, <1>10, InUse

(* The file that is read is the one the session was written to.            *)
LEMMA ReadDoneMatch ==
  ASSUME IInv, TidyOK, MatchOK, Exact, NEW c \in Caller, ReadDone(c)
  PROVE  MatchOK'
<1> USE Nulls, ExactKinds DEF IInv, SlotsOK
<1> DEFINE o == call[c].obj
           q == call[c].slot
           f == files[call[c].id]
<1>1. /\ o \in Obj /\ q \in Slot /\ call[c].id \in Id /\ shutdown = "no" /\ f # NoFile
      /\ ~ContextFreed /\ c \in Holders(q)
      /\ UNCHANGED <<sessions, ident, files, pwrite, shutdown>>
  BY DEF ReadDone, Bind, CallOK, TidyOK, CallsTidy, CallTidy, io, Holders
<1>2. Whole(f)
  BY <1>1, StateFileWhole
<1>3. \A x \in Obj : (Live(x)' <=> Live(x)) /\ (Live(x) => seq[x] # q)
  BY <1>1 DEF Live, BoundIsMapped, SlotAccounting
<1>4. PICK p \in HeaderPos(f, nPos[o]) : nPos' = [nPos EXCEPT ![o] = p]
  BY DEF ReadDone, Bind
<1>5. p = f.hist.len
  BY <1>2, <1>4, WholeHeader
<1>6. /\ kv' = [kv EXCEPT ![q] = f.hist] /\ seq' = [seq EXCEPT ![o] = q]
      /\ tier' = [tier EXCEPT ![o] = "hot"] /\ buf' = [buf EXCEPT ![o] = NoHist]
  BY DEF ReadDone, Bind
<1>7. FilesWhole' /\ SavesWhole'
  <2>1. call[c].pc # "saving" /\ call'[c].pc # "saving"
        /\ \A d \in Caller \ {c} : call'[d] = call[d]
    BY DEF ReadDone, Bind, TypeOK, Call
  <2> QED BY <1>1, <2>1, FilesStay, SavesStay
<1> HIDE DEF o, q, f
<1>8. ColdIsNew'
  BY <1>1, <1>3, <1>4, <1>6 DEF MatchOK, ColdIsNew, TypeOK
<1>9. PositionMatchesHistory'
  <2> SUFFICES ASSUME NEW x \in Obj, Live(x)
               PROVE  /\ (seq'[x] # NoSlot /\ ~ContextFreed') => kv'[seq'[x]].len = nPos'[x]
                      /\ (tier'[x] = "warm" /\ buf'[x] # NoHist) => buf'[x].len = nPos'[x]
                      /\ (tier'[x] = "warm" /\ buf'[x] = NoHist) => nPos'[x] = 0
    BY <1>3 DEF PositionMatchesHistory
  <2>1. CASE x = o
    BY <1>1, <1>4, <1>5, <1>6, <2>1 DEF TypeOK
  <2>2. CASE x # o
    <3>1. /\ seq'[x] = seq[x] /\ tier'[x] = tier[x] /\ buf'[x] = buf[x] /\ nPos'[x] = nPos[x]
      BY <1>1, <1>4, <1>6, <2>2 DEF TypeOK
    <3>2. seq[x] # NoSlot => kv'[seq[x]] = kv[seq[x]]
      BY <1>3, <1>6 DEF TypeOK
    <3> QED BY <1>1, <3>1, <3>2 DEF MatchOK, PositionMatchesHistory
  <2> QED BY <2>1, <2>2
<1> QED BY <1>1, <1>7, <1>8, <1>9, InUse

(* Each session of the batch gets one cell and one position more.          *)
LEMMA AdvanceMatch ==
  ASSUME IInv, TidyOK, MatchOK, NEW S \in SUBSET Obj, NEW D \in SUBSET S, S # {},
         Advance(S, D)
  PROVE  MatchOK'
<1> USE Nulls DEF IInv, SlotsOK
<1>1. /\ UNCHANGED <<sessions, ident, tier, seq, buf, files, pwrite, call, shutdown>>
      /\ nPos' = [o \in Obj |-> IF o \in S THEN nPos[o] + 1 ELSE nPos[o]]
  BY DEF Advance, io
<1>2. \A o \in S : Live(o) /\ seq[o] # NoSlot
  BY DEF Advance, Batchable, Schedulable
<1>3. loop = "running" /\ ~ContextFreed
  BY DEF Advance, Batchable, Schedulable
<1>4. \A x \in Obj : Live(x)' <=> Live(x)
  BY <1>1 DEF Live
<1>5. FilesWhole' /\ SavesWhole'
  BY <1>1, FilesStay, SavesStay
<1>6. ColdIsNew'
  <2>1. \A o \in S : tier[o] # "cold"
    BY <1>2 DEF TidyOK, SlotsTidy, ColdMeansOnDisk
  <2> QED BY <1>1, <1>4, <2>1 DEF MatchOK, ColdIsNew
<1>7. Parking'
  BY <1>1, <1>3 DEF MatchOK, Parking
<1>8. PositionMatchesHistory'
  <2> SUFFICES ASSUME NEW x \in Obj, Live(x)
               PROVE  /\ (seq[x] # NoSlot /\ ~ContextFreed') => kv'[seq[x]].len = nPos'[x]
                      /\ (tier[x] = "warm" /\ buf[x] # NoHist) => buf[x].len = nPos'[x]
                      /\ (tier[x] = "warm" /\ buf[x] = NoHist) => nPos'[x] = 0
    BY <1>1, <1>4 DEF PositionMatchesHistory
  <2>1. CASE x \in S
    <3>1. tier[x] # "warm" /\ seq[x] \in Slot
      BY <1>2, <1>3, <2>1 DEF BoundIsMapped, TypeOK
    <3>2. kv'[seq[x]].len = kv[seq[x]].len + 1
      BY <2>1, <3>1 DEF Advance
    <3>3. kv[seq[x]].len = nPos[x]
      BY <1>2, <1>3, <2>1 DEF MatchOK, PositionMatchesHistory
    <3> QED BY <1>1, <2>1, <3>1, <3>2, <3>3
  <2>2. CASE x \notin S
    <3>1. seq[x] # NoSlot => seq[x] \in Slot /\ ~ \E o \in S : seq[o] = seq[x]
      BY <1>2, <1>3, <2>2, SlotsApart DEF TypeOK
    <3>2. seq[x] # NoSlot => kv'[seq[x]] = kv[seq[x]]
      BY <3>1 DEF Advance
    <3> QED BY <1>1, <1>3, <2>2, <3>2 DEF MatchOK, PositionMatchesHistory
  <2> QED BY <2>1, <2>2
<1> QED BY <1>5, <1>6, <1>7, <1>8 DEF MatchOK

(* Saving: what is written is a history under its own length, and only c   *)
(* writes to p.                                                            *)
LEMMA OpenMatch ==
  ASSUME IInv, TidyOK, MatchOK, UserPath \cap Id = {}, NEW c \in Caller, NEW i, NEW o,
         NEW p \in UserPath, NEW f, OpenForWrite(c, i, o, p, f), Whole(f),
         call[c].pc # "saving", shutdown = "no", UNCHANGED <<slots, fields, pwrite, shutdown>>
  PROVE  MatchOK'
<1> USE Nulls DEF IInv
<1>1. /\ files' = [files EXCEPT ![p] = Torn(f)]
      /\ call' = [call EXCEPT ![c] = [Idle EXCEPT !.pc = "saving", !.id = i,
                                    !.obj = o, !.path = p, !.data = f]]
  BY DEF OpenForWrite
<1>2. /\ call'[c].pc = "saving" /\ call'[c].path = p /\ call'[c].data = f
      /\ \A d \in Caller \ {c} : call'[d] = call[d]
  BY <1>1 DEF TypeOK, Idle
<1>3. SavesWhole'
  BY <1>2 DEF MatchOK, SavesWhole, Whole
<1>4. FilesWhole'
  <2>1. \A r \in Path : (r = p \/ Writing(r)) => Writing(r)'
    BY <1>2 DEF Writing, fields
  <2>2. \A r \in Path : r # p => files'[r] = files[r]
    BY <1>1 DEF TypeOK
  <2> QED BY <2>1, <2>2 DEF MatchOK, FilesWhole, Whole
<1>5. ColdIsNew' /\ PositionMatchesHistory'
  BY DEF MatchOK, ColdIsNew, PositionMatchesHistory, Live, ContextFreed, slots, fields
<1> QED BY <1>3, <1>4, <1>5, InUse

LEMMA SaveDoneMatch ==
  ASSUME IInv, TidyOK, MatchOK, NEW c \in Caller, SaveDone(c)
  PROVE  MatchOK'
<1> USE Nulls DEF IInv
<1> DEFINE p == call[c].path
           d == call[c].data
<1>1. /\ p \in UserPath /\ call[c].pc = "saving" /\ shutdown = "no" /\ Whole(d)
      /\ UNCHANGED <<slots, fields, pwrite, shutdown>>
  BY DEF SaveDone, CallOK, TidyOK, CallsTidy, CallTidy, MatchOK, SavesWhole
<1>2. \A e \in Caller \ {c} : call[e].path # p
  BY <1>1, NullAssumption DEF TidyOK, CallsTidy, OwnCall, Path
<1>3. (files' = files /\ files[p] = NoFile) \/ files' = [files EXCEPT ![p] = d]
  BY <1>1, <1>2 DEF SaveDone, Written
<1>4. call'[c].pc # "saving" /\ \A e \in Caller \ {c} : call'[e] = call[e]
  BY DEF SaveDone, TypeOK, Idle
<1>5. SavesWhole'
  BY <1>4, SavesStay
<1>6. FilesWhole'
  <2> SUFFICES ASSUME NEW r \in Path, files'[r] # NoFile, ~Writing(r)'
               PROVE  Whole(files'[r])
    BY DEF FilesWhole, Whole
  <2>1. CASE r = p
    BY <1>1, <1>3, <2>1 DEF TypeOK
  <2>2. CASE r # p
    <3>1. ~Writing(r)
      BY <1>1, <1>4, <2>2 DEF Writing, fields
    <3>2. files'[r] = files[r]
      BY <1>3, <2>2 DEF TypeOK
    <3> QED BY <3>1, <3>2 DEF MatchOK, FilesWhole
  <2> QED BY <2>1, <2>2
<1>7. ColdIsNew' /\ PositionMatchesHistory'
  BY <1>1 DEF MatchOK, ColdIsNew, PositionMatchesHistory, Live, ContextFreed, slots, fields
<1> QED BY <1>1, <1>5, <1>6, <1>7, InUse

(* The file of a session that was freed is deleted; nobody has its name.   *)
LEMMA DeleteMatch ==
  ASSUME IInv, TidyOK, MatchOK, NEW c \in Caller, DeleteFile(c)
  PROVE  MatchOK'
<1> USE Nulls DEF IInv, SlotsOK
<1> DEFINE i == call[c].id
<1>1. /\ i \in Id /\ sessions[i] = NoObj /\ files' = [files EXCEPT ![i] = NoFile]
      /\ UNCHANGED <<slots, fields, pwrite, loop, shutdown>>
  BY DEF DeleteFile, CallOK, TidyOK, CallsTidy, CallTidy
<1>2. /\ \A d \in Caller : call[d].pc = "saving" => call'[d] = call[d]
      /\ \A d \in Caller : call'[d].pc = "saving" => call'[d] = call[d]
  BY DEF DeleteFile, TypeOK, Idle
<1>3. SavesWhole'
  BY <1>2, SavesStay
<1>4. FilesWhole'
  <2>1. \A p \in Path : files'[p] \in {files[p], NoFile}
    BY <1>1 DEF TypeOK
  <2>2. \A p \in Path : Writing(p) => Writing(p)'
    BY <1>1, <1>2 DEF Writing, fields
  <2> QED BY <2>1, <2>2 DEF MatchOK, FilesWhole
<1>5. \A o \in Obj : Live(o) => Live(o)' /\ files'[ident[o]] = files[ident[o]]
  BY <1>1 DEF Live, TypeOK, slots, fields
<1>6. ColdIsNew' /\ PositionMatchesHistory'
  BY <1>1 DEF MatchOK, ColdIsNew, PositionMatchesHistory, Live, ContextFreed, slots, fields
<1>7. Parking'
  <2>1. \A o \in Obj : Live(o)' <=> Live(o)
    BY <1>1 DEF Live, slots, fields
  <2> QED BY <1>1, <1>5, <2>1 DEF MatchOK, Parking, ParkedRight, WrittenRight, OnDisk, Whole,
             slots, fields
<1> QED BY <1>3, <1>4, <1>6, <1>7 DEF MatchOK

(* persistAllAndDispose starts to write what each session has.             *)
LEMMA PersistEvictMatch ==
  ASSUME IInv, TidyOK, MatchOK, PersistEvict
  PROVE  MatchOK'
<1> USE Nulls DEF IInv, SlotsOK
<1> DEFINE hot == {o \in Obj : Live(o) /\ tier[o] = "hot" /\ seq[o] # NoSlot}
           left == {seq[o] : o \in hot}
           image == [o \in Obj |-> IF o \in ToWrite THEN Saved(buf'[o], nPos[o]) ELSE NoFile]
<1>1. /\ buf' = [o \in Obj |-> IF o \in hot THEN kv[seq[o]] ELSE buf[o]]
      /\ tier' = [o \in Obj |-> IF o \in hot THEN "warm" ELSE tier[o]]
      /\ seq' = [o \in Obj |-> IF o \in hot THEN NoSlot ELSE seq[o]]
      /\ kv' = [s \in Slot |-> IF s \in left THEN Empty ELSE kv[s]]
      /\ pwrite' = image
      /\ files' = [p \in Path |-> IF p \in Id /\ sessions[p] \in ToWrite
                                  THEN Torn(image[sessions[p]]) ELSE files[p]]
      /\ UNCHANGED <<sessions, ident, nPos, call, loop>> /\ ~ContextFreed
      /\ shutdown = "stopping" /\ shutdown' = "archiving" /\ LoopLeft
  BY DEF PersistEvict, ContextFreed
<1>2. \A o \in Obj : Live(o)' <=> Live(o)
  BY <1>1 DEF Live
<1>3. loop' = "exited"
  BY <1>1 DEF LoopLeft, TidyOK, NoJanitor
<1>4. \A o \in hot : seq[o] \in Slot /\ kv[seq[o]].len = nPos[o] /\ kv[seq[o]] \in Hist
  BY <1>1 DEF MatchOK, PositionMatchesHistory, TypeOK
<1>5. \A o \in Obj : Live(o) /\ tier[o] = "hot" => o \in hot
  BY <1>1 DEF BoundIsMapped
<1>6. \A o \in Obj : /\ image[o] # NoFile => o \in ToWrite
                     /\ o \in ToWrite => image[o] = Saved(buf'[o], nPos[o])
  OBVIOUS
<1>7. \A o \in ToWrite : o \in Obj /\ Live(o) /\ buf'[o] # NoHist /\ tier'[o] = "warm"
  BY DEF ToWrite
<1>8. \A o \in Obj : Live(o) /\ buf'[o] # NoHist /\ tier'[o] = "warm" => o \in ToWrite
  BY DEF ToWrite
<1>9. \A o \in ToWrite : image[o] # NoFile
  <2> SUFFICES ASSUME NEW o \in ToWrite PROVE Saved(buf'[o], nPos[o]) # NoFile
    BY <1>6, <1>7
  <2>1. buf'[o] \in Hist
    BY <1>1, <1>4, <1>7 DEF TypeOK
  <2> QED BY <1>7, <2>1, SavedTyped DEF TypeOK
<1> HIDE DEF hot, left, image
<1>10. PositionMatchesHistory'
  <2> SUFFICES ASSUME NEW x \in Obj, Live(x)
               PROVE  /\ (seq'[x] # NoSlot /\ ~ContextFreed') => kv'[seq'[x]].len = nPos[x]
                      /\ (tier'[x] = "warm" /\ buf'[x] # NoHist) => buf'[x].len = nPos[x]
                      /\ (tier'[x] = "warm" /\ buf'[x] = NoHist) => nPos[x] = 0
    BY <1>1, <1>2 DEF PositionMatchesHistory
  <2>1. CASE x \in hot
    BY <1>1, <1>4, <2>1
  <2>2. CASE x \notin hot
    <3>1. seq'[x] = NoSlot
      <4>1. tier[x] \in {"warm", "cold"}
        BY <1>5, <2>2 DEF TypeOK, Tier
      <4> QED BY <1>1, <2>2, <4>1 DEF BoundIsMapped, TidyOK, SlotsTidy, ColdMeansOnDisk
    <3> QED BY <1>1, <2>2, <3>1 DEF MatchOK, PositionMatchesHistory
  <2> QED BY <2>1, <2>2
<1>11. \A o \in ToWrite : Whole(image[o]) /\ image[o].pos = nPos[o]
  <2> SUFFICES ASSUME NEW o \in ToWrite PROVE Whole(image[o]) /\ image[o].pos = nPos[o]
    OBVIOUS
  <2>1. buf'[o].len = nPos[o]
    BY <1>1, <1>2, <1>7, <1>10 DEF PositionMatchesHistory
  <2>2. Whole(Saved(buf'[o], nPos[o])) /\ Saved(buf'[o], nPos[o]).pos = nPos[o]
    BY <2>1, SavedWhole DEF Saved
  <2> QED BY <1>6, <1>7, <2>2
<1>12. Parking'
  <2>1. ASSUME NEW o \in Obj, Live(o) PROVE ParkedRight(o)'
    <3>1. tier'[o] # "hot"
      BY <1>1, <1>5, <2>1
    <3>2. tier'[o] = "warm" /\ buf'[o] # NoHist => pwrite'[o] # NoFile
      BY <1>1, <1>8, <1>9, <2>1
    <3>3. tier'[o] = "cold" => nPos[o] = 0
      BY <1>1, <2>1 DEF MatchOK, ColdIsNew
    <3> QED BY <1>1, <3>1, <3>2, <3>3 DEF ParkedRight
  <2>2. ASSUME NEW o \in Obj, pwrite'[o] # NoFile PROVE WrittenRight(o)'
    <3>1. o \in ToWrite /\ Live(o)
      BY <1>1, <1>6, <1>7, <2>2
    <3>2. ident[o] \in Id /\ sessions[ident[o]] = o
      BY <3>1 DEF Live, TypeOK
    <3>3. files'[ident[o]] = Torn(image[o])
      BY <1>1, <3>1, <3>2 DEF Path
    <3>4. files'[ident[o]] # NoFile
      <4>1. image[o] \in File
        <5>1. buf'[o] \in Hist
          BY <1>1, <1>4, <1>7, <3>1 DEF TypeOK
        <5> QED BY <1>6, <3>1, <5>1, SavedTyped DEF TypeOK
      <4> QED BY <3>3, <4>1, FileParts
    <3> QED BY <1>1, <1>11, <3>1, <3>2, <3>4 DEF WrittenRight, Whole
  <2> QED BY <1>2, <1>3, <2>1, <2>2 DEF Parking
<1>13. FilesWhole'
  <2> SUFFICES ASSUME NEW p \in Path, files'[p] # NoFile, ~Writing(p)'
               PROVE  Whole(files'[p])
    BY DEF FilesWhole, Whole
  <2>1. CASE p \in Id /\ sessions[p] \in ToWrite
    <3>1. Writing(p)'
      BY <1>1, <1>7, <1>9, <2>1 DEF Writing, NamesMatch
    <3> QED BY <3>1
  <2>2. CASE ~(p \in Id /\ sessions[p] \in ToWrite)
    <3>1. files'[p] = files[p]
      BY <1>1, <2>2
    <3>2. ~Writing(p)
      BY <1>1 DEF Writing, TidyOK, Parked
    <3> QED BY <3>1, <3>2 DEF MatchOK, FilesWhole
  <2> QED BY <2>1, <2>2
<1>14. SavesWhole' /\ ColdIsNew'
  BY <1>1, SavesStay DEF ColdIsNew
<1> QED BY <1>10, <1>12, <1>13, <1>14 DEF MatchOK

(* A write that has ended leaves the session cold and on disk.             *)
LEMMA PersistWrittenMatch ==
  ASSUME IInv, TidyOK, MatchOK, UserPath \cap Id = {}, NEW o \in Obj, PersistWritten(o)
  PROVE  MatchOK'
<1> USE Nulls DEF IInv, SlotsOK
<1>1. /\ pwrite[o] # NoFile /\ pwrite' = [pwrite EXCEPT ![o] = NoFile]
      /\ tier' = [tier EXCEPT ![o] = "cold"] /\ buf' = [buf EXCEPT ![o] = NoHist]
      /\ UNCHANGED <<slots, ident, seq, nPos, call, loop, shutdown>>
  BY DEF PersistWritten, BecomeCold
<1>2. shutdown = "archiving" /\ WrittenRight(o) /\ loop = "exited"
  BY <1>1 DEF TidyOK, Parked, MatchOK, Parking
<1>3. files' = Written(ident[o], pwrite[o], FALSE)
  <2>1. (\E x \in Obj : jwrite[x] # NoFile /\ ident[x] = ident[o]) <=> FALSE
    BY DEF TidyOK, NoJanitor
  <2> QED BY <2>1 DEF PersistWritten
<1>4. \/ files' = files /\ files[ident[o]] = NoFile
      \/ files[ident[o]] # NoFile /\ files' = [files EXCEPT ![ident[o]] = pwrite[o]]
  BY <1>3 DEF Written
<1>5. \A x \in Obj : Live(x)' <=> Live(x)
  BY <1>1 DEF Live, slots
<1>6. SavesWhole' /\ ColdIsNew'
  BY <1>1, <1>2, SavesStay DEF ColdIsNew
<1>7. PositionMatchesHistory'
  BY <1>1, <1>5 DEF MatchOK, PositionMatchesHistory, ContextFreed, TypeOK, slots
<1>8. FilesWhole'
  <2> SUFFICES ASSUME NEW p \in Path, files'[p] # NoFile, ~Writing(p)'
               PROVE  Whole(files'[p])
    BY DEF FilesWhole, Whole
  <2>1. CASE p = ident[o]
    BY <1>2, <1>4, <2>1 DEF WrittenRight, TypeOK
  <2>2. CASE p # ident[o]
    <3>1. ~Writing(p)
      BY <1>1, <2>2 DEF Writing, TypeOK
    <3>2. files'[p] = files[p]
      BY <1>4, <2>2 DEF TypeOK
    <3> QED BY <3>1, <3>2 DEF MatchOK, FilesWhole
  <2> QED BY <2>1, <2>2
<1>9. \A x \in Obj \ {o} : Live(x) => files'[ident[x]] = files[ident[x]]
  <2> SUFFICES ASSUME NEW x \in Obj \ {o}, Live(x) PROVE files'[ident[x]] = files[ident[x]]
    OBVIOUS
  <2>1. ident[x] # ident[o]
    BY <1>2 DEF WrittenRight, Live
  <2>2. ident[x] \in Path
    BY DEF TypeOK, Live, Path
  <2> QED BY <1>4, <2>1, <2>2 DEF TypeOK
<1>10. Parking'
  <2>1. ASSUME NEW x \in Obj, Live(x) PROVE ParkedRight(x)'
    <3>1. CASE x = o
      <4>1. files[ident[o]] # NoFile /\ pwrite[o].pos = nPos[o] /\ Whole(pwrite[o])
        BY <1>2, <2>1, <3>1 DEF WrittenRight
      <4>2. ident[o] \in Path
        BY <2>1, <3>1 DEF Live, TypeOK, Path
      <4>3. files'[ident[o]] = pwrite[o]
        BY <1>4, <4>1, <4>2 DEF TypeOK
      <4>4. tier'[o] = "cold"
        BY <1>1 DEF TypeOK
      <4> QED BY <1>1, <3>1, <4>1, <4>3, <4>4 DEF ParkedRight, OnDisk, Whole
    <3>2. CASE x # o
      <4>1. tier'[x] = tier[x] /\ buf'[x] = buf[x] /\ pwrite'[x] = pwrite[x]
        BY <1>1, <3>2 DEF TypeOK
      <4>2. ParkedRight(x)
        BY <1>2, <2>1 DEF MatchOK, Parking
      <4> QED BY <1>1, <1>9, <2>1, <3>2, <4>1, <4>2 DEF ParkedRight, OnDisk
    <3> QED BY <3>1, <3>2
  <2>2. ASSUME NEW x \in Obj, pwrite'[x] # NoFile PROVE WrittenRight(x)'
    <3>1. x # o /\ pwrite'[x] = pwrite[x]
      BY <1>1, <2>2 DEF TypeOK
    <3>2. WrittenRight(x)
      BY <1>2, <2>2, <3>1 DEF MatchOK, Parking
    <3> QED BY <1>1, <1>5, <1>9, <3>1, <3>2 DEF WrittenRight, Whole, slots
  <2> QED BY <1>1, <1>2, <1>5, <2>1, <2>2 DEF Parking
<1> QED BY <1>6, <1>7, <1>8, <1>10 DEF MatchOK

(* Every step keeps positions and files right.                             *)
LEMMA MatchStep ==
  ASSUME IInv, TidyOK, MatchOK, Exact, Next
  PROVE  MatchOK'
<1> USE Nulls, ExactKinds, TidyKinds DEF IInv, SlotsOK
<1>1. ASSUME NEW i \in Id, CreateSession(i) PROVE MatchOK'
  BY <1>1, CreateMatch
<1>2. ASSUME \/ \E i \in Id : Cancel(i)
             \/ \E c \in Caller, i \in Id : PromptNoSlot(c, i)
             \/ \E o \in Obj : NotHot(o)
             \/ LoopExit
      PROVE  MatchOK'
  BY <1>2, NothingMoves DEF Cancel, PromptNoSlot, NotHot, LoopExit, slots, fields, io
<1>3. ASSUME NEW i \in Id, FreeSession(i) PROVE MatchOK'
  BY <1>3, DetachMatch DEF FreeSession, io
<1>4. ASSUME NEW c \in Caller, NEW i \in Id, FreeAndDelete(c, i) PROVE MatchOK'
  <2>1. /\ \A d \in Caller : call[d].pc = "saving" => call'[d] = call[d]
        /\ \A d \in Caller : call'[d].pc = "saving" => call'[d] = call[d]
    BY <1>4 DEF FreeAndDelete, TypeOK, Idle
  <2> QED BY <1>4, <2>1, DetachMatch DEF FreeAndDelete, io
<1>5. ASSUME NEW c \in Caller, NEW i \in Id, NEW b \in BOOLEAN, PromptHot(c, i, b)
      PROVE  MatchOK'
  <2> DEFINE o == sessions[i]
  <2>1. /\ o \in Obj /\ Live(o) /\ ~ContextFreed /\ shutdown = "no" /\ tier[o] = "hot"
        /\ StartRequest(o, b)
        /\ UNCHANGED <<sessions, ident, seq, tier, buf, files, pwrite, call, shutdown>>
    BY <1>5 DEF PromptHot, CanPrompt, TypeOK, NamesMatch, GoneIsEmpty, io, Accepting, Live
  <2>2. ColdIsNew' /\ PositionMatchesHistory'
    BY <2>1, StartMatch
  <2>3. FilesWhole' /\ SavesWhole'
    BY <2>1, FilesStay, SavesStay
  <2> QED BY <2>1, <2>2, <2>3, InUse
<1>6. ASSUME NEW c \in Caller, Resume(c) PROVE MatchOK'
  <2> DEFINE o == call[c].obj
  <2>1. /\ o \in Obj /\ shutdown = "no" /\ ~ContextFreed /\ sessions[call[c].id] = o
        /\ call[c].id \in Id
        /\ UNCHANGED <<sessions, ident, seq, tier, buf, files, pwrite, shutdown, loop>>
        /\ call' = [call EXCEPT ![c] = Idle] /\ call[c].pc = "resume"
    BY <1>6 DEF Resume, CallOK, TidyOK, CallsTidy, CallTidy, io
  <2>2. Live(o)
    BY <2>1 DEF Live, NamesMatch
  <2>3. /\ \A d \in Caller : call[d].pc = "saving" => call'[d] = call[d]
        /\ \A d \in Caller : call'[d].pc = "saving" => call'[d] = call[d]
    BY <2>1 DEF TypeOK, Idle
  <2>4. CASE UNCHANGED <<kv, nPos, status, pending>>
    BY <2>1, <2>3, <2>4, NothingMoves
  <2>5. CASE StartRequest(o, call[c].clear)
    <3>1. ColdIsNew' /\ PositionMatchesHistory'
      BY <2>1, <2>2, <2>5, StartMatch
    <3>2. FilesWhole' /\ SavesWhole'
      BY <2>1, <2>3, FilesStay, SavesStay
    <3> QED BY <2>1, <3>1, <3>2, InUse
  <2> QED BY <1>6, <2>4, <2>5 DEF Resume
<1>7. ASSUME NEW c \in Caller, NEW i \in Id, NEW b \in BOOLEAN,
             PromptWarm(c, i, b) \/ PromptCold(c, i, b)
      PROVE  MatchOK'
  BY <1>7, AcquireMatch
<1>8. ASSUME NEW c \in Caller, ReadDone(c) PROVE MatchOK'
  BY <1>8, ReadDoneMatch
<1>9. ASSUME NEW c \in Caller, ReadFail(c) \/ LoadFail(c) \/ SaveFailed(c) PROVE MatchOK'
  <2>1. call' = [call EXCEPT ![c] = Idle] /\ call[c].pc # "saving"
    BY <1>9, ExactKinds DEF ReadFail, GiveUp, LoadFail, SaveFailed
  <2>2. /\ \A d \in Caller : call[d].pc = "saving" => call'[d] = call[d]
        /\ \A d \in Caller : call'[d].pc = "saving" => call'[d] = call[d]
    BY <2>1 DEF TypeOK, Idle
  <2> QED BY <1>9, <2>2, NothingMoves DEF ReadFail, GiveUp, LoadFail, SaveFailed, slots, fields, io
<1>10. ASSUME NEW c \in Caller, DeleteFile(c) PROVE MatchOK'
  BY <1>10, DeleteMatch
<1>11. ASSUME NEW c \in Caller, SaveDone(c) PROVE MatchOK'
  BY <1>11, SaveDoneMatch
<1>12. ASSUME NEW c \in Caller, SaveRead(c) PROVE MatchOK'
  <2> DEFINE f == files[call[c].id]
  <2>1. /\ shutdown = "no" /\ call[c].pc = "saveRead" /\ call[c].id \in Id
        /\ call[c].path \in UserPath
        /\ UNCHANGED <<slots, fields, todo, jwrite, pwrite, loop, shutdown>>
    BY <1>12 DEF SaveRead, CallOK, TidyOK, CallsTidy, CallTidy
  <2>2. CASE f = NoFile
    <3>1. call' = [call EXCEPT ![c] = Idle] /\ UNCHANGED files
      BY <1>12, <2>2 DEF SaveRead
    <3>2. /\ \A d \in Caller : call[d].pc = "saving" => call'[d] = call[d]
          /\ \A d \in Caller : call'[d].pc = "saving" => call'[d] = call[d]
      BY <2>1, <3>1 DEF TypeOK, Idle
    <3> QED BY <2>1, <3>1, <3>2, NothingMoves DEF slots, fields
  <2>3. CASE f # NoFile
    <3>1. PICK p \in HeaderPos(f, nPos[call[c].obj]) :
             OpenForWrite(c, call[c].id, call[c].obj, call[c].path, Saved(f.hist, p))
      BY <1>12, <2>3 DEF SaveRead
    <3>2. Whole(f)
      BY <2>1, <2>3, StateFileWhole
    <3>3. Whole(Saved(f.hist, p))
      BY <3>1, <3>2, WholeHeader, SavedWhole
    <3> QED BY <2>1, <3>1, <3>3, OpenMatch
  <2> QED BY <2>2, <2>3
<1>13. ASSUME NEW c \in Caller, NEW i \in Id, NEW p \in UserPath, SaveSession(c, i, p)
       PROVE  MatchOK'
  <2> DEFINE o == sessions[i]
  <2>1. /\ shutdown = "no" /\ call[c].pc = "idle" /\ o \in Obj /\ Live(o) /\ ~ContextFreed
        /\ UNCHANGED <<slots, fields, todo, jwrite, pwrite, loop, shutdown>>
    BY <1>13 DEF SaveSession, TypeOK, Live, NamesMatch, Accepting, GoneIsEmpty
  <2>2. CASE tier[o] = "hot" /\ seq[o] # NoSlot
             /\ OpenForWrite(c, i, o, p, Saved(kv[seq[o]], nPos[o]))
    <3>1. Whole(Saved(kv[seq[o]], nPos[o]))
      BY <2>1, <2>2, SavedWhole DEF MatchOK, PositionMatchesHistory
    <3> QED BY <2>1, <2>2, <3>1, OpenMatch
  <2>3. CASE tier[o] = "warm" /\ buf[o] # NoHist
             /\ OpenForWrite(c, i, o, p, Saved(buf[o], nPos[o]))
    <3>1. Whole(Saved(buf[o], nPos[o]))
      BY <2>1, <2>3, SavedWhole DEF MatchOK, PositionMatchesHistory
    <3> QED BY <2>1, <2>3, <3>1, OpenMatch
  <2>4. CASE /\ call' = [call EXCEPT ![c] = [Idle EXCEPT !.pc = "saveRead", !.id = i,
                                          !.obj = o, !.path = p]]
             /\ UNCHANGED files
    <3>1. /\ \A d \in Caller : call[d].pc = "saving" => call'[d] = call[d]
          /\ \A d \in Caller : call'[d].pc = "saving" => call'[d] = call[d]
      BY <2>1, <2>4 DEF TypeOK, Idle
    <3> QED BY <2>1, <2>4, <3>1, NothingMoves DEF slots, fields
  <2> QED BY <1>13, <2>2, <2>3, <2>4 DEF SaveSession
<1>14. ASSUME NEW c \in Caller, NEW i \in Id, NEW p \in UserPath, LoadSession(c, i, p)
       PROVE  MatchOK'
  <2>1. /\ \A d \in Caller : call[d].pc = "saving" => call'[d] = call[d]
        /\ \A d \in Caller : call'[d].pc = "saving" => call'[d] = call[d]
    BY <1>14 DEF LoadSession, TypeOK, Idle
  <2> QED BY <1>14, <2>1, NothingMoves DEF LoadSession, slots, fields, io
<1>15. ASSUME NEW c \in Caller, LoadCheck(c) PROVE MatchOK'
  <2>1. /\ \A d \in Caller : call[d].pc = "saving" => call'[d] = call[d]
        /\ \A d \in Caller : call'[d].pc = "saving" => call'[d] = call[d]
    <3>1. call' = [call EXCEPT ![c] = Idle] \/ call' = [call EXCEPT ![c].pc = "loadRead"]
      BY <1>15 DEF LoadCheck
    <3>2. call[c].pc = "loadCheck" /\ call'[c].pc # "saving"
      BY <1>15, <3>1 DEF LoadCheck, TypeOK, Call, Idle
    <3> QED BY <3>1, <3>2 DEF TypeOK
  <2>2. call[c].id \in Id
        /\ UNCHANGED <<ident, status, tier, seq, buf, archived, nPos, io, loop, shutdown>>
    BY <1>15 DEF LoadCheck, CallOK
  <2>3. CASE UNCHANGED <<slots, pending>>
    BY <2>1, <2>2, <2>3, NothingMoves DEF slots, io
  <2>4. CASE Detach(call[c].id) /\ sessions[call[c].id] # NoObj
    BY <2>1, <2>2, <2>4, DetachMatch DEF io
  <2> QED BY <1>15, <2>3, <2>4 DEF LoadCheck
<1>16. ASSUME NEW c \in Caller, LoadRead(c) PROVE MatchOK'
  BY <1>16, LoadReadMatch
<1>17. ASSUME NEW S \in (SUBSET Obj) \ {{}}, NEW D \in SUBSET S, Advance(S, D) PROVE MatchOK'
  BY <1>17, AdvanceMatch
<1>18. ASSUME NEW o \in Obj, PersistWritten(o) PROVE MatchOK'
  BY <1>18, PersistWrittenMatch
<1>19. ASSUME \/ \E S \in SUBSET Obj : DecodeFail(S)
              \/ \E o \in Obj : \/ PersistFailed(o) \/ JanitorNext(o) \/ JanitorWritten(o)
                                \/ JanitorFailed(o)
              \/ JanitorStart \/ JanitorStop
       PROVE  MatchOK'
  BY <1>19 DEF DecodeFail, PersistFailed, JanitorNext, JanitorWritten, JanitorFailed,
               JanitorStart, JanitorStop, TidyOK, NoJanitor
<1>20. CASE PersistEvict
  BY <1>20, PersistEvictMatch
(* The steps of the shutdown that move nothing.                            *)
<1>21. CASE PersistBegin \/ PersistDispose \/ Dispose
  <2>1. /\ UNCHANGED <<slots, fields, io, call, loop>>
        /\ \/ shutdown = "no" /\ shutdown' \in {"stopping", "disposing"}
           \/ shutdown = "archiving" /\ shutdown' = "persisted"
    BY <1>21 DEF PersistBegin, PersistDispose, Dispose
  <2>2. FilesWhole' /\ SavesWhole'
    BY <2>1, FilesStay, SavesStay DEF fields, io
  <2>3. ColdIsNew'
    BY <2>1 DEF MatchOK, ColdIsNew, Live, slots, fields
  <2>4. Parking'
    BY <2>1 DEF MatchOK, Parking, ParkedRight, WrittenRight, OnDisk, Whole, Live, slots,
                fields, io
  <2>5. PositionMatchesHistory'
    BY <2>1 DEF MatchOK, PositionMatchesHistory, Live, ContextFreed, slots, fields
  <2> QED BY <2>2, <2>3, <2>4, <2>5 DEF MatchOK
<1>22. CASE Teardown
  <2>1. /\ sessions' = [i \in Id |-> NoObj] /\ UNCHANGED <<fields, io, call>>
        /\ shutdown' = "gone"
    BY <1>22 DEF Teardown
  <2>2. FilesWhole' /\ SavesWhole'
    BY <2>1, FilesStay, SavesStay DEF fields, io
  <2>3. \A o \in Obj : ~Live(o)'
    BY <2>1 DEF Live, TypeOK, fields
  <2> QED BY <2>1, <2>2, <2>3 DEF MatchOK, ColdIsNew, Parking, PositionMatchesHistory
<1>23. CASE Restart
  <2>1. shutdown = "gone" /\ UNCHANGED files
    BY <1>23 DEF Restart, ContextFreed
  <2>2. \A p \in Path : ~Writing(p)
    BY <2>1 DEF Writing, TidyOK, Parked, CallsTidy, CallTidy
  <2>3. FilesWhole'
    BY <2>1, <2>2 DEF MatchOK, FilesWhole, Whole
  <2>4. /\ \A c \in Caller : call'[c] = Idle
        /\ ident' = [o \in Obj |-> NoId] /\ shutdown' = "no"
    BY <1>23 DEF Restart
  <2>5. \A o \in Obj : ~Live(o)'
    BY <2>4 DEF Live
  <2> QED BY <2>3, <2>4, <2>5 DEF MatchOK, SavesWhole, ColdIsNew, Parking,
             PositionMatchesHistory, Idle
<1> QED
  BY <1>1, <1>2, <1>3, <1>4, <1>5, <1>6, <1>7, <1>8, <1>9, <1>10, <1>11, <1>12, <1>13,
     <1>14, <1>15, <1>16, <1>17, <1>18, <1>19, <1>20, <1>21, <1>22, <1>23 DEF Next, Clearing

(* Its positions and files.                                                *)
LEMMA MatchInv == ASSUME Exact PROVE Spec => []MatchOK
<1>1. Init => MatchOK
  BY Nulls DEF Init, MatchOK, FilesWhole, SavesWhole, ColdIsNew, Parking,
     PositionMatchesHistory, Live, Idle
<1>2. IInv /\ TidyOK /\ MatchOK /\ [Next]_vars => MatchOK'
  <2>1. ASSUME IInv, TidyOK, MatchOK, Next PROVE MatchOK'
    BY <2>1, MatchStep
  <2>2. ASSUME MatchOK, UNCHANGED vars PROVE MatchOK'
    BY <2>2, NothingMoves DEF vars, slots, fields, io
  <2> QED BY <2>1, <2>2
<1>3. Careful
  BY ExactKinds
<1> QED BY <1>1, <1>2, <1>3, Inductive, TidyInv, PTL DEF Spec

(* Over evictions, restores, saves, loads, cancels and restarts, the next  *)
(* token of a session goes behind the last cell of its history: the length *)
(* travels with the cells through snapshot, file and header.               *)
THEOREM PositionsMatch ==
  ASSUME Env \cap {"overlap", "janitor", "late", "crash", "ioerr", "decode"} = {},
         UserPath \cap Id = {}
  PROVE  Spec => []PositionMatchesHistory
<1>1. MatchOK => PositionMatchesHistory
  BY DEF MatchOK
<1>2. Exact
  BY DEF Exact
<1> QED BY <1>1, <1>2, MatchInv, PTL

(* When persistAllAndDispose frees the context, each session that had      *)
(* tokens has a whole file with all of them.                               *)
THEOREM PersistedOnDisk ==
  ASSUME Env \cap {"overlap", "janitor", "late", "crash", "ioerr", "decode"} = {},
         UserPath \cap Id = {}
  PROVE  Spec => []PersistedIsOnDisk
<1>1. IInv /\ TidyOK /\ MatchOK => PersistedIsOnDisk
  <2> SUFFICES ASSUME IInv, TidyOK, MatchOK, shutdown = "persisted",
                      NEW i \in Id, sessions[i] # NoObj, nPos[sessions[i]] > 0
               PROVE  files[i] # NoFile /\ files[i].ok /\ files[i].hist.len = nPos[sessions[i]]
    BY DEF PersistedIsOnDisk
  <2> USE Nulls DEF IInv, SlotsOK
  <2> DEFINE o == sessions[i]
  <2>1. o \in Obj /\ ident[o] = i /\ Live(o)
    BY DEF TypeOK, NamesMatch, Live
  <2>2. ParkedRight(o) /\ pwrite[o] = NoFile
    BY <2>1 DEF MatchOK, Parking, TidyOK, Parked
  <2>3. tier[o] = "cold"
    <3>1. tier[o] # "warm"
      BY <2>1, <2>2 DEF ParkedRight, MatchOK, PositionMatchesHistory
    <3> QED BY <2>1, <2>2, <3>1 DEF ParkedRight, TypeOK, Tier
  <2>4. nPos[o] # 0
    BY <2>1 DEF TypeOK
  <2> QED BY <2>1, <2>2, <2>3, <2>4 DEF ParkedRight, OnDisk
<1>2. Exact
  BY DEF Exact
<1>3. Careful
  BY <1>2, ExactKinds
<1> QED BY <1>1, <1>2, <1>3, Inductive, TidyInv, MatchInv, PTL
=============================================================================
