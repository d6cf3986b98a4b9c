--------------------------- MODULE SessionService ---------------------------
(***************************************************************************)
(* LlamaService (lib/src/core/llama_service.dart): many conversations      *)
(* ("sessions") share one llama.cpp context that has a fixed number of     *)
(* sequence slots.  A session is hot (its KV cells are in a slot), warm    *)
(* (a snapshot in RAM) or cold (a .state file).  The service is a single   *)
(* Dart isolate: everything between two awaits is one step, and every      *)
(* await is a point where another caller, the scheduling loop or the       *)
(* shutdown may run.  This module models the life of sessions, slots and   *)
(* files; SessionScheduler models what one turn of the loop puts in a      *)
(* batch, of which Advance and DecodeFail keep the effect.                  *)
(*                                                                         *)
(* Objects and names are different things: freeSession drops the name, but *)
(* a setPrompt that is suspended still holds the ServiceSession object.    *)
(***************************************************************************)
EXTENDS Naturals

CONSTANTS
    Id,        \* session names, and the state file of each one
    Obj,       \* ServiceSession objects that can be referred to at once
    Slot,      \* sequence ids 0 .. n_seq_max - 1
    Caller,    \* the application tasks that call the service
    UserPath,  \* paths given to saveSession and loadSession
    MaxLen,    \* n_ctx: the positions one sequence may reach
    Env,       \* what the environment does in this instance, see EnvKinds
    NoId, NoObj, NoSlot, NoFile, NoHist    \* Dart's null, one per type

(* "overlap": a second call names a session that has a call in flight (the *)
(* first was not awaited); "late": calls go on while the service shuts     *)
(* down; "crash": the process is killed at any moment; "ioerr": a read or  *)
(* write fails; "badfile": a read of saveSession or loadSession does (what *)
(* is read is never refused: StateCodec.decode takes any bytes); "decode": *)
(* llama_decode fails; "clear": setPrompt is asked to clear the history;   *)
(* others: that method is called, or the janitor runs.                     *)
EnvKinds == {"cancel", "free", "load", "save", "janitor", "persist", "clear",
             "overlap", "late", "crash", "ioerr", "badfile", "decode"}

Path == Id \cup UserPath

Hist == [own : Id \cup {NoId}, len : Nat]
Empty == [own |-> NoId, len |-> 0]
File == [hist : Hist, pos : 0 .. MaxLen, ok : BOOLEAN]

ASSUME NullAssumption ==
    /\ NoId \notin Path
    /\ NoObj \notin Obj
    /\ NoSlot \notin Slot
    /\ NoFile \notin File
    /\ NoHist \notin Hist
    /\ MaxLen \in Nat \ {0}
    /\ Env \subseteq EnvKinds

VARIABLES
    sessions,   \* _sessions: name -> object
    bySeq,      \* _sessionsBySeqId: slot -> object
    nFree,      \* how often a slot occurs in _freeSeqIds
    kv,         \* the cells of each sequence in the llama.cpp memory
    files,      \* the file system
    ident, status, tier, seq, buf, archived, nPos, pending,
                \* fields of each object; archived: coldFilePath is set,
                \* pending: pendingItems is not empty
    call,       \* where each caller is suspended
    loop,       \* the scheduling loop
    todo,       \* the janitor's remaining candidates
    jwrite,     \* what the janitor is writing for an object
    pwrite,     \* what persistAllAndDispose is writing for an object
    shutdown    \* how far persistAllAndDispose / dispose has come

fields == <<ident, status, tier, seq, buf, archived, nPos, pending>>
slots  == <<sessions, bySeq, nFree, kv>>
io     == <<files, todo, jwrite, pwrite>>
vars   == <<slots, fields, io, call, loop, shutdown>>

Status == {"uninitialized", "ready", "generating", "error"}
Tier   == {"hot", "warm", "cold"}
Pc     == {"idle", "reading", "resume", "deleting",
           "loadCheck", "loadRead", "saveRead", "saving"}
Call   == [pc : Pc, id : Id \cup {NoId}, obj : Obj \cup {NoObj},
           slot : Slot \cup {NoSlot}, clear : BOOLEAN,
           path : UserPath \cup {NoId}, data : File \cup {NoFile}]

Idle == [pc |-> "idle", id |-> NoId, obj |-> NoObj, slot |-> NoSlot,
         clear |-> FALSE, path |-> NoId, data |-> NoFile]

TypeOK ==
    /\ sessions \in [Id -> Obj \cup {NoObj}]
    /\ bySeq \in [Slot -> Obj \cup {NoObj}]
    /\ nFree \in [Slot -> Nat]
    /\ kv \in [Slot -> Hist]
    /\ files \in [Path -> File \cup {NoFile}]
    /\ ident \in [Obj -> Id \cup {NoId}]
    /\ status \in [Obj -> Status]
    /\ tier \in [Obj -> Tier]
    /\ seq \in [Obj -> Slot \cup {NoSlot}]
    /\ buf \in [Obj -> Hist \cup {NoHist}]
    /\ archived \in [Obj -> BOOLEAN]
    /\ nPos \in [Obj -> 0 .. MaxLen]
    /\ pending \in [Obj -> BOOLEAN]
    /\ call \in [Caller -> Call]
    /\ loop \in {"running", "exited"}
    /\ todo \in SUBSET Obj
    /\ jwrite \in [Obj -> File \cup {NoFile}]
    /\ pwrite \in [Obj -> File \cup {NoFile}]
    /\ shutdown \in {"no", "stopping", "archiving", "persisted",
                     "disposing", "gone"}

(***************************************************************************)
(* A new LlamaService on an empty disk.                                    *)
(***************************************************************************)
Init ==
    /\ sessions = [i \in Id |-> NoObj] /\ bySeq = [s \in Slot |-> NoObj]
    /\ nFree = [s \in Slot |-> 1] /\ kv = [s \in Slot |-> Empty]
    /\ ident = [o \in Obj |-> NoId]
    /\ status = [o \in Obj |-> "uninitialized"]
    /\ tier = [o \in Obj |-> "warm"] /\ seq = [o \in Obj |-> NoSlot]
    /\ buf = [o \in Obj |-> NoHist] /\ archived = [o \in Obj |-> FALSE]
    /\ nPos = [o \in Obj |-> 0] /\ pending = [o \in Obj |-> FALSE]
    /\ call = [c \in Caller |-> Idle] /\ loop = "running" /\ todo = {}
    /\ jwrite = [o \in Obj |-> NoFile] /\ pwrite = [o \in Obj |-> NoFile]
    /\ shutdown = "no" /\ files = [p \in Path |-> NoFile]

-----------------------------------------------------------------------------
Live(o) == ident[o] # NoId /\ sessions[ident[o]] = o
Disposed == shutdown \in {"persisted", "disposing", "gone"}
ContextFreed == shutdown = "gone"

(* An object that nothing refers to is garbage and may be created anew.    *)
Reachable(o) ==
    \/ \E i \in Id : sessions[i] = o
    \/ \E s \in Slot : bySeq[s] = o
    \/ \E c \in Caller : call[c].obj = o
    \/ o \in todo \/ jwrite[o] # NoFile \/ pwrite[o] # NoFile

(* A caller that awaits its calls never names a session with a call in     *)
(* flight, and stops calling before it shuts the service down.             *)
Awaited(i) == "overlap" \in Env \/ \A c \in Caller : call[c].id # i
Accepting  == ~Disposed /\ ("late" \in Env \/ shutdown = "no")

(* What is stored for history h at position p, and what a reader finds     *)
(* while it is still being written: the header may not be there yet.       *)
Saved(h, p) == [hist |-> h, pos |-> p, ok |-> TRUE]
Torn(f) == [hist |-> Empty, pos |-> f.pos, ok |-> FALSE]
HeaderPos(f, p) == IF f.ok THEN {f.pos} ELSE {f.pos, p}

(* End of the write of d to p: a file deleted meanwhile stays deleted, one *)
(* that another writer still has open is not whole yet.                    *)
Written(p, d, others) ==
    IF files[p] = NoFile THEN files
    ELSE [files EXCEPT ![p] = IF others THEN Torn(d) ELSE d]

-----------------------------------------------------------------------------
(* A new ServiceSession o for name i: no slot yet, status ready.           *)
New(o, i, t, b, a, p) ==
    /\ ~Reachable(o)
    /\ sessions' = [sessions EXCEPT ![i] = o]
    /\ ident' = [ident EXCEPT ![o] = i]
    /\ status' = [status EXCEPT ![o] = "ready"]
    /\ tier' = [tier EXCEPT ![o] = t]
    /\ seq' = [seq EXCEPT ![o] = NoSlot]
    /\ buf' = [buf EXCEPT ![o] = b]
    /\ archived' = [archived EXCEPT ![o] = a]
    /\ nPos' = [nPos EXCEPT ![o] = p]
    /\ pending' = [pending EXCEPT ![o] = FALSE]

(* createSession: a saved file of that name makes the session cold.        *)
CreateSession(i) ==
    /\ Accepting /\ Awaited(i)
    /\ sessions[i] = NoObj
    /\ \E o \in Obj :
          IF files[i] = NoFile THEN New(o, i, "warm", NoHist, FALSE, 0)
                               ELSE New(o, i, "cold", NoHist, TRUE, 0)
    /\ UNCHANGED <<bySeq, nFree, kv, io, call, loop, shutdown>>

(* cancel: runs without an await and looks at no suspended call.           *)
Cancel(i) ==
    /\ "cancel" \in Env /\ Awaited(i)
    /\ sessions[i] # NoObj
    /\ status' = [status EXCEPT ![sessions[i]] = "ready"]
    /\ pending' = [pending EXCEPT ![sessions[i]] = FALSE]
    /\ UNCHANGED <<slots, ident, tier, seq, buf, archived, nPos,
                   io, call, loop, shutdown>>

(* A slot is emptied, unmapped and returned to _freeSeqIds; the mutant     *)
(* leaves it mapped.                                                       *)
GiveBackMapped(q) ==
    kv' = [kv EXCEPT ![q] = Empty] /\ nFree' = [nFree EXCEPT ![q] = @ + 1] /\ UNCHANGED bySeq
GiveBack(q) ==
    /\ bySeq' = [bySeq EXCEPT ![q] = NoObj]
    /\ kv' = [kv EXCEPT ![q] = Empty]
    /\ nFree' = [nFree EXCEPT ![q] = @ + 1]

(* What freeSession does before its first await.                           *)
Detach(i) ==
    LET o == sessions[i] IN
        /\ sessions' = [sessions EXCEPT ![i] = NoObj]
        /\ pending' = [pending EXCEPT ![o] = FALSE]
        /\ IF seq[o] = NoSlot THEN UNCHANGED <<bySeq, kv, nFree>> ELSE GiveBack(seq[o])

FreeSession(i) ==
    /\ "free" \in Env /\ Awaited(i)
    /\ sessions[i] # NoObj
    /\ Detach(i)
    /\ UNCHANGED <<ident, status, tier, seq, buf, archived, nPos,
                   io, call, loop, shutdown>>

(* With deleteDiskFile the caller goes on to delete the session's file.    *)
FreeAndDelete(c, i) ==
    /\ "free" \in Env /\ Awaited(i)
    /\ call[c].pc = "idle"
    /\ sessions[i] # NoObj /\ archived[sessions[i]]
    /\ Detach(i)
    /\ call' = [call EXCEPT ![c] = [Idle EXCEPT !.pc = "deleting", !.id = i]]
    /\ UNCHANGED <<ident, status, tier, seq, buf, archived, nPos,
                   io, loop, shutdown>>

DeleteFile(c) ==
    /\ call[c].pc = "deleting"
    /\ files' = [files EXCEPT ![call[c].id] = NoFile]
    /\ call' = [call EXCEPT ![c] = Idle]
    /\ UNCHANGED <<slots, fields, todo, jwrite, pwrite, loop, shutdown>>

-----------------------------------------------------------------------------
(* Where a request starts; mutant: nPos is not reset with the history.     *)
BasePosKept(o, wipes) == nPos[o]
BasePos(o, wipes) == IF wipes THEN 0 ELSE nPos[o]

(* The rest of setPrompt once the session is bound: _startRequest, the     *)
(* clearing of the history and the tokens of a one-token prompt.           *)
StartRequest(o, clear) ==
    LET wipes    == clear /\ seq[o] # NoSlot
        base     == BasePos(o, wipes)
        accepted == (clear => wipes) /\ base < MaxLen
    IN  /\ kv' = IF wipes THEN [kv EXCEPT ![seq[o]] = Empty] ELSE kv
        /\ nPos' = [nPos EXCEPT ![o] = base]
        /\ status' = [status EXCEPT ![o] = IF accepted THEN "generating" ELSE "error"]
        /\ pending' = [pending EXCEPT ![o] = accepted]

CanPrompt(c, i) ==
    /\ Accepting /\ Awaited(i)
    /\ call[c].pc = "idle"
    /\ sessions[i] # NoObj
    /\ status[sessions[i]] # "generating"

PromptHot(c, i, clear) ==
    /\ CanPrompt(c, i)
    /\ tier[sessions[i]] = "hot"
    /\ StartRequest(sessions[i], clear)
    /\ UNCHANGED <<sessions, bySeq, nFree, ident, tier, seq, buf, archived,
                   io, call, loop, shutdown>>

(* _restoreSession up to its await: slot q is free, or v is evicted from   *)
(* it.  Mutants: a running session is evicted, _freeSeqIds is not tested   *)
(* for emptiness, the id is looked at but not removed.                     *)
EvictableAll == {v \in Obj : Live(v) /\ tier[v] = "hot"}
Evictable == {v \in Obj : Live(v) /\ tier[v] = "hot" /\ status[v] # "generating"}

TakeUnchecked(q) == nFree' = [nFree EXCEPT ![q] = @ - 1]
TakePeeked(q) == nFree[q] > 0 /\ UNCHANGED nFree
Take(q) == nFree[q] > 0 /\ nFree' = [nFree EXCEPT ![q] = @ - 1]

NoneFree == \A s \in Slot : nFree[s] = 0
Acquire(q, v) ==
    \/ v = NoObj /\ Take(q)
    \/ NoneFree /\ v \in Evictable /\ seq[v] = q /\ UNCHANGED nFree

(* The cells a warm session brings back: its snapshot, or none if it never *)
(* had a slot.                                                             *)
RestoredCellsDirty(o, q) == IF buf[o] = NoHist THEN kv[q] ELSE buf[o]
RestoredCells(o, q) == IF buf[o] = NoHist THEN Empty ELSE buf[o]

(* A warm session is bound in the same step; setPrompt then goes on in a   *)
(* microtask of its own.                                                   *)
PromptWarm(c, i, clear) ==
    LET o == sessions[i] IN
    /\ CanPrompt(c, i)
    /\ tier[o] = "warm"
    /\ \E q \in Slot, v \in Obj \cup {NoObj} :
        /\ Acquire(q, v)
        /\ bySeq' = [bySeq EXCEPT ![q] = o]
        /\ kv' = [kv EXCEPT ![q] = RestoredCells(o, q)]
        /\ seq' = [x \in Obj |-> IF x = o THEN q ELSE IF x = v THEN NoSlot ELSE seq[x]]
        /\ tier' = [x \in Obj |-> IF x = o THEN "hot" ELSE IF x = v THEN "warm" ELSE tier[x]]
        /\ buf' = [x \in Obj |-> IF x = o THEN NoHist ELSE IF x = v THEN kv[q] ELSE buf[x]]
    /\ status' = [status EXCEPT ![o] = "generating"]
    /\ pending' = [pending EXCEPT ![o] = FALSE]
    /\ call' = [call EXCEPT ![c] = [Idle EXCEPT !.pc = "resume", !.id = i,
                                                !.obj = o, !.clear = clear]]
    /\ UNCHANGED <<sessions, ident, archived, nPos, io, loop, shutdown>>

(* A cold session waits for its file with the slot reserved, which an      *)
(* eviction has emptied.  Mutant: it has not.                              *)
ReserveDirty(q) == bySeq' = [bySeq EXCEPT ![q] = NoObj] /\ UNCHANGED kv
Reserve(q) == bySeq' = [bySeq EXCEPT ![q] = NoObj] /\ kv' = [kv EXCEPT ![q] = Empty]

PromptCold(c, i, clear) ==
    LET o == sessions[i] IN
    /\ CanPrompt(c, i)
    /\ tier[o] = "cold"
    /\ \E q \in Slot, v \in Obj \cup {NoObj} :
        /\ Acquire(q, v) /\ Reserve(q)
        /\ seq' = [x \in Obj |-> IF x = v THEN NoSlot ELSE seq[x]]
        /\ tier' = [x \in Obj |-> IF x = v THEN "warm" ELSE tier[x]]
        /\ buf' = [x \in Obj |-> IF x = v THEN kv[q] ELSE buf[x]]
        /\ call' = [call EXCEPT ![c] = [Idle EXCEPT !.pc = "reading", !.id = i,
                                        !.obj = o, !.slot = q, !.clear = clear]]
    /\ status' = [status EXCEPT ![o] = "generating"]
    /\ pending' = [pending EXCEPT ![o] = FALSE]
    /\ UNCHANGED <<sessions, ident, archived, nPos, io, loop, shutdown>>

(* No slot: _restoreSession throws outside setPrompt's try block.          *)
PromptNoSlot(c, i) ==
    /\ CanPrompt(c, i)
    /\ tier[sessions[i]] # "hot"
    /\ NoneFree /\ Evictable = {}
    /\ status' = [status EXCEPT ![sessions[i]] = "generating"]
    /\ pending' = [pending EXCEPT ![sessions[i]] = FALSE]
    /\ UNCHANGED <<slots, ident, tier, seq, buf, archived, nPos,
                   io, call, loop, shutdown>>

(* The session is bound; mutant: its tier stays as it was.                 *)
BindUntiered(o, q) == seq' = [seq EXCEPT ![o] = q] /\ UNCHANGED tier
Bind(o, q) == seq' = [seq EXCEPT ![o] = q] /\ tier' = [tier EXCEPT ![o] = "hot"]

ReadDone(c) ==
    LET o == call[c].obj
        q == call[c].slot
        f == files[call[c].id]
    IN  /\ call[c].pc = "reading"
        /\ ~ContextFreed
        /\ f # NoFile
        /\ \E p \in HeaderPos(f, nPos[o]) : nPos' = [nPos EXCEPT ![o] = p]
        /\ kv' = [kv EXCEPT ![q] = f.hist]
        /\ Bind(o, q)
        /\ buf' = [buf EXCEPT ![o] = NoHist]
        /\ bySeq' = [bySeq EXCEPT ![q] = o]
        /\ call' = [call EXCEPT ![c].pc = "resume", ![c].slot = NoSlot]
        /\ UNCHANGED <<sessions, nFree, ident, status, archived, pending,
                       io, loop, shutdown>>

(* The catch clause gives the slot back unless the session took it.        *)
(* Mutant: it does not.                                                    *)
GiveUpNot(o, q) == UNCHANGED nFree
GiveUp(o, q) == nFree' = IF seq[o] # q /\ bySeq[q] = NoObj
                         THEN [nFree EXCEPT ![q] = @ + 1] ELSE nFree

ReadFail(c) ==
    /\ call[c].pc = "reading"
    /\ ~ContextFreed
    /\ files[call[c].id] = NoFile \/ "ioerr" \in Env
    /\ GiveUp(call[c].obj, call[c].slot)
    /\ call' = [call EXCEPT ![c] = Idle]
    /\ UNCHANGED <<sessions, bySeq, kv, fields, io, loop, shutdown>>

(* setPrompt after its await; it gives up if the session was cancelled.    *)
Resume(c) ==
    /\ call[c].pc = "resume"
    /\ ~ContextFreed
    /\ IF status[call[c].obj] # "generating"
       THEN UNCHANGED <<kv, nPos, status, pending>>
       ELSE StartRequest(call[c].obj, call[c].clear)
    /\ call' = [call EXCEPT ![c] = Idle]
    /\ UNCHANGED <<sessions, bySeq, nFree, ident, tier, seq, buf, archived,
                   io, loop, shutdown>>

-----------------------------------------------------------------------------
(* The scheduling loop stands still while it awaits the janitor's writes.  *)
JanitorIdle == todo = {} /\ \A o \in Obj : jwrite[o] = NoFile
Schedulable(o) ==
    /\ loop = "running" /\ JanitorIdle /\ ~ContextFreed
    /\ Live(o) /\ status[o] = "generating" /\ pending[o]

(* One turn of the loop decodes one token of each session in S and samples *)
(* the next: it ends the request of those in D and is queued for the       *)
(* others.  A request ends at MaxLen (bound).  The loop looks at the stop  *)
(* signal between turns.                                                   *)
Batchable(S) == \A o \in S : Schedulable(o) /\ seq[o] # NoSlot /\ nPos[o] < MaxLen
NextLoop == IF shutdown = "no" THEN loop ELSE "exited"

Advance(S, D) ==
    /\ Batchable(S)
    /\ \A o \in S \ D : nPos[o] + 1 < MaxLen
    /\ nPos' = [o \in Obj |-> IF o \in S THEN nPos[o] + 1 ELSE nPos[o]]
    /\ kv' = [s \in Slot |->
                IF \E o \in S : seq[o] = s
                THEN [own |-> IF kv[s].len = 0 THEN ident[bySeq[s]] ELSE kv[s].own,
                      len |-> kv[s].len + 1]
                ELSE kv[s]]
    /\ status' = [o \in Obj |-> IF o \in D THEN "ready" ELSE status[o]]
    /\ pending' = [o \in Obj |-> IF o \in D THEN FALSE ELSE pending[o]]
    /\ loop' = NextLoop
    /\ UNCHANGED <<sessions, bySeq, nFree, ident, tier, seq, buf, archived,
                   io, call, shutdown>>

(* The decode of a batch fails for every session in it, after the          *)
(* positions were counted.                                                 *)
DecodeFail(S) ==
    /\ "decode" \in Env
    /\ Batchable(S)
    /\ nPos' = [o \in Obj |-> IF o \in S THEN nPos[o] + 1 ELSE nPos[o]]
    /\ status' = [o \in Obj |-> IF o \in S THEN "error" ELSE status[o]]
    /\ pending' = [o \in Obj |-> IF o \in S THEN FALSE ELSE pending[o]]
    /\ loop' = NextLoop
    /\ UNCHANGED <<slots, ident, tier, seq, buf, archived, io, call, shutdown>>

(* The loop meets a session that lost its slot.                            *)
NotHot(o) ==
    /\ Schedulable(o) /\ seq[o] = NoSlot
    /\ status' = [status EXCEPT ![o] = "error"]
    /\ UNCHANGED <<slots, ident, tier, seq, buf, archived, nPos, pending,
                   io, call, loop, shutdown>>

(* The loop has come to its end or is held up by a slow write.             *)
LoopLeft == loop = "exited" \/ \E o \in Obj : jwrite[o] # NoFile

LoopExit ==
    /\ loop = "running" /\ JanitorIdle
    /\ shutdown # "no"
    /\ loop' = "exited"
    /\ UNCHANGED <<slots, fields, io, call, shutdown>>

-----------------------------------------------------------------------------
(* The memory janitor: _archiveSession for each warm session in turn.  A   *)
(* loop that waits at the top of a turn (602) comes here before it looks   *)
(* at the stop signal again.                                               *)
JanitorStart ==
    /\ "janitor" \in Env
    /\ loop = "running" /\ JanitorIdle
    /\ shutdown \in {"no", "stopping", "disposing"}
    /\ \E o \in Obj : Live(o) /\ tier[o] = "warm"
    /\ todo' = {o \in Obj : Live(o) /\ tier[o] = "warm"}
    /\ UNCHANGED <<slots, fields, files, jwrite, pwrite, call, loop, shutdown>>

JanitorNext(o) ==
    /\ o \in todo /\ \A x \in Obj : jwrite[x] = NoFile
    /\ todo' = todo \ {o}
    /\ IF buf[o] = NoHist
       THEN UNCHANGED <<files, jwrite>>
       ELSE LET f == Saved(buf[o], nPos[o]) IN
            /\ jwrite' = [jwrite EXCEPT ![o] = f]
            /\ files' = [files EXCEPT ![ident[o]] = Torn(f)]
    /\ UNCHANGED <<slots, fields, pwrite, call, loop, shutdown>>

(* Memory is below the limit again: the rest stays warm.                   *)
JanitorStop ==
    /\ todo # {} /\ \A x \in Obj : jwrite[x] = NoFile
    /\ todo' = {}
    /\ UNCHANGED <<slots, fields, files, jwrite, pwrite, call, loop, shutdown>>

(* _archiveSession after its await: nothing is looked at again.            *)
BecomeCold(o) ==
    /\ archived' = [archived EXCEPT ![o] = TRUE]
    /\ buf' = [buf EXCEPT ![o] = NoHist]
    /\ tier' = [tier EXCEPT ![o] = "cold"]

JanitorWritten(o) ==
    /\ jwrite[o] # NoFile
    /\ files' = Written(ident[o], jwrite[o],
                        \E x \in Obj : pwrite[x] # NoFile /\ ident[x] = ident[o])
    /\ jwrite' = [jwrite EXCEPT ![o] = NoFile]
    /\ BecomeCold(o)
    /\ UNCHANGED <<slots, ident, status, seq, nPos, pending,
                   todo, pwrite, call, loop, shutdown>>

(* A failed write ends the loop for good.                                  *)
JanitorFailed(o) ==
    /\ "ioerr" \in Env
    /\ jwrite[o] # NoFile
    /\ jwrite' = [jwrite EXCEPT ![o] = NoFile]
    /\ todo' = {}
    /\ loop' = "exited"
    /\ UNCHANGED <<slots, fields, files, pwrite, call, shutdown>>

-----------------------------------------------------------------------------
(* persistAllAndDispose: stop the loop, wait 50 ms (time enough for a turn *)
(* of the loop, not for a write), ...                                      *)
PersistBegin ==
    /\ "persist" \in Env
    /\ shutdown = "no"
    /\ "late" \in Env \/ \A c \in Caller : call[c].pc = "idle"
    /\ shutdown' = "stopping"
    /\ UNCHANGED <<slots, fields, io, call, loop>>

(* The sessions that are warm once all hot ones have been evicted, not     *)
(* (mutant) those that were warm before.                                   *)
ToWriteBefore == {o \in Obj : Live(o) /\ buf[o] # NoHist /\ tier[o] = "warm"}
ToWrite == {o \in Obj : Live(o) /\ buf'[o] # NoHist /\ tier'[o] = "warm"}

(* ... evict every hot session, start to write every warm one, ...         *)
PersistEvict ==
    LET hot   == {o \in Obj : Live(o) /\ tier[o] = "hot" /\ seq[o] # NoSlot}
        left  == {seq[o] : o \in hot}
        image == [o \in Obj |-> IF o \in ToWrite THEN Saved(buf'[o], nPos[o]) ELSE NoFile]
    IN  /\ shutdown = "stopping" /\ LoopLeft
        /\ shutdown' = "archiving"
        /\ buf' = [o \in Obj |-> IF o \in hot THEN kv[seq[o]] ELSE buf[o]]
        /\ tier' = [o \in Obj |-> IF o \in hot THEN "warm" ELSE tier[o]]
        /\ seq' = [o \in Obj |-> IF o \in hot THEN NoSlot ELSE seq[o]]
        /\ bySeq' = [s \in Slot |-> IF s \in left THEN NoObj ELSE bySeq[s]]
        /\ kv' = [s \in Slot |-> IF s \in left THEN Empty ELSE kv[s]]
        /\ nFree' = [s \in Slot |-> IF s \in left THEN nFree[s] + 1 ELSE nFree[s]]
        /\ pwrite' = image
        /\ files' = [p \in Path |->
                        IF p \in Id /\ sessions[p] \in ToWrite
                        THEN Torn(image[sessions[p]]) ELSE files[p]]
        /\ UNCHANGED <<sessions, ident, status, archived, nPos, pending,
                       todo, jwrite, call, loop>>

PersistWritten(o) ==
    /\ pwrite[o] # NoFile
    /\ files' = Written(ident[o], pwrite[o],
                        \E x \in Obj : jwrite[x] # NoFile /\ ident[x] = ident[o])
    /\ pwrite' = [pwrite EXCEPT ![o] = NoFile]
    /\ BecomeCold(o)
    /\ UNCHANGED <<slots, ident, status, seq, nPos, pending,
                   todo, jwrite, call, loop, shutdown>>

(* An error of one write is logged and forgotten.                          *)
PersistFailed(o) ==
    /\ "ioerr" \in Env
    /\ pwrite[o] # NoFile
    /\ pwrite' = [pwrite EXCEPT ![o] = NoFile]
    /\ UNCHANGED <<slots, fields, files, todo, jwrite, call, loop, shutdown>>

(* ... and when all writes have ended, dispose.                            *)
PersistDispose ==
    /\ shutdown = "archiving"
    /\ \A o \in Obj : pwrite[o] = NoFile
    /\ shutdown' = "persisted"
    /\ UNCHANGED <<slots, fields, io, call, loop>>

Dispose ==
    /\ "persist" \in Env
    /\ shutdown = "no"
    /\ "late" \in Env \/ \A c \in Caller : call[c].pc = "idle"
    /\ shutdown' = "disposing"
    /\ UNCHANGED <<slots, fields, io, call, loop>>

(* dispose waits for the loop, but at most two seconds.                    *)
Teardown ==
    /\ shutdown \in {"persisted", "disposing"} /\ LoopLeft
    /\ sessions' = [i \in Id |-> NoObj]
    /\ bySeq' = [s \in Slot |-> NoObj]
    /\ kv' = [s \in Slot |-> Empty]
    /\ shutdown' = "gone"
    /\ UNCHANGED <<nFree, fields, io, call, loop>>

(* The next process starts on the files this one left behind.              *)
Restart ==
    /\ "crash" \in Env \/ ContextFreed
    /\ sessions' = [i \in Id |-> NoObj] /\ bySeq' = [s \in Slot |-> NoObj]
    /\ nFree' = [s \in Slot |-> 1] /\ kv' = [s \in Slot |-> Empty]
    /\ ident' = [o \in Obj |-> NoId]
    /\ status' = [o \in Obj |-> "uninitialized"]
    /\ tier' = [o \in Obj |-> "warm"] /\ seq' = [o \in Obj |-> NoSlot]
    /\ buf' = [o \in Obj |-> NoHist] /\ archived' = [o \in Obj |-> FALSE]
    /\ nPos' = [o \in Obj |-> 0] /\ pending' = [o \in Obj |-> FALSE]
    /\ call' = [c \in Caller |-> Idle] /\ loop' = "running" /\ todo' = {}
    /\ jwrite' = [o \in Obj |-> NoFile] /\ pwrite' = [o \in Obj |-> NoFile]
    /\ shutdown' = "no"
    /\ UNCHANGED files

-----------------------------------------------------------------------------
(* saveSession and loadSession, on paths of the application's choice.      *)
FreePath(p) == "overlap" \in Env \/ \A c \in Caller : call[c].path # p

OpenForWrite(c, i, o, p, f) ==
    /\ files' = [files EXCEPT ![p] = Torn(f)]
    /\ call' = [call EXCEPT ![c] = [Idle EXCEPT !.pc = "saving", !.id = i,
                                    !.obj = o, !.path = p, !.data = f]]

SaveSession(c, i, p) ==
    LET o == sessions[i] IN
    /\ "save" \in Env /\ Accepting /\ Awaited(i) /\ FreePath(p)
    /\ call[c].pc = "idle"
    /\ o # NoObj
    /\ status[o] # "generating"
    /\ \/ /\ tier[o] = "hot" /\ seq[o] # NoSlot
          /\ OpenForWrite(c, i, o, p, Saved(kv[seq[o]], nPos[o]))
       \/ /\ tier[o] = "warm" /\ buf[o] # NoHist
          /\ OpenForWrite(c, i, o, p, Saved(buf[o], nPos[o]))
       \/ /\ tier[o] = "cold" /\ archived[o]
          /\ call' = [call EXCEPT ![c] = [Idle EXCEPT !.pc = "saveRead", !.id = i,
                                          !.obj = o, !.path = p]]
          /\ UNCHANGED files
    /\ UNCHANGED <<slots, fields, todo, jwrite, pwrite, loop, shutdown>>

SaveRead(c) ==
    LET f == files[call[c].id] IN
    /\ call[c].pc = "saveRead"
    /\ IF f = NoFile
       THEN call' = [call EXCEPT ![c] = Idle] /\ UNCHANGED files
       ELSE \E p \in HeaderPos(f, nPos[call[c].obj]) :
                OpenForWrite(c, call[c].id, call[c].obj, call[c].path, Saved(f.hist, p))
    /\ UNCHANGED <<slots, fields, todo, jwrite, pwrite, loop, shutdown>>

SaveDone(c) ==
    /\ call[c].pc = "saving"
    /\ files' = Written(call[c].path, call[c].data,
                        \E d \in Caller \ {c} : /\ call[d].pc = "saving"
                                                /\ call[d].path = call[c].path)
    /\ call' = [call EXCEPT ![c] = Idle]
    /\ UNCHANGED <<slots, fields, todo, jwrite, pwrite, loop, shutdown>>

(* A failed read of the cold file leaves the other one alone, a failed     *)
(* write leaves it torn.                                                   *)
SaveFailed(c) ==
    /\ call[c].pc \in {"saveRead", "saving"}
    /\ Env \cap {"ioerr", "badfile"} # {}
    /\ call[c].pc = "saving" => "ioerr" \in Env
    /\ call' = [call EXCEPT ![c] = Idle]
    /\ UNCHANGED <<slots, fields, io, loop, shutdown>>

LoadSession(c, i, p) ==
    /\ "load" \in Env /\ Accepting /\ Awaited(i) /\ FreePath(p)
    /\ call[c].pc = "idle"
    /\ call' = [call EXCEPT ![c] = [Idle EXCEPT !.pc = "loadCheck", !.id = i, !.path = p]]
    /\ UNCHANGED <<slots, fields, io, loop, shutdown>>

(* The file exists: a session of that name is freed before it is read.     *)
LoadCheck(c) ==
    LET i == call[c].id IN
    /\ call[c].pc = "loadCheck"
    /\ IF files[call[c].path] = NoFile
       THEN call' = [call EXCEPT ![c] = Idle]
       ELSE call' = [call EXCEPT ![c].pc = "loadRead"]
    /\ IF files[call[c].path] = NoFile \/ sessions[i] = NoObj
       THEN UNCHANGED <<slots, pending>>
       ELSE Detach(i)
    /\ UNCHANGED <<ident, status, tier, seq, buf, archived, nPos,
                   io, loop, shutdown>>

(* The name is taken over from whatever session has it by now.             *)
LoadRead(c) ==
    LET i == call[c].id
        f == files[call[c].path]
    IN  /\ call[c].pc = "loadRead"
        /\ f # NoFile /\ ~ContextFreed
        /\ \E o \in Obj, p \in HeaderPos(f, 0) :
              New(o, i, "warm",
                  [own |-> IF f.hist.len = 0 THEN NoId ELSE i, len |-> f.hist.len],
                  FALSE, p)
        /\ call' = [call EXCEPT ![c] = Idle]
        /\ UNCHANGED <<bySeq, nFree, kv, io, loop, shutdown>>

(* The read fails; loadSession catches it.                                 *)
LoadFail(c) ==
    /\ call[c].pc = "loadRead"
    /\ Env \cap {"ioerr", "badfile"} # {}
    /\ call' = [call EXCEPT ![c] = Idle]
    /\ UNCHANGED <<slots, fields, io, loop, shutdown>>

-----------------------------------------------------------------------------
Clearing == IF "clear" \in Env THEN BOOLEAN ELSE {FALSE}    \* clearHistory

Next ==
    \/ \E i \in Id : CreateSession(i) \/ Cancel(i) \/ FreeSession(i)
    \/ \E c \in Caller, i \in Id, b \in Clearing :
          PromptHot(c, i, b) \/ PromptWarm(c, i, b) \/ PromptCold(c, i, b)
    \/ \E c \in Caller, i \in Id : PromptNoSlot(c, i) \/ FreeAndDelete(c, i)
    \/ \E c \in Caller : \/ DeleteFile(c) \/ ReadDone(c) \/ ReadFail(c)
                         \/ Resume(c) \/ SaveRead(c) \/ SaveDone(c) \/ SaveFailed(c)
                         \/ LoadCheck(c) \/ LoadRead(c) \/ LoadFail(c)
    \/ \E c \in Caller, i \in Id, p \in UserPath :
          SaveSession(c, i, p) \/ LoadSession(c, i, p)
    \/ \E o \in Obj : \/ NotHot(o)
                      \/ JanitorNext(o) \/ JanitorWritten(o) \/ JanitorFailed(o)
                      \/ PersistWritten(o) \/ PersistFailed(o)
    \/ \E S \in (SUBSET Obj) \ {{}} : DecodeFail(S) \/ \E D \in SUBSET S : Advance(S, D)
    \/ LoopExit \/ JanitorStart \/ JanitorStop
    \/ PersistBegin \/ PersistEvict \/ PersistDispose
    \/ Dispose \/ Teardown \/ Restart

Spec == Init /\ [][Next]_vars

-----------------------------------------------------------------------------
(***************************************************************************)
(* What holds however the callers behave.                                  *)
(***************************************************************************)
Holders(s) == {c \in Caller : call[c].pc = "reading" /\ call[c].slot = s}

(* Every slot is in exactly one place: once in _freeSeqIds, reserved by    *)
(* one suspended _restoreSession, or mapped to one session.                *)
SlotAccounting ==
    ~ContextFreed =>
    \A s \in Slot :
        /\ nFree[s] \in {0, 1}
        /\ nFree[s] = 1 <=> (bySeq[s] = NoObj /\ Holders(s) = {})
        /\ bySeq[s] # NoObj => Holders(s) = {}
        /\ \A c, d \in Holders(s) : c = d

(* A slot that nobody holds has no cells left: the next conversation put   *)
(* there does not continue the one before it.                              *)
FreeSlotsAreClean == \A s \in Slot : nFree[s] > 0 => kv[s] = Empty

(* A slot only ever holds the conversation of the session it is mapped to. *)
NoForeignHistory ==
    \A s \in Slot : bySeq[s] # NoObj => kv[s].own \in {NoId, ident[bySeq[s]]}

(* The loop finds a session by the slot of each token of the batch: what a *)
(* live session believes its slot to be is what the map says, whether or   *)
(* not its tier still says hot, and a hot session has a slot.              *)
BoundIsMapped ==
    ~ContextFreed =>
    \A o \in Obj : Live(o) =>
        /\ seq[o] # NoSlot => bySeq[seq[o]] = o
        /\ tier[o] = "hot" => seq[o] # NoSlot
        /\ tier[o] = "warm" => seq[o] = NoSlot

(* Making room never takes the slot of a running request: until shutdown a *)
(* session that generates keeps a slot unless it is freed or replaced.     *)
EvictionSparesGenerating ==
    [][\A o \in Obj :
          (/\ Live(o) /\ Live(o)' /\ ident'[o] = ident[o]
           /\ status[o] = "generating" /\ seq[o] # NoSlot /\ shutdown = "no")
          => seq'[o] # NoSlot]_vars

(***************************************************************************)
(* What holds when calls on one session are awaited and no janitor runs.   *)
(***************************************************************************)

(* No slot is lost: each one that is not free serves a live session.       *)
NoSlotLeak ==
    \A s \in Slot : bySeq[s] # NoObj => Live(bySeq[s]) /\ seq[bySeq[s]] = s

(* The next token goes to the position after the last cell, for every      *)
(* session that is bound, and a parked history is as long as it says.      *)
PositionMatchesHistory ==
    \A o \in Obj : Live(o) =>
        /\ (seq[o] # NoSlot /\ ~ContextFreed) => kv[seq[o]].len = nPos[o]
        /\ (tier[o] = "warm" /\ buf[o] # NoHist) => buf[o].len = nPos[o]
        /\ (tier[o] = "warm" /\ buf[o] = NoHist) => nPos[o] = 0

(* A cold session is on disk and not in the context at the same time: the  *)
(* comment of SessionTier, session.dart:20-22.                             *)
ColdMeansOnDisk ==
    \A o \in Obj : (Live(o) /\ tier[o] = "cold") => seq[o] = NoSlot

(* persistAllAndDispose, llama_service.dart:914-918: when it frees the     *)
(* context, everything the sessions had in the context or in RAM is on     *)
(* disk.                                                                   *)
PersistedIsOnDisk ==
    shutdown = "persisted" =>
    \A i \in Id : LET o == sessions[i] IN
        (o # NoObj /\ nPos[o] > 0) =>
            files[i] # NoFile /\ files[i].ok /\ files[i].hist.len = nPos[o]

(* A session that refuses a prompt because it is "already generating"      *)
(* (llama_service.dart:281-283) has a request: one that is being started   *)
(* or one the loop has tokens of.                                          *)
GeneratingHasRequest ==
    \A o \in Obj : (Live(o) /\ status[o] = "generating") =>
        pending[o] \/ \E c \in Caller : /\ call[c].obj = o
                                       /\ call[c].pc \in {"reading", "resume"}

-----------------------------------------------------------------------------
(* The slots as SlotPool sees them.                                        *)
holder ==
    [s \in Slot |->
        IF ContextFreed THEN NoObj
        ELSE IF bySeq[s] # NoObj THEN bySeq[s]
        ELSE IF Holders(s) # {} THEN call[CHOOSE c \in Holders(s) : TRUE].obj
        ELSE NoObj]

Pool == INSTANCE SlotPool WITH
            free <- {s \in Slot : nFree[s] > 0}, open <- ~ContextFreed

PoolSpec == Pool!Spec
=============================================================================
