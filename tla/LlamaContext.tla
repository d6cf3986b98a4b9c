----------------------------- MODULE LlamaContext -----------------------------
(***************************************************************************)
(* Llama (lib/src/core/llama.dart): one model, a llama.cpp context per     *)
(* slot, and one batch that all slots share.  A prompt is put behind what  *)
(* the slot holds, cut into chunks of n_batch: all but the last chunk are  *)
(* decoded at once, the last stays in the batch for getNext, which decodes *)
(* it, samples, and leaves the sampled token there.  A call is one step:   *)
(* only the streams of generateText and generateWithMedia let their caller *)
(* run between two tokens.                                                 *)
(*                                                                         *)
(* Left out: text and sampling (a generation ends when it likes, nPredict  *)
(* and end of sequence included) and pending bytes.                        *)
(***************************************************************************)
EXTENDS Integers, FiniteSets

CONSTANTS
    Slot,         \* slot ids
    Default,      \* "default", the slot of the constructor
    NoSlot,       \* "", no current slot
    NCtx,         \* n_ctx
    NBatch,       \* n_batch
    Margin,       \* the 10 positions setPrompt keeps free
    Keep,         \* trimKeepTokens
    PromptLens,   \* numbers of tokens of the prompts
    Backend,      \* how the memory may treat a trim: "shift", "noshift", "refuse"
    Env           \* what may go wrong in this instance, see EnvKinds

(* To a slot that has a history, "chunk": a chunk of a prompt fails;       *)
(* "ubatch": a decode fails half way; "load": a load fails and empties the *)
(* memory.  "mixed": the application goes on with a batch or a stream      *)
(* although another call changed what it was made for.                     *)
EnvKinds == {"chunk", "ubatch", "load", "mixed"}

ASSUME SizeAssumption ==
    /\ Default \in Slot /\ NoSlot \notin Slot
    /\ NCtx \in Nat /\ NBatch \in Nat \ {0} /\ Keep \in Nat
    /\ Margin \in Nat /\ Margin >= 2 /\ Margin <= NCtx
    /\ PromptLens \subseteq Nat \ {0}
    /\ Backend \subseteq {"shift", "noshift", "refuse"} /\ Backend # {}
    /\ Env \subseteq EnvKinds

VARIABLES
    slots,      \* _slots
    current,    \* _currentSlotId
    nPos, nPrompt,   \* of each slot
    cells,      \* positions the context of each slot holds
    n, pos,     \* batch.n_tokens, batch.pos[0]; positions are consecutive
    status,     \* _status
    stream,     \* the stream a caller listens to: "none", "text", "media"
    past,       \* nPast of generateWithMedia
    saved,      \* a state from saveState or saveSession
    autoTrim, backend,   \* how the instance was made
    due,        \* history: tokens of the prompt that getNext has to decode
    meddled     \* history: the batch was not made for what the slot holds now

memory == <<nPos, nPrompt, cells>>
batch  == <<n, pos>>
made   == <<autoTrim, backend>>
vars   == <<slots, current, memory, batch, status, stream, past, saved, made, due, meddled>>

Status == {"ready", "generating", "error", "disposed"}
State  == [pos : Nat, prompt : Nat, cells : SUBSET Nat]
Empty  == [pos |-> 0, prompt |-> 0, cells |-> {}]

TypeOK ==
    /\ slots \subseteq Slot /\ current \in Slot \cup {NoSlot}
    /\ nPos \in [Slot -> Nat] /\ nPrompt \in [Slot -> Nat]
    /\ cells \in [Slot -> SUBSET Nat]
    /\ n \in Nat /\ pos \in Nat
    /\ status \in Status
    /\ stream \in {"none", "text", "media"} /\ past \in Nat
    /\ saved \in State
    /\ autoTrim \in BOOLEAN /\ backend \in Backend
    /\ due \in Nat /\ meddled \in BOOLEAN

Init ==
    /\ slots = {Default} /\ current = Default
    /\ nPos = [s \in Slot |-> 0] /\ nPrompt = [s \in Slot |-> 0]
    /\ cells = [s \in Slot |-> {}]
    /\ n = 0 /\ pos = 0 /\ status = "ready"
    /\ stream = "none" /\ past = 0 /\ saved = Empty
    /\ autoTrim \in BOOLEAN /\ backend \in Backend
    /\ due = 0 /\ meddled = FALSE

-----------------------------------------------------------------------------
(* The contents of a slot, as a record, and the current slot made m.       *)
Of(s) == [pos |-> nPos[s], prompt |-> nPrompt[s], cells |-> cells[s]]
Here == Of(current)
SetTo(s, m) ==
    /\ nPos' = [nPos EXCEPT ![s] = m.pos]
    /\ nPrompt' = [nPrompt EXCEPT ![s] = m.prompt]
    /\ cells' = [cells EXCEPT ![s] = m.cells]

(* llama_decode of k tokens at p: the cells it leaves when it succeeds,    *)
(* which it can only behind what the sequence has, and when it fails: the  *)
(* ubatches that were processed remain after a fatal error (llama.h).      *)
May(e, m) == m.pos > 0 => e \in Env

Positions(p, k) == p .. p + k - 1
Able(cs, p, k) ==
    /\ k > 0 /\ p + k <= NCtx
    /\ cs = {} \/ (p - 1 \in cs /\ \A c \in cs : c < p)
Partial(m, p, k) ==
    IF Able(m.cells, p, k) /\ May("ubatch", m)
    THEN {m.cells \cup Positions(p, j) : j \in 0 .. k - 1} ELSE {m.cells}

(* _maybeTrimContext for m: how much of the front is cut, and what remains *)
(* of the slot.                                                            *)
Least(a, b) == IF a <= b THEN a ELSE b
Most(a, b) == IF a >= b THEN a ELSE b
Needed(k) == Most(1, k)
Full(m, k) == autoTrim /\ m.pos + Needed(k) >= NCtx - 1 /\ NCtx - Needed(k) > 0
Cut(m, k) == IF Full(m, k) /\ backend # "refuse"
             THEN Most(0, m.pos - Least(Keep, NCtx - Needed(k))) ELSE 0

(* Mutants: nPrompt may fall below 0; the cells are cut, not moved.        *)
ShiftRaw(m, t) == [pos |-> m.pos - t, prompt |-> m.prompt - t,
                   cells |-> {c \in 0 .. NCtx - 1 : c + t \in m.cells}]
ShiftNone(m, t) == [pos |-> m.pos - t, prompt |-> Most(0, m.prompt - t),
                    cells |-> {c \in m.cells : c >= t}]
Shift(m, t) == [pos |-> m.pos - t, prompt |-> Most(0, m.prompt - t),
                cells |-> {c \in 0 .. NCtx - 1 : c + t \in m.cells}]

Trim(m, t) == IF t = 0 THEN m ELSE IF backend = "noshift" THEN Empty ELSE Shift(m, t)

-----------------------------------------------------------------------------
CreateSlot(s) ==
    /\ status # "disposed" /\ s \notin slots
    /\ slots' = slots \cup {s}
    /\ SetTo(s, Empty)
    /\ UNCHANGED <<current, batch, status, stream, past, saved, made, due, meddled>>

MayLeave == status # "generating"

SetSlot(s) ==
    /\ s \in slots /\ MayLeave
    /\ current' = s /\ n' = 0 /\ due' = 0 /\ meddled' = FALSE
    /\ UNCHANGED <<slots, memory, pos, status, stream, past, saved, made>>

(* Another slot takes the place of the current one; while it generates the *)
(* batch is kept.  Mutant: the freed slot stays current.                   *)
OthersSelf(s) == {s}
Others(s) == IF slots = {s} THEN {NoSlot}
             ELSE IF MayLeave /\ s # Default /\ Default \in slots THEN {Default}
             ELSE slots \ {s}

FreeSlot(s) ==
    /\ s \in slots
    /\ slots' = slots \ {s}
    /\ \/ s # current /\ UNCHANGED <<current, n, due, meddled>>
       \/ /\ s = current /\ current' \in Others(s)
          /\ \/ MayLeave /\ current' # NoSlot /\ n' = 0 /\ due' = 0 /\ meddled' = FALSE
             \/ (~MayLeave \/ current' = NoSlot) /\ meddled' = TRUE /\ UNCHANGED <<n, due>>
    /\ UNCHANGED <<memory, pos, status, stream, past, saved, made>>

(* A live context to work on: without one the calls throw.                 *)
Live == current \in slots /\ status # "disposed"

(* setPrompt of k tokens.  Space is checked, made by a trim and checked    *)
(* again; the trim also shortens the prompt that is being set.  Mutant:    *)
(* space is not checked again.                                             *)
Clean(m) == IF m.pos = 0 THEN [m EXCEPT !.cells = {}] ELSE m
FitsOver(m) == m.prompt <= NCtx - Margin
Fits(m) == m.prompt <= NCtx - Margin /\ m.pos + m.prompt < NCtx

Decoded(m) == NBatch * ((m.prompt - 1) \div NBatch)   \* all but the last chunk

SetPrompt(k) ==
    LET m0 == [Clean(Here) EXCEPT !.prompt = k]
        m  == Trim(m0, Cut(m0, k))
        d  == IF m.prompt > NBatch THEN Decoded(m) ELSE 0
        Error(r) == /\ SetTo(current, r) /\ status' = "error"
                    /\ due' = 0
    IN  /\ Live
        /\ autoTrim \/ nPos[current] < NCtx - Margin
        /\ \/ /\ k > NCtx - Margin \/ (~autoTrim /\ m0.pos + k >= NCtx)
              /\ Error(m0)
              /\ n' = IF nPos[current] = 0 THEN 0 ELSE n
              /\ UNCHANGED pos
           \/ /\ k <= NCtx - Margin /\ ~Fits(m)
              /\ Error(m)
              /\ n' = IF nPos[current] = 0 \/ Cut(m0, k) > 0 THEN 0 ELSE n
              /\ UNCHANGED pos
           \/ /\ k <= NCtx - Margin /\ Fits(m)
              /\ d = 0 \/ Able(m.cells, m.pos, d)
              /\ SetTo(current, [m EXCEPT !.pos = @ + d, !.cells = @ \cup Positions(m.pos, d)])
              /\ n' = m.prompt - d /\ pos' = m.pos + d
              /\ status' = "generating" /\ due' = k - d
           \/ /\ k <= NCtx - Margin /\ Fits(m) /\ d > 0   \* a chunk fails: rollback
              /\ May("chunk", m)
              /\ Error([m EXCEPT !.cells = {}])
              /\ n' = 0 /\ UNCHANGED pos
        /\ meddled' = (meddled /\ status' = "error" /\ n' > 0)
        /\ UNCHANGED <<slots, current, stream, past, saved, made>>

-----------------------------------------------------------------------------
(* generateText, and one getNextWithStatus of its loop (or of that of      *)
(* generateCompleteText, which no one interrupts).                         *)
Ready == IF status = "error" THEN "error" ELSE "ready"    \* the finally block

StartText ==
    /\ Live /\ stream = "none"
    /\ stream' = "text"
    /\ UNCHANGED <<slots, current, memory, batch, status, past, saved, made, due, meddled>>

(* Mutant: the batch does not move with the cells.                         *)
MovedNot(t) == pos
Moved(t) == IF t = 0 THEN pos ELSE IF backend = "noshift" THEN 0 ELSE Most(0, pos - t)

AtLimit(m) == m.pos >= NCtx - 2

GetNext ==
    LET t == Cut(Here, n)
        m == Trim(Here, t)
        p == Moved(t)
        Stop(st) == stream' = "none" /\ status' = st
    IN  /\ Live /\ stream = "text"
        /\ "mixed" \in Env \/ n = 0 \/ ~meddled
        /\ \/ AtLimit(m) /\ SetTo(current, m) /\ pos' = p /\ Stop("ready")
              /\ UNCHANGED <<n, due, meddled>>
           \/ ~AtLimit(m) /\ SetTo(current, m) /\ pos' = p /\ Stop(Ready)    \* nPredict
              /\ UNCHANGED <<n, due, meddled>>
           \/ /\ ~AtLimit(m) /\ Able(m.cells, p, n)
              /\ SetTo(current, [m EXCEPT !.pos = @ + n, !.cells = @ \cup Positions(p, n)])
              /\ pos' = m.pos + n /\ n' = 1
              /\ due' = 0 /\ meddled' = (p # m.pos)
              /\ Stop(Ready) \/ UNCHANGED <<stream, status>>
           \/ /\ ~AtLimit(m)
              /\ \E cs \in Partial(m, p, n) : SetTo(current, [m EXCEPT !.cells = cs])
              /\ pos' = p
              /\ Stop(IF m.pos >= NCtx - Margin THEN "ready" ELSE "error")
              /\ UNCHANGED <<n, due, meddled>>
        /\ UNCHANGED <<slots, current, past, saved, made>>

(* The slot the stream needs was freed.                                    *)
NoContext ==
    /\ ~Live /\ status # "disposed" /\ stream # "none"
    /\ stream' = "none" /\ status' = "error"
    /\ UNCHANGED <<slots, current, memory, batch, past, saved, made, due, meddled>>

(* The listener cancels at a yield.                                        *)
Cancel ==
    /\ status # "disposed" /\ stream # "none"
    /\ stream' = "none" /\ status' = Ready
    /\ UNCHANGED <<slots, current, memory, batch, past, saved, made, due, meddled>>

-----------------------------------------------------------------------------
(* generateWithMedia of k positions: clear, which also ends the status     *)
(* "generating", then everything is decoded; j positions are when it fails *)
(* and nPos stays 0.                                                       *)
StartMedia(k) ==
    /\ Live /\ stream = "none"
    /\ due' = 0 /\ meddled' = TRUE
    /\ \/ /\ k <= NCtx
          /\ SetTo(current, [Empty EXCEPT !.pos = k, !.cells = Positions(0, k)])
          /\ \E l \in 1 .. Least(NBatch, k) : n' = l /\ pos' = k - l
          /\ past' = k /\ status' = "ready"
          /\ stream' \in {"none"} \cup (IF k < NCtx THEN {"media"} ELSE {})
       \/ \E j \in 0 .. Least(NCtx, k - 1) :
             /\ SetTo(current, [Empty EXCEPT !.cells = Positions(0, j)])
             /\ \E l \in 0 .. Least(NBatch, k - j) : n' = l /\ pos' = j
             /\ status' = "error" /\ UNCHANGED <<stream, past>>
    /\ UNCHANGED <<slots, current, saved, made>>

(* The sampled token is decoded at nPast, whatever the current slot is.    *)
MediaTurn ==
    /\ Live /\ stream = "media"
    /\ "mixed" \in Env \/ past = nPos[current]
    /\ n' = 1 /\ pos' = past /\ due' = 0 /\ meddled' = TRUE
    /\ \/ /\ Able(cells[current], past, 1)
          /\ SetTo(current, [Here EXCEPT !.pos = past + 1, !.cells = @ \cup {past}])
          /\ past' = past + 1
          /\ \/ stream' = "none" /\ status' = Ready
             \/ past' < NCtx /\ UNCHANGED <<stream, status>>
       \/ stream' = "none" /\ status' = "error" /\ UNCHANGED <<memory, past>>
    /\ UNCHANGED <<slots, current, saved, made>>

-----------------------------------------------------------------------------
(* getEmbeddings decodes in a cleared memory and puts the saved state back.*)
GetEmbeddings ==
    /\ Live
    /\ status' \in {status, "error"}
    /\ UNCHANGED <<slots, current, memory, batch, stream, past, saved, made, due, meddled>>

SaveState ==
    /\ Live
    /\ saved' = Here
    /\ UNCHANGED <<slots, current, memory, batch, status, stream, past, made, due, meddled>>

(* A load that fails may have emptied the memory.                          *)
LoadState ==
    /\ Live
    /\ \/ SetTo(current, saved) /\ meddled' = TRUE
       \/ May("load", Here) /\ SetTo(current, [Here EXCEPT !.cells = {}]) /\ UNCHANGED meddled
    /\ UNCHANGED <<slots, current, batch, status, stream, past, saved, made, due>>

Clear ==
    /\ Live
    /\ SetTo(current, Empty)
    /\ n' = 0 /\ status' = "ready" /\ due' = 0 /\ meddled' = FALSE
    /\ UNCHANGED <<slots, current, pos, stream, past, saved, made>>

(* An open stream ends with an exception.                                  *)
Dispose ==
    /\ status # "disposed"
    /\ slots' = {} /\ status' = "disposed" /\ stream' = "none"
    /\ UNCHANGED <<current, memory, batch, past, saved, made, due, meddled>>

-----------------------------------------------------------------------------
Slots == \E s \in Slot : CreateSlot(s) \/ SetSlot(s) \/ FreeSlot(s)
Prompts == \E k \in PromptLens : SetPrompt(k) \/ StartMedia(k)
Streams == StartText \/ GetNext \/ MediaTurn \/ NoContext \/ Cancel
States == GetEmbeddings \/ SaveState \/ LoadState \/ Clear \/ Dispose

Next == Slots \/ Prompts \/ Streams \/ States
Spec == Init /\ [][Next]_vars

-----------------------------------------------------------------------------
(* A slot holds exactly the positions below its nPos: no hole, no token of *)
(* a cut or failed prompt left behind, nothing promised that is not there. *)
(* Each of EnvKinds breaks it.                                             *)
Filled(s) == nPos[s] > 0 => cells[s] = 0 .. nPos[s] - 1
CellsMatch == \A s \in slots : Filled(s)

(* A failed chunk is rolled back "so the caller can retry from a clean     *)
(* slate" (llama.dart:597-598): the positions before a prompt that         *)
(* setPrompt accepts are in the memory.                                    *)
RetryIsClean == status = "generating" /\ current \in slots => Filled(current)

(* What waits in the batch follows what the slot holds, also after a trim  *)
(* moved the one and the other (getNextWithStatus, llama.dart:641-690).    *)
PrimedAtEnd ==
    n > 0 /\ ~meddled => pos = nPos[current]

(* No batch reaches over n_ctx.                                            *)
FitsContext ==
    status = "generating" /\ ~meddled => nPos[current] + n <= NCtx

(* The current slot is never one that was freed (freeSlot).                *)
CurrentLives == status # "disposed" => current \in slots \cup {NoSlot}

(* After setPrompt the whole prompt is in the memory or waits in the batch *)
(* (the trim removes "old tokens", llama.dart:277-279).                    *)
PromptWhole == status = "generating" /\ due > 0 => n = due
=============================================================================
