-------------------------- MODULE SessionScheduler --------------------------
(***************************************************************************)
(* LlamaService._runLoop: how one llama.cpp batch after another is filled  *)
(* from the pending items of the sessions, decoded and sampled.            *)
(* SessionService has the life of sessions and slots around it; here every *)
(* session is hot and the list of sessions does not change.                *)
(*                                                                         *)
(* A turn of the loop is a pass over the token batch and, with a vision    *)
(* model, one over the embedding batch.  The loop lets others run only     *)
(* between turns, while it waits for work, and for 50 ms after a failed    *)
(* decode; Fill, one iteration of the filling loop, keeps them out.        *)
(***************************************************************************)
EXTENDS Integers, Sequences, Functions

CONSTANTS
    N,             \* sessions, numbered 0 .. N-1 in the order of _sessions
    NBatch,        \* n_batch
    Cap,           \* _maxTokensPerSessionPerBatch
    NCtx,          \* n_ctx
    Margin,        \* the 10 positions below n_ctx at which a shift is due
    PromptLens,    \* numbers of tokens of the prompts given to setPrompt
    MediaPrompts,  \* what VisionHelper makes of the media prompts
    MediaSess      \* sessions given media prompts

Sess == 0 .. N - 1

(* A PendingItem: one token, or what is left of an image's embeddings.     *)
Item == [embd : BOOLEAN, left : Nat \ {0}]
Token == [embd |-> FALSE, left |-> 1]
Image(n) == [embd |-> TRUE, left |-> n]
Tokens(n) == [j \in 1 .. n |-> Token]

ASSUME SizeAssumption ==
    /\ N \in Nat \ {0} /\ NBatch \in Nat \ {0} /\ Cap \in Nat \ {0}
    /\ NCtx \in Nat \ {0} /\ Margin \in Nat
    /\ PromptLens \subseteq Nat \ {0}
    /\ MediaPrompts \subseteq Seq(Item) \ {<<>>}

(* The positions the items of a prompt take.                               *)
SizeOf(items) == SumFunction([j \in DOMAIN items |-> items[j].left])

VARIABLES
    status, pending, nPos, nKeep,  \* fields of each session
    cells,      \* the positions each sequence has in the context
    gap,        \* a decode failed since the cells were last removed
    called,     \* generateWithMedia returned a stream, not yet listened to
    vision,     \* _visionEnabled
    last,       \* _lastScheduledSessionIndex
    signal,     \* _workSignal is completed
    at,         \* where the loop is
    pass,       \* which batch it fills
    start, k,   \* rotateStart and the iteration of the filling loop
    batch,      \* tokens each session has in the batch
    logits,     \* sessions whose last token has the logits flag
    used,       \* batchIdx
    didWork

sessions == <<status, pending, nPos, nKeep, cells, gap, called>>
turn     == <<start, k, batch, logits, used>>
vars     == <<sessions, turn, vision, last, signal, at, pass, didWork>>

TypeOK ==
    /\ status \in [Sess -> {"ready", "generating", "error"}]
    /\ pending \in [Sess -> Seq(Item)]
    /\ nPos \in [Sess -> Nat] /\ nKeep \in [Sess -> Nat]
    /\ cells \in [Sess -> SUBSET Nat]
    /\ gap \in [Sess -> BOOLEAN]
    /\ called \in SUBSET Sess
    /\ vision \in BOOLEAN
    /\ last \in Sess
    /\ signal \in BOOLEAN
    /\ at \in {"top", "fill", "delay", "wait"}
    /\ pass \in {"token", "embd"}
    /\ start \in Sess /\ k \in 0 .. N
    /\ batch \in [Sess -> Nat]
    /\ logits \in SUBSET Sess
    /\ used \in Nat
    /\ didWork \in BOOLEAN

NoBatch == [i \in Sess |-> 0]

Init ==
    /\ status = [i \in Sess |-> "ready"] /\ pending = [i \in Sess |-> <<>>]
    /\ nPos = [i \in Sess |-> 0] /\ nKeep = [i \in Sess |-> 0]
    /\ cells = [i \in Sess |-> {}] /\ gap = [i \in Sess |-> FALSE]
    /\ called = {}
    /\ vision \in BOOLEAN
    /\ last = 0 /\ signal = FALSE
    /\ at = "top" /\ pass = "token" /\ start = 0 /\ k = 0
    /\ batch = NoBatch /\ logits = {} /\ used = 0 /\ didWork = FALSE

-----------------------------------------------------------------------------
(* The application, which runs while the loop awaits something.            *)
Yielded == at \in {"top", "wait", "delay"}

(* A request queues its items and wakes the loop.                          *)
Accept(i, clear, items, total) ==
    /\ pending' = [pending EXCEPT ![i] = items]
    /\ nKeep' = IF clear THEN [nKeep EXCEPT ![i] = total] ELSE nKeep
    /\ signal' = TRUE

Refuse(i) ==
    /\ status' = [status EXCEPT ![i] = "error"]
    /\ pending' = [pending EXCEPT ![i] = <<>>]
    /\ UNCHANGED <<nKeep, signal>>

Clear(i, clear) ==
    IF clear
    THEN /\ nPos' = [nPos EXCEPT ![i] = 0]
         /\ cells' = [cells EXCEPT ![i] = {}]
         /\ gap' = [gap EXCEPT ![i] = FALSE]
    ELSE UNCHANGED <<nPos, cells, gap>>

(* A prompt that does not fit is refused after the history was cleared.    *)
SetPrompt(i, clear, n) ==
    /\ Yielded
    /\ status[i] # "generating"
    /\ Clear(i, clear)
    /\ IF nPos'[i] + n <= NCtx
       THEN /\ status' = [status EXCEPT ![i] = "generating"]
            /\ Accept(i, clear, Tokens(n), n)
       ELSE Refuse(i)
    /\ UNCHANGED <<called, turn, vision, last, at, pass, didWork>>

(* generateWithMedia itself only claims the session; what follows is the   *)
(* body of the stream it returns.  One such stream per session at a time.  *)
GenerateWithMedia(i) ==
    /\ Yielded
    /\ vision
    /\ status[i] # "generating"
    /\ i \in MediaSess \ called
    /\ status' = [status EXCEPT ![i] = "generating"]
    /\ pending' = [pending EXCEPT ![i] = <<>>]
    /\ called' = called \cup {i}
    /\ UNCHANGED <<nPos, nKeep, cells, gap, turn, vision, last, signal, at, pass,
                   didWork>>

(* _generateWithMediaBody, once someone listens: it looks at no status,    *)
(* and the positions the items take are not compared with n_ctx.  Building *)
(* the items may fail.                                                     *)
MediaBody(i, clear) ==
    /\ Yielded
    /\ i \in called
    /\ called' = called \ {i}
    /\ Clear(i, clear)
    /\ \/ /\ \E items \in MediaPrompts :
                Accept(i, clear, pending[i] \o items, SizeOf(items))
          /\ UNCHANGED status
       \/ Refuse(i)
    /\ UNCHANGED <<turn, vision, last, at, pass, didWork>>

Cancel(i) ==
    /\ Yielded
    /\ status' = [status EXCEPT ![i] = "ready"]
    /\ pending' = [pending EXCEPT ![i] = <<>>]
    /\ UNCHANGED <<nPos, nKeep, cells, gap, called, turn, vision, last, signal,
                   at, pass, didWork>>

-----------------------------------------------------------------------------
(* Indices go round.                                                       *)
After(x, d) == IF x + d < N THEN x + d ELSE x + d - N

(* A turn starts behind the session that was scheduled last, not (mutant)  *)
(* with it.                                                                *)
RotateSame == last
RotateStart == After(last, 1)

EmptyBatch ==
    /\ k' = 0 /\ batch' = NoBatch /\ logits' = {} /\ used' = 0

StartTurn ==
    /\ at = "top"
    /\ at' = "fill" /\ pass' = "token" /\ didWork' = FALSE
    /\ start' = RotateStart
    /\ EmptyBatch
    /\ UNCHANGED <<sessions, vision, last, signal>>

Filling == at = "fill" /\ k < N /\ used < NBatch
Visited == After(start, k)

Skip ==
    /\ Filling
    /\ status[Visited] # "generating"
    /\ k' = k + 1
    /\ UNCHANGED <<sessions, start, batch, logits, used, vision, last, signal,
                   at, pass, didWork>>

OfPass(item) == item.embd = (pass = "embd")
Fillable(i) == pending[i] # <<>> /\ OfPass(pending[i][1])

(* It counts as scheduled although nothing of it is in this batch.         *)
PassOver ==
    /\ Filling
    /\ status[Visited] = "generating"
    /\ ~Fillable(Visited)
    /\ last' = Visited
    /\ k' = k + 1
    /\ UNCHANGED <<sessions, start, batch, logits, used, vision, signal,
                   at, pass, didWork>>

(* The context shift: half of what follows the kept prefix goes, the rest  *)
(* moves down.  Dart's ~/ rounds towards zero.  Mutants: the shift comes   *)
(* too late, the rest stays where it was.                                  *)
Half(n) == IF n < 0 THEN -((-n) \div 2) ELSE n \div 2
ShiftOfLate(i) ==
    IF nPos[i] > NCtx /\ Half(nPos[i] - nKeep[i]) > 0
    THEN Half(nPos[i] - nKeep[i]) ELSE 0
ShiftOf(i) ==
    IF nPos[i] >= NCtx - Margin /\ Half(nPos[i] - nKeep[i]) > 0
    THEN Half(nPos[i] - nKeep[i]) ELSE 0

ShiftedUnmoved(i, s) == {p \in cells[i] : p < nKeep[i] \/ p >= nKeep[i] + s}
Shifted(i, s) ==
    {p \in cells[i] : p < nKeep[i]}
    \cup {p - s : p \in {x \in cells[i] : x >= nKeep[i] + s}}

(* The tokens a session may put in this batch, and (mutant) without regard *)
(* to the room that is left.                                               *)
MinOf(a, b) == IF a < b THEN a ELSE b
SessionCap(i) == IF Len(pending[i]) > 1 THEN NBatch ELSE Cap
QuotaOfCap(i) == SessionCap(i)
Quota(i) == MinOf(NBatch - used, SessionCap(i))

(* The leading tokens of the queue, as many as the quota allows.           *)
Prefixes(i) ==
    {n \in 1 .. MinOf(Quota(i), Len(pending[i])) : \A j \in 1 .. n : ~pending[i][j].embd}
Leads(i) == {n \in Prefixes(i) : n + 1 \notin Prefixes(i)}

(* What is left of a queue that starts with an image; mutant: an image     *)
(* that is done with stays.                                                *)
TakenKept(i, n) == [pending[i] EXCEPT ![1].left = @ - n]
Taken(i, n) ==
    IF pending[i][1].left = n THEN Tail(pending[i])
    ELSE [pending[i] EXCEPT ![1].left = @ - n]

(* The logits are wanted for the last item of the queue, an image as well  *)
(* as a token (mutant: a token only).                                      *)
WantsLogitsOfToken(rest) == rest = <<>> /\ pass = "token"
WantsLogits(rest) == rest = <<>>

Put(i, n, rest) ==
    /\ pending' = [pending EXCEPT ![i] = rest]
    /\ nPos' = [nPos EXCEPT ![i] = @ - ShiftOf(i) + n]
    /\ cells' = [cells EXCEPT ![i] = IF ShiftOf(i) > 0 THEN Shifted(i, ShiftOf(i)) ELSE @]
    /\ batch' = [batch EXCEPT ![i] = @ + n]
    /\ used' = used + n
    /\ logits' = IF WantsLogits(rest) THEN logits \cup {i} ELSE logits

Fill ==
    LET i == Visited IN
    /\ Filling
    /\ status[i] = "generating" /\ Fillable(i)
    /\ IF pass = "token"
       THEN \E n \in Leads(i) : Put(i, n, SubSeq(pending[i], n + 1, Len(pending[i])))
       ELSE LET n == MinOf(Quota(i), pending[i][1].left) IN Put(i, n, Taken(i, n))
    /\ last' = i
    /\ k' = k + 1
    /\ didWork' = TRUE
    /\ UNCHANGED <<status, nKeep, gap, called, start, vision, signal, at, pass>>

-----------------------------------------------------------------------------
(* What follows a pass: the embedding pass, or the end of the turn and of  *)
(* its locals, at which the loop waits for work unless it did some or was  *)
(* signalled.                                                              *)
PassEnd ==
    /\ EmptyBatch
    /\ IF pass = "token" /\ vision
       THEN at' = "fill" /\ pass' = "embd" /\ UNCHANGED <<start, signal, didWork>>
       ELSE /\ at' = IF didWork \/ signal THEN "top" ELSE "wait"
            /\ signal' = (signal /\ didWork)
            /\ start' = 0 /\ pass' = "token" /\ didWork' = FALSE
    /\ UNCHANGED <<vision, last>>

Filled == at = "fill" /\ (k = N \/ used >= NBatch)

NothingToDecode ==
    /\ Filled /\ used = 0
    /\ PassEnd
    /\ UNCHANGED sessions

(* The cells of the batch are in the context; each session with logits is  *)
(* sampled, and its request ends (D) or goes on with the sampled token.    *)
DecodeOk(D) ==
    /\ Filled /\ used > 0
    /\ D \subseteq logits
    /\ cells' = [i \in Sess |-> cells[i] \cup (nPos[i] - batch[i] .. nPos[i] - 1)]
    /\ status' = [i \in Sess |-> IF i \in D THEN "ready" ELSE status[i]]
    /\ pending' = [i \in Sess |->
                     IF i \in logits \ D THEN Append(pending[i], Token) ELSE pending[i]]
    /\ PassEnd
    /\ UNCHANGED <<nPos, nKeep, gap, called>>

(* The decode fails for every session of the batch, after its positions    *)
(* were counted; the loop pauses.                                          *)
DecodeFail ==
    /\ Filled /\ used > 0
    /\ status' = [i \in Sess |-> IF batch[i] > 0 THEN "error" ELSE status[i]]
    /\ pending' = [i \in Sess |-> IF batch[i] > 0 THEN <<>> ELSE pending[i]]
    /\ gap' = [i \in Sess |-> gap[i] \/ batch[i] > 0]
    /\ at' = "delay"
    /\ EmptyBatch
    /\ UNCHANGED <<nPos, nKeep, cells, called, start, vision, last, signal, pass,
                   didWork>>

DelayOver ==
    /\ at = "delay"
    /\ PassEnd
    /\ UNCHANGED sessions

WakeUp ==
    /\ at = "wait" /\ signal
    /\ at' = "top" /\ signal' = FALSE
    /\ UNCHANGED <<sessions, turn, vision, last, pass, didWork>>

-----------------------------------------------------------------------------
Application ==
    \E i \in Sess :
        \/ Cancel(i)
        \/ GenerateWithMedia(i)
        \/ \E clear \in BOOLEAN :
              \/ \E n \in PromptLens : SetPrompt(i, clear, n)
              \/ MediaBody(i, clear)

Loop ==
    \/ StartTurn \/ Skip \/ PassOver \/ Fill
    \/ NothingToDecode \/ (\E D \in SUBSET logits : DecodeOk(D)) \/ DecodeFail
    \/ DelayOver \/ WakeUp

Next == Application \/ Loop

(* The event loop of the isolate resumes _runLoop whenever it can go on.   *)
Spec == Init /\ [][Next]_vars /\ WF_vars(Loop)

-----------------------------------------------------------------------------
(* The cells of a sequence have consecutive positions from 0, through      *)
(* chunked prompts, images and context shifts, and the next token goes     *)
(* behind them, unless a decode failed since the history was cleared.      *)
PositionsFollow ==
    \A i \in Sess : ~gap[i] => cells[i] = 0 .. nPos[i] - batch[i] - 1

(* No token is put at a position that has a cell, even after a failure.    *)
NoPositionTwice ==
    \A i \in Sess : \A p \in cells[i] : p < nPos[i] - batch[i]

(* A batch is filled within its n_batch rows, each row for one session:    *)
(* the rows are native memory that nothing guards.                         *)
BatchFits ==
    /\ used <= NBatch
    /\ used = SumFunction(batch)

(* A session that generates has a next step: items that wait, a stream to  *)
(* be listened to, or logits to be sampled in this batch; nothing is       *)
(* sampled in the middle of a prompt.                                      *)
GeneratingHasWork ==
    \A i \in Sess :
        /\ (status[i] = "generating" /\ pending[i] = <<>>) => i \in logits \cup called
        /\ i \in logits => (status[i] = "generating" /\ pending[i] = <<>>)

(* A text conversation that keeps at most n_ctx - 2 tokens never goes past *)
(* n_ctx: the shift makes room in time.                                    *)
WithinContext ==
    \A i \in Sess : (~vision /\ nKeep[i] + 2 <= NCtx) => nPos[i] <= NCtx

Waiting(i) == status[i] = "generating" /\ pending[i] # <<>>
GetsTurn(i) == batch[i] > 0 \/ status[i] # "generating"

(* Without a vision model the rotation starves nobody: a session with      *)
(* items is in a batch sooner or later, however small the batch is.        *)
TextServed == \A i \in Sess : (Waiting(i) /\ ~vision) ~> GetsTurn(i)

(* "Round-robin rotation" (llama_service.dart:641) for every service.      *)
Served == \A i \in Sess : Waiting(i) ~> GetsTurn(i)
=============================================================================
