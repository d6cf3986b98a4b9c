---------------------------- MODULE SessionRequests ----------------------------
(***************************************************************************)
(* The requests and output streams of one ServiceSession (lib/src/core/    *)
(* llama_service.dart, service/session.dart).  A prompt makes a request    *)
(* with a number and a completer; the loop samples text into the session's *)
(* output buffer, flushes it as an event with that number to the session's *)
(* broadcast stream, and completes the completer at the end.  Whoever      *)
(* collects or streams a request listens to all events, keeps those of its *)
(* number, and stops when the completer is completed.                      *)
(*                                                                         *)
(* The events of a listener and the completion reach it in microtasks,     *)
(* which run only when the loop waits: one event for each microtask, the   *)
(* next one behind the completion.  A prompt wakes the loop before whoever *)
(* awaits the prompt goes on.  An application may call whenever the loop   *)
(* waits, also while another call is suspended.                            *)
(*                                                                         *)
(* Slots and tiers are in SessionService; here a session is hot or not.    *)
(***************************************************************************)
EXTENDS Naturals, Sequences

CONSTANTS
    Caller,     \* tasks of the application
    MaxRid,     \* requests of the session
    MaxText     \* n_predict, in pieces of text

ASSUME SizeAssumption == MaxRid \in Nat /\ MaxText \in Nat \ {0}

VARIABLES
    status, hot, fed,   \* status, tier, pendingItems.isNotEmpty
    alive,        \* the session is in _sessions
    looping,      \* _runLoop goes on
    slice,        \* it has not waited since its last turn
    woken,        \* a prompt notified it, and it had no turn since
    rid,          \* requestId
    registered,   \* keys of requestCompleters
    ended,        \* requests whose completer was completed; 0: there was none
    buffer, bufId,    \* outputBuffer, bufferRequestId
    raw,          \* an application listens to session.stream itself
    at, how,      \* where each caller is, in which method
    req,          \* the request it listens to
    queue,        \* the events that have not reached it
    got,          \* the text it collected
    heard,        \* what it learns next is that its request ended
    made,         \* history: the text sampled for each request
    fate,         \* history: how each request ended
    late          \* history: callers that listened too late for some text of
                  \* the request or for its failure

session == <<status, hot, fed, alive>>
loop    == <<looping, slice, woken>>
futures == <<registered, ended, fate>>
output  == <<buffer, bufId>>
callers == <<at, how, req, queue, got, heard, late>>
vars    == <<session, loop, rid, futures, output, raw, callers, made>>

Rid   == 0 .. MaxRid
Piece == Rid \X (1 .. MaxText)
Event == [kind : {"text", "error"}, rid : Rid, text : Seq(Piece)]
Error == [kind |-> "error", rid |-> 0, text |-> <<>>]

TypeOK ==
    /\ status \in {"ready", "generating", "error"} /\ hot \in BOOLEAN /\ fed \in BOOLEAN
    /\ alive \in BOOLEAN /\ looping \in BOOLEAN /\ slice \in BOOLEAN /\ woken \in BOOLEAN
    /\ rid \in Rid /\ registered \subseteq 1 .. rid /\ ended \subseteq 0 .. rid
    /\ buffer \in Seq(Piece) /\ bufId \in Rid /\ raw \in BOOLEAN
    /\ at \in [Caller -> {"idle", "restoring", "claimed", "opening", "listening",
                         "done", "failed"}]
    /\ how \in [Caller -> {"prompt", "stream", "media"}]
    /\ req \in [Caller -> Rid] /\ queue \in [Caller -> Seq(Event)]
    /\ got \in [Caller -> Seq(Piece)] /\ heard \in [Caller -> BOOLEAN]
    /\ made \in [Rid -> 0 .. MaxText]
    /\ fate \in [Rid -> {"open", "finished", "failed", "cancelled"}]
    /\ late \in [Caller -> BOOLEAN]

Init ==
    /\ status = "ready" /\ hot = FALSE /\ fed = FALSE /\ alive = TRUE
    /\ looping = TRUE /\ slice = FALSE /\ woken = FALSE
    /\ rid = 0 /\ registered = {} /\ ended = {0}
    /\ buffer = <<>> /\ bufId = 0 /\ raw = FALSE
    /\ at = [c \in Caller |-> "idle"] /\ how = [c \in Caller |-> "prompt"]
    /\ req = [c \in Caller |-> 0] /\ queue = [c \in Caller |-> <<>>]
    /\ got = [c \in Caller |-> <<>>] /\ heard = [c \in Caller |-> FALSE]
    /\ made = [r \in Rid |-> 0] /\ fate = [r \in Rid |-> IF r = 0 THEN "finished" ELSE "open"]
    /\ late = [c \in Caller |-> FALSE]

-----------------------------------------------------------------------------
(* The broadcast stream: flush sends the buffer as one event, and keeps it *)
(* while nobody listens.  A session that is freed has closed the stream.   *)
Heard == raw \/ \E c \in Caller : at[c] = "listening"

TextOf(r, text) == [kind |-> "text", rid |-> r, text |-> text]
Sent(e) == [c \in Caller |-> IF alive /\ at[c] = "listening"
                            THEN Append(queue[c], e) ELSE queue[c]]

(* completeGeneration: older completers are dropped as they are.  Mutant:  *)
(* the completer is not completed.                                         *)
EndedNot(reg, r) == ended
Ended(reg, r) == ended \cup ({r} \cap reg)

Complete(reg, r, end) ==
    /\ ended' = Ended(reg, r)
    /\ registered' = {k \in reg : k >= r}
    /\ fate' = [fate EXCEPT ![r] = IF @ = "open" THEN end ELSE @]

(* c listens to request r; the first listener is sent what was kept.  If   *)
(* the completer was dropped meanwhile, r counts as complete.              *)
(* Mutant: nothing is sent.                                                *)
ReplaysNot(text) == FALSE
Replays(text) == ~Heard /\ text # <<>>

(* Mutant: what was replayed stays in the buffer.                          *)
RestTwice(replay, text) == text
Rest(replay, text) == IF replay THEN <<>> ELSE text

Listen(c, r, text) ==
    LET replay == Replays(text)
        gone   == r \notin registered' \cup ended'
    IN
    /\ at' = [at EXCEPT ![c] = "listening"]
    /\ req' = [req EXCEPT ![c] = r]
    /\ queue' = [queue EXCEPT ![c] = IF replay /\ ~gone
                                     THEN <<TextOf(bufId', text)>> ELSE <<>>]
    /\ buffer' = Rest(replay, text)
    /\ got' = [got EXCEPT ![c] = <<>>]
    /\ heard' = [heard EXCEPT ![c] = gone]
    /\ late' = [late EXCEPT ![c] = \/ made[r] > (IF r = rid' THEN Len(text) ELSE 0)
                                   \/ fate[r] = "failed"]

-----------------------------------------------------------------------------
(* The application.                                                        *)
Resting(c) == at[c] \in {"idle", "done", "failed"} /\ ~slice

(* From _startRequest on: a request begins, unless the session is no       *)
(* longer generating, and its items are queued; or that fails.  A media    *)
(* stream listens at once, a text stream when its setPrompt has returned.  *)
(* Mutant: the output of the request before is kept.                       *)
NewTextKept(st) == buffer
NewText(st) == IF st = "generating" THEN <<>> ELSE buffer

Return(c, h, r) ==
    /\ at' = [at EXCEPT ![c] = IF h = "stream" THEN "opening" ELSE "idle"]
    /\ req' = [req EXCEPT ![c] = r] /\ got' = [got EXCEPT ![c] = <<>>]
    /\ UNCHANGED <<queue, heard, late>>

Body(c, h, st) ==
    LET starts == st = "generating"
        r    == IF starts THEN rid + 1 ELSE rid
        reg  == IF starts THEN registered \cup {r} ELSE registered
    IN  /\ r <= MaxRid
        /\ rid' = r
        /\ bufId' = IF starts THEN r ELSE bufId
        /\ how' = [how EXCEPT ![c] = h]
        /\ \/ /\ status' = st /\ fed' = TRUE /\ woken' = TRUE
              /\ registered' = reg /\ UNCHANGED <<ended, fate>>
              /\ \/ h = "media" /\ Listen(c, r, NewText(st))
                 \/ h # "media" /\ Return(c, h, r) /\ buffer' = NewText(st)
           \/ /\ status' = "error" /\ fed' = FALSE /\ UNCHANGED woken
              /\ buffer' = <<>> /\ queue' = Sent(Error)
              /\ Complete(reg, r, "failed")
              /\ at' = [at EXCEPT ![c] = "failed"]
              /\ UNCHANGED <<req, got, heard, late>>
        /\ UNCHANGED <<alive, looping, slice, raw, made>>

Suspend(c, h) ==
    /\ at' = [at EXCEPT ![c] = "restoring"] /\ how' = [how EXCEPT ![c] = h]
    /\ UNCHANGED <<req, queue, got, heard, late>>

(* No microtask waits.  What is resumed comes after those that do.         *)
Quiet == \A c \in Caller :
            /\ at[c] # "opening"
            /\ at[c] = "listening" => queue[c] = <<>> /\ ~heard[c] /\ req[c] \notin ended

(* setPrompt, alone or as the start of generateText.                       *)
SetPrompt(c, h) ==
    /\ Resting(c) /\ alive /\ status # "generating"
    /\ \/ hot /\ Body(c, h, "generating") /\ UNCHANGED hot
       \/ /\ ~hot /\ Suspend(c, h)
          /\ status' = "generating" /\ fed' = FALSE
          /\ UNCHANGED <<hot, alive, loop, rid, futures, output, raw, made>>

(* generateWithMedia, and the body of its stream once it is listened to.   *)
Media(c) ==
    /\ Resting(c) /\ alive /\ status # "generating"
    /\ status' = "generating" /\ fed' = FALSE
    /\ at' = [at EXCEPT ![c] = "claimed"]
    /\ UNCHANGED <<hot, alive, loop, rid, futures, output, raw,
                   how, req, queue, got, heard, late, made>>

MediaBody(c) ==
    /\ at[c] = "claimed" /\ ~slice /\ Quiet
    /\ \/ hot /\ Body(c, "media", status) /\ UNCHANGED hot
       \/ ~hot /\ Suspend(c, "media") /\ UNCHANGED <<session, loop, rid, futures, output, raw, made>>

(* The session is hot again, or could not be restored.                     *)
Throw(c) ==
    /\ at' = [at EXCEPT ![c] = "failed"]
    /\ UNCHANGED <<how, req, queue, got, heard, late>>

Resume(c) ==
    /\ at[c] = "restoring" /\ ~slice /\ Quiet
    /\ \/ status = "generating" /\ hot' = TRUE /\ Body(c, how[c], status)
       \/ /\ status # "generating" /\ hot' = TRUE /\ Throw(c)
          /\ UNCHANGED <<status, fed, alive, loop, rid, futures, output, raw, made>>
       \/ /\ ~hot /\ Throw(c)
          /\ UNCHANGED <<session, loop, rid, futures, output, raw, made>>

(* generateCompleteText: the text of whatever request is current.          *)
Collect(c) ==
    /\ Resting(c) /\ alive /\ status = "generating"
    /\ rid \in registered
    /\ UNCHANGED <<session, loop, rid, futures, bufId, raw, how, made>>
    /\ Listen(c, rid, buffer)

(* generateText without a prompt.                                          *)
ListenRaw ==
    /\ ~slice /\ alive
    /\ raw' = ~raw
    /\ buffer' = IF raw \/ Heard THEN buffer ELSE <<>>
    /\ UNCHANGED <<session, loop, rid, futures, bufId, callers, made>>

Cancel ==
    /\ ~slice /\ alive
    /\ status' = "ready" /\ fed' = FALSE /\ buffer' = <<>>
    /\ Complete(registered, rid, "cancelled")
    /\ UNCHANGED <<hot, alive, loop, rid, bufId, raw, callers, made>>

(* freeSession and dispose: no completer is completed, and what the buffer *)
(* holds is out of reach, since the stream is closed.                      *)
FreeSession ==
    /\ ~slice /\ alive
    /\ alive' = FALSE /\ fed' = FALSE /\ buffer' = <<>>
    /\ UNCHANGED <<status, hot, loop, rid, futures, bufId, raw, callers, made>>

-----------------------------------------------------------------------------
(* The loop.  Another session may take the slot of one at rest; the stop   *)
(* signal or an exception ends the loop.                                   *)
Evict ==
    /\ ~slice /\ hot /\ status # "generating"
    /\ hot' = FALSE
    /\ UNCHANGED <<status, fed, alive, loop, rid, futures, output, raw, callers, made>>

LoopEnds ==
    /\ looping /\ ~slice
    /\ looping' = FALSE
    /\ UNCHANGED <<session, slice, woken, rid, futures, output, raw, callers, made>>

(* A turn comes behind the microtasks, but the first one of a prompt comes *)
(* before its caller goes on, when the loop waits for work; it may instead *)
(* wait for time, on behalf of other sessions.                             *)
Works == /\ looping /\ (slice \/ woken \/ Quiet)
         /\ alive /\ hot /\ status = "generating" /\ fed

(* One sampled piece: flushed when 50 ms have passed or nothing follows.   *)
(* Mutant: a generation goes past n_predict.                               *)
MustEndLate(n) == n > MaxText
MustEnd(n) == n >= MaxText

Turn ==
    LET text == Append(buffer, <<rid, made[rid] + 1>>) IN
    /\ Works
    /\ made' = [made EXCEPT ![rid] = @ + 1]
    /\ slice' = TRUE /\ woken' = FALSE
    /\ \E end \in BOOLEAN :
          /\ MustEnd(made[rid] + 1) => end
          /\ \/ /\ Heard
                /\ queue' = Sent(TextOf(rid, text)) /\ buffer' = <<>>
                /\ UNCHANGED bufId
             \/ /\ ~Heard \/ ~end
                /\ buffer' = text /\ bufId' = IF Heard THEN bufId ELSE rid
                /\ UNCHANGED queue
          /\ \/ /\ end /\ status' = "ready" /\ fed' = FALSE
                /\ Complete(registered, rid, "finished")
             \/ /\ ~end /\ UNCHANGED <<status, fed, futures>>
    /\ UNCHANGED <<hot, alive, looping, rid, raw, at, how, req, got, heard, late>>

(* The error goes out first, then what the buffer has.                     *)
DecodeFail ==
    LET kept == ~Heard \/ buffer = <<>> IN
    /\ Works
    /\ status' = "error" /\ fed' = FALSE /\ slice' = TRUE /\ woken' = FALSE
    /\ queue' = [c \in Caller |->
                    Sent(Error)[c] \o (IF at[c] = "listening" /\ ~kept
                                       THEN <<TextOf(rid, buffer)>> ELSE <<>>)]
    /\ buffer' = IF kept THEN buffer ELSE <<>>
    /\ bufId' = IF ~Heard /\ buffer # <<>> THEN rid ELSE bufId
    /\ Complete(registered, rid, "failed")
    /\ UNCHANGED <<hot, alive, looping, rid, raw, at, how, req, got, heard, late, made>>

Yield ==
    /\ slice
    /\ slice' = FALSE
    /\ UNCHANGED <<session, looping, woken, rid, futures, output, raw, callers, made>>

-----------------------------------------------------------------------------
(* The microtasks.                                                         *)

(* generateText: the stream that listens to the request of its prompt.     *)
Open(c) ==
    /\ at[c] = "opening" /\ ~slice
    /\ UNCHANGED <<session, loop, rid, futures, bufId, raw, how, made>>
    /\ Listen(c, req[c], buffer)

Deliver(c) ==
    LET e == Head(queue[c]) IN
    /\ at[c] = "listening" /\ ~slice /\ queue[c] # <<>> /\ ~heard[c]
    /\ \/ /\ e.kind = "text"
          /\ got' = IF e.rid = req[c] THEN [got EXCEPT ![c] = @ \o e.text] ELSE got
          /\ queue' = [queue EXCEPT ![c] = Tail(@)]
          /\ heard' = [heard EXCEPT ![c] = req[c] \in ended]
          /\ UNCHANGED at
       \/ /\ e.kind = "error"
          /\ at' = [at EXCEPT ![c] = "failed"] /\ queue' = [queue EXCEPT ![c] = <<>>]
          /\ UNCHANGED <<got, heard>>
    /\ UNCHANGED <<session, loop, rid, futures, output, raw, how, req, late, made>>

End(c) ==
    /\ at[c] = "listening" /\ ~slice
    /\ heard[c] \/ (req[c] \in ended /\ queue[c] = <<>>)
    /\ at' = [at EXCEPT ![c] = "done"] /\ queue' = [queue EXCEPT ![c] = <<>>]
    /\ UNCHANGED <<session, loop, rid, futures, output, raw, how, req, got, heard, late, made>>

-----------------------------------------------------------------------------
Application ==
    \/ \E c \in Caller : \/ \E h \in {"prompt", "stream"} : SetPrompt(c, h)
                        \/ Media(c) \/ MediaBody(c) \/ Collect(c)
    \/ ListenRaw \/ Cancel \/ FreeSession
Loop == Turn \/ DecodeFail \/ Yield
Microtask(c) == Open(c) \/ Deliver(c) \/ End(c)

Next == Application \/ Evict \/ LoopEnds \/ Loop
        \/ \E c \in Caller : Resume(c) \/ Microtask(c)

(* Dart's event loop runs the microtasks and resumes the scheduling loop.  *)
Fairness == WF_vars(Loop) /\ \A c \in Caller : WF_vars(Microtask(c))

Spec == Init /\ [][Next]_vars /\ Fairness

-----------------------------------------------------------------------------
(* Text of one request never reaches whoever listens to another, through   *)
(* the one buffer and the one stream that all requests of a session share, *)
(* whatever was cancelled, failed, abandoned or replayed late.             *)
OwnText ==
    \A c \in Caller : \A i \in DOMAIN got[c] : got[c][i][1] = req[c]

Whole(r) == [k \in 1 .. made[r] |-> <<r, k>>]

(* Whoever listened in time and for whom no event is under way lacks only  *)
(* what the buffer still holds: once the request is finished, it has all   *)
(* of the text in order, replayed or not; and the news that the request    *)
(* failed is on its way as long as the session exists.                     *)
TailUnderWay ==
    \A c \in Caller :
        at[c] = "listening" /\ ~late[c] /\ queue[c] = <<>> =>
            /\ fate[req[c]] = "finished" => got[c] = Whole(req[c])
            /\ alive => /\ fate[req[c]] # "failed"
                        /\ fate[req[c]] = "open" /\ req[c] = rid =>
                              got[c] \o buffer = Whole(rid)

(* "Collects the full text for the currently-running request" (comment of  *)
(* generateCompleteText, llama_service.dart:382): whoever listened in time *)
(* and is told that its finished request is complete has all of its text.  *)
(* The code breaks it when two events are under way at the completion.     *)
FullText ==
    \A c \in Caller :
        at[c] = "done" /\ ~late[c] /\ fate[req[c]] = "finished" =>
            got[c] = Whole(req[c])

(* The texts as TextLog sees them.  Of callers that listen to nothing it   *)
(* sees nothing.                                                           *)
Reads(c) == at[c] \in {"listening", "done"}

Mode    == [c \in Caller |-> IF at[c] = "listening" THEN "reading"
                             ELSE IF at[c] = "done" THEN "done" ELSE "off"]
Request == [c \in Caller |-> IF Reads(c) THEN req[c] ELSE 0]
Taken   == [c \in Caller |-> IF Reads(c) THEN got[c] ELSE <<>>]
Late    == [c \in Caller |-> Reads(c) /\ late[c]]

Texts == INSTANCE TextLog WITH
             Reader <- Caller, current <- rid, mode <- Mode,
             req <- Request, got <- Taken, late <- Late

(* What a session promises about texts, with one buffer and one stream for *)
(* all requests: whatever is cancelled, replaced, replayed or late, each   *)
(* reader takes its own request's text, with no gap and nothing twice.     *)
TextSpec == Texts!Spec

(* A listener is told the end of the current request, while the session    *)
(* and the loop exist; a request that another one replaced never ends.     *)
RequestsEnd ==
    \A c \in Caller :
        at[c] = "listening" ~> \/ at[c] # "listening"
                               \/ ~alive \/ ~looping \/ req[c] # rid
=============================================================================
