--------------------------- MODULE IsolateProtocol ---------------------------
(***************************************************************************)
(* LlamaParent, LlamaScope and LlamaChild (lib/src/isolate): the model     *)
(* runs in an isolate of its own, commands and responses travel through    *)
(* two FIFO ports.  The parent sends one prompt at a time, but commands at *)
(* any moment; it has one completer for whatever command was sent last,    *)
(* with a timeout, one completer per prompt, and finds the prompt of a     *)
(* response by the id the child echoes.  Code between two awaits, and the  *)
(* continuations that a response wakes, are one step.                      *)
(*                                                                         *)
(* Init is the state after init(): library open, model loaded.             *)
(***************************************************************************)
EXTENDS Naturals, Sequences, FiniteSets

CONSTANTS
    Prompt,    \* calls of sendPrompt
    Call,      \* calls of the other methods, in the order they are made
    Scope,     \* LlamaScope objects
    ScopeOf,   \* the scope each prompt is sent with, or NoScope
    MaxText,   \* pieces of text of one generation
    Env,       \* what happens in this instance, see EnvKinds
    NoPrompt, NoCall, NoScope    \* Dart's null, one per type

(* "overlap": a command is sent before the last one was answered;          *)
(* "interleave": the child's event loop runs between two tokens; "timeout": *)
(* an answer takes longer than its caller waits; "refuse": a command is    *)
(* answered with an error; "fail": a generation is; others: that method is *)
(* called.                                                                 *)
EnvKinds == {"overlap", "interleave", "timeout", "refuse", "fail", "stop",
             "scope", "clear", "state", "count", "shutdown"}

ASSUME NullAssumption ==
    /\ NoPrompt \notin Prompt /\ NoCall \notin Call /\ NoScope \notin Scope
    /\ ScopeOf \in [Prompt -> Scope \cup {NoScope}]
    /\ IsFiniteSet(Prompt) /\ Call \subseteq Nat
    /\ MaxText \in Nat
    /\ Env \subseteq EnvKinds

VARIABLES
    stage,        \* of a prompt: "queued" in _promptQueue, "sent" while its
                  \* completer is open, "done", or "refused"
    place,        \* its place in _promptQueue, by arrival
    processing,   \* _isProcessingQueue
    generating,   \* _isGenerating
    current,      \* _currentPromptId: ids are milliseconds, 0 is ""
    currentScope, \* _currentScope
    completers,   \* _promptCompleters: id -> prompt
    scopes,       \* _scopes
    closed,       \* scopes whose stream controllers are closed
    scopeIds,     \* _promptIds of each scope
    call,         \* what each call is, and where it is suspended
    op,           \* the call whose completer is _operationCompleter
    asked,        \* the calls that wait for data: _tokenizeCompleter, ...
    listening,    \* _subscription is not cancelled
    toChild, toParent,    \* the two ports
    shouldStop, busy, running, texts, slots, loaded,
                  \* LlamaChild: its flag; status generating; the prompt
                  \* commands whose loop runs, the texts of each prompt;
                  \* the scopes that have a slot; llama # null
    handled,      \* history: the calls whose (last) command was handled
    solo,         \* history: the calls whose command had no other before it
    missed,       \* history: the scopes that were not told of a completion
    strayed       \* history: a command was answered with an error

parent == <<stage, place, processing, generating, current, currentScope,
            completers, scopes, closed, scopeIds, call, op, asked, listening>>
child  == <<shouldStop, busy, running, texts, slots, loaded>>
vars   == <<parent, child, toChild, toParent, handled, solo, missed, strayed>>

Stage == {"new", "queued", "sent", "done", "refused"}
Op    == {"none", "stop", "scopeStop", "free", "clear", "load", "count", "save", "shutdown"}
At    == {"unused", "stop", "main", "down", "drain", "ok", "forced", "failed"}
Data  == {"count", "save"}
Commands == {"stop", "free", "clear", "load", "dispose"}    \* of _sendCommand
Ids   == 0 .. Cardinality(Prompt)

ToChild  == [kind : Commands \cup Data \cup {"prompt"}, prompt : Prompt \cup {NoPrompt},
             id : Ids, call : Call \cup {NoCall}, scope : Scope \cup {NoScope}]
ToParent == [kind : {"text", "done", "error", "confirm"} \cup Data,
             prompt : Prompt \cup {NoPrompt}, id : Ids, call : Call \cup {NoCall}]

TypeOK ==
    /\ stage \in [Prompt -> Stage] /\ place \in [Prompt -> Nat]
    /\ processing \in BOOLEAN /\ generating \in BOOLEAN
    /\ current \in Ids /\ currentScope \in Scope \cup {NoScope}
    /\ completers \in [Ids -> Prompt \cup {NoPrompt}]
    /\ scopes \subseteq Scope /\ closed \subseteq Scope
    /\ scopeIds \in [Scope -> SUBSET Ids]
    /\ call \in [Call -> [op : Op, at : At, scope : Scope \cup {NoScope}]]
    /\ op \in Call \cup {NoCall} /\ asked \in [Data -> Call \cup {NoCall}]
    /\ listening \in BOOLEAN
    /\ toChild \in Seq(ToChild) /\ toParent \in Seq(ToParent)
    /\ shouldStop \in BOOLEAN /\ busy \in BOOLEAN
    /\ running \subseteq ToChild /\ texts \in [Prompt -> 0 .. MaxText]
    /\ slots \subseteq Scope /\ loaded \in BOOLEAN
    /\ handled \subseteq Call /\ solo \subseteq Call
    /\ missed \subseteq Scope /\ strayed \in BOOLEAN

Init ==
    /\ stage = [p \in Prompt |-> "new"] /\ place = [p \in Prompt |-> 0]
    /\ processing = FALSE /\ generating = FALSE
    /\ current = 0 /\ currentScope = NoScope
    /\ completers = [i \in Ids |-> NoPrompt]
    /\ scopes = Scope /\ closed = {} /\ scopeIds = [s \in Scope |-> {}]
    /\ call = [k \in Call |-> [op |-> "none", at |-> "unused", scope |-> NoScope]]
    /\ op = NoCall /\ asked = [d \in Data |-> NoCall] /\ listening = TRUE
    /\ toChild = <<>> /\ toParent = <<>>
    /\ shouldStop = FALSE /\ busy = FALSE /\ running = {}
    /\ texts = [p \in Prompt |-> 0] /\ slots = {} /\ loaded = TRUE
    /\ handled = {} /\ solo = {} /\ missed = {} /\ strayed = FALSE

-----------------------------------------------------------------------------
(* The parent.                                                             *)
Waiting == {p \in Prompt : stage[p] = "queued"}

Pending == {"stop", "main", "down", "drain"}
ShuttingDown == \E k \in Call : call[k].op = "shutdown"
First(p) == p \in Waiting /\ \A q \in Waiting : place[p] <= place[q]

(* The rest of _processNextPrompt for p, on top of what its caller has     *)
(* made of stage, scopeIds and completers.  The id is the clock, which may *)
(* still read what it read for the last prompt; the scope knows it before  *)
(* the child does (mutant: it learns it from no one).                      *)
WithIdLost(ids, s, i) == ids
WithId(ids, s, i) == IF s = NoScope THEN ids ELSE [ids EXCEPT ![s] = @ \cup {i}]

TakenNot == processing    \* mutant: the queue is not marked as taken
Taken == TRUE

Start(p, st, ids, cp) ==
    \E i \in {current, current + 1} \cap (Ids \ {0}) :
        /\ stage' = [st EXCEPT ![p] = "sent"]
        /\ processing' = Taken /\ generating' = TRUE
        /\ current' = i /\ currentScope' = ScopeOf[p]
        /\ completers' = [cp EXCEPT ![i] = p]
        /\ scopeIds' = WithId(ids, ScopeOf[p], i)
        /\ toChild' = Append(toChild, [kind |-> "prompt", prompt |-> p, id |-> i,
                                       call |-> NoCall, scope |-> ScopeOf[p]])

(* sendPrompt, also while the parent is disposed of or after that.  The    *)
(* branch of _processNextPrompt that stops a generation first is never     *)
(* taken: NeverInterrupts.  Mutant: the queue is not used.                 *)
QueueFreeAlways == TRUE
QueueFree == ~processing

SendPrompt(p) ==
    /\ stage[p] = "new"
    /\ place' = [place EXCEPT ![p] = Cardinality({q \in Prompt : stage[q] # "new"}) + 1]
    /\ \/ QueueFree /\ Start(p, stage, scopeIds, completers)
       \/ /\ ~QueueFree
          /\ stage' = [stage EXCEPT ![p] = "queued"]
          /\ UNCHANGED <<processing, generating, current, currentScope,
                         completers, scopeIds, toChild>>
    /\ UNCHANGED <<scopes, closed, call, op, asked, listening, child, toParent,
                   handled, solo, missed, strayed>>

(* _sendCommand for call k, where calls is the rest of what happens to the *)
(* calls: the call that still waits is told it was superseded.             *)
Unanswered(answers) ==
    \/ \E i \in DOMAIN toChild : toChild[i].kind \in Commands
    \/ \E i \in DOMAIN answers : answers[i].kind = "confirm"

SendCommand(calls, k, kind, s) ==
    /\ call' = IF op \in Call \ {k} THEN [calls EXCEPT ![op].at = "failed"] ELSE calls
    /\ op' = k
    /\ toChild' = Append(toChild, [kind |-> kind, prompt |-> NoPrompt, id |-> 0,
                                   call |-> k, scope |-> s])
    /\ handled' = handled \ {k}
    /\ solo' = IF Unanswered(toParent') THEN solo \ {k} ELSE solo \cup {k}

NoCommand(calls) == call' = calls /\ UNCHANGED <<op, toChild, handled, solo>>

CanCall(k, env) ==
    /\ env \in Env
    /\ \A j \in Call : j < k => call[j].at # "unused"
    /\ call[k].at = "unused" /\ ~ShuttingDown
    /\ "overlap" \in Env \/ \A j \in Call : call[j].at \notin Pending

As(k, o, a, s) == [call EXCEPT ![k] = [op |-> o, at |-> a, scope |-> s]]

Stop(k) ==
    /\ CanCall(k, "stop") /\ generating
    /\ UNCHANGED toParent
    /\ SendCommand(As(k, "stop", "stop", NoScope), k, "stop", NoScope)
    /\ UNCHANGED <<stage, place, processing, generating, current, currentScope, completers,
                   scopes, closed, scopeIds, asked, listening, child, missed, strayed>>

(* cancelScope: the scope's waiting prompts are refused, its generation is *)
(* stopped.                                                                *)
Dropped(s) == [p \in Prompt |-> IF p \in Waiting /\ ScopeOf[p] = s THEN "refused" ELSE stage[p]]
InFlight(s) == generating /\ currentScope = s

ScopeStop(k, s, queuedToo) ==
    /\ CanCall(k, "scope")
    /\ stage' = IF queuedToo THEN Dropped(s) ELSE stage
    /\ UNCHANGED toParent
    /\ IF InFlight(s) THEN SendCommand(As(k, "scopeStop", "stop", s), k, "stop", NoScope)
                      ELSE NoCommand(As(k, "scopeStop", "ok", s))
    /\ UNCHANGED <<place, processing, generating, current, currentScope, completers,
                   scopes, closed, scopeIds, asked, listening, child, missed, strayed>>

(* LlamaScope.dispose and disposeScope: the scope's streams are closed     *)
(* first, its slot is freed once its generation was told to stop.          *)
Release(k, o, s) ==
    /\ closed' = closed \cup {s}
    /\ stage' = Dropped(s)
    /\ UNCHANGED toParent
    /\ IF InFlight(s)
       THEN SendCommand(As(k, o, "stop", s), k, "stop", NoScope) /\ UNCHANGED scopes
       ELSE SendCommand(As(k, o, "main", s), k, "free", s) /\ scopes' = scopes \ {s}
    /\ UNCHANGED <<place, processing, generating, current, currentScope, completers,
                   scopeIds, asked, listening, child, missed, strayed>>

DisposeScope(k, s) ==
    /\ CanCall(k, "scope") /\ s \notin closed
    /\ Release(k, "free", s)

(* clear; loadState and loadSession.                                       *)
Clear(k) ==
    /\ CanCall(k, "clear")
    /\ UNCHANGED toParent
    /\ SendCommand(As(k, "clear", "main", NoScope), k, "clear", NoScope)
    /\ UNCHANGED <<stage, place, processing, generating, current, currentScope, completers,
                   scopes, closed, scopeIds, asked, listening, child, missed, strayed>>

Load(k, s) ==
    /\ CanCall(k, "state")
    /\ UNCHANGED toParent
    /\ SendCommand(As(k, "load", "main", s), k, "load", s)
    /\ UNCHANGED <<stage, place, processing, generating, current, currentScope, completers,
                   scopes, closed, scopeIds, asked, listening, child, missed, strayed>>

(* countTokens and saveState have a completer of their own: a second call  *)
(* takes it from the first, which is left to its timeout.                  *)
Ask(k, d, s) ==
    /\ CanCall(k, IF d = "count" THEN "count" ELSE "state")
    /\ call' = As(k, d, "main", s)
    /\ asked' = [asked EXCEPT ![d] = k]
    /\ toChild' = Append(toChild, [kind |-> d, prompt |-> NoPrompt, id |-> 0,
                                   call |-> k, scope |-> s])
    /\ UNCHANGED <<stage, place, processing, generating, current, currentScope, completers,
                   scopes, closed, scopeIds, op, listening, child, toParent,
                   handled, solo, missed, strayed>>

-----------------------------------------------------------------------------
(* dispose of the parent: everyone who waits is told, except for whoever   *)
(* waits for a prompt that was sent; the scopes are disposed one by one    *)
(* (one may generate for a prompt sent meanwhile), then the child; 50 ms   *)
(* later nobody listens any more.                                          *)
Shutdown(k) ==
    /\ CanCall(k, "shutdown")
    /\ generating' = FALSE
    /\ call' = [j \in Call |->
                   IF j = k THEN [op |-> "shutdown", at |-> "down", scope |-> NoScope]
                   ELSE IF j = op \/ \E d \in Data : asked[d] = j
                        THEN [call[j] EXCEPT !.at = "failed"] ELSE call[j]]
    /\ op' = NoCall /\ asked' = [d \in Data |-> NoCall]
    /\ stage' = [p \in Prompt |-> IF p \in Waiting THEN "refused" ELSE stage[p]]
    /\ UNCHANGED <<place, processing, current, currentScope, completers, scopes, closed,
                   scopeIds, listening, child, toChild, toParent, handled, solo, missed, strayed>>

DownScope(k, s) ==
    /\ call[k].at = "down" /\ s \in scopes
    /\ Release(k, "shutdown", s)

DownChild(k) ==
    /\ call[k].at = "down" /\ scopes = {}
    /\ call' = [call EXCEPT ![k].at = "drain"]
    /\ toChild' = Append(toChild, [kind |-> "dispose", prompt |-> NoPrompt, id |-> 0,
                                   call |-> k, scope |-> NoScope])
    /\ UNCHANGED <<stage, place, processing, generating, current, currentScope, completers,
                   scopes, closed, scopeIds, op, asked, listening, child, toParent,
                   handled, solo, missed, strayed>>

Unsubscribe(k) ==
    /\ call[k].at = "drain"
    /\ call' = [call EXCEPT ![k].at = "ok"]
    /\ listening' = FALSE
    /\ UNCHANGED <<stage, place, processing, generating, current, currentScope, completers,
                   scopes, closed, scopeIds, op, asked, child, toChild, toParent,
                   handled, solo, missed, strayed>>

-----------------------------------------------------------------------------
(* What follows in stop, cancelScope and disposeScope once a LlamaStop was *)
(* confirmed ("ok"), or was not in time and the state is reset ("forced"). *)
AfterStop(k, end) ==
    /\ generating' = FALSE
    /\ IF call[k].op \in {"free", "shutdown"}
       THEN /\ scopes' = scopes \ {call[k].scope}
            /\ SendCommand([call EXCEPT ![k].at = "main"], k, "free", call[k].scope)
       ELSE /\ call' = [call EXCEPT ![k].at = end] /\ op' = NoCall
            /\ UNCHANGED <<scopes, toChild, handled, solo>>

Timeout(k) ==
    /\ "timeout" \in Env
    /\ UNCHANGED toParent
    /\ \/ call[k].at = "stop" /\ AfterStop(k, "forced") /\ UNCHANGED asked
       \/ /\ call[k].at = "main"
          /\ call' = [call EXCEPT ![k].at = "failed"]
          /\ IF call[k].op \in Data
             THEN asked' = [asked EXCEPT ![call[k].op] = NoCall] /\ UNCHANGED op
             ELSE op' = NoCall /\ UNCHANGED asked
          /\ UNCHANGED <<generating, scopes, toChild, handled, solo>>
    /\ UNCHANGED <<stage, place, processing, current, currentScope, completers,
                   closed, scopeIds, listening, child, missed, strayed>>

(* _onData, by kind of response.  Mutants: data confirms a command; a      *)
(* confirmation ends a prompt; a failed prompt does not wake the queue.    *)
ConfirmKindsAll == {"confirm"} \cup Data
ConfirmKinds == {"confirm"}
EndKindsAll == {"done", "error", "confirm"}
EndKinds == {"done", "error"}

Deliver(kinds) ==
    /\ listening /\ toParent # <<>> /\ Head(toParent).kind \in kinds
    /\ toParent' = Tail(toParent)

OnText ==
    /\ Deliver({"text"})
    /\ UNCHANGED <<parent, child, toChild, handled, solo, missed, strayed>>

OnDataAnswer ==
    LET d == Head(toParent).kind
        k == asked[d]
    IN  /\ Deliver(Data)
        /\ call' = IF k = NoCall THEN call ELSE [call EXCEPT ![k].at = "ok"]
        /\ asked' = [asked EXCEPT ![d] = NoCall]
        /\ UNCHANGED <<stage, place, processing, generating, current, currentScope, completers,
                       scopes, closed, scopeIds, op, listening, child, toChild,
                       handled, solo, missed, strayed>>

OnConfirm ==
    /\ Deliver(ConfirmKinds)
    /\ \/ op = NoCall /\ NoCommand(call) /\ UNCHANGED <<generating, scopes>>
       \/ op # NoCall /\ call[op].at = "stop" /\ AfterStop(op, "ok")
       \/ /\ op # NoCall /\ call[op].at = "main"
          /\ call' = [call EXCEPT ![op].at = IF @ = "main" /\ call[op].op = "shutdown"
                                             THEN "down" ELSE "ok"]
          /\ op' = NoCall
          /\ UNCHANGED <<generating, scopes, toChild, handled, solo>>
    /\ UNCHANGED <<stage, place, processing, current, currentScope, completers,
                   closed, scopeIds, asked, listening, child, missed, strayed>>

(* A response that is done ends the prompt its id names, one without an id *)
(* the current prompt.  An error fails whoever waits for an answer.  A     *)
(* scope whose streams are closed throws, and the rest is not done: of the *)
(* open scopes only those before it (told) hear of the completion.         *)
WakesOnSuccess(m) == m.kind = "done"
Wakes(m) == TRUE

Told(told, i) == [s \in Scope |-> IF s \in told THEN scopeIds[s] \ {i} ELSE scopeIds[s]]

OnEnd(told) ==
    LET m   == Head(toParent)
        i   == IF m.id = 0 THEN current ELSE m.id
        q   == completers[i]
        bad == m.kind = "error"
        st  == IF q = NoPrompt THEN stage ELSE [stage EXCEPT ![q] = "done"]
        cp  == [completers EXCEPT ![i] = NoPrompt]
        throws == \E s \in scopes \cap closed : i \in scopeIds[s]
        ids    == Told(told, i)
        wakes  == q # NoPrompt /\ Wakes(m)
    IN  /\ Deliver(EndKinds)
        /\ ~throws => told = scopes \ closed
        /\ missed' = missed \cup {s \in (scopes \ closed) \ told : i \in scopeIds[s]}
        /\ call' = [k \in Call |->
                       IF bad /\ (k = op \/ \E d \in Data : asked[d] = k)
                       THEN [call[k] EXCEPT !.at = "failed"] ELSE call[k]]
        /\ op' = IF bad THEN NoCall ELSE op
        /\ asked' = IF bad THEN [d \in Data |-> NoCall] ELSE asked
        /\ \/ wakes /\ \E p \in Prompt : First(p) /\ Start(p, st, ids, cp)
           \/ /\ ~wakes \/ Waiting = {}
              /\ stage' = st /\ scopeIds' = ids /\ completers' = cp
              /\ processing' = (processing /\ ~wakes)
              /\ generating' = FALSE
              /\ currentScope' = IF throws THEN currentScope ELSE NoScope
              /\ UNCHANGED <<current, toChild>>
        /\ UNCHANGED <<place, scopes, closed, listening, child, handled, solo, strayed>>

-----------------------------------------------------------------------------
(* The child.                                                              *)
Handle(kind) ==
    /\ toChild # <<>> /\ Head(toChild).kind = kind
    /\ running = {} \/ "interleave" \in Env
    /\ toChild' = Tail(toChild)
    /\ handled' = IF Head(toChild).call \in Call THEN handled \cup {Head(toChild).call}
                                                 ELSE handled
    /\ UNCHANGED <<parent, solo, missed>>

Say(kind, m) ==
    toParent' = Append(toParent, [kind |-> kind, prompt |-> m.prompt, id |-> m.id, call |-> m.call])
Answered(kind) == Say(kind, Head(toChild)) /\ UNCHANGED strayed
Refused == Say("error", Head(toChild)) /\ strayed' = TRUE

HandleStop ==
    /\ Handle("stop")
    /\ shouldStop' = TRUE
    /\ Answered("confirm")
    /\ UNCHANGED <<busy, running, texts, slots, loaded>>

HandleClear ==
    /\ Handle("clear")
    /\ shouldStop' = TRUE
    /\ busy' = FALSE
    /\ \/ loaded /\ Answered("confirm")
       \/ (~loaded \/ "refuse" \in Env) /\ Refused
    /\ UNCHANGED <<running, texts, slots, loaded>>

HandleFree ==
    /\ Handle("free")
    /\ shouldStop' = TRUE
    /\ slots' = slots \ {Head(toChild).scope}
    /\ Answered("confirm")
    /\ UNCHANGED <<busy, running, texts, loaded>>

(* The slot a command creates.  Mutant: one without scope creates one too. *)
SlotOfAny(s) == {s}
SlotOf(s) == {s} \cap Scope

HandleLoad ==
    LET s == Head(toChild).scope IN
    /\ Handle("load")
    /\ \/ ~loaded /\ UNCHANGED <<slots, toParent, strayed>>
       \/ loaded /\ ~busy /\ slots' = slots \cup SlotOf(s) /\ Answered("confirm")
       \/ /\ loaded /\ (busy \/ "refuse" \in Env)
          /\ slots' \in {slots, slots \cup SlotOf(s)}
          /\ Refused
    /\ UNCHANGED <<shouldStop, busy, running, texts, loaded>>

HandleSave ==
    LET able == ~busy /\ Head(toChild).scope \in slots IN
    /\ Handle("save")
    /\ \/ ~loaded /\ UNCHANGED <<toParent, strayed>>
       \/ loaded /\ able /\ Answered("save")
       \/ loaded /\ (~able \/ "refuse" \in Env) /\ Refused
    /\ UNCHANGED child

HandleCount ==
    /\ Handle("count")
    /\ \/ loaded /\ Answered("count")
       \/ (~loaded \/ "refuse" \in Env) /\ Refused
    /\ UNCHANGED child

HandleDispose ==
    /\ Handle("dispose")
    /\ shouldStop' = TRUE /\ loaded' = FALSE /\ busy' = FALSE /\ slots' = {}
    /\ Answered("confirm")
    /\ UNCHANGED <<running, texts>>

(* The new prompt takes back a stop that a running loop has not seen yet.  *)
HandlePrompt ==
    LET m == Head(toChild)
        s == m.scope
    IN  /\ Handle("prompt")
        /\ shouldStop' = FALSE
        /\ \/ /\ loaded /\ ~busy
              /\ slots' = slots \cup SlotOf(s)
              /\ busy' = TRUE /\ running' = running \cup {m}
              /\ UNCHANGED <<toParent, strayed>>
           \/ /\ ~loaded \/ busy \/ "fail" \in Env
              /\ slots' \in {slots, slots \cup SlotOf(s)}
              /\ Answered("error")
              /\ UNCHANGED <<busy, running>>
        /\ UNCHANGED <<texts, loaded>>

(* One turn of the loop of _sendPrompt for the command m: a text, the end  *)
(* (or the stop that it sees), or an exception.                            *)
Token(m) ==
    /\ m \in running /\ ~shouldStop /\ texts[m.prompt] < MaxText
    /\ texts' = [texts EXCEPT ![m.prompt] = @ + 1]
    /\ Say("text", m)
    /\ UNCHANGED <<parent, shouldStop, busy, running, slots, loaded, toChild,
                   handled, solo, missed, strayed>>

Leave(m, kind) ==
    /\ m \in running
    /\ running' = running \ {m} /\ busy' = FALSE
    /\ Say(kind, m)
    /\ UNCHANGED <<parent, shouldStop, texts, slots, loaded, toChild,
                   handled, solo, missed, strayed>>

Finish(m) == Leave(m, "done")
Fail(m) ==
    /\ "fail" \in Env \/ ~loaded \/ m.scope \in Scope \ slots
    /\ Leave(m, "error")

-----------------------------------------------------------------------------
Caller ==
    \/ \E p \in Prompt : SendPrompt(p)
    \/ \E k \in Call :
         \/ Stop(k)
         \/ Clear(k)
         \/ Shutdown(k)
         \/ \E s \in Scope : \/ \E queuedToo \in BOOLEAN : ScopeStop(k, s, queuedToo)
                            \/ DisposeScope(k, s)
                            \/ Load(k, s)
                            \/ \E d \in Data : Ask(k, d, s)
Disposal ==
    \E k \in Call : \/ \E s \in Scope : DownScope(k, s)
                   \/ DownChild(k)
                   \/ Unsubscribe(k)
ParentHears == \/ OnText \/ OnDataAnswer \/ OnConfirm
               \/ \E told \in SUBSET (scopes \ closed) : OnEnd(told)
ChildHears == \/ HandleStop \/ HandleClear \/ HandleFree \/ HandleLoad \/ HandleSave
              \/ HandleCount \/ HandleDispose \/ HandlePrompt
Generation == \E m \in running : Token(m) \/ Finish(m) \/ Fail(m)

Next == Caller \/ Disposal \/ (\E k \in Call : Timeout(k)) \/ ParentHears \/ ChildHears \/ Generation

(* Both event loops run, and a generation comes to its end.                *)
Fairness == /\ WF_vars(ParentHears)
            /\ WF_vars(ChildHears)
            /\ WF_vars(\E m \in running : Finish(m))

Spec == Init /\ [][Next]_vars /\ Fairness

-----------------------------------------------------------------------------
(* The prompt commands that the child has not dealt with.                  *)
Queued == {toChild[i] : i \in DOMAIN toChild}
Said   == {toParent[i] : i \in DOMAIN toParent}
Accepted == running \cup {m \in Queued : m.kind = "prompt"}

(* The parent never has to stop a generation in order to start the next:   *)
(* when the queue is free, nothing generates (_processNextPrompt,          *)
(* isolate_parent.dart:305).                                               *)
NeverInterrupts == ~processing => ~generating

(* While no command was refused, the child has at most one prompt at a     *)
(* time, running or on its way (isolate_parent.dart:276-357).              *)
OneAtATime == ~strayed => \A m \in Accepted, n \in Accepted : m = n

(* Whoever waits for a prompt is told when it ended, not when something    *)
(* else did (isolate_parent.dart:182-191, waitForCompletion).              *)
EndsAfterAnswer == ~strayed => \A m \in Accepted : stage[m.prompt] = "sent"

(* The same when commands are refused: doc/isolate.md, waitForCompletion.  *)
WaitEndsWithPrompt == \A m \in Accepted : stage[m.prompt] = "sent"

(* Text and completions reach the prompt they belong to, and of the open   *)
(* scopes that were told of every completion only its own: the id that the *)
(* child echoes is not lost, and not taken over by a later prompt of the   *)
(* same millisecond.                                                       *)
TagsRight ==
    ~strayed => \A m \in Said : m.kind \in {"text", "done"} =>
        /\ completers[m.id] = m.prompt
        /\ \A s \in scopes \ (closed \cup missed) :
               m.id \in scopeIds[s] <=> s = ScopeOf[m.prompt]

(* A stop stays in force until the generation it was meant for has ended:  *)
(* only a prompt takes it back, and none comes before (isolate_child.dart, *)
(* shouldStop).                                                            *)
StopSticks == [][~strayed /\ shouldStop /\ ~shouldStop' => running = {}]_vars

(* A command that was sent while none was under way is answered by its own *)
(* confirmation (_operationCompleter).                                     *)
OwnAnswer == \A k \in solo : call[k].at = "ok" => k \in handled

(* Every prompt ends, or is refused, unless the parent is disposed of:     *)
(* again and again none is under way.                                      *)
Idle == \A p \in Prompt : stage[p] \notin {"queued", "sent"}
PromptsEnd == []<>(Idle \/ ShuttingDown)
=============================================================================
