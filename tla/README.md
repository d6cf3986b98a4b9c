# Verification of llama_cpp_dart

TLA+ models of the Dart side of llama_cpp_dart, checked with TLC on small
instances and, for the properties that matter most, proved with TLAPS for every
value of the constants. Paths below are relative to `lib/src` of the repository.

## 1. The system

`LlamaService` (`core/llama_service.dart`) serves many conversations with one
llama.cpp context. The context has `n_seq_max` sequences ("slots"); there may be
more sessions than slots, so a session moves between three tiers: *hot* (its KV
cells are in a slot), *warm* (a snapshot in RAM) and *cold* (a `.state` file in
`sessionHome`). Everything runs in one Dart isolate. Code between two awaits
is atomic; at each await another caller, the scheduling loop `_runLoop` or the
shutdown may run. That, the files that outlive the process, and the native
memory that Dart does not guard, are where the difficulty lies.

| Component | State | Operations | Interaction | What makes it correct |
|---|---|---|---|---|
| Sessions, slots, tiers, files (`llama_service.dart`, `service/session.dart`, `service/state_codec.dart`) | `_sessions`, `_sessionsBySeqId`, `_freeSeqIds`, fields of each `ServiceSession`, KV cells, `.state` files | create, cancel, free, setPrompt, save, load, evict, archive, restore, persistAllAndDispose, dispose | called by applications; shares all of it with the loop and the janitor | each slot in one place; cells belong to the session that is bound; position = history; persisted histories are on disk |
| Scheduling loop (`llama_service.dart:590-910`) | batch, rotation index, pending items, `nPos` | fill, decode, sample, shift, fail | reads sessions by slot id, ends requests | token positions consecutive; no token of an ended request; every request served |
| Requests and streams (`llama_service.dart:383-582`, `service/session.dart`) | `requestId`, completers, output buffer | start, flush, complete, listen | application awaits what the loop completes | output of one request never reaches another; every request completes |
| Vision (`service/vision_helper.dart`, `generateWithMedia`) | pending embeddings, native buffers | split prompt, queue chunks | feeds the loop's embedding pass | order of chunks; each buffer freed once |
| ModelCache | reference counts | acquire, release | one handle per service | a model is freed when its last user goes |
| `Llama` (`core/llama.dart`, `llama_session_io.dart`, `llama_slot.dart`) | status, slots, token history, position | setPrompt, generate, trim, save, load, dispose | used by the isolate child | rollback restores position and history; trim keeps positions consecutive |
| Isolate parent and child (`isolate/*`) | prompt queue, one command completer, completer per prompt, `shouldStop` | sendPrompt, stop, clear, load, dispose, scopes | messages between two isolates, timeouts of 2, 10, 30 and 60 s | an answer reaches its own request; every prompt ends; stop is not lost |
| `ParallelDecoder`, `Reranker`, LoRA adapters | little | thin calls | use the service or `Llama` | ids unique, adapter set matches the context |
| Chat, prompt formats, tool calling, GBNF, text chunker, UTF-8 accumulator | values | pure functions | | chunks cover the text; no byte lost; trim keeps the system message |
| MCP client and server | pending requests | call, timeout, close | process pipe | each answer completes its request once |
| FFI bindings, headers, build files | | | | generated or vendored, not modelled |

Hard behaviours, by kind: awaits between reading and using a session
(restore, archive, load, persist); two calls on one session at once; a loop
that finds sessions by slot id over such awaits; errors between two updates;
files written non-atomically and read by the next process; timeouts of
commands whose answer still comes. `PROJECT.json` lists each one at its line.

## 2. The order of the work

Each module after the first reuses the conventions of the first.

1. `SessionService` with the abstract `SlotPool`: sessions, slots, tiers, files
   and shutdown; proved.
2. `SessionScheduler`: the turns of `_runLoop` in detail; proved. Its effect on
   slots is the action `Advance` of module 1.
3. `IsolateProtocol`: parent and child as two processes with two ports and
   timeouts; proved.
4. `LlamaContext`: slots, prompts, trims, generations and state copies of `Llama`;
   proved.
5. `SessionRequests` with the abstract `TextLog`: requests, completers, buffered output
   and its replay, for one session; types, the ownership of texts, what may still be under
   way and the refinement proved, liveness model-checked.

Each service module takes the others' effect as a choice: `SessionService` has the
loop as `Advance` and `DecodeFail`, `SessionScheduler` has every session hot,
`SessionRequests` has tiers as one flag. They are not composed into one module: the
product of their states is beyond TLC, and they share only what each keeps - status,
pending items and the tier. What remains is listed in section 7 with its reason.

## 3. Modules

| Module | What it is |
|---|---|
| `SessionService` | The service. One action per handler, or per stretch of a handler between two awaits |
| `SlotPool` | What the service promises about slots: free or held by one session; `SessionService` implements it (`PoolSpec`) |
| `MCSessionService` | Symmetry and a view for TLC: two states that differ only in garbage objects are one |
| `SessionService_proof` | The inductive invariant `IInv` and the theorems that follow from it; whose cells are where |
| `SlotPool_proof` | `Spec => PoolSpec` |
| `SessionAwaited_proof` | What holds when calls are awaited: no slot lost, positions = histories, the persisted shutdown |
| `SessionScheduler` | The scheduling loop: one action per iteration of the filling loop, per outcome of a decode and per wait; the application between turns |
| `MCSessionScheduler` | A media prompt and a view for TLC: after a failed decode the cells, of which nothing is claimed then and which no guard reads, are left out |
| `SessionScheduler_proof` | The inductive invariant of the loop and the theorems that follow from it |
| `SessionRequests` | The requests and the output stream of one session: callers, loop and microtasks |
| `TextLog` | What a session promises about texts, each by itself: a log that grows until it is decided, and readers that take it piece by piece, from the start unless they came late; not that they get all of it. `SessionRequests` implements it (`TextSpec`) |
| `MCSessionRequests` | A view for TLC: fields of a caller that nothing reads any more, and requests that are over and have no listener, are left out |
| `SessionRequests_proof` | Types, whose text is where, where what is missing is, and `Spec => TextSpec` |
| `IsolateProtocol` | `LlamaParent`, its scopes and `LlamaChild`, with the ports between them |
| `MCIsolateProtocol` | Which prompt is sent with the scope |
| `IsolateProtocol_proof` | The pairing of completers, commands in flight and running prompts |
| `IsolateCalls_proof` | Whose confirmation a command takes |
| `LlamaContext` | `Llama`: one context per slot and one batch for all |
| `MCLlamaContext` | A view for TLC: what no guard and no invariant reads is left out |
| `LlamaContext_proof` | The inductive invariant of positions, cells and batch |

### State of `SessionService`

`sessions`, `bySeq` and `nFree` are the two maps and the free list; `nFree`
counts, because a slot returned twice would be twice in the list. `kv[s]` is
llama.cpp's memory of one sequence, as far as the service relies on it: whose
conversation it holds and how many cells. `files` holds, per path, the history,
the position of the header, and whether the file is whole. `ident` ... `pending`
are the fields of each `ServiceSession` *object*. Objects and names differ: after
`freeSession`, or `loadSession` under the same name, a suspended `setPrompt` still
has the old object. An object that nothing refers to may be created anew
(`Reachable`), which keeps the instance finite without bounding how many sessions
there are in a behaviour. `call[c]` says at which await application task `c` is
suspended and what it has in local variables. `todo`, `jwrite`, `pwrite` are the
same for the janitor and for `persistAllAndDispose`.

### Actions and code

| Code (`core/llama_service.dart`) | Actions |
|---|---|
| `createSession` 181 | `CreateSession` |
| `cancel` 218 | `Cancel` |
| `freeSession` 233 | `FreeSession`; with `deleteDiskFile`: `FreeAndDelete`, then `DeleteFile` |
| `setPrompt` 271 | `PromptHot` (no await); `PromptWarm`, `Resume`; `PromptCold`, `ReadDone` or `ReadFail`, `Resume`; `PromptNoSlot` |
| `_evictSession` 1047 | part of `PromptWarm`, `PromptCold` (`Acquire`) and `PersistEvict` |
| `_restoreSession` 1095 | `Acquire`, `Reserve`, `RestoredCells`, `ReadDone`, `ReadFail` with `GiveUp` (1157-1163) |
| `_archiveSession` 1075 | `JanitorNext`/`JanitorWritten`/`JanitorFailed`, `PersistEvict`/`PersistWritten`/`PersistFailed`, `BecomeCold` |
| `_runLoop` 590 | `Advance`, `DecodeFail`, `NotHot`, `LoopExit`, `JanitorStart`, `JanitorNext`, `JanitorStop` |
| `persistAllAndDispose` 919 | `PersistBegin`, `PersistEvict`, `PersistWritten`, `PersistFailed`, `PersistDispose`, `Teardown` |
| `dispose` 957 | `Dispose`, `Teardown` |
| `saveSession` 1290 | `SaveSession`, `SaveRead`, `SaveDone` or `SaveFailed` |
| `loadSession` 1341 | `LoadSession`, `LoadCheck`, `LoadRead`, `LoadFail` |
| the process dies, the next one starts | `Restart` |

The janitor may start a pass after `dispose` has begun: a loop that waits at the top of its
turn (602) comes to it before it looks at the stop signal again.

Data that no property tells apart is left out: tokens, prompts, samplers, text,
`nKeep`, timestamps. Order by `lastActiveTime` and the order of the free list are
replaced by a free choice, so what holds in the model holds for every order.

### State and actions of `SessionScheduler`

Every session is hot and the list of sessions does not change; they are numbered
in the order of `_sessions`. `pending[i]` is the queue of `PendingItem`s: a token, or
an image with the embeddings still to be sent. `cells[i]` is the set of positions
llama.cpp has for the sequence; `gap[i]` remembers that a decode failed since they
were last removed. `called` has the sessions whose `generateWithMedia` returned a
stream nobody listens to yet. The rest is the loop: `last` is
`_lastScheduledSessionIndex`, `start` and `k` are `rotateStart` and `i`, `batch[i]` counts the
rows of a session, `used` is `batchIdx`, `signal` says that `_workSignal` is completed.

| Code (`core/llama_service.dart`) | Actions |
|---|---|
| `setPrompt` 271, `cancel` 218 | `SetPrompt`, `Cancel` |
| `generateWithMedia` 443, `_generateWithMediaBody` 477 | `GenerateWithMedia`, then `MediaBody` when the stream is listened to |
| start of a turn 596-652 | `StartTurn` |
| an iteration of the filling loop 655-800 | `Skip`, `PassOver`, or `Fill` with `ShiftOf`/`Shifted` (688-710), `Quota` (712-714), `Leads` (770-792), `Taken` (750-763) |
| after a pass 802-905 | `NothingToDecode`, `DecodeOk`, `DecodeFail`, `DelayOver`; all but `DecodeFail` include `PassEnd` |
| the work signal 901-904 | `WakeUp` |

The loop lets others run at the top of a turn (a 10 ms time slice, so at any
turn), while it waits for work, and for 50 ms after a failed decode (`Yielded`).
Filling, decoding and sampling have no await in between, so the checks for ended
requests at 861-863 cannot fire there while the list is fixed; the model has
no step for them.

### State and actions of `SessionRequests`

One session. `rid`, `registered` and `ended` are `requestId`, the keys of
`requestCompleters` and the requests whose completer was completed (0 stands for
`doneFuture` of a request without one, which is completed at once). `buffer` and
`bufId` are `outputBuffer` and `bufferRequestId`; a piece of text is the pair of its
request and its place in the generation. Each caller is a task of the application:
where it is suspended, the request it listens to, the events queued for it and the text it
has. Dart delivers one event for each microtask and runs microtasks only when
the loop waits: `slice` says that the loop has not waited since its last turn, and
`heard` that an event has reached a listener since its request ended, behind
which the completion is served. The caller of `generateText` listens only when its `setPrompt`
has returned (438-440; at "opening", action `Open`), but the prompt has woken the loop before
(`woken`), so the first slice may run first: the text is then in the buffer, or the request
has ended. The model also lets the loop wait before that slice, as it does for time on behalf
of other sessions. `made`, `fate` and `late` are history.

| Code | Actions |
|---|---|
| `setPrompt` 271, `generateText` 425-439 | `SetPrompt`, `Resume` after a restore; both end in `Body` (301-380: `_startRequest` 1020, then items or failure) and `Return`; `generateText` goes on in `Open` |
| `generateWithMedia` 443, its body 477 | `Media`, `MediaBody`, `Resume` |
| `generateCompleteText` 383 | `Collect`; a listener is `Listen` (also `_streamRequest` 545 and `onListen`, session.dart:90) |
| `generateText` without a prompt | `ListenRaw` |
| `cancel` 218, `freeSession` 233 | `Cancel`, `FreeSession` |
| `_runLoop` | `Turn` (851-896 with `flush` and `completeGeneration`), `DecodeFail` (808-832), `Yield`, `LoopEnds`; another session's restore: `Evict` |
| a listener's microtasks | `Deliver`, `End` |

### State and actions of `IsolateProtocol`

The parent's fields, the child's fields and the two ports as sequences. A prompt
goes through `stage`: queued, sent, done or refused. `call[k]` is one call of any
other method, with the point at which it is suspended; `op` is the call whose completer
is `_operationCompleter`. Ids are the milliseconds of `sendPrompt`, so two prompts may be
given the same. A step is the code between two awaits with the continuations that a
response wakes. The child handles commands in order; between two tokens of a generation
it handles the next command if `Env` has "interleave".

| Code (`isolate/`) | Actions |
|---|---|
| `sendPrompt`, `_processNextPrompt` (isolate_parent.dart:276-357) | `SendPrompt` (also while or after `dispose` runs, which does not refuse it), `Start`; the queue goes on in `OnEnd` |
| `stop` 366, `clear` 374, `loadState`, `tokenize`, `saveState`, `dispose` | `Stop`, `Clear`, `Load`, `Ask`, `Shutdown` with `DownScope`, `DownChild`, `Unsubscribe`; `Timeout` for each await with a timeout, `AfterStop` |
| `LlamaScope.stop`, `dispose` (isolate_scope.dart) | `ScopeStop`, `DisposeScope` with `Release`, which `dispose` of the parent uses too (`DownScope`) |
| `_onData` 114-205 | `OnText`, `OnDataAnswer`, `OnConfirm`, `OnEnd`, where a closed scope that throws keeps the scopes behind it from being told (`Told`, `missed`) |
| `LlamaChild` handlers (isolate_child.dart) | `HandleStop`, `HandleClear`, `HandleFree`, `HandleLoad`, `HandleSave`, `HandleCount`, `HandleDispose`, `HandlePrompt` |
| its generation loop 289-306 | `Token`, `Finish`, `Fail` |

### State and actions of `LlamaContext`

`cells[s]` is the set of positions the context of a slot holds, `n` and `pos` the batch
all slots share; the batch is `meddled` when the slot changed under it. A prompt is put into the memory
in chunks of `n_batch`, and its last chunk waits in the batch for `getNext`. How llama.cpp
answers the removal and the shift of positions is a choice made once (`Backend`). `Env` names
what may go wrong in an instance; each of the four breaks the agreement of position and
cells (`CellsMatch`), which TLC shows with any one of them alone:

| `Env` | What happens |
|---|---|
| `chunk` | a chunk of a prompt behind a history fails: the memory is cleared and `nPos` set back to the end of that history (llama.dart:596-607) |
| `ubatch` | a `llama_decode` on a slot that has a history fails half way and leaves cells behind |
| `load` | a `loadState` or `loadSession` into a slot that has a history fails after it emptied the memory |
| `mixed` | the application goes on with a batch, or a stream of `generateWithMedia`, after another call changed the slot it was made for (`setSlot` after the `clear` of 786, `loadState`, `freeSlot`) |

| Code (`core/llama.dart`) | Actions |
|---|---|
| `createSlot`, `setSlot`, `freeSlot` 195-269 | `CreateSlot`, `SetSlot`, `FreeSlot` |
| `setPrompt` 469-621 with `_maybeTrimContext` 280-322 | `SetPrompt` with `Trim`, `Shift`, `Decoded` |
| `generateText` 711-731 with `getNextWithStatus` 641-690 | `StartText`, `GetNext`, `NoContext`, `Cancel` |
| `generateWithMedia` 771-927 | `StartMedia`, `MediaTurn`, `NoContext`, `Cancel` |
| `clear` 992, `getEmbeddings` 1037, `dispose` 931 | `Clear`, `GetEmbeddings`, `Dispose` |
| `saveState`, `loadState`, `saveSession`, `loadSession` 1161-1211 | `SaveState`, `LoadState` |

## 4. Runs

The constant `Env` names what the environment does in an instance: each run says
which of cancel, free, load, save, clear, janitor, persist, I/O errors, unreadable
files, decode failures and crashes may happen, whether calls on one session may
*overlap* (the application did not await the first) and whether calls go on during shutdown
(*late*). A property checked with a kind left out is claimed only without it.

| Run | Instance | What it shows |
|---|---|---|
| `SlotsEvict` | 2 names, 2 objects, 2 slots, 2 callers, 1 position; cancel, overlap, janitor, I/O errors, decode failures, persist, crash | `TypeOK`; each slot is in exactly one place, a free one is empty, map and sessions agree; a slot never holds a foreign conversation; making room spares running requests; refinement of `SlotPool`, through overlapping restores, shutdown, crash and restart |
| `Awaited` | 2 names, 2 objects, 1 slot, 2 callers, 1 path, 2 positions; cancel, free, load, save, clear, persist, unreadable files; no overlap, nothing late | no slot is lost; a cold session has none; position = history in context, RAM and files; the persisted shutdown loses nothing |
| `StuckPrompt` | nothing but prompts | **violated**: `GeneratingHasRequest` |
| `Scheduler` | 2 sessions, 2 rows, cap 1, n_ctx 4, margin 1, prompts of 2 tokens, one session with media prompts (a token, then an image of 2) | `TypeOK`; positions are consecutive; a batch fits its rows; who generates has work; text stays within n_ctx; without a vision model every session is served |
| `RotationVision` | 2 sessions, 1 row, prompts of 1 token | **violated**: `Served` |
| `Requests` | 1 session, 2 callers, 2 requests, 2 pieces of text | `TypeOK`; text reaches only the listener of its request; a listener that came in time lacks only what is on its way or in the buffer; refinement of `TextLog`; a listener of the current request is told its end |
| `Isolate` | 2 prompts, one with a scope, 2 other calls, 1 piece of text; all but refused commands and failing generations | `TypeOK`; no prompt is started over a running one; one prompt at a time in the child; a prompt ends when it ended; ids and scopes are right; a stop is not forgotten; a lone command has its own answer; the queue never stalls |
| `IsolateWait` | 2 prompts, 1 call of a state method | **violated**: `WaitEndsWithPrompt` |
| `Context` | 2 slots, n_ctx 5, n_batch 2, margin 2, keep 2, prompts of 1 and 3 tokens, three kinds of memory; `Env` empty | `TypeOK`; cells and position agree; what waits in the batch goes behind them and fits; the current slot exists |
| `ContextTrim` | the same | **violated**: `PromptWhole` |
| `ContextRollback` | the same with "chunk" | **violated**: `RetryIsClean` |
| `LostTail` | 1 caller, 1 request, 2 pieces of text | **violated**: `FullText` |

Bounds. Two sessions and two slots are the smallest instance in which two restores of one
session overlap while another session competes (each can take both slots, so eviction
happens too); two objects the smallest in which a name changes hands while the old object is
still in use. `MaxLen` (n_ctx) is 1 or 2: the properties tell an empty
history from a non-empty one, and a longer one from a shorter. The proofs lift all of these
for the properties they cover. Freeing, saving and loading are in `Awaited`, where calls do
not overlap; the runs would take more than five minutes with everything at once. By hand the properties
of `SlotsEvict` were checked on two more instances, which pass: one name, two slots and two
callers with overlapping loads and saves, unreadable files included (710 thousand states), and
one slot and two callers with all kinds of `Env` but "clear", so with calls during
shutdown too (412 thousand states). The theorems hold for every `Env`.
In `Scheduler` two rows and two sessions make batches
that one session fills and batches they share; a cap of one splits an image over
batches; prompts of two are chunked when one row is taken; n_ctx 4 with margin 1 makes
shifts happen with and without a kept prefix. One unlistened stream per session
at a time is a bound of the model itself. In `Requests` two callers and two requests let
one request replace another while both are listened to, and two pieces of text tell a
request that ends at once from one that goes on; the view leaves out fields of callers that no
guard and no property reads any more. In `Isolate` the second prompt waits in the queue
while the first one runs, and any two other calls go with them, so that one of them is superseded,
times out, or disposes while the other is under way; "refuse" and "fail" are left out of
the run for its size, and the theorems have them. With one scope nobody stands behind a scope
that throws; by hand two scopes and three prompts (overlap, scope, stop; 417 thousand states)
pass, and there `TagsRight` fails without its exception for scopes that `missed` a completion.
In `Context` a prompt of one token fits a batch and one of three needs two; n_ctx 5 makes trims happen before the prompt, between
two tokens and not at all. With one slot, `TypeOK`,
`PrimedAtEnd`, `FitsContext` and `CurrentLives` were also checked by hand with all four kinds of
`Env` (240 thousand states); the theorems about them need no condition on `Env`.
`CHECK_DEADLOCK FALSE`: a service with nothing to do stops, and a disposed one may stay so.

Fairness. `SessionService` states none: its runs check safety. `SessionScheduler`
states `WF_vars(Loop)`: the loop is a Dart coroutine that the isolate's event loop
resumes whenever what it awaits is there, so it does not stop for ever where it can
go on. Nothing is assumed of the application, of decodes (each may fail) or of
sampling (a request may never end). `SessionRequests` states weak fairness of the loop's
steps and of each listener's microtasks, which the same event loop runs; that a request
ends follows from `n_predict` (`MustEnd`). `IsolateProtocol` states weak fairness of both
event loops (`ParentHears`, `ChildHears`) and of the end of a generation, which `nPredict`
bounds; nothing is assumed of timeouts. `LlamaContext` states none.

### What the violated runs show

* `StuckPrompt`: `setPrompt` sets `generating` (290) before `_restoreSession`
  (295), which throws outside the try block when no slot can be had. The
  session stays *generating* with no request; only `cancel` helps.
* `RotationVision`: each visit of the filling loop sets `_lastScheduledSessionIndex`,
  also one that puts nothing in the batch (666, 672). The embedding pass visits every
  session in rotation order, so it leaves the index where the turn began, and
  the next turn starts with the same session. When that session fills the batch of the
  token pass, the others wait as long as it goes on. With `n_batch` 1 this is
  every turn; with larger batches it takes long prompts or many sessions.
  `TextServed` shows that the embedding pass is the cause: without it all are served.
* `IsolateWait`: an error answer has no prompt id (isolate_types.dart:125-133), and the parent
  ends the current prompt on any such answer (isolate_parent.dart:182-191). A `saveState` of a
  scope without a slot, followed by a prompt, completes that prompt while its command
  still waits in the child's queue.
* `ContextTrim`: `_maybeTrimContext` lowers `_nPrompt` by what it cut (llama.dart:305, 315),
  but in `setPrompt` that is by then the length of the new prompt, and only that many of its
  tokens are put into the batch (534-544): the end of the prompt is dropped.
* `ContextRollback`: a prompt behind a history fails in a chunk. The catch block clears the whole
  memory and sets `_nPos` back to the end of that history (llama.dart:596-607). The memory is
  empty now, the position is not, and `setPrompt`, which starts afresh only at position 0
  (486-493), accepts the retry: what the comments at 555-560 and 597-598 and the CHANGELOG of 0.3.8
  say the rollback prevents. For a first prompt the rollback does what they say.
* `LostTail`: `generateCompleteText` cancels its subscription when the completer is completed
  (413-415), `_streamRequest` likewise (571-574). Completion and events are microtasks of their own,
  one event each, so the completion overtakes the second of two queued events and the end of
  the text, or an error, is lost. The first flush of a listener is immediate, so a text that starts and
  ends within one slice of 10 ms makes two events.

Two more comments are contradicted by the models without a run of their own:

* `_archiveSession` awaits its write and then sets `tier = cold` (1088-1092). If `setPrompt`
  restored the session meanwhile, a session that is bound and generating is marked cold, although
  session.dart:20-22 says "In VRAM" of hot and "On Disk" of cold sessions; it is no longer a candidate
  for eviction, and its next prompt restores the older file into a second slot. With "janitor"
  added to `Env` of `Awaited.cfg`, TLC finds `ColdMeansOnDisk` violated in this way.
* The comment of line 31 promises to "cap tokens per session per scheduling pass"; the cap applies
  only when one item is pending (712-714, `SessionCap`), so a long prompt takes the whole
  batch of a pass. No property states the cap; `TextServed` is what fairness is left.

More facts met on the way: with overlapping calls a slot can be lost for good (`freeSession`
during a restore); after a failed decode `nPos` is ahead of the cells (`PositionsFollow`
says until when); a media prompt may take more positions than `n_ctx`; `cancel` before
the stream of `generateWithMedia` is listened to does not stop the body of that stream,
which queues its items all the same; a prompt is accepted while `persistAllAndDispose`
awaits its writes, and its slot is then freed unsaved; a request that another one replaces (a
media stream listened to late) never ends, nor does one of a freed session or after the loop has
ended; two commands of an isolate under way at once take each other's confirmations; after
`dispose` a sent prompt is completed by nobody; a `generateWithMedia` makes the status
ready under its own stream, so that `setSlot` is not refused. `Awaited` states what is true of slots without
overlapping calls.

## 5. Proofs

Every safety property of the passing runs is a theorem. Everything below is proved for every
`Id`, `Obj`, `Slot`, `Caller`, `UserPath`, `MaxLen > 0` and `Env`, from `NullAssumption` alone
(the null values are not members of the sets they complement), so with all kinds of overlap,
error and crash unless a theorem says otherwise; for the scheduler, for every number of
sessions, `NBatch`, `Cap`, `NCtx`, `Margin` and every set of prompts, from `SizeAssumption`
(sizes are positive, prompts not empty); for requests, isolates and contexts, for every number of
callers, requests, prompts, calls, scopes and slots and every size of text, context and batch,
from `SizeAssumption` and `NullAssumption` of those modules.

**The invariant of the service.** `SlotAccounting` alone is not inductive: whether a slot may be
given back depends on what suspended calls hold, on what sessions that are no
longer in `_sessions` believe, and on what the shutdown left. `IInv` is `TypeOK`, `CallOK`
(what each suspension point knows: the object has a name, a reading call holds a
slot) and `SlotsOK`, with the parts

* `NamesMatch`: a session is registered under its own name,
* `SlotAccounting`, `BoundIsMapped`,
* `ReservedApart`: the slot reserved for a session is not the one it believes to have,
* `UnmappedIsEmpty`: a slot nobody is mapped to has no cells - this is what makes
  giving a slot back sound, and what `FreeSlotsAreClean` follows from,
* `GoneIsEmpty`: once the context is freed names and slot map are empty.

`Inductive` proves `Spec => []IInv` with one step per action; the theorems
`TypeCorrect`, `SlotsAccounted`, `BoundMapped`, `FreeClean` follow from it, and
`EvictionSpares` is an action property proved from it. `Refinement`
(`SlotPool_proof`) maps each action to `Take`, `HandOver`, `Return`, `Close`,
`Reopen` or a stutter. `NoForeign` adds an invariant that
follows a history through snapshot, file, reader and slot; it assumes that the
paths given to `saveSession` and `loadSession` are not the service's own
`.state` files (`UserPath \cap Id = {}`), without which the application could
load one session's archive under another's name behind the service's back.

**What awaited calls give** (`SessionAwaited_proof`). Four properties are false when a task calls
while an earlier call on the session is suspended ("overlap"), when the janitor archives what
a prompt is restoring ("janitor"), or when calls go on during shutdown ("late"), and the
theorems state that as their hypothesis, `Careful`. Each of the three is needed: with any one of
them in `Env` and two slots, TLC finds `NoSlotLeak`, `PositionMatchesHistory` and
`PersistedIsOnDisk` violated, and `ColdMeansOnDisk` with "janitor" or "late". Under `Careful`,
`TidyOK` is inductive beside `IInv`: no two calls are about one session or path (`OwnCall`), what a
suspended call has read is still so (`CallTidy`: the object is registered under its name,
it is cold while its file is read, its name is free while a file is loaded under it), a mapped slot
has a live session that knows it, and what the shutdown is writing has no slot (`Parked`).
`NoLeak` and `ColdIsOnDisk` follow, with crashes, failed decodes and write errors.
`MatchOK` follows a length through its life: a file that nobody is writing is whole and its
header has the length of its history, and so has what is being saved (`FilesWhole`,
`SavesWhole`); until shutdown a cold session is one that was not restored yet (`ColdIsNew`);
and what the shutdown has not written yet it is writing, in the length its session says
(`Parking`). This needs that nothing fails as well: with "crash", "ioerr" or "decode" in `Env` TLC
finds both properties violated. `PositionsMatch` and `PersistedOnDisk` follow; like `NoForeign`, they
keep the application's files apart from the service's.

**The invariant of the scheduler.** `PositionsFollow` is not inductive: the shift
computes with `nPos`, while the cells end at `nPos - batch[i]`, so the two agree only
if the session has no row in the batch yet. `BatchOK` says that who has rows was visited
in this pass, and `VisitsDiffer` that no two iterations of a pass visit the same session; it
also bounds the rows and empties the batch outside the filling loop. `RoomForPending`
strengthens `WithinContext`: without a vision model a queue is one sampled token, before which
a shift is possible, or fits as a whole. `NoPositionTwice` goes on through failed decodes,
where `PositionsFollow` gives up. `Inductive` has one lemma per action;
`TypeCorrect`, `PositionsConsecutive`, `PositionsNotReused`, `WorkRemains`, `ContextHolds`
and `RowsSuffice` follow. The rows of a batch and the items of a prompt are sums, folds over a
finite set whose induction rule the provers cannot instantiate. The lemma `SmallestSet`
stands in for it: strict inclusion is well-founded among the subsets of a finite set (the
library's `FS_StrictSubsetOrderingWellFounded` and `WFMin`, which are about sets and need
no operator), so among the subsets for which a sum is not what it should be one is smallest, and
taking the chosen element out of that one gives the contradiction.

**The invariant of the requests.** `OwnText` is about what callers have collected; what
keeps it is that nothing foreign is on its way. `Tagged` says that the buffer belongs to the
current request under its number, that each queued event holds only text of the number it
carries, and that each caller's text is of its request. `Budget` (no text
beyond the current request; a generation that has work has a piece left) gives the types. The
lemmas `SentOK`, `ListenOK` and `CompleteOK` say what sending, listening and completing
preserve, and each action is one lemma over them. `TypeCorrect` and `OwnTextAlways` follow.

`TailUnderWay` is a special case of what must be kept all along. `Flow` is the reason: what a caller
has collected, then the texts of its request in its queue, then what the buffer holds of
it, are in this order the pieces sampled so far, behind some first ones that a late caller
missed. Adding up a queue would be a
recursion; instead a function `f` gives for each event how many pieces come before it, and
`Chain` says that each text starts there. Sending an event extends `f` by one value, delivering
one drops the first, and a text of another request or an error repeats a value (`FlowAppend`,
`FlowTake`). `Reaches` claims `Flow` for every listener, with the whole rest in the buffer when
its request finished or is the current one; of who listened in time also that it missed
nothing, and has an error in its queue if its request failed. What links these is `Fates`: what
works is undecided, what was completed is decided, and once a
request has finished before a listener nothing of it is kept in the buffer - the last turn
flushes - so that a prompt or a cancel that empties the buffer loses nothing. `TailUnderWayAlways`
follows for a queue that is empty, where `f` has one value. `FullText` does not follow, and is false:
a caller may stop with its queue not empty.

`TextLog` is the session without its buffer, its stream and its completers: logs, readers and
fates. `TextsRefined` proves that `SessionRequests` implements it. A prompt, a media stream or a
listener is `Ask`, a turn `Extend`, a cancel or a failed decode `Stop`, an end `Told`, the delivery
of an error `Fail`, and everything else a stutter. The step that needs the invariant is the delivery
of a text, `Read`: the event at the head of a queue must start where the last one that its reader took
ended, and `Flow` says so, also for a reader that came late - which `TailUnderWay` is silent about;
a reader in time starts at the first piece. That it stays within the log is the bound in `Flow` on
`f`. For `Told`, `WInv` says that the request is decided, or an older one; how much of the text the
reader has by then the abstract log leaves open, as the code does (`LostTail`).

**The invariants of the isolates.** `Flight` pairs the prompt the parent believes to be running
with what is in the ports and in the child: one prompt is on its way, or runs, or its end is
on its way back behind all its texts (`OneWay`); it is the one whose completer is open, under the
current id (`AllOwn`, `IdsOK`); a free queue has none (`Free`). `NeverInterrupted`, `OnePrompt`, `EndIsEnd`, `TagsAlwaysRight` and `StopsStick` follow;
all but the first are claimed while no command was answered with an error (`strayed`), since
`IsolateWait` shows that they fail then. A scope behind one that throws keeps the id of a prompt
that has ended, so `IdsOK`, and with it `TagsRight`, leave out the scopes in `missed`. `IsolateCalls_proof` has an invariant of its own, `CallsOK`:
where each call waits and who holds the completers (`Sits`), and that the commands and
confirmations under way of a call that was sent alone are its own (`Alone`).

**The invariant of the contexts.** `IInv` is `TypeOK`, `CellsOK` (if `Env` is empty, each slot
and the saved state hold exactly the positions below their `nPos`), `PlaceOK` (the current slot
exists) and `BatchOK` (what waits in the batch is behind `nPos` and fits). `CellsMatchAlways` has
the hypothesis `Env = {}`, and each of the four kinds refutes `CellsMatch`; the other theorems hold for every `Env`. Trims are
lemmas about `Shift` and `Trim`, which are operators on records of one slot.

**Only model-checked**: `TextServed`, `RequestsEnd` and `PromptsEnd`, which are liveness under
fairness and so beyond TLAPS.

## 6. What the models leave out

* Of vision, all but the queueing and decoding of items: markers, native embedding
  buffers, an image without embeddings.
* In `SessionScheduler`: creating and freeing sessions, tiers and unbound slots (they
  are in `SessionService`, which has the loop's effect on them), and the texts.
  `WithinContext` is claimed for services without a vision model only.
* Two concurrent calls of `persistAllAndDispose` or `dispose`, and a late
  `saveSession` to a path inside `sessionHome`.
* The order of least recent use and of the free list (any choice is allowed).
* In `SessionService`: the context shift; a request ends at `MaxLen` at the latest.
  Prompts are one token long, further tokens are those the loop samples.
* A write that fails when the file is opened: it fails after the file was truncated.
* A snapshot of size 0: llama.cpp's answer for an empty sequence is a header.
* What native code does when it is called after the context was freed: a suspended
  call stays suspended instead.
* In `SessionRequests`: the bound of 5 MB on a buffer nobody listens to, the text that a raw
  listener sees, listeners that cancel their subscription, and calls resumed between two
  waiting microtasks (`Quiet`: they come after those).
* In `IsolateProtocol`: `init` (its end is `Init`), `getEmbeddings`, which needs an instance
  that takes no prompts, calls other than `sendPrompt` once `dispose` has begun, and the public
  message and status fields.
* In `LlamaContext`: sampling, text and UTF-8, more than one stream at a time, the files of
  `LlamaSessionIO` with their temporary copies, and the sequence ids that the `finally` block of
  `generateWithMedia` (912-918) sets to null in the shared batch.

## 7. Not modelled

The program is Dart, in `lib/src`. The C and C++ files of the repository are vendored
headers (Vulkan, OpenCL, llama.cpp), single-file libraries (miniaudio, stb) and generated
bindings: they hold no logic of this program, and the models take from them only what the
Dart code relies on, marked external.

Not modelled in `lib/src`: `ModelCache`, `LoraAdapterMixin`, `Reranker` and `ParallelDecoder`
(synchronous or thin calls of components that are modelled); `Utf8Accumulator`, `TextChunker`,
`ChatHistory`, prompt formats, tool calling and `JsonSchemaToGbnf` (sequential functions of text,
within reach of unit tests, whose properties would be about characters); `SamplerFactory` and the
parameter classes (copies of settings); `LlamaInput` (reads of files); the MCP client and server, a
JSON-RPC exchange over the pipe of another process that is independent of the engine, which is
the next thing worth modelling.
