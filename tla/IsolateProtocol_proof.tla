------------------------ MODULE IsolateProtocol_proof ------------------------
(***************************************************************************)
(* Proofs about IsolateProtocol, for any number of prompts, calls, scopes  *)
(* and texts and for every Env: the types, and that the child has one      *)
(* prompt at a time.  IsolateCalls_proof goes on with the commands.        *)
(***************************************************************************)
EXTENDS IsolateProtocol, FiniteSetTheorems, TLAPS

Ends  == {"done", "error"}
Tells == Ends \cup {"text"}      \* the responses that carry a prompt's id

(* The prompt of m is the one under way, and everyone knows it by m.id.    *)
Own(m) == /\ processing /\ m.id = current /\ m.id # 0
          /\ m.prompt \in Prompt
          /\ completers[current] = m.prompt
          /\ stage[m.prompt] = "sent"

(* One prompt is under way: it is on its way to the child, or runs, or its *)
(* end is on its way back, behind all its texts.                           *)
OneWay ==
    /\ \A i, j \in 1 .. Len(toChild) :
          toChild[i].kind = "prompt" /\ toChild[j].kind = "prompt" => i = j
    /\ \A m, o \in running : m = o
    /\ \A i \in 1 .. Len(toChild), j \in 1 .. Len(toParent) :
          ~(toChild[i].kind = "prompt" /\ toParent[j].kind \in Tells)
    /\ \A i \in 1 .. Len(toChild) : toChild[i].kind = "prompt" => running = {}
    /\ \A j \in 1 .. Len(toParent) : toParent[j].kind \in Ends => running = {}
    /\ \A i, j \in 1 .. Len(toParent) :
          toParent[i].kind \in Tells /\ toParent[j].kind \in Ends => i <= j

AllOwn ==
    /\ \A i \in 1 .. Len(toChild) : toChild[i].kind = "prompt" => Own(toChild[i])
    /\ \A m \in running : m.kind = "prompt" /\ Own(m)
    /\ \A j \in 1 .. Len(toParent) : toParent[j].kind \in Tells => Own(toParent[j])

(* An open scope that was told of every completion lists the id of the     *)
(* prompt under way if that is its own, and otherwise only ids that are    *)
(* past.                                                                   *)
Open == scopes \ (closed \cup missed)
IdsOK ==
    \A s \in Open :
        /\ \A i \in scopeIds[s] : i <= current
        /\ current \in scopeIds[s] => completers[current] # NoPrompt
        /\ completers[current] # NoPrompt =>
               (current \in scopeIds[s] <=> s = ScopeOf[completers[current]])

Free == ~processing => completers[current] = NoPrompt

Flight == ~strayed => OneWay /\ AllOwn /\ IdsOK /\ Free

-----------------------------------------------------------------------------
(* Sequences and records.                                                  *)
LEMMA AppendEl ==
  ASSUME NEW S, NEW q \in Seq(S), NEW e \in S
  PROVE  /\ Append(q, e) \in Seq(S) /\ Len(Append(q, e)) = Len(q) + 1
         /\ \A i \in 1 .. Len(q) : Append(q, e)[i] = q[i] /\ q[i] \in S
         /\ Append(q, e)[Len(q) + 1] = e
  OBVIOUS

LEMMA TailEl ==
  ASSUME NEW S, NEW q \in Seq(S), q # <<>>
  PROVE  /\ Tail(q) \in Seq(S) /\ Len(Tail(q)) = Len(q) - 1 /\ Len(q) \in Nat \ {0}
         /\ \A i \in 1 .. Len(q) - 1 : Tail(q)[i] = q[i + 1]
         /\ Head(q) = q[1] /\ Head(q) \in S
  OBVIOUS

CallRec == [op : Op, at : At, scope : Scope \cup {NoScope}]

LEMMA AtRec ==
  ASSUME NEW r \in CallRec, NEW a \in At
  PROVE  /\ [r EXCEPT !.at = a] \in CallRec
         /\ [r EXCEPT !.at = a].at = a /\ [r EXCEPT !.at = a].op = r.op
         /\ [r EXCEPT !.at = a].scope = r.scope
<1>1. [r EXCEPT !.at = a] \in CallRec
  BY Zenon DEF CallRec
<1> QED BY <1>1 DEF CallRec

LEMMA AtCall ==
  ASSUME NEW c \in [Call -> CallRec], NEW k \in Call, NEW a \in At
  PROVE  /\ [c EXCEPT ![k].at = a] \in [Call -> CallRec]
         /\ [c EXCEPT ![k].at = a][k] = [c[k] EXCEPT !.at = a]
         /\ \A j \in Call \ {k} : [c EXCEPT ![k].at = a][j] = c[j]
<1>1. [c[k] EXCEPT !.at = a] \in CallRec
  BY AtRec
<1> QED BY <1>1

LEMMA CallType == ASSUME TypeOK PROVE call \in [Call -> CallRec]
  BY DEF TypeOK, CallRec

LEMMA AsCall ==
  ASSUME TypeOK, NEW k \in Call, NEW o \in Op, NEW a \in At, NEW s \in Scope \cup {NoScope}
  PROVE  /\ As(k, o, a, s) \in [Call -> CallRec]
         /\ As(k, o, a, s)[k] = [op |-> o, at |-> a, scope |-> s]
         /\ \A j \in Call \ {k} : As(k, o, a, s)[j] = call[j]
  BY DEF As, TypeOK, CallRec

(* What a command does to the types.                                       *)
LEMMA CommandType ==
  ASSUME TypeOK, NEW c \in [Call -> CallRec], NEW k \in Call, NEW kind \in Commands,
         NEW s \in Scope \cup {NoScope}, SendCommand(c, k, kind, s)
  PROVE  /\ call' \in [Call -> CallRec] /\ op' = k
         /\ call'[k] = c[k]
         /\ \A j \in Call \ {op} : call'[j] = c[j]
         /\ op \in Call \ {k} => call'[op] = [c[op] EXCEPT !.at = "failed"]
         /\ handled' \subseteq Call /\ solo' \subseteq Call
         /\ toChild' \in Seq(ToChild)
<1>1. call' \in [Call -> CallRec] /\ call'[k] = c[k]
      /\ \A j \in Call \ {op} : call'[j] = c[j]
      /\ op \in Call \ {k} => call'[op] = [c[op] EXCEPT !.at = "failed"]
  <2>1. "failed" \in At
    BY DEF At
  <2>2. CASE op \in Call \ {k}
    <3>1. call' = [c EXCEPT ![op].at = "failed"]
      BY <2>2 DEF SendCommand
    <3> QED BY <2>1, <2>2, <3>1, AtCall
  <2>3. CASE op \notin Call \ {k}
    BY <2>3 DEF SendCommand
  <2> QED BY <2>2, <2>3
<1>2. [kind |-> kind, prompt |-> NoPrompt, id |-> 0, call |-> k, scope |-> s] \in ToChild
  BY NullAssumption, FS_CardinalityType DEF ToChild, Ids, Commands
<1>3. toChild' \in Seq(ToChild)
  BY <1>2, AppendEl DEF SendCommand, TypeOK
<1>4. handled' \subseteq Call /\ solo' \subseteq Call
  BY DEF SendCommand, TypeOK
<1> QED BY <1>1, <1>3, <1>4 DEF SendCommand

LEMMA IdsNat == Ids \subseteq Nat /\ 0 \in Ids
  BY NullAssumption, FS_CardinalityType DEF Ids

(* What a prompt that is started does to the types.                        *)
LEMMA StartType ==
  ASSUME TypeOK, NEW p \in Prompt, NEW st \in [Prompt -> Stage],
         NEW ids \in [Scope -> SUBSET Ids], NEW cp \in [Ids -> Prompt \cup {NoPrompt}],
         Start(p, st, ids, cp)
  PROVE  /\ stage' \in [Prompt -> Stage] /\ processing' = TRUE /\ generating' = TRUE
         /\ current' \in Ids /\ currentScope' \in Scope \cup {NoScope}
         /\ completers' \in [Ids -> Prompt \cup {NoPrompt}]
         /\ scopeIds' \in [Scope -> SUBSET Ids]
         /\ toChild' \in Seq(ToChild)
         /\ \E m \in ToChild :
               /\ m.kind = "prompt" /\ m.prompt = p /\ m.id = current'
               /\ m.scope = ScopeOf[p] /\ toChild' = Append(toChild, m)
         /\ current' \in {current, current + 1} /\ current' # 0
         /\ stage' = [st EXCEPT ![p] = "sent"]
         /\ completers' = [cp EXCEPT ![current'] = p]
         /\ scopeIds' = WithId(ids, ScopeOf[p], current')
<1>1. PICK i \in {current, current + 1} \cap (Ids \ {0}) :
        /\ stage' = [st EXCEPT ![p] = "sent"]
        /\ processing' = Taken /\ generating' = TRUE
        /\ current' = i /\ currentScope' = ScopeOf[p]
        /\ completers' = [cp EXCEPT ![i] = p]
        /\ scopeIds' = WithId(ids, ScopeOf[p], i)
        /\ toChild' = Append(toChild, [kind |-> "prompt", prompt |-> p, id |-> i,
                                       call |-> NoCall, scope |-> ScopeOf[p]])
  BY DEF Start
<1> DEFINE m == [kind |-> "prompt", prompt |-> p, id |-> i, call |-> NoCall, scope |-> ScopeOf[p]]
<1>2. i \in Ids /\ ScopeOf[p] \in Scope \cup {NoScope}
  BY NullAssumption
<1>3. m \in ToChild /\ m.kind = "prompt" /\ m.prompt = p /\ m.id = i /\ m.scope = ScopeOf[p]
  BY <1>2 DEF ToChild
<1> HIDE DEF m
<1>4. toChild' \in Seq(ToChild) /\ toChild' = Append(toChild, m)
  BY <1>1, <1>3, AppendEl DEF TypeOK, m
<1>5. stage' \in [Prompt -> Stage]
  BY <1>1 DEF Stage
<1>6. completers' \in [Ids -> Prompt \cup {NoPrompt}]
  BY <1>1, <1>2
<1>7. scopeIds' \in [Scope -> SUBSET Ids]
  <2>1. CASE ScopeOf[p] = NoScope
    BY <1>1, <2>1 DEF WithId
  <2>2. CASE ScopeOf[p] \in Scope
    BY <1>1, <1>2, <2>2 DEF WithId
  <2> QED BY <1>2, <2>1, <2>2
<1>8. processing' = TRUE /\ generating' = TRUE
  BY <1>1 DEF Taken
<1>9. current' \in {current, current + 1} /\ current' # 0 /\ current' \in Ids
  BY <1>1
<1>10. currentScope' \in Scope \cup {NoScope}
  BY <1>1, <1>2
<1>11. \E x \in ToChild :
               /\ x.kind = "prompt" /\ x.prompt = p /\ x.id = current'
               /\ x.scope = ScopeOf[p] /\ toChild' = Append(toChild, x)
  BY <1>1, <1>3, <1>4
<1> QED BY <1>1, <1>4, <1>5, <1>6, <1>7, <1>8, <1>9, <1>10, <1>11

(* What the child's handling of a command does to the types.               *)
LEMMA HandleType ==
  ASSUME TypeOK, NEW kind, Handle(kind)
  PROVE  /\ toChild \in Seq(ToChild) /\ toChild # <<>>
         /\ Head(toChild) \in ToChild /\ Head(toChild).kind = kind
         /\ toChild' = Tail(toChild) /\ toChild' \in Seq(ToChild)
         /\ handled' \subseteq Call /\ UNCHANGED <<parent, solo>>
<1>1. toChild \in Seq(ToChild) /\ toChild # <<>> /\ handled \subseteq Call
  BY DEF Handle, TypeOK
<1> QED BY <1>1, TailEl DEF Handle

LEMMA SayType ==
  ASSUME TypeOK, NEW m \in ToChild, NEW kind, kind \in Data \cup {"text", "done", "error", "confirm"},
         Say(kind, m)
  PROVE  /\ toParent' \in Seq(ToParent)
         /\ \E a \in ToParent : /\ a.kind = kind /\ a.prompt = m.prompt /\ a.id = m.id
                                 /\ a.call = m.call /\ toParent' = Append(toParent, a)
<1> DEFINE a == [kind |-> kind, prompt |-> m.prompt, id |-> m.id, call |-> m.call]
<1>1. a \in ToParent /\ a.kind = kind /\ a.prompt = m.prompt /\ a.id = m.id /\ a.call = m.call
  BY DEF ToParent, ToChild
<1> HIDE DEF a
<1>2. toParent' = Append(toParent, a)
  BY DEF Say, a
<1>3. toParent' \in Seq(ToParent)
  BY <1>1, <1>2, AppendEl DEF TypeOK
<1> QED BY <1>1, <1>2, <1>3

LEMMA DeliverType ==
  ASSUME TypeOK, NEW kinds, Deliver(kinds)
  PROVE  /\ toParent \in Seq(ToParent) /\ toParent # <<>> /\ listening
         /\ Head(toParent) \in ToParent /\ Head(toParent).kind \in kinds
         /\ toParent' = Tail(toParent) /\ toParent' \in Seq(ToParent)
<1>1. toParent \in Seq(ToParent) /\ toParent # <<>> /\ listening
  BY DEF Deliver, TypeOK
<1> QED BY <1>1, TailEl DEF Deliver

-----------------------------------------------------------------------------
(* The types, action by action.                                            *)
LEMMA Names ==
  /\ Op = {"none", "stop", "scopeStop", "free", "clear", "load", "count", "save", "shutdown"}
  /\ \A o \in {"stop", "scopeStop", "free", "clear", "load", "count", "save", "shutdown"} : o \in Op
  /\ \A a \in {"stop", "main", "down", "drain", "ok", "forced", "failed"} : a \in At
  /\ \A d \in Data : d \in Op
  /\ NoScope \in Scope \cup {NoScope}
  /\ Scope \subseteq Scope \cup {NoScope}
  BY DEF Op, At, Data

LEMMA TypeSendPrompt == ASSUME TypeOK, NEW p \in Prompt, SendPrompt(p) PROVE TypeOK'
<1>1. place' \in [Prompt -> Nat]
  <2>1. IsFiniteSet({q \in Prompt : stage[q] # "new"})
    BY NullAssumption, FS_Subset
  <2>2. Cardinality({q \in Prompt : stage[q] # "new"}) + 1 \in Nat
    BY <2>1, FS_CardinalityType
  <2> QED BY <2>2 DEF SendPrompt, TypeOK
<1>2. UNCHANGED <<scopes, closed, call, op, asked, listening, child, toParent,
                   handled, solo, missed, strayed>>
  BY DEF SendPrompt
<1>3. CASE QueueFree /\ Start(p, stage, scopeIds, completers)
  <2>1. /\ stage \in [Prompt -> Stage] /\ scopeIds \in [Scope -> SUBSET Ids]
        /\ completers \in [Ids -> Prompt \cup {NoPrompt}]
    BY DEF TypeOK
  <2>2. /\ stage' \in [Prompt -> Stage] /\ processing' \in BOOLEAN /\ generating' \in BOOLEAN
        /\ current' \in Ids /\ currentScope' \in Scope \cup {NoScope}
        /\ completers' \in [Ids -> Prompt \cup {NoPrompt}]
        /\ scopeIds' \in [Scope -> SUBSET Ids]
        /\ toChild' \in Seq(ToChild)
    BY <1>3, <2>1, StartType
  <2> QED BY <1>1, <1>2, <2>2 DEF TypeOK, child
<1>4. CASE ~(QueueFree /\ Start(p, stage, scopeIds, completers))
  <2>1. /\ stage' = [stage EXCEPT ![p] = "queued"]
        /\ UNCHANGED <<processing, generating, current, currentScope,
                       completers, scopeIds, toChild>>
    BY <1>4 DEF SendPrompt
  <2>2. stage' \in [Prompt -> Stage]
    BY <2>1 DEF TypeOK, Stage
  <2> QED BY <1>1, <1>2, <2>1, <2>2 DEF TypeOK, child
<1> QED BY <1>3, <1>4

(* A call that sends a command, or ends without one.                       *)
LEMMA TypeCommand ==
  ASSUME TypeOK, NEW k \in Call, NEW c \in [Call -> CallRec], NEW kind \in Commands,
         NEW s \in Scope \cup {NoScope},
         SendCommand(c, k, kind, s) \/ NoCommand(c),
         stage' \in [Prompt -> Stage], generating' \in BOOLEAN,
         scopes' \subseteq Scope, closed' \subseteq Scope, toParent' \in Seq(ToParent),
         UNCHANGED <<place, processing, current, currentScope, completers,
                     scopeIds, asked, listening, child, missed, strayed>>
  PROVE  TypeOK'
<1>1. /\ call' \in [Call -> CallRec] /\ op' \in Call \cup {NoCall}
      /\ handled' \subseteq Call /\ solo' \subseteq Call /\ toChild' \in Seq(ToChild)
  <2>1. CASE SendCommand(c, k, kind, s)
    BY <2>1, CommandType
  <2>2. CASE NoCommand(c)
    BY <2>2 DEF NoCommand, TypeOK
  <2> QED BY <2>1, <2>2
<1> QED BY <1>1 DEF TypeOK, child, CallRec

LEMMA DroppedType == ASSUME TypeOK, NEW s PROVE Dropped(s) \in [Prompt -> Stage]
  BY DEF Dropped, TypeOK, Stage

LEMMA TypeStop == ASSUME TypeOK, NEW k \in Call, Stop(k) PROVE TypeOK'
<1>1. As(k, "stop", "stop", NoScope) \in [Call -> CallRec]
  BY AsCall, Names
<1> QED BY <1>1, TypeCommand DEF Stop, TypeOK, Commands

LEMMA TypeScopeStop ==
  ASSUME TypeOK, NEW k \in Call, NEW s \in Scope, NEW b \in BOOLEAN, ScopeStop(k, s, b)
  PROVE  TypeOK'
<1>1. As(k, "scopeStop", "stop", s) \in [Call -> CallRec]
      /\ As(k, "scopeStop", "ok", s) \in [Call -> CallRec]
  BY AsCall, Names
<1>2. stage' \in [Prompt -> Stage]
  BY DroppedType DEF ScopeStop, TypeOK
<1> QED BY <1>1, <1>2, TypeCommand DEF ScopeStop, TypeOK, Commands

LEMMA TypeRelease ==
  ASSUME TypeOK, NEW k \in Call, NEW o \in {"free", "shutdown"}, NEW s \in Scope, Release(k, o, s)
  PROVE  TypeOK'
<1>1. As(k, o, "stop", s) \in [Call -> CallRec]
      /\ As(k, o, "main", s) \in [Call -> CallRec]
  BY AsCall, Names
<1>2. /\ stage' \in [Prompt -> Stage] /\ closed' \subseteq Scope /\ scopes' \subseteq Scope
      /\ toParent' \in Seq(ToParent) /\ generating' \in BOOLEAN
  BY DroppedType DEF Release, TypeOK
<1>3. SendCommand(As(k, o, "stop", s), k, "stop", NoScope)
      \/ SendCommand(As(k, o, "main", s), k, "free", s)
  BY DEF Release
<1>4. UNCHANGED <<place, processing, current, currentScope, completers,
                     scopeIds, asked, listening, child, missed, strayed>>
  BY DEF Release
<1> QED BY <1>1, <1>2, <1>3, <1>4, TypeCommand DEF Commands

LEMMA TypeClear == ASSUME TypeOK, NEW k \in Call, Clear(k) PROVE TypeOK'
<1>1. As(k, "clear", "main", NoScope) \in [Call -> CallRec]
  BY AsCall, Names
<1> QED BY <1>1, TypeCommand DEF Clear, TypeOK, Commands

LEMMA TypeLoad == ASSUME TypeOK, NEW k \in Call, NEW s \in Scope, Load(k, s) PROVE TypeOK'
<1>1. As(k, "load", "main", s) \in [Call -> CallRec]
  BY AsCall, Names
<1> QED BY <1>1, TypeCommand DEF Load, TypeOK, Commands

LEMMA TypeAsk ==
  ASSUME TypeOK, NEW k \in Call, NEW d \in Data, NEW s \in Scope, Ask(k, d, s)
  PROVE  TypeOK'
<1>1. call' \in [Call -> CallRec]
  BY AsCall, Names DEF Ask
<1>2. asked' \in [Data -> Call \cup {NoCall}]
  BY DEF Ask, TypeOK
<1>3. [kind |-> d, prompt |-> NoPrompt, id |-> 0, call |-> k, scope |-> s] \in ToChild
  BY IdsNat DEF ToChild
<1>4. toChild' \in Seq(ToChild)
  BY <1>3, AppendEl DEF Ask, TypeOK
<1> QED BY <1>1, <1>2, <1>4 DEF Ask, TypeOK, child, CallRec

LEMMA TypeShutdown == ASSUME TypeOK, NEW k \in Call, Shutdown(k) PROVE TypeOK'
<1>1. call' \in [Call -> CallRec]
  <2>1. \A j \in Call : [call[j] EXCEPT !.at = "failed"] \in CallRec /\ call[j] \in CallRec
    <3>1. \A j \in Call : call[j] \in CallRec
      BY DEF TypeOK, CallRec
    <3> QED BY <3>1, AtRec, Names
  <2>2. [op |-> "shutdown", at |-> "down", scope |-> NoScope] \in CallRec
    BY DEF CallRec, Op, At
  <2> QED BY <2>1, <2>2 DEF Shutdown
<1>2. stage' \in [Prompt -> Stage]
  BY DEF Shutdown, TypeOK, Stage
<1> QED BY <1>1, <1>2 DEF Shutdown, TypeOK, child, CallRec

LEMMA TypeDownChild == ASSUME TypeOK, NEW k \in Call, DownChild(k) PROVE TypeOK'
<1>1. call' \in [Call -> CallRec]
  BY AtCall, Names, CallType DEF DownChild
<1>2. [kind |-> "dispose", prompt |-> NoPrompt, id |-> 0, call |-> k, scope |-> NoScope] \in ToChild
  BY IdsNat DEF ToChild, Commands
<1>3. toChild' \in Seq(ToChild)
  BY <1>2, AppendEl DEF DownChild, TypeOK
<1> QED BY <1>1, <1>3 DEF DownChild, TypeOK, child, CallRec

LEMMA TypeUnsubscribe == ASSUME TypeOK, NEW k \in Call, Unsubscribe(k) PROVE TypeOK'
<1>1. call' \in [Call -> CallRec]
  BY AtCall, Names, CallType DEF Unsubscribe
<1> QED BY <1>1 DEF Unsubscribe, TypeOK, child, CallRec

(* AfterStop: the call ends, or goes on with its second command.           *)
LEMMA AfterStopType ==
  ASSUME TypeOK, NEW k \in Call, NEW end \in {"ok", "forced"}, AfterStop(k, end)
  PROVE  /\ call' \in [Call -> CallRec] /\ op' \in Call \cup {NoCall} /\ generating' = FALSE
         /\ scopes' \subseteq scopes /\ handled' \subseteq Call /\ solo' \subseteq Call
         /\ toChild' \in Seq(ToChild)
<1>1. /\ [call EXCEPT ![k].at = "main"] \in [Call -> CallRec]
      /\ [call EXCEPT ![k].at = end] \in [Call -> CallRec]
  <2>1. end \in At /\ "main" \in At
    BY Names
  <2> QED BY <2>1, AtCall, CallType
<1>2. CASE call[k].op \in {"free", "shutdown"}
  <2>1. call[k].scope \in Scope \cup {NoScope}
    BY DEF TypeOK
  <2>2. SendCommand([call EXCEPT ![k].at = "main"], k, "free", call[k].scope)
        /\ generating' = FALSE /\ scopes' \subseteq scopes
    BY <1>2 DEF AfterStop
  <2>3. "free" \in Commands
    BY DEF Commands
  <2> QED BY <1>1, <2>1, <2>2, <2>3, CommandType
<1>3. CASE call[k].op \notin {"free", "shutdown"}
  BY <1>1, <1>3 DEF AfterStop, TypeOK
<1> QED BY <1>2, <1>3

LEMMA TypeTimeout == ASSUME TypeOK, NEW k \in Call, Timeout(k) PROVE TypeOK'
<1>1. /\ UNCHANGED toParent
      /\ UNCHANGED <<stage, place, processing, current, currentScope, completers,
                     closed, scopeIds, listening, child, missed, strayed>>
  BY DEF Timeout
<1>2. CASE call[k].at = "stop" /\ AfterStop(k, "forced") /\ UNCHANGED asked
  <2>1. /\ call' \in [Call -> CallRec] /\ op' \in Call \cup {NoCall} /\ generating' = FALSE
        /\ scopes' \subseteq scopes /\ handled' \subseteq Call /\ solo' \subseteq Call
        /\ toChild' \in Seq(ToChild)
    BY <1>2, AfterStopType
  <2> QED BY <1>1, <1>2, <2>1 DEF TypeOK, child, CallRec
<1>3. CASE ~(call[k].at = "stop" /\ AfterStop(k, "forced") /\ UNCHANGED asked)
  <2>1. call' = [call EXCEPT ![k].at = "failed"] /\ UNCHANGED <<generating, scopes, toChild, handled, solo>>
    BY <1>3 DEF Timeout
  <2>2. call' \in [Call -> CallRec]
    BY <2>1, AtCall, Names, CallType
  <2>3. asked' \in [Data -> Call \cup {NoCall}] /\ op' \in Call \cup {NoCall}
    <3>1. asked \in [Data -> Call \cup {NoCall}] /\ op \in Call \cup {NoCall}
      BY DEF TypeOK
    <3>2. \/ call[k].op \in Data /\ asked' = [asked EXCEPT ![call[k].op] = NoCall] /\ UNCHANGED op
          \/ op' = NoCall /\ UNCHANGED asked
      BY <1>3 DEF Timeout
    <3>3. CASE call[k].op \in Data /\ asked' = [asked EXCEPT ![call[k].op] = NoCall] /\ UNCHANGED op
      <4> DEFINE d == call[k].op
      <4>1. d \in Data /\ asked' = [asked EXCEPT ![d] = NoCall]
        BY <3>3
      <4> HIDE DEF d
      <4> QED BY <3>1, <3>3, <4>1
    <3>4. CASE op' = NoCall /\ UNCHANGED asked
      BY <3>1, <3>4
    <3> QED BY <3>2, <3>3, <3>4
  <2> QED BY <1>1, <2>1, <2>2, <2>3 DEF TypeOK, child, CallRec
<1> QED BY <1>2, <1>3

LEMMA TypeOnText == ASSUME TypeOK, OnText PROVE TypeOK'
<1>1. toParent' \in Seq(ToParent)
  BY DeliverType DEF OnText
<1> QED BY <1>1 DEF OnText, TypeOK, parent, child

LEMMA TypeOnDataAnswer == ASSUME TypeOK, OnDataAnswer PROVE TypeOK'
<1>1. /\ toParent' \in Seq(ToParent) /\ Head(toParent).kind \in Data
  BY DeliverType DEF OnDataAnswer
<1>2. asked[Head(toParent).kind] \in Call \cup {NoCall}
  BY <1>1 DEF TypeOK
<1>3. call' \in [Call -> CallRec]
  BY <1>2, AtCall, Names, CallType DEF OnDataAnswer
<1>4. asked' \in [Data -> Call \cup {NoCall}]
  BY <1>1 DEF OnDataAnswer, TypeOK
<1> QED BY <1>1, <1>3, <1>4 DEF OnDataAnswer, TypeOK, child, CallRec

LEMMA TypeOnConfirm == ASSUME TypeOK, OnConfirm PROVE TypeOK'
<1>1. toParent' \in Seq(ToParent)
  BY DeliverType DEF OnConfirm
<1>2. UNCHANGED <<stage, place, processing, current, currentScope, completers,
                   closed, scopeIds, asked, listening, child, missed, strayed>>
  BY DEF OnConfirm
<1>3. CASE op = NoCall /\ NoCommand(call) /\ UNCHANGED <<generating, scopes>>
  BY <1>1, <1>2, <1>3 DEF NoCommand, TypeOK, child
<1>4. CASE op # NoCall /\ call[op].at = "stop" /\ AfterStop(op, "ok")
  <2>1. op \in Call
    BY <1>4 DEF TypeOK
  <2>2. /\ call' \in [Call -> CallRec] /\ op' \in Call \cup {NoCall} /\ generating' = FALSE
        /\ scopes' \subseteq scopes /\ handled' \subseteq Call /\ solo' \subseteq Call
        /\ toChild' \in Seq(ToChild)
    BY <1>4, <2>1, AfterStopType
  <2> QED BY <1>1, <1>2, <2>2 DEF TypeOK, child, CallRec
<1>5. CASE /\ op # NoCall /\ call[op].at = "main"
           /\ call' = [call EXCEPT ![op].at = IF @ = "main" /\ call[op].op = "shutdown"
                                              THEN "down" ELSE "ok"]
           /\ op' = NoCall
           /\ UNCHANGED <<generating, scopes, toChild, handled, solo>>
  <2>1. op \in Call
    BY <1>5 DEF TypeOK
  <2>2. call' = [call EXCEPT ![op].at = "down"] \/ call' = [call EXCEPT ![op].at = "ok"]
    BY <1>5
  <2>3. call' \in [Call -> CallRec]
    BY <2>1, <2>2, AtCall, Names, CallType
  <2> QED BY <1>1, <1>2, <1>5, <2>3 DEF TypeOK, child, CallRec
<1> QED BY <1>3, <1>4, <1>5 DEF OnConfirm

LEMMA TypeOnEnd == ASSUME TypeOK, NEW told, OnEnd(told) PROVE TypeOK'
<1> DEFINE m   == Head(toParent)
           i   == IF m.id = 0 THEN current ELSE m.id
           q   == completers[i]
           bad == m.kind = "error"
           st  == IF q = NoPrompt THEN stage ELSE [stage EXCEPT ![q] = "done"]
           cp  == [completers EXCEPT ![i] = NoPrompt]
           ids == Told(told, i)
           throws == \E s \in scopes \cap closed : i \in scopeIds[s]
           wakes  == q # NoPrompt /\ Wakes(m)
<1>1. /\ toParent' \in Seq(ToParent) /\ m \in ToParent
      /\ UNCHANGED <<place, scopes, closed, listening, child, handled, solo, strayed>>
      /\ missed' \subseteq Scope
  BY DeliverType DEF OnEnd, TypeOK
<1>2. i \in Ids
  BY <1>1 DEF TypeOK, ToParent
<1>3. q \in Prompt \cup {NoPrompt}
  BY <1>2 DEF TypeOK
<1>4. /\ st \in [Prompt -> Stage] /\ cp \in [Ids -> Prompt \cup {NoPrompt}]
      /\ ids \in [Scope -> SUBSET Ids]
  BY <1>2, <1>3 DEF TypeOK, Stage, Told
<1>5. call' \in [Call -> CallRec]
  <2>1. \A k \in Call : [call[k] EXCEPT !.at = "failed"] \in CallRec /\ call[k] \in CallRec
    BY CallType, AtRec, Names
  <2>2. call' = [k \in Call |-> IF bad /\ (k = op \/ \E d \in Data : asked[d] = k)
                                THEN [call[k] EXCEPT !.at = "failed"] ELSE call[k]]
    BY DEF OnEnd
  <2> QED BY <2>1, <2>2
<1>6. /\ op' = IF bad THEN NoCall ELSE op
      /\ asked' = IF bad THEN [d \in Data |-> NoCall] ELSE asked
  BY DEF OnEnd
<1>7. op' \in Call \cup {NoCall} /\ asked' \in [Data -> Call \cup {NoCall}]
  BY <1>6 DEF TypeOK
<1>8. \/ \E p \in Prompt : Start(p, st, ids, cp)
      \/ /\ stage' = st /\ scopeIds' = ids /\ completers' = cp
         /\ processing' = (processing /\ ~wakes)
         /\ generating' = FALSE
         /\ currentScope' = IF throws THEN currentScope ELSE NoScope
         /\ UNCHANGED <<current, toChild>>
  BY DEF OnEnd
<1> HIDE DEF st, ids, cp, wakes, throws, q, i, m, bad
<1>9. CASE \E p \in Prompt : Start(p, st, ids, cp)
  <2>1. /\ stage' \in [Prompt -> Stage] /\ processing' \in BOOLEAN /\ generating' \in BOOLEAN
        /\ current' \in Ids /\ currentScope' \in Scope \cup {NoScope}
        /\ completers' \in [Ids -> Prompt \cup {NoPrompt}]
        /\ scopeIds' \in [Scope -> SUBSET Ids]
        /\ toChild' \in Seq(ToChild)
    BY <1>4, <1>9, StartType
  <2> QED BY <1>1, <1>5, <1>7, <2>1 DEF TypeOK, child, CallRec
<1>10. CASE /\ stage' = st /\ scopeIds' = ids /\ completers' = cp
            /\ processing' = (processing /\ ~wakes)
            /\ generating' = FALSE
            /\ currentScope' = IF throws THEN currentScope ELSE NoScope
            /\ UNCHANGED <<current, toChild>>
  <2>1. processing' \in BOOLEAN
    BY <1>10, Zenon
  <2>2. currentScope' \in Scope \cup {NoScope} /\ generating' \in BOOLEAN
    BY <1>10 DEF TypeOK
  <2>3. stage' \in [Prompt -> Stage] /\ completers' \in [Ids -> Prompt \cup {NoPrompt}]
        /\ scopeIds' \in [Scope -> SUBSET Ids]
    BY <1>4, <1>10
  <2> QED BY <1>1, <1>5, <1>7, <1>10, <2>1, <2>2, <2>3 DEF TypeOK, child, CallRec
<1> QED BY <1>8, <1>9, <1>10

(* The child.                                                              *)
LEMMA AnswerType ==
  ASSUME TypeOK, NEW kind, Handle(kind), NEW r \in Data \cup {"confirm"},
         Answered(r) \/ Answered("error") \/ Refused \/ UNCHANGED <<toParent, strayed>>
  PROVE  toParent' \in Seq(ToParent) /\ strayed' \in BOOLEAN
<1>1. Head(toChild) \in ToChild /\ toParent \in Seq(ToParent) /\ strayed \in BOOLEAN
  BY HandleType DEF TypeOK
<1>2. CASE Answered(r)
  BY <1>1, <1>2, SayType DEF Answered
<1>3. CASE Answered("error")
  BY <1>1, <1>3, SayType DEF Answered
<1>4. CASE Refused
  BY <1>1, <1>4, SayType DEF Refused
<1>5. CASE UNCHANGED <<toParent, strayed>>
  BY <1>1, <1>5
<1> QED BY <1>2, <1>3, <1>4, <1>5

LEMMA TypeHandle ==
  ASSUME TypeOK, NEW kind, Handle(kind), NEW r \in Data \cup {"confirm"},
         Answered(r) \/ Answered("error") \/ Refused \/ UNCHANGED <<toParent, strayed>>,
         shouldStop' \in BOOLEAN, busy' \in BOOLEAN, loaded' \in BOOLEAN,
         running' \subseteq ToChild, slots' \subseteq Scope, UNCHANGED texts
  PROVE  TypeOK'
<1>1. toParent' \in Seq(ToParent) /\ strayed' \in BOOLEAN
  BY AnswerType
<1>2. /\ toChild' \in Seq(ToChild) /\ handled' \subseteq Call
      /\ UNCHANGED <<parent, solo, missed>>
  BY HandleType DEF Handle
<1> QED BY <1>1, <1>2 DEF TypeOK, parent

LEMMA TypeChildHears == ASSUME TypeOK, ChildHears PROVE TypeOK'
<1>1. /\ shouldStop \in BOOLEAN /\ busy \in BOOLEAN /\ loaded \in BOOLEAN
      /\ running \subseteq ToChild /\ slots \subseteq Scope
  BY DEF TypeOK
<1>2. CASE HandleStop
  BY <1>1, <1>2, TypeHandle DEF HandleStop
<1>3. CASE HandleClear
  BY <1>1, <1>3, TypeHandle DEF HandleClear
<1>4. CASE HandleFree
  BY <1>1, <1>4, TypeHandle DEF HandleFree
<1>5. CASE HandleLoad
  <2>1. slots' \subseteq Scope
    BY <1>1, <1>5 DEF HandleLoad, SlotOf
  <2> QED BY <1>1, <1>5, <2>1, TypeHandle DEF HandleLoad
<1>6. CASE HandleSave
  BY <1>1, <1>6, TypeHandle DEF HandleSave, child, Data
<1>7. CASE HandleCount
  BY <1>1, <1>7, TypeHandle DEF HandleCount, child, Data
<1>8. CASE HandleDispose
  BY <1>1, <1>8, TypeHandle DEF HandleDispose
<1>9. CASE HandlePrompt
  <2>1. Handle("prompt") /\ Head(toChild) \in ToChild
    BY <1>9, HandleType DEF HandlePrompt
  <2>2. slots' \subseteq Scope
    BY <1>1, <1>9 DEF HandlePrompt, SlotOf
  <2>3. running' \subseteq ToChild
    BY <1>1, <1>9, <2>1 DEF HandlePrompt
  <2>4. shouldStop' \in BOOLEAN /\ busy' \in BOOLEAN /\ loaded' \in BOOLEAN /\ UNCHANGED texts
    BY <1>1, <1>9 DEF HandlePrompt
  <2>5. Answered("error") \/ UNCHANGED <<toParent, strayed>>
    BY <1>9 DEF HandlePrompt
  <2> QED BY <2>1, <2>2, <2>3, <2>4, <2>5, TypeHandle
<1> QED BY <1>2, <1>3, <1>4, <1>5, <1>6, <1>7, <1>8, <1>9 DEF ChildHears

LEMMA TypeGeneration == ASSUME TypeOK, Generation PROVE TypeOK'
<1>1. PICK m \in running : Token(m) \/ Finish(m) \/ Fail(m)
  BY DEF Generation
<1>2. m \in ToChild /\ running \subseteq ToChild
  BY DEF TypeOK
<1>3. CASE Token(m)
  <2>1. toParent' \in Seq(ToParent)
    BY <1>2, <1>3, SayType DEF Token
  <2>2. texts' \in [Prompt -> 0 .. MaxText]
    <3>1. texts \in [Prompt -> 0 .. MaxText] /\ MaxText \in Nat
      BY NullAssumption DEF TypeOK
    <3>2. texts' = [texts EXCEPT ![m.prompt] = @ + 1] /\ texts[m.prompt] < MaxText
      BY <1>3 DEF Token
    <3> DEFINE x == m.prompt
    <3>3. CASE x \in Prompt
      <4>1. texts[x] + 1 \in 0 .. MaxText
        BY <3>1, <3>2, <3>3
      <4> HIDE DEF x
      <4>2. texts' = [texts EXCEPT ![x] = texts[x] + 1]
        BY <3>2 DEF x
      <4> QED BY <3>1, <3>3, <4>1, <4>2
    <3>4. CASE x \notin Prompt
      <4>1. texts' = [texts EXCEPT ![x] = texts[x] + 1]
        BY <3>2
      <4> HIDE DEF x
      <4> QED BY <3>1, <3>4, <4>1
    <3> QED BY <3>3, <3>4
  <2> QED BY <1>3, <2>1, <2>2 DEF Token, TypeOK, parent
<1>4. ASSUME NEW kind \in Ends, Leave(m, kind) PROVE TypeOK'
  <2>1. toParent' \in Seq(ToParent)
    BY <1>2, <1>4, SayType DEF Leave, Ends
  <2>2. running' \subseteq ToChild /\ busy' \in BOOLEAN
    BY <1>2, <1>4 DEF Leave
  <2> QED BY <1>4, <2>1, <2>2 DEF Leave, TypeOK, parent
<1> QED BY <1>1, <1>3, <1>4 DEF Finish, Fail, Ends

LEMMA TypeCaller == ASSUME TypeOK, Caller PROVE TypeOK'
  BY TypeSendPrompt, TypeStop, TypeClear, TypeShutdown, TypeScopeStop,
     TypeRelease, TypeLoad, TypeAsk DEF Caller, DisposeScope

LEMMA TypeNext == ASSUME TypeOK, [Next]_vars PROVE TypeOK'
<1>1. CASE Caller
  BY <1>1, TypeCaller
<1>2. CASE Disposal
  BY <1>2, TypeRelease, TypeDownChild, TypeUnsubscribe DEF Disposal, DownScope
<1>3. CASE \E k \in Call : Timeout(k)
  BY <1>3, TypeTimeout
<1>4. CASE ParentHears
  BY <1>4, TypeOnText, TypeOnDataAnswer, TypeOnConfirm, TypeOnEnd DEF ParentHears
<1>5. CASE ChildHears
  BY <1>5, TypeChildHears
<1>6. CASE Generation
  BY <1>6, TypeGeneration
<1>7. CASE UNCHANGED vars
  BY <1>7 DEF TypeOK, vars, parent, child
<1> QED BY <1>1, <1>2, <1>3, <1>4, <1>5, <1>6, <1>7 DEF Next

LEMMA TypeInit == ASSUME Init PROVE TypeOK
<1> USE DEF Init
<1>1. current \in Ids /\ completers \in [Ids -> Prompt \cup {NoPrompt}]
  BY IdsNat
<1>2. /\ stage \in [Prompt -> Stage] /\ place \in [Prompt -> Nat]
      /\ texts \in [Prompt -> 0 .. MaxText] /\ scopeIds \in [Scope -> SUBSET Ids]
  BY NullAssumption DEF Stage
<1>3. call \in [Call -> [op : Op, at : At, scope : Scope \cup {NoScope}]]
  BY DEF Op, At
<1>4. toChild \in Seq(ToChild) /\ toParent \in Seq(ToParent)
  OBVIOUS
<1> QED BY <1>1, <1>2, <1>3, <1>4 DEF TypeOK

(* Every variable of parent, child and ports keeps its type.               *)
THEOREM TypeCorrect == Spec => []TypeOK
  BY TypeInit, TypeNext, PTL DEF Spec

-----------------------------------------------------------------------------
(* Only a prompt that starts sets _isGenerating, and it takes the queue.   *)
LEMMA NeverNext == ASSUME TypeOK, NeverInterrupts, [Next]_vars PROVE NeverInterrupts'
<1> USE DEF NeverInterrupts
<1>1. ASSUME NEW p \in Prompt, SendPrompt(p) PROVE NeverInterrupts'
  <2>1. CASE QueueFree /\ Start(p, stage, scopeIds, completers)
    BY <2>1 DEF Start, Taken
  <2>2. CASE UNCHANGED <<processing, generating>>
    BY <2>2
  <2> QED BY <1>1, <2>1, <2>2 DEF SendPrompt
<1>2. ASSUME NEW k \in Call, AfterStop(k, "ok") \/ AfterStop(k, "forced")
      PROVE NeverInterrupts'
  BY <1>2 DEF AfterStop
<1>3. CASE Caller
  <2>1. ASSUME NEW k \in Call,
               Stop(k) \/ Clear(k) \/ Shutdown(k)
               \/ \E s \in Scope : \/ \E b \in BOOLEAN : ScopeStop(k, s, b)
                                  \/ DisposeScope(k, s) \/ Load(k, s)
                                  \/ \E d \in Data : Ask(k, d, s)
        PROVE NeverInterrupts'
    BY <2>1 DEF Stop, Clear, Shutdown, ScopeStop, DisposeScope, Release, Load, Ask
  <2> QED BY <1>1, <1>3, <2>1 DEF Caller
<1>4. CASE Disposal
  BY <1>4 DEF Disposal, DownScope, Release, DownChild, Unsubscribe
<1>5. ASSUME NEW k \in Call, Timeout(k) PROVE NeverInterrupts'
  BY <1>2, <1>5 DEF Timeout
<1>6. CASE OnText \/ OnDataAnswer
  BY <1>6 DEF OnText, OnDataAnswer, parent
<1>7. CASE OnConfirm
  <2>1. op # NoCall => op \in Call
    BY DEF TypeOK
  <2> QED BY <1>2, <1>7, <2>1 DEF OnConfirm
<1>8. ASSUME NEW told, OnEnd(told) PROVE NeverInterrupts'
  <2>1. ASSUME NEW p \in Prompt, NEW st, NEW ids, NEW cp, Start(p, st, ids, cp)
        PROVE NeverInterrupts'
    BY <2>1 DEF Start, Taken
  <2> QED BY <1>8, <2>1 DEF OnEnd
<1>9. CASE ChildHears
  BY <1>9 DEF ChildHears, HandleStop, HandleClear, HandleFree, HandleLoad, HandleSave,
              HandleCount, HandleDispose, HandlePrompt, Handle, parent
<1>10. CASE Generation
  BY <1>10 DEF Generation, Token, Finish, Fail, Leave, parent
<1>11. CASE UNCHANGED vars
  BY <1>11 DEF vars, parent
<1> QED BY <1>3, <1>4, <1>5, <1>6, <1>7, <1>8, <1>9, <1>10, <1>11 DEF Next, ParentHears

(* The parent never has to stop a generation to start the next.            *)
THEOREM NeverInterrupted == Spec => []NeverInterrupts
<1>1. Init => NeverInterrupts
  BY DEF Init, NeverInterrupts
<1>2. TypeOK /\ NeverInterrupts /\ [Next]_vars => NeverInterrupts'
  BY NeverNext
<1> QED BY <1>1, <1>2, TypeCorrect, PTL DEF Spec

-----------------------------------------------------------------------------
(* What q2 has of these kinds, q1 had, in the same order: nothing of them  *)
(* was added; d elements were taken away from the front.                   *)
From(q2, q1, kinds) ==
    \E d \in {0, 1} : \A i \in 1 .. Len(q2) :
        q2[i].kind \in kinds => i + d \in 1 .. Len(q1) /\ q2[i] = q1[i + d]

LEMMA FromSame == ASSUME NEW S, NEW q \in Seq(S), NEW kinds PROVE From(q, q, kinds)
  BY DEF From

LEMMA FromAppend ==
  ASSUME NEW S, NEW q \in Seq(S), NEW m \in S, NEW kinds, m.kind \notin kinds
  PROVE  From(Append(q, m), q, kinds)
<1> DEFINE a == Append(q, m)
<1>1. /\ Len(q) \in Nat /\ Len(a) = Len(q) + 1 /\ a[Len(q) + 1] = m
      /\ \A i \in 1 .. Len(q) : a[i] = q[i]
  BY AppendEl
<1> HIDE DEF a
<1>2. \A i \in 1 .. Len(a) : a[i].kind \in kinds => i + 0 \in 1 .. Len(q) /\ a[i] = q[i + 0]
  <2> SUFFICES ASSUME NEW i \in 1 .. Len(a), a[i].kind \in kinds
               PROVE i + 0 \in 1 .. Len(q) /\ a[i] = q[i + 0]
    OBVIOUS
  <2>1. i # Len(q) + 1
    BY <1>1
  <2> QED BY <1>1, <2>1
<1> QED BY <1>2 DEF From, a

LEMMA FromTail ==
  ASSUME NEW S, NEW q \in Seq(S), q # <<>>, NEW kinds
  PROVE  From(Tail(q), q, kinds)
<1>1. \A i \in 1 .. Len(Tail(q)) : i + 1 \in 1 .. Len(q) /\ Tail(q)[i] = q[i + 1]
  BY TailEl
<1> QED BY <1>1 DEF From

(* Steps that leave the prompt under way alone.                            *)
LEMMA OwnStays ==
  ASSUME NEW m, Own(m), UNCHANGED <<processing, current, completers>>,
         \A p \in Prompt : stage[p] = "sent" => stage'[p] = "sent"
  PROVE  Own(m)'
  BY DEF Own

LEMMA FlightStays ==
  ASSUME TypeOK, Flight, TypeOK',
         UNCHANGED <<processing, current, completers, scopeIds, running>>,
         scopes' \subseteq scopes, closed \subseteq closed', missed \subseteq missed',
         \A p \in Prompt : stage[p] = "sent" => stage'[p] = "sent",
         strayed => strayed',
         From(toChild', toChild, {"prompt"}), From(toParent', toParent, Tells)
  PROVE  Flight'
<1> SUFFICES ASSUME ~strayed' PROVE (OneWay /\ AllOwn /\ IdsOK /\ Free)'
  BY DEF Flight
<1>1. OneWay /\ AllOwn /\ IdsOK /\ Free
  BY DEF Flight
<1>2. PICK d \in {0, 1} : \A i \in 1 .. Len(toChild') :
        toChild'[i].kind \in {"prompt"} =>
            i + d \in 1 .. Len(toChild) /\ toChild'[i] = toChild[i + d]
  BY DEF From
<1>3. PICK e \in {0, 1} : \A i \in 1 .. Len(toParent') :
        toParent'[i].kind \in Tells =>
            i + e \in 1 .. Len(toParent) /\ toParent'[i] = toParent[i + e]
  BY DEF From
<1>4. OneWay'
  <2>1. ASSUME NEW i \in 1 .. Len(toChild'), NEW j \in 1 .. Len(toChild'),
               toChild'[i].kind = "prompt", toChild'[j].kind = "prompt"
        PROVE  i = j
    <3>1. i + d \in 1 .. Len(toChild) /\ j + d \in 1 .. Len(toChild)
          /\ toChild[i + d].kind = "prompt" /\ toChild[j + d].kind = "prompt"
      BY <1>2, <2>1
    <3>2. i + d = j + d
      BY <1>1, <3>1 DEF OneWay
    <3> QED BY <3>2
  <2>2. ASSUME NEW i \in 1 .. Len(toChild'), toChild'[i].kind = "prompt"
        PROVE  running = {} /\ \A j \in 1 .. Len(toParent') : toParent'[j].kind \notin Tells
    BY <1>1, <1>2, <1>3, <2>2 DEF OneWay
  <2>3. ASSUME NEW i \in 1 .. Len(toParent'), NEW j \in 1 .. Len(toParent'),
               toParent'[i].kind \in Tells, toParent'[j].kind \in Ends
        PROVE  i <= j /\ running = {}
    <3>1. i + e \in 1 .. Len(toParent) /\ j + e \in 1 .. Len(toParent)
          /\ toParent[i + e].kind \in Tells /\ toParent[j + e].kind \in Ends
      BY <1>3, <2>3 DEF Tells
    <3>2. i + e <= j + e /\ running = {}
      BY <1>1, <3>1 DEF OneWay
    <3> QED BY <3>2
  <2>4. \A m, o \in running : m = o
    BY <1>1 DEF OneWay
  <2> QED BY <2>1, <2>2, <2>3, <2>4 DEF OneWay, Tells
<1>5. AllOwn'
  <2>1. \A i \in 1 .. Len(toChild') : toChild'[i].kind = "prompt" => Own(toChild'[i])
    BY <1>1, <1>2 DEF AllOwn
  <2>2. \A j \in 1 .. Len(toParent') : toParent'[j].kind \in Tells => Own(toParent'[j])
    BY <1>1, <1>3 DEF AllOwn
  <2> QED BY <1>1, <2>1, <2>2, OwnStays DEF AllOwn, Own
<1>6. IdsOK' /\ Free'
  BY <1>1 DEF IdsOK, Open, Free
<1> QED BY <1>4, <1>5, <1>6

LEMMA CommandFrom ==
  ASSUME TypeOK, NEW c, NEW k \in Call, NEW kind \in Commands, NEW s \in Scope \cup {NoScope},
         SendCommand(c, k, kind, s) \/ NoCommand(c)
  PROVE  From(toChild', toChild, {"prompt"})
<1> DEFINE m == [kind |-> kind, prompt |-> NoPrompt, id |-> 0, call |-> k, scope |-> s]
<1>1. toChild \in Seq(ToChild)
  BY DEF TypeOK
<1>2. m \in ToChild
  BY IdsNat DEF ToChild
<1>3. m.kind \notin {"prompt"}
  BY DEF Commands
<1>4. toChild' = Append(toChild, m) \/ toChild' = toChild
  BY DEF SendCommand, NoCommand
<1> HIDE DEF m
<1> QED BY <1>1, <1>2, <1>3, <1>4, FromAppend, FromSame

LEMMA AfterStopFrom ==
  ASSUME TypeOK, NEW k \in Call, NEW end, AfterStop(k, end)
  PROVE  From(toChild', toChild, {"prompt"}) /\ scopes' \subseteq scopes
<1>1. CASE call[k].op \in {"free", "shutdown"}
  <2>1. SendCommand([call EXCEPT ![k].at = "main"], k, "free", call[k].scope)
        /\ scopes' \subseteq scopes
    BY <1>1 DEF AfterStop
  <2>2. call[k].scope \in Scope \cup {NoScope} /\ "free" \in Commands
    BY DEF TypeOK, Commands
  <2> QED BY <2>1, <2>2, CommandFrom
<1>2. CASE call[k].op \notin {"free", "shutdown"}
  BY <1>2, FromSame DEF AfterStop, TypeOK
<1> QED BY <1>1, <1>2

(* The calls, the timeouts and what follows a confirmation.                *)
LEMMA CommandFlight ==
  ASSUME TypeOK, Flight, TypeOK', NEW k \in Call,
         \/ Stop(k) \/ Clear(k) \/ \E s \in Scope : Load(k, s)
         \/ \E s \in Scope, o \in Op : Release(k, o, s)
         \/ \E s \in Scope : \E b \in BOOLEAN : ScopeStop(k, s, b)
  PROVE  Flight'
<1>1. /\ UNCHANGED <<processing, current, completers, scopeIds, running, toParent, missed, strayed>>
      /\ scopes' \subseteq scopes /\ closed \subseteq closed'
  BY DEF Stop, Clear, Load, Release, ScopeStop, child
<1>2. \A p \in Prompt : stage[p] = "sent" => stage'[p] = "sent"
  BY DEF Stop, Clear, Load, Release, ScopeStop, Dropped, Waiting
<1>3. From(toChild', toChild, {"prompt"})
  <2>1. /\ "stop" \in Commands /\ "clear" \in Commands /\ "load" \in Commands
        /\ "free" \in Commands
    BY DEF Commands
  <2>2. CASE Stop(k)
    BY <2>1, <2>2, CommandFrom DEF Stop
  <2>3. CASE Clear(k)
    BY <2>1, <2>3, CommandFrom DEF Clear
  <2>4. ASSUME NEW s \in Scope, Load(k, s) PROVE From(toChild', toChild, {"prompt"})
    BY <2>1, <2>4, CommandFrom DEF Load
  <2>5. ASSUME NEW s \in Scope, NEW o \in Op, Release(k, o, s) PROVE From(toChild', toChild, {"prompt"})
    BY <2>1, <2>5, CommandFrom DEF Release
  <2>6. ASSUME NEW s \in Scope, NEW b \in BOOLEAN, ScopeStop(k, s, b) PROVE From(toChild', toChild, {"prompt"})
    BY <2>1, <2>6, CommandFrom DEF ScopeStop
  <2> QED BY <2>2, <2>3, <2>4, <2>5, <2>6
<1>4. From(toParent', toParent, Tells)
  BY <1>1, FromSame DEF TypeOK
<1> QED BY <1>1, <1>2, <1>3, <1>4, FlightStays

LEMMA CallFlight ==
  ASSUME TypeOK, Flight, TypeOK', NEW k \in Call,
         \/ Shutdown(k) \/ DownChild(k) \/ Unsubscribe(k) \/ Timeout(k)
         \/ \E s \in Scope, d \in Data : Ask(k, d, s)
  PROVE  Flight'
<1>1. /\ UNCHANGED <<processing, current, completers, scopeIds, running, toParent, missed, strayed,
                     closed>>
      /\ \A p \in Prompt : stage[p] = "sent" => stage'[p] = "sent"
  BY DEF Shutdown, DownChild, Unsubscribe, Timeout, Ask, child, Waiting
<1>2. From(toChild', toChild, {"prompt"}) /\ scopes' \subseteq scopes
  <2>1. toChild \in Seq(ToChild)
    BY DEF TypeOK
  <2>2. CASE Timeout(k)
    <3>1. CASE UNCHANGED <<toChild, scopes>>
      BY <2>1, <3>1, FromSame
    <3> QED BY <2>2, <3>1, AfterStopFrom DEF Timeout
  <2>3. CASE Shutdown(k) \/ Unsubscribe(k)
    BY <2>1, <2>3, FromSame DEF Shutdown, Unsubscribe
  <2>4. CASE DownChild(k)
    <3> DEFINE m == [kind |-> "dispose", prompt |-> NoPrompt, id |-> 0, call |-> k, scope |-> NoScope]
    <3>1. m \in ToChild /\ m.kind \notin {"prompt"}
      BY IdsNat DEF ToChild, Commands
    <3>2. toChild' = Append(toChild, m) /\ UNCHANGED scopes
      BY <2>4 DEF DownChild
    <3> HIDE DEF m
    <3> QED BY <2>1, <3>1, <3>2, FromAppend
  <2>5. ASSUME NEW s \in Scope, NEW d \in Data, Ask(k, d, s)
        PROVE  From(toChild', toChild, {"prompt"}) /\ scopes' \subseteq scopes
    <3> DEFINE m == [kind |-> d, prompt |-> NoPrompt, id |-> 0, call |-> k, scope |-> s]
    <3>1. m \in ToChild /\ m.kind \notin {"prompt"}
      BY IdsNat DEF ToChild, Data
    <3>2. toChild' = Append(toChild, m) /\ UNCHANGED scopes
      BY <2>5 DEF Ask
    <3> HIDE DEF m
    <3> QED BY <2>1, <3>1, <3>2, FromAppend
  <2> QED BY <2>2, <2>3, <2>4, <2>5
<1>3. From(toParent', toParent, Tells)
  BY <1>1, FromSame DEF TypeOK
<1> QED BY <1>1, <1>2, <1>3, FlightStays

LEMMA HearFlight ==
  ASSUME TypeOK, Flight, TypeOK', OnText \/ OnDataAnswer \/ OnConfirm
  PROVE  Flight'
<1>1. /\ UNCHANGED <<processing, current, completers, scopeIds, running, missed, strayed, closed,
                     stage>>
  BY DEF OnText, OnDataAnswer, OnConfirm, parent, child
<1>2. From(toParent', toParent, Tells)
  <2>1. \E kinds : Deliver(kinds)
    BY DEF OnText, OnDataAnswer, OnConfirm
  <2> QED BY <2>1, DeliverType, FromTail
<1>3. From(toChild', toChild, {"prompt"}) /\ scopes' \subseteq scopes
  <2>1. toChild \in Seq(ToChild) /\ (op # NoCall => op \in Call)
    BY DEF TypeOK
  <2>2. CASE UNCHANGED <<toChild, scopes>>
    BY <2>1, <2>2, FromSame
  <2>3. CASE op # NoCall /\ AfterStop(op, "ok")
    BY <2>1, <2>3, AfterStopFrom
  <2> QED BY <2>2, <2>3 DEF OnText, OnDataAnswer, OnConfirm, parent, NoCommand
<1> QED BY <1>1, <1>2, <1>3, FlightStays

(* The commands that the child handles.                                    *)
LEMMA HandleFlight ==
  ASSUME TypeOK, Flight, TypeOK', NEW kind, Handle(kind), kind # "prompt",
         NEW r \in Data \cup {"confirm"},
         Answered(r) \/ Refused \/ UNCHANGED <<toParent, strayed>>,
         UNCHANGED running
  PROVE  Flight'
<1>1. UNCHANGED parent /\ UNCHANGED missed
  BY DEF Handle
<1>2. From(toChild', toChild, {"prompt"})
  BY HandleType, FromTail
<1>3. CASE Refused
  BY <1>3 DEF Refused, Flight
<1>4. CASE Answered(r) \/ UNCHANGED <<toParent, strayed>>
  <2>1. UNCHANGED strayed
    BY <1>4 DEF Answered
  <2>2. From(toParent', toParent, Tells)
    <3>1. toParent \in Seq(ToParent) /\ Head(toChild) \in ToChild
      BY HandleType DEF TypeOK
    <3>2. CASE toParent' = toParent
      BY <3>1, <3>2, FromSame
    <3>3. CASE Answered(r)
      <4>1. Say(r, Head(toChild))
        BY <3>3 DEF Answered
      <4>2. PICK a \in ToParent : a.kind = r /\ toParent' = Append(toParent, a)
        BY <3>1, <4>1, SayType
      <4>3. a.kind \notin Tells
        BY <4>2 DEF Tells, Ends, Data
      <4> QED BY <3>1, <4>2, <4>3, FromAppend
    <3> QED BY <1>4, <3>2, <3>3
  <2> QED BY <1>1, <1>2, <2>1, <2>2, FlightStays DEF parent
<1> QED BY <1>3, <1>4

LEMMA ChildFlight ==
  ASSUME TypeOK, Flight, TypeOK', ChildHears, ~HandlePrompt
  PROVE  Flight'
<1>1. CASE HandleStop
  BY <1>1, HandleFlight DEF HandleStop
<1>2. CASE HandleClear
  BY <1>2, HandleFlight DEF HandleClear
<1>3. CASE HandleFree
  BY <1>3, HandleFlight DEF HandleFree
<1>4. CASE HandleLoad
  BY <1>4, HandleFlight DEF HandleLoad
<1>5. CASE HandleSave
  BY <1>5, HandleFlight DEF HandleSave, child, Data
<1>6. CASE HandleCount
  BY <1>6, HandleFlight DEF HandleCount, child, Data
<1>7. CASE HandleDispose
  BY <1>7, HandleFlight DEF HandleDispose
<1> QED BY <1>1, <1>2, <1>3, <1>4, <1>5, <1>6, <1>7 DEF ChildHears

-----------------------------------------------------------------------------
(* A prompt starts when none is under way.                                 *)
LEMMA StartFlight ==
  ASSUME TypeOK, TypeOK', NEW p \in Prompt, NEW st \in [Prompt -> Stage],
         NEW ids \in [Scope -> SUBSET Ids], NEW cp \in [Ids -> Prompt \cup {NoPrompt}],
         Start(p, st, ids, cp),
         \A i \in 1 .. Len(toChild) : toChild[i].kind # "prompt",
         running = {}, running' = running,
         \A j \in 1 .. Len(toParent') : toParent'[j].kind \notin Tells,
         \A s \in Open' : \A i \in ids[s] : i <= current /\ i # current,
         UNCHANGED scopes
  PROVE  (OneWay /\ AllOwn /\ IdsOK /\ Free)'
<1>1. PICK m \in ToChild : /\ m.kind = "prompt" /\ m.prompt = p /\ m.id = current'
                           /\ m.scope = ScopeOf[p] /\ toChild' = Append(toChild, m)
  BY StartType
<1> PICK x \in {current, current + 1} \cap (Ids \ {0}) :
        /\ stage' = [st EXCEPT ![p] = "sent"] /\ processing' = Taken /\ current' = x
        /\ completers' = [cp EXCEPT ![x] = p]
        /\ scopeIds' = WithId(ids, ScopeOf[p], x)
  BY DEF Start
<1>2. /\ processing' = TRUE /\ current' = x /\ x # 0 /\ x \in {current, current + 1} /\ x \in Ids
      /\ stage' = [st EXCEPT ![p] = "sent"] /\ completers' = [cp EXCEPT ![x] = p]
      /\ scopeIds' = WithId(ids, ScopeOf[p], x)
  BY DEF Taken
<1>3. toChild \in Seq(ToChild) /\ current \in Ids
  BY DEF TypeOK
<1>4. /\ Len(toChild) \in Nat /\ Len(toChild') = Len(toChild) + 1
      /\ toChild'[Len(toChild) + 1] = m
      /\ \A i \in 1 .. Len(toChild) : toChild'[i] = toChild[i]
  BY <1>1, <1>3, AppendEl
<1>5. \A i \in 1 .. Len(toChild') : toChild'[i].kind = "prompt" => i = Len(toChild) + 1
  BY <1>4
<1>6. completers'[current'] = p /\ stage'[p] = "sent"
  BY <1>2
<1>7. OneWay'
  BY <1>5 DEF OneWay, Tells
<1>8. AllOwn'
  <2>1. Own(m)'
    BY <1>1, <1>2, <1>6 DEF Own
  <2>2. \A i \in 1 .. Len(toChild') : toChild'[i].kind = "prompt" => toChild'[i] = m
    BY <1>4, <1>5
  <2>3. (\A i \in 1 .. Len(toChild) : toChild[i].kind = "prompt" => Own(toChild[i]))'
    BY <2>1, <2>2 DEF Own
  <2>4. (\A o \in running : o.kind = "prompt" /\ Own(o))'
    OBVIOUS
  <2>5. (\A j \in 1 .. Len(toParent) : toParent[j].kind \in Tells => Own(toParent[j]))'
    OBVIOUS
  <2> QED BY <2>3, <2>4, <2>5 DEF AllOwn
<1>9. IdsOK'
  <2>1. current \in Nat /\ current' \in Nat
    BY <1>2, <1>3, IdsNat
  <2>2. p # NoPrompt
    BY NullAssumption
  <2> SUFFICES ASSUME NEW s \in Open'
               PROVE  /\ \A i \in scopeIds'[s] : i <= current'
                      /\ current' \in scopeIds'[s] <=> s = ScopeOf[p]
    BY <1>6, <2>2 DEF IdsOK
  <2>3. s \in Scope /\ ids[s] \subseteq Nat
    BY IdsNat DEF TypeOK, Open
  <2>4. \A i \in ids[s] : i < current'
    BY <1>2, <2>1, <2>3
  <2>5. CASE s = ScopeOf[p]
    <3>1. scopeIds'[s] = ids[s] \cup {current'}
      BY <1>2, <2>3, <2>5, NullAssumption DEF WithId
    <3> QED BY <2>1, <2>3, <2>4, <2>5, <3>1
  <2>6. CASE s # ScopeOf[p]
    <3>1. scopeIds'[s] = ids[s]
      BY <1>2, <2>3, <2>6 DEF WithId
    <3> QED BY <2>1, <2>3, <2>4, <2>6, <3>1
  <2> QED BY <2>5, <2>6
<1> QED BY <1>2, <1>7, <1>8, <1>9 DEF Free

LEMMA SendFlight ==
  ASSUME TypeOK, Flight, TypeOK', NEW p \in Prompt, SendPrompt(p)
  PROVE  Flight'
<1>1. UNCHANGED <<scopes, closed, running, toParent, missed, strayed>> /\ stage[p] = "new"
  BY DEF SendPrompt, child
<1>2. CASE QueueFree /\ Start(p, stage, scopeIds, completers)
  <2> SUFFICES ASSUME ~strayed PROVE (OneWay /\ AllOwn /\ IdsOK /\ Free)'
    BY <1>1 DEF Flight
  <2>1. AllOwn /\ IdsOK /\ completers[current] = NoPrompt /\ ~processing
    BY <1>2 DEF Flight, Free, QueueFree
  <2>2. /\ \A i \in 1 .. Len(toChild) : toChild[i].kind # "prompt"
        /\ running = {}
        /\ \A j \in 1 .. Len(toParent') : toParent'[j].kind \notin Tells
    BY <1>1, <2>1 DEF AllOwn, Own
  <2>3. \A s \in Open' : \A i \in scopeIds[s] : i <= current /\ i # current
    BY <1>1, <2>1 DEF IdsOK, Open
  <2>4. /\ stage \in [Prompt -> Stage] /\ scopeIds \in [Scope -> SUBSET Ids]
        /\ completers \in [Ids -> Prompt \cup {NoPrompt}]
    BY DEF TypeOK
  <2> QED BY <1>1, <1>2, <2>2, <2>3, <2>4, StartFlight
<1>3. CASE ~(QueueFree /\ Start(p, stage, scopeIds, completers))
  <2>1. /\ stage' = [stage EXCEPT ![p] = "queued"]
        /\ UNCHANGED <<processing, current, completers, scopeIds, toChild>>
    BY <1>3 DEF SendPrompt
  <2>2. \A q \in Prompt : stage[q] = "sent" => stage'[q] = "sent"
    BY <1>1, <2>1 DEF TypeOK
  <2>3. From(toChild', toChild, {"prompt"}) /\ From(toParent', toParent, Tells)
    BY <1>1, <2>1, FromSame DEF TypeOK
  <2> QED BY <1>1, <2>1, <2>2, <2>3, FlightStays
<1> QED BY <1>2, <1>3

(* The end of the prompt under way was the last that was said about it.    *)
LEMMA EndFlight ==
  ASSUME TypeOK, Flight, TypeOK', NEW told, OnEnd(told)
  PROVE  Flight'
<1> DEFINE m   == Head(toParent)
           i   == IF m.id = 0 THEN current ELSE m.id
           q   == completers[i]
           st  == IF q = NoPrompt THEN stage ELSE [stage EXCEPT ![q] = "done"]
           cp  == [completers EXCEPT ![i] = NoPrompt]
           ids == Told(told, i)
           wakes  == q # NoPrompt /\ Wakes(m)
<1>1. /\ toParent \in Seq(ToParent) /\ toParent # <<>> /\ m \in ToParent /\ m.kind \in Ends
      /\ toParent' = Tail(toParent)
      /\ UNCHANGED <<place, scopes, closed, listening, child, handled, solo, strayed>>
      /\ missed' = missed \cup {s \in (scopes \ closed) \ told : i \in scopeIds[s]}
  BY DeliverType DEF OnEnd, EndKinds, Ends
<1>2. \/ \E p \in Prompt : Start(p, st, ids, cp)
      \/ /\ stage' = st /\ scopeIds' = ids /\ completers' = cp
         /\ processing' = (processing /\ ~wakes)
         /\ UNCHANGED <<current, toChild>>
  BY DEF OnEnd
<1> SUFFICES ASSUME ~strayed PROVE (OneWay /\ AllOwn /\ IdsOK /\ Free)'
  BY <1>1 DEF Flight
<1>3. OneWay /\ AllOwn /\ IdsOK /\ Free
  BY DEF Flight
<1>4. /\ Len(toParent) \in Nat \ {0} /\ Len(toParent') = Len(toParent) - 1
      /\ \A j \in 1 .. Len(toParent) - 1 : toParent'[j] = toParent[j + 1]
      /\ m = toParent[1]
  BY <1>1, TailEl
<1>5. Own(m)
  BY <1>1, <1>3, <1>4 DEF AllOwn, Tells
<1>6. i = current /\ q \in Prompt /\ q # NoPrompt /\ i \in Ids
  BY <1>5, NullAssumption DEF Own, TypeOK
<1>7. /\ \A x \in 1 .. Len(toChild) : toChild[x].kind # "prompt"
      /\ running = {} /\ running' = running
  BY <1>1, <1>3, <1>4 DEF OneWay, Tells, child
<1>8. \A j \in 1 .. Len(toParent') : toParent'[j].kind \notin Tells
  <2> SUFFICES ASSUME NEW j \in 1 .. Len(toParent'), toParent'[j].kind \in Tells PROVE FALSE
    OBVIOUS
  <2>1. j + 1 \in 1 .. Len(toParent) /\ toParent[j + 1].kind \in Tells
    BY <1>4
  <2>2. j + 1 <= 1
    BY <1>1, <1>3, <1>4, <2>1 DEF OneWay
  <2> QED BY <2>2
<1>9. \A s \in Open' : \A x \in ids[s] : x <= current /\ x # current
  BY <1>1, <1>3, <1>6 DEF IdsOK, Open, TypeOK, Told
<1>10. /\ st \in [Prompt -> Stage] /\ cp \in [Ids -> Prompt \cup {NoPrompt}]
       /\ ids \in [Scope -> SUBSET Ids] /\ cp[current] = NoPrompt
  BY <1>6 DEF TypeOK, Stage, Told
<1>11. wakes
  BY <1>6 DEF Wakes
<1> HIDE DEF st, cp, ids, wakes, q, i, m
<1>12. CASE \E p \in Prompt : Start(p, st, ids, cp)
  <2>1. PICK p \in Prompt : Start(p, st, ids, cp)
    BY <1>12
  <2> QED BY <1>1, <1>7, <1>8, <1>9, <1>10, <2>1, StartFlight
<1>13. CASE /\ stage' = st /\ scopeIds' = ids /\ completers' = cp
            /\ processing' = (processing /\ ~wakes)
            /\ UNCHANGED <<current, toChild>>
  <2>1. OneWay'
    BY <1>7, <1>8, <1>13 DEF OneWay, Tells, Ends
  <2>2. AllOwn'
    BY <1>7, <1>8, <1>13 DEF AllOwn
  <2>3. IdsOK'
    BY <1>1, <1>9, <1>10, <1>13 DEF IdsOK
  <2>4. Free'
    BY <1>10, <1>13 DEF Free
  <2> QED BY <2>1, <2>2, <2>3, <2>4
<1> QED BY <1>2, <1>12, <1>13

(* The prompt reaches the child: it runs, or is answered with an error.    *)
LEMMA PromptFlight ==
  ASSUME TypeOK, Flight, TypeOK', HandlePrompt
  PROVE  Flight'
<1> DEFINE m == Head(toChild)
<1>1. /\ toChild \in Seq(ToChild) /\ toChild # <<>> /\ m \in ToChild /\ m.kind = "prompt"
      /\ toChild' = Tail(toChild) /\ UNCHANGED parent /\ UNCHANGED missed
  BY HandleType DEF HandlePrompt, Handle
<1>2. /\ Len(toChild) \in Nat \ {0} /\ Len(toChild') = Len(toChild) - 1
      /\ \A i \in 1 .. Len(toChild) - 1 : toChild'[i] = toChild[i + 1]
      /\ m = toChild[1]
  BY <1>1, TailEl
<1>3. \/ running' = running \cup {m} /\ UNCHANGED <<toParent, strayed>>
      \/ Answered("error") /\ UNCHANGED running
  BY DEF HandlePrompt
<1> SUFFICES ASSUME ~strayed PROVE (OneWay /\ AllOwn /\ IdsOK /\ Free)'
  BY <1>3 DEF Flight, Answered
<1>4. OneWay /\ AllOwn /\ IdsOK /\ Free
  BY DEF Flight
<1> HIDE DEF m
<1>5. /\ Own(m) /\ running = {}
      /\ \A j \in 1 .. Len(toParent) : toParent[j].kind \notin Tells
  BY <1>1, <1>2, <1>4 DEF OneWay, AllOwn
<1>6. \A i \in 1 .. Len(toChild') : toChild'[i].kind # "prompt"
  <2> SUFFICES ASSUME NEW i \in 1 .. Len(toChild'), toChild'[i].kind = "prompt" PROVE FALSE
    OBVIOUS
  <2>1. i + 1 \in 1 .. Len(toChild) /\ toChild[i + 1].kind = "prompt"
    BY <1>2
  <2>2. i + 1 = 1
    BY <1>1, <1>2, <1>4, <2>1 DEF OneWay
  <2> QED BY <2>2
<1>7. IdsOK' /\ Free'
  BY <1>1, <1>4 DEF IdsOK, Open, Free, parent
<1>8. CASE running' = running \cup {m} /\ UNCHANGED <<toParent, strayed>>
  <2>1. OneWay'
    BY <1>5, <1>6, <1>8 DEF OneWay, Tells
  <2>2. (\A o \in running : o.kind = "prompt" /\ Own(o))'
    BY <1>1, <1>5, <1>8 DEF Own, parent
  <2>3. AllOwn'
    BY <1>5, <1>6, <1>8, <2>2 DEF AllOwn
  <2> QED BY <1>7, <2>1, <2>3
<1>9. CASE Answered("error") /\ UNCHANGED running
  <2>1. Say("error", m)
    BY <1>9 DEF Answered, m
  <2>2. PICK a \in ToParent : /\ a.kind = "error" /\ a.prompt = m.prompt /\ a.id = m.id
                              /\ toParent' = Append(toParent, a)
    BY <1>1, <2>1, SayType
  <2>3. /\ Len(toParent) \in Nat /\ Len(toParent') = Len(toParent) + 1
        /\ \A j \in 1 .. Len(toParent) : toParent'[j] = toParent[j]
        /\ toParent'[Len(toParent) + 1] = a
    BY <2>2, AppendEl DEF TypeOK
  <2>4. \A j \in 1 .. Len(toParent') : toParent'[j].kind \in Tells => j = Len(toParent) + 1
    BY <1>5, <2>3
  <2>5. OneWay'
    BY <1>5, <1>6, <1>9, <2>3, <2>4 DEF OneWay, Tells, Ends
  <2>6. Own(a)'
    BY <1>1, <1>5, <2>2 DEF Own, parent
  <2>7. (\A j \in 1 .. Len(toParent) : toParent[j].kind \in Tells => Own(toParent[j]))'
    BY <2>3, <2>4, <2>6
  <2>8. AllOwn'
    BY <1>5, <1>6, <1>9, <2>7 DEF AllOwn
  <2> QED BY <1>7, <2>5, <2>8
<1> QED BY <1>3, <1>8, <1>9

(* The running prompt says a text, or its end.                             *)
LEMMA SayFlight ==
  ASSUME TypeOK, Flight, TypeOK', NEW m \in running, NEW kind \in Tells, Say(kind, m),
         UNCHANGED <<parent, toChild, missed, strayed>>,
         running' = IF kind \in Ends THEN running \ {m} ELSE running
  PROVE  Flight'
<1> SUFFICES ASSUME ~strayed PROVE (OneWay /\ AllOwn /\ IdsOK /\ Free)'
  BY DEF Flight
<1>1. OneWay /\ AllOwn /\ IdsOK /\ Free /\ m \in ToChild /\ toParent \in Seq(ToParent)
  BY DEF Flight, TypeOK
<1>2. /\ \A i \in 1 .. Len(toChild) : toChild[i].kind # "prompt"
      /\ \A j \in 1 .. Len(toParent) : toParent[j].kind \notin Ends
      /\ \A o \in running : o = m
      /\ Own(m)
  BY <1>1 DEF OneWay, AllOwn
<1>3. PICK a \in ToParent : /\ a.kind = kind /\ a.prompt = m.prompt /\ a.id = m.id
                            /\ toParent' = Append(toParent, a)
  BY <1>1, SayType DEF Tells, Ends
<1>4. /\ Len(toParent) \in Nat /\ Len(toParent') = Len(toParent) + 1
      /\ \A j \in 1 .. Len(toParent) : toParent'[j] = toParent[j]
      /\ toParent'[Len(toParent) + 1] = a
  BY <1>1, <1>3, AppendEl
<1>5. \A j \in 1 .. Len(toParent') : toParent'[j].kind \in Ends =>
          j = Len(toParent) + 1 /\ kind \in Ends
  BY <1>2, <1>3, <1>4
<1>6. kind \in Ends => running' = {}
  BY <1>2
<1>7. running' \subseteq running
  OBVIOUS
<1>8. OneWay'
  BY <1>1, <1>2, <1>4, <1>5, <1>6, <1>7 DEF OneWay
<1>9. Own(a)'
  BY <1>2, <1>3 DEF Own, parent
<1>10. (\A o \in running : o.kind = "prompt" /\ Own(o))'
  BY <1>1, <1>7 DEF AllOwn, Own, parent
<1>11. (\A j \in 1 .. Len(toParent) : toParent[j].kind \in Tells => Own(toParent[j]))'
  <2> SUFFICES ASSUME NEW j \in 1 .. Len(toParent'), toParent'[j].kind \in Tells
               PROVE Own(toParent'[j]) /\ UNCHANGED <<processing, current, completers, stage>>
    BY DEF Own
  <2>1. UNCHANGED <<processing, current, completers, stage>>
    BY DEF parent
  <2>2. CASE j \in 1 .. Len(toParent)
    BY <1>1, <1>4, <2>1, <2>2 DEF AllOwn
  <2>3. CASE j = Len(toParent) + 1
    BY <1>2, <1>3, <1>4, <2>1, <2>3 DEF Own
  <2> QED BY <1>4, <2>2, <2>3
<1>12. AllOwn'
  BY <1>2, <1>10, <1>11 DEF AllOwn
<1>13. IdsOK' /\ Free'
  BY <1>1 DEF IdsOK, Open, Free, parent
<1> QED BY <1>8, <1>12, <1>13

LEMMA FlightNext == ASSUME TypeOK, Flight, TypeOK', [Next]_vars PROVE Flight'
<1>0. "free" \in Op /\ "shutdown" \in Op
  BY DEF Op
<1>1. CASE Caller
  BY <1>0, <1>1, SendFlight, CommandFlight, CallFlight DEF Caller, DisposeScope
<1>2. CASE Disposal
  BY <1>0, <1>2, CommandFlight, CallFlight DEF Disposal, DownScope
<1>3. CASE \E k \in Call : Timeout(k)
  BY <1>3, CallFlight
<1>4. CASE ParentHears
  BY <1>4, HearFlight, EndFlight DEF ParentHears
<1>5. CASE ChildHears
  BY <1>5, ChildFlight, PromptFlight
<1>6. CASE Generation
  <2>1. PICK m \in running : Token(m) \/ Finish(m) \/ Fail(m)
    BY <1>6 DEF Generation
  <2>2. \E kind \in Tells :
           /\ Say(kind, m) /\ UNCHANGED <<parent, toChild, missed, strayed>>
           /\ running' = IF kind \in Ends THEN running \ {m} ELSE running
    <3>1. CASE Token(m)
      BY <3>1 DEF Token, Tells, Ends
    <3>2. CASE Finish(m)
      BY <3>2 DEF Finish, Leave, Tells, Ends
    <3>3. CASE Fail(m)
      BY <3>3 DEF Fail, Leave, Tells, Ends
    <3> QED BY <2>1, <3>1, <3>2, <3>3
  <2> QED BY <2>2, SayFlight
<1>7. CASE UNCHANGED vars
  BY <1>7, FromSame, FlightStays DEF vars, parent, child, TypeOK
<1> QED BY <1>1, <1>2, <1>3, <1>4, <1>5, <1>6, <1>7 DEF Next

LEMMA FlightInit == ASSUME Init PROVE Flight
<1>1. OneWay /\ AllOwn
  BY DEF Init, OneWay, AllOwn
<1>2. completers[0] = NoPrompt
  BY IdsNat DEF Init
<1> QED BY <1>1, <1>2 DEF Init, Flight, IdsOK, Open, Free

LEMMA FlightAlways == Spec => [](TypeOK /\ Flight)
<1>1. Init => TypeOK /\ Flight
  BY TypeInit, FlightInit
<1>2. TypeOK /\ Flight /\ [Next]_vars => (TypeOK /\ Flight)'
  BY TypeNext, FlightNext
<1> QED BY <1>1, <1>2, PTL DEF Spec

-----------------------------------------------------------------------------
LEMMA AcceptedOwn ==
  ASSUME OneWay, AllOwn
  PROVE  /\ \A m \in Accepted : Own(m)
         /\ \A m, o \in Accepted : m = o
<1>1. \A m \in Accepted : m \in running
         \/ \E i \in 1 .. Len(toChild) : m = toChild[i] /\ m.kind = "prompt"
  BY DEF Accepted, Queued
<1> QED BY <1>1 DEF OneWay, AllOwn

(* While no command was refused, the child has one prompt at a time.       *)
THEOREM OnePrompt == Spec => []OneAtATime
<1>1. Flight => OneAtATime
  BY AcceptedOwn DEF Flight, OneAtATime
<1> QED BY <1>1, FlightAlways, PTL

(* While no command was refused, no one who waits for a prompt is told of  *)
(* its end before the child has dealt with it.                             *)
THEOREM EndIsEnd == Spec => []EndsAfterAnswer
<1>1. Flight => EndsAfterAnswer
  BY AcceptedOwn DEF Flight, EndsAfterAnswer, Own
<1> QED BY <1>1, FlightAlways, PTL

(* Texts and completions reach their prompt, and only its scope among the  *)
(* open ones that were told of every completion.                           *)
THEOREM TagsAlwaysRight == Spec => []TagsRight
<1>1. TypeOK /\ Flight => TagsRight
  <2> SUFFICES ASSUME TypeOK, OneWay, AllOwn, IdsOK, NEW m \in Said, m.kind \in {"text", "done"}
               PROVE  /\ completers[m.id] = m.prompt
                      /\ \A s \in Open : m.id \in scopeIds[s] <=> s = ScopeOf[m.prompt]
    BY DEF Flight, TagsRight, Open
  <2>1. Own(m)
    <3>1. PICK j \in DOMAIN toParent : m = toParent[j]
      BY DEF Said
    <3>2. j \in 1 .. Len(toParent)
      BY DEF TypeOK
    <3> QED BY <3>1, <3>2 DEF AllOwn, Tells, Ends
  <2>2. m.id = current /\ completers[current] = m.prompt /\ m.prompt # NoPrompt
    BY <2>1, NullAssumption DEF Own
  <2> QED BY <2>2 DEF IdsOK
<1> QED BY <1>1, FlightAlways, PTL

(* Only a prompt takes a stop back, and it finds nothing running.          *)
THEOREM StopsStick == Spec => StopSticks
<1> DEFINE Sticks == ~strayed /\ shouldStop /\ ~shouldStop' => running = {}
<1>1. ASSUME TypeOK, Flight, [Next]_vars PROVE [Sticks]_vars
  <2>1. CASE HandlePrompt
    <3>1. toChild # <<>> /\ toChild \in Seq(ToChild) /\ Head(toChild).kind = "prompt"
      BY <1>1, <2>1, HandleType DEF HandlePrompt
    <3>2. 1 \in 1 .. Len(toChild) /\ toChild[1].kind = "prompt"
      BY <3>1
    <3> QED BY <1>1, <3>2 DEF Flight, OneWay
  <2>2. CASE ChildHears /\ ~HandlePrompt
    BY <2>2 DEF ChildHears, HandleStop, HandleClear, HandleFree, HandleLoad, HandleSave,
                HandleCount, HandleDispose, child
  <2>3. CASE Generation
    BY <2>3 DEF Generation, Token, Finish, Fail, Leave
  <2>4. CASE Caller
    BY <2>4 DEF Caller, SendPrompt, Stop, Clear, Shutdown, ScopeStop, DisposeScope, Release, Load, Ask, child
  <2>5. CASE Disposal
    BY <2>5 DEF Disposal, DownScope, Release, DownChild, Unsubscribe, child
  <2>6. CASE ParentHears
    BY <2>6 DEF ParentHears, OnText, OnDataAnswer, OnConfirm, OnEnd, child
  <2>7. CASE \E k \in Call : Timeout(k)
    BY <2>7 DEF Timeout, child
  <2>8. CASE UNCHANGED vars
    BY <2>8
  <2> QED BY <1>1, <2>1, <2>2, <2>3, <2>4, <2>5, <2>6, <2>7, <2>8 DEF Next
<1> QED BY <1>1, FlightAlways, PTL DEF Spec, StopSticks
=============================================================================
