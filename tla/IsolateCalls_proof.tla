------------------------- MODULE IsolateCalls_proof -------------------------
(***************************************************************************)
(* Proofs about IsolateProtocol, continued: the one completer that all     *)
(* commands share completes a call that waits alone only once the child    *)
(* handled its command, for any number of calls and every Env.             *)
(***************************************************************************)
EXTENDS IsolateProtocol_proof

(* Where the call k is, and who holds _operationCompleter and the data     *)
(* completers.  Parameters, so that a step is stated once for each call.   *)
Sits(k) ==
    /\ call[k].at = "unused" => call[k].op = "none"
    /\ call[k].at = "stop" => op = k
    /\ call[k].at = "main" /\ call[k].op \notin Data => op = k
    /\ op = k => call[k].at \in {"stop", "main"} /\ call[k].op \notin Data
    /\ \A d \in Data : asked[d] = k => call[k].op = d
    /\ call[k].at \in {"down", "drain"} => call[k].op = "shutdown" /\ op = NoCall
    /\ \A j \in Call : call[k].op = "shutdown" /\ call[j].op = "shutdown" => j = k

(* A call whose command had no other before it: while it waits, the        *)
(* commands and confirmations under way are its own.                       *)
Alone(k) == k \in solo =>
    /\ call[k].op \notin Data \cup {"none"}
    /\ op = k => /\ \A i \in 1 .. Len(toChild) :
                       toChild[i].kind \in Commands => toChild[i].call = k
                 /\ \A i \in 1 .. Len(toParent) :
                       toParent[i].kind = "confirm" => k \in handled
    /\ call[k].at \in {"ok", "down", "drain"} => k \in handled

CallsOK == \A k \in Call : Sits(k) /\ Alone(k)

-----------------------------------------------------------------------------
(* Steps that leave the calls and their commands alone.                    *)
LEMMA CallsStay ==
  ASSUME CallsOK, UNCHANGED <<call, op, asked, solo>>, handled \subseteq handled',
         From(toChild', toChild, Commands), From(toParent', toParent, {"confirm"})
  PROVE  CallsOK'
<1> SUFFICES ASSUME NEW k \in Call PROVE Sits(k)' /\ Alone(k)'
  BY DEF CallsOK
<1>1. Sits(k) /\ Alone(k)
  BY DEF CallsOK
<1>2. Sits(k)'
  BY <1>1 DEF Sits
<1>3. PICK d \in {0, 1} : \A i \in 1 .. Len(toChild') :
        toChild'[i].kind \in Commands =>
            i + d \in 1 .. Len(toChild) /\ toChild'[i] = toChild[i + d]
  BY DEF From
<1>4. PICK e \in {0, 1} : \A i \in 1 .. Len(toParent') :
        toParent'[i].kind \in {"confirm"} =>
            i + e \in 1 .. Len(toParent) /\ toParent'[i] = toParent[i + e]
  BY DEF From
<1>5. Alone(k)'
  BY <1>1, <1>3, <1>4 DEF Alone
<1> QED BY <1>2, <1>5

LEMMA StartFrom ==
  ASSUME TypeOK, NEW p \in Prompt, NEW st, NEW ids, NEW cp, Start(p, st, ids, cp)
  PROVE  From(toChild', toChild, Commands)
<1>1. PICK i \in Ids :
        toChild' = Append(toChild, [kind |-> "prompt", prompt |-> p, id |-> i,
                                    call |-> NoCall, scope |-> ScopeOf[p]])
  BY DEF Start
<1> DEFINE m == [kind |-> "prompt", prompt |-> p, id |-> i, call |-> NoCall, scope |-> ScopeOf[p]]
<1>2. m \in ToChild /\ m.kind \notin Commands
  BY NullAssumption DEF ToChild, Commands
<1>3. toChild' = Append(toChild, m) /\ toChild \in Seq(ToChild)
  BY <1>1 DEF TypeOK
<1> HIDE DEF m
<1> QED BY <1>2, <1>3, FromAppend

(* A command is sent for the call k, which sits where c says.              *)
LEMMA SendCalls ==
  ASSUME TypeOK, CallsOK, NEW k \in Call, NEW c \in [Call -> CallRec],
         NEW kind \in Commands, NEW s \in Scope \cup {NoScope},
         SendCommand(c, k, kind, s),
         \A j \in Call \ {k} : c[j] = call[j],
         c[k].at \in {"stop", "main"}, c[k].op \notin Data \cup {"none"},
         asked' = asked, \A d \in Data : asked[d] # k,
         c[k].op = "shutdown" => \A j \in Call \ {k} : call[j].op # "shutdown",
         \A j \in Call \ {k} : call[j].at \notin {"down", "drain"}
  PROVE  CallsOK'
<1>1. /\ call'[k] = c[k] /\ op' = k /\ op \in Call \cup {NoCall}
      /\ \A j \in Call \ {k} : call'[j].op = call[j].op
      /\ \A j \in Call \ {k} : call'[j].at = call[j].at \/ call'[j].at = "failed"
      /\ \A j \in Call \ {k} : j # op => call'[j] = call[j]
      /\ op \in Call \ {k} => call'[op].at = "failed"
  <2>1. /\ call' \in [Call -> CallRec] /\ op' = k
        /\ call'[k] = c[k]
        /\ \A j \in Call \ {op} : call'[j] = c[j]
        /\ op \in Call \ {k} => call'[op] = [c[op] EXCEPT !.at = "failed"]
    BY CommandType
  <2>2. op \in Call \ {k} => call'[op].at = "failed" /\ call'[op].op = call[op].op
    <3> SUFFICES ASSUME op \in Call \ {k}
                 PROVE call'[op].at = "failed" /\ call'[op].op = call[op].op
      OBVIOUS
    <3>1. c[op] \in CallRec /\ c[op] = call[op] /\ "failed" \in At
      BY Names
    <3>2. call'[op] = [c[op] EXCEPT !.at = "failed"]
      BY <2>1
    <3> QED BY <3>1, <3>2, AtRec
  <2>3. op \in Call \cup {NoCall}
    BY DEF TypeOK
  <2> QED BY <2>1, <2>2, <2>3
<1>2. /\ handled' = handled \ {k}
      /\ solo' = IF Unanswered(toParent') THEN solo \ {k} ELSE solo \cup {k}
      /\ toChild' = Append(toChild, [kind |-> kind, prompt |-> NoPrompt, id |-> 0,
                                     call |-> k, scope |-> s])
  BY DEF SendCommand
<1>3. ASSUME NEW j \in Call \ {k} PROVE Sits(j)' /\ Alone(j)'
  <2>1. Sits(j) /\ Alone(j)
    BY DEF CallsOK
  <2>2. Sits(j)'
    BY <1>1, <1>3, <2>1 DEF Sits
  <2>3. Alone(j)'
    BY <1>1, <1>2, <1>3, <2>1 DEF Alone
  <2> QED BY <2>2, <2>3
<1>4. Sits(k)'
  BY <1>1 DEF Sits
<1>5. Alone(k)'
  <2> SUFFICES ASSUME k \in solo'
               PROVE  /\ \A i \in 1 .. Len(toChild') :
                            toChild'[i].kind \in Commands => toChild'[i].call = k
                      /\ \A i \in 1 .. Len(toParent') : toParent'[i].kind # "confirm"
    BY <1>1 DEF Alone
  <2>1. ~Unanswered(toParent')
    BY <1>2
  <2> DEFINE m == [kind |-> kind, prompt |-> NoPrompt, id |-> 0, call |-> k, scope |-> s]
  <2>2. m \in ToChild /\ m.call = k
    BY IdsNat DEF ToChild
  <2>3. toChild' = Append(toChild, m) /\ toChild \in Seq(ToChild)
    BY <1>2 DEF TypeOK
  <2> HIDE DEF m
  <2>4. /\ Len(toChild) \in Nat /\ Len(toChild') = Len(toChild) + 1
        /\ toChild'[Len(toChild) + 1] = m
        /\ \A i \in 1 .. Len(toChild) : toChild'[i] = toChild[i]
    BY <2>2, <2>3, AppendEl
  <2>5. \A i \in 1 .. Len(toChild) : toChild[i].kind \notin Commands
    BY <2>1, <2>3 DEF Unanswered
  <2>6. \A i \in 1 .. Len(toParent') : toParent'[i].kind # "confirm"
    BY <2>1 DEF Unanswered
  <2> QED BY <2>2, <2>4, <2>5, <2>6
<1> QED BY <1>3, <1>4, <1>5 DEF CallsOK

(* The call k is unused: nothing waits for it.                             *)
LEMMA Unused ==
  ASSUME TypeOK, CallsOK, NEW k \in Call, NEW env, CanCall(k, env)
  PROVE  /\ k \notin solo /\ op # k /\ \A d \in Data : asked[d] # k
         /\ \A j \in Call : call[j].op # "shutdown" /\ call[j].at \notin {"down", "drain"}
<1>1. call[k].at = "unused" /\ \A j \in Call : call[j].op # "shutdown"
  BY DEF CanCall, ShuttingDown
<1>2. call[k].op = "none" /\ Sits(k) /\ Alone(k)
  BY <1>1 DEF CallsOK, Sits
<1>3. \A d \in Data : d # "none"
  BY DEF Data
<1>4. \A j \in Call : call[j].at \notin {"down", "drain"}
  BY <1>1 DEF CallsOK, Sits
<1> QED BY <1>1, <1>2, <1>3, <1>4 DEF Sits, Alone

(* The new calls.                                                          *)
LEMMA NewCall ==
  ASSUME TypeOK, CallsOK, NEW k \in Call, NEW env, CanCall(k, env),
         NEW o \in {"stop", "scopeStop", "free", "clear", "load"}, NEW a \in {"stop", "main"},
         NEW x \in Scope \cup {NoScope}, NEW kind \in Commands, NEW s \in Scope \cup {NoScope},
         SendCommand(As(k, o, a, x), k, kind, s), asked' = asked
  PROVE  CallsOK'
<1> DEFINE c == As(k, o, a, x)
<1>1. o \in Op /\ a \in At
  BY Names
<1>2. /\ c \in [Call -> CallRec] /\ c[k] = [op |-> o, at |-> a, scope |-> x]
      /\ \A j \in Call \ {k} : c[j] = call[j]
  BY <1>1, AsCall
<1>3. c[k].op = o /\ c[k].at = a
  BY <1>2
<1> HIDE DEF c
<1>4. c[k].at \in {"stop", "main"} /\ c[k].op \notin Data \cup {"none"} /\ c[k].op # "shutdown"
  BY <1>3 DEF Data
<1>5. SendCommand(c, k, kind, s)
  BY DEF c
<1> QED BY <1>2, <1>4, <1>5, Unused, SendCalls

LEMMA ShutCalls ==
  ASSUME TypeOK, CallsOK, NEW k \in Call, NEW s \in Scope, DownScope(k, s)
  PROVE  CallsOK'
<1>1. PICK a \in {"stop", "main"}, kind \in {"stop", "free"}, x \in Scope \cup {NoScope} :
        SendCommand(As(k, "shutdown", a, s), k, kind, x)
  BY DEF DownScope, Release
<1> DEFINE c == As(k, "shutdown", a, s)
<1>2. /\ c \in [Call -> CallRec] /\ c[k] = [op |-> "shutdown", at |-> a, scope |-> s]
      /\ \A j \in Call \ {k} : c[j] = call[j]
  BY AsCall, Names
<1>3. c[k].op = "shutdown" /\ c[k].at = a
  BY <1>2
<1>4. kind \in Commands /\ asked' = asked
  BY DEF Commands, DownScope, Release
<1>5. call[k].op = "shutdown"
  BY DEF DownScope, CallsOK, Sits
<1>6. /\ \A d \in Data : asked[d] # k
      /\ \A j \in Call \ {k} : call[j].op # "shutdown"
      /\ \A j \in Call \ {k} : call[j].at \notin {"down", "drain"}
  BY <1>5 DEF CallsOK, Sits, Data
<1>7. SendCommand(c, k, kind, x)
  BY <1>1
<1> HIDE DEF c
<1>8. c[k].at \in {"stop", "main"} /\ c[k].op \notin Data \cup {"none"}
  BY <1>3 DEF Data
<1> QED BY <1>2, <1>4, <1>6, <1>7, <1>8, SendCalls

(* AfterStop, for the call that holds _operationCompleter.                 *)
LEMMA AfterCalls ==
  ASSUME TypeOK, CallsOK, NEW k \in Call, NEW end \in {"ok", "forced"},
         call[k].at = "stop", AfterStop(k, end), asked' = asked,
         end = "ok" => (k \in solo => k \in handled)
  PROVE  CallsOK'
<1>1. op = k /\ Sits(k) /\ Alone(k) /\ op # NoCall
  BY NullAssumption DEF CallsOK, Sits
<1>2. \A j \in Call \ {k} : call[j].at \notin {"down", "drain", "stop"}
  BY <1>1 DEF CallsOK, Sits
<1>3. CASE call[k].op \in {"free", "shutdown"}
  <2> DEFINE c == [call EXCEPT ![k].at = "main"]
  <2>1. /\ c \in [Call -> CallRec] /\ c[k].at = "main" /\ c[k].op = call[k].op
        /\ \A j \in Call \ {k} : c[j] = call[j]
    <3>1. call[k] \in CallRec /\ "main" \in At /\ call \in [Call -> CallRec]
      BY CallType, Names
    <3>2. /\ c \in [Call -> CallRec] /\ c[k] = [call[k] EXCEPT !.at = "main"]
          /\ \A j \in Call \ {k} : c[j] = call[j]
      BY <3>1, AtCall
    <3> HIDE DEF c
    <3> QED BY <3>1, <3>2, AtRec
  <2> HIDE DEF c
  <2>2. SendCommand(c, k, "free", call[k].scope)
    BY <1>3 DEF AfterStop, c
  <2>3. call[k].scope \in Scope \cup {NoScope} /\ "free" \in Commands
    BY DEF TypeOK, Commands
  <2>4. /\ c[k].op \notin Data \cup {"none"} /\ \A d \in Data : asked[d] # k
        /\ c[k].op = "shutdown" => \A j \in Call \ {k} : call[j].op # "shutdown"
    BY <1>1, <1>3, <2>1 DEF Sits, Data
  <2> QED BY <1>2, <2>1, <2>2, <2>3, <2>4, SendCalls
<1>4. CASE call[k].op \notin {"free", "shutdown"}
  <2>1. /\ call' = [call EXCEPT ![k].at = end] /\ op' = NoCall
        /\ UNCHANGED <<solo, handled>>
    BY <1>4 DEF AfterStop
  <2>2. /\ call'[k].at = end /\ call'[k].op = call[k].op
        /\ \A j \in Call \ {k} : call'[j] = call[j]
    <3>1. call[k] \in CallRec /\ end \in At /\ call \in [Call -> CallRec]
      BY CallType, Names
    <3>2. /\ call'[k] = [call[k] EXCEPT !.at = end]
          /\ \A j \in Call \ {k} : call'[j] = call[j]
      BY <2>1, <3>1, AtCall
    <3> QED BY <3>1, <3>2, AtRec
  <2>3. \A j \in Call : op' # j
    BY <2>1, NullAssumption
  <2>4. Sits(k)' /\ Alone(k)'
    BY <1>1, <2>1, <2>2, <2>3 DEF Sits, Alone, CallsOK
  <2>5. ASSUME NEW j \in Call \ {k} PROVE Sits(j)' /\ Alone(j)'
    <3>1. Sits(j) /\ Alone(j)
      BY DEF CallsOK
    <3>2. Sits(j)'
      BY <1>1, <1>2, <2>1, <2>2, <2>3, <3>1 DEF Sits
    <3>3. Alone(j)'
      BY <2>1, <2>2, <2>3, <3>1 DEF Alone
    <3> QED BY <3>2, <3>3
  <2> QED BY <2>4, <2>5 DEF CallsOK
<1> QED BY <1>3, <1>4

(* One call moves on, without a command.                                   *)
LEMMA MoveCall ==
  ASSUME TypeOK, CallsOK, NEW k \in Call,
         \A j \in Call \ {k} : call'[j] = call[j],
         op' \in {op, NoCall}, op' # k, op' # op => op = k \/ op = NoCall,
         \A j \in Call \ {k}, d \in Data : asked'[d] = j => asked[d] = j,
         \A d \in Data : asked'[d] = k => call'[k].op = d,
         call'[k].at \in {"ok", "forced", "failed", "down", "drain"}
            \/ (call'[k].at = "main" /\ call'[k].op \in Data),
         call'[k].op = "shutdown" => \A j \in Call \ {k} : call[j].op # "shutdown",
         call'[k].at \in {"down", "drain"} => call'[k].op = "shutdown" /\ op' = NoCall,
         k \in solo => call'[k].op \notin Data \cup {"none"},
         k \in solo => (call'[k].at \in {"ok", "down", "drain"} => k \in handled),
         UNCHANGED <<solo, handled>>,
         From(toParent', toParent, {"confirm"}),
         op' = NoCall \/ From(toChild', toChild, Commands)
  PROVE  CallsOK'
<1>1. Sits(k)'
  BY DEF Sits
<1>2. Alone(k)'
  BY DEF Alone
<1>3. ASSUME NEW j \in Call \ {k} PROVE Sits(j)' /\ Alone(j)'
  <2>1. Sits(j) /\ Alone(j) /\ j # NoCall
    BY NullAssumption DEF CallsOK
  <2>2. op' = j => op = j
    BY <2>1
  <2>3. op = j => op' = j
    BY <2>1
  <2>4. Sits(j)'
    BY <2>1, <2>2, <2>3 DEF Sits
  <2>5. op' = j => /\ \A i \in 1 .. Len(toChild') :
                          toChild'[i].kind \in Commands => toChild'[i].call = j \/ j \notin solo
                   /\ \A i \in 1 .. Len(toParent') :
                          toParent'[i].kind = "confirm" => j \in handled \/ j \notin solo
    BY <2>1, <2>2 DEF Alone, From
  <2>6. Alone(j)'
    BY <2>1, <2>5 DEF Alone
  <2> QED BY <2>4, <2>6
<1> QED BY <1>1, <1>2, <1>3 DEF CallsOK

(* Whoever holds a completer fails.                                        *)
LEMMA FailCall ==
  ASSUME TypeOK, CallsOK, NEW j \in Call,
         op' = NoCall, \A d \in Data : asked'[d] = NoCall, UNCHANGED <<solo, handled>>,
         call'[j] = IF j = op \/ \E d \in Data : asked[d] = j
                    THEN [call[j] EXCEPT !.at = "failed"] ELSE call[j],
         \A i \in Call : call'[i].op = "shutdown" /\ call'[j].op = "shutdown" => i = j
  PROVE  Sits(j)' /\ Alone(j)'
<1>1. Sits(j) /\ Alone(j) /\ j # NoCall
  BY NullAssumption DEF CallsOK
<1>2. call'[j].op = call[j].op
      /\ \/ call'[j].at = "failed"
         \/ call'[j].at = call[j].at /\ j # op
  <2>1. call[j] \in CallRec /\ "failed" \in At
    BY CallType, Names
  <2>2. /\ [call[j] EXCEPT !.at = "failed"].at = "failed"
        /\ [call[j] EXCEPT !.at = "failed"].op = call[j].op
    BY <2>1, AtRec
  <2>3. CASE j = op \/ \E d \in Data : asked[d] = j
    BY <2>2, <2>3
  <2>4. CASE ~(j = op \/ \E d \in Data : asked[d] = j)
    BY <2>4
  <2> QED BY <2>3, <2>4
<1>3. Sits(j)'
  BY <1>1, <1>2 DEF Sits
<1>4. Alone(j)'
  BY <1>1, <1>2 DEF Alone
<1> QED BY <1>3, <1>4

LEMMA DownCalls ==
  ASSUME TypeOK, CallsOK, NEW k \in Call, Shutdown(k)
  PROVE  CallsOK'
<1>1. /\ op' = NoCall /\ (\A d \in Data : asked'[d] = NoCall) /\ UNCHANGED <<solo, handled>>
      /\ CanCall(k, "shutdown")
      /\ call'[k] = [op |-> "shutdown", at |-> "down", scope |-> NoScope]
  BY DEF Shutdown
<1>2. \A j \in Call \ {k} : call'[j] = IF j = op \/ \E d \in Data : asked[d] = j
                                       THEN [call[j] EXCEPT !.at = "failed"] ELSE call[j]
  BY DEF Shutdown
<1>3. k \notin solo /\ \A j \in Call : call[j].op # "shutdown"
  BY <1>1, Unused
<1>4. call'[k].op = "shutdown" /\ call'[k].at = "down"
  BY <1>1
<1>5. \A j \in Call \ {k} : call'[j].op = call[j].op
  <2> SUFFICES ASSUME NEW j \in Call \ {k} PROVE call'[j].op = call[j].op
    OBVIOUS
  <2>1. call[j] \in CallRec /\ "failed" \in At
    BY CallType, Names
  <2>2. [call[j] EXCEPT !.at = "failed"].op = call[j].op
    BY <2>1, AtRec
  <2>3. CASE j = op \/ \E d \in Data : asked[d] = j
    BY <1>2, <2>2, <2>3
  <2>4. CASE ~(j = op \/ \E d \in Data : asked[d] = j)
    BY <1>2, <2>4
  <2> QED BY <2>3, <2>4
<1>6. ASSUME NEW j \in Call \ {k} PROVE Sits(j)' /\ Alone(j)'
  <2>1. \A i \in Call : call'[i].op = "shutdown" /\ call'[j].op = "shutdown" => i = j
    BY <1>3, <1>5
  <2> QED BY <1>1, <1>2, <2>1, FailCall
<1>7. Sits(k)' /\ Alone(k)'
  BY <1>1, <1>3, <1>4, <1>5, NullAssumption DEF Sits, Alone
<1> QED BY <1>6, <1>7 DEF CallsOK

LEMMA EndCalls ==
  ASSUME TypeOK, CallsOK, NEW told, OnEnd(told)
  PROVE  CallsOK'
<1> DEFINE bad == Head(toParent).kind = "error"
<1>1. /\ call' = [k \in Call |->
                       IF bad /\ (k = op \/ \E d \in Data : asked[d] = k)
                       THEN [call[k] EXCEPT !.at = "failed"] ELSE call[k]]
      /\ op' = IF bad THEN NoCall ELSE op
      /\ asked' = IF bad THEN [d \in Data |-> NoCall] ELSE asked
      /\ UNCHANGED <<handled, solo>>
  BY DEF OnEnd
<1>2. CASE bad
  <2>1. \A j \in Call : call'[j] = IF j = op \/ \E d \in Data : asked[d] = j
                                  THEN [call[j] EXCEPT !.at = "failed"] ELSE call[j]
    BY <1>1, <1>2
  <2>2. \A j \in Call : call'[j].op = call[j].op
    <3> SUFFICES ASSUME NEW j \in Call PROVE call'[j].op = call[j].op
      OBVIOUS
    <3>1. call[j] \in CallRec /\ "failed" \in At
      BY CallType, Names
    <3>2. [call[j] EXCEPT !.at = "failed"].op = call[j].op
      BY <3>1, AtRec
    <3>3. CASE j = op \/ \E d \in Data : asked[d] = j
      BY <2>1, <3>2, <3>3
    <3>4. CASE ~(j = op \/ \E d \in Data : asked[d] = j)
      BY <2>1, <3>4
    <3> QED BY <3>3, <3>4
  <2>3. op' = NoCall /\ \A d \in Data : asked'[d] = NoCall
    BY <1>1, <1>2
  <2>4. ASSUME NEW j \in Call PROVE Sits(j)' /\ Alone(j)'
    <3>1. \A i \in Call : call'[i].op = "shutdown" /\ call'[j].op = "shutdown" => i = j
      BY <2>2 DEF CallsOK, Sits
    <3> QED BY <1>1, <2>1, <2>3, <3>1, FailCall
  <2> QED BY <2>4 DEF CallsOK
<1>3. CASE ~bad
  <2>1. call' = call /\ op' = op /\ asked' = asked
    BY <1>1, <1>3, CallType
  <2>2. From(toParent', toParent, {"confirm"})
    <3>1. Deliver(EndKinds)
      BY DEF OnEnd
    <3> QED BY <3>1, DeliverType, FromTail
  <2>3. From(toChild', toChild, Commands)
    <3>1. toChild \in Seq(ToChild)
      BY DEF TypeOK
    <3>2. CASE UNCHANGED toChild
      BY <3>1, <3>2, FromSame
    <3>3. ASSUME NEW p \in Prompt, NEW st, NEW ids, NEW cp, Start(p, st, ids, cp)
          PROVE  From(toChild', toChild, Commands)
      BY <3>3, StartFrom
    <3> QED BY <3>2, <3>3 DEF OnEnd
  <2> QED BY <1>1, <2>1, <2>2, <2>3, CallsStay
<1> QED BY <1>2, <1>3

-----------------------------------------------------------------------------
(* The remaining actions, one by one.                                      *)
LEMMA CallerCalls ==
  ASSUME TypeOK, TypeOK', CallsOK, Caller
  PROVE  CallsOK'
<1>0. /\ toChild \in Seq(ToChild) /\ toParent \in Seq(ToParent) /\ call \in [Call -> CallRec]
      /\ \A kind \in {"stop", "free", "clear", "load"} : kind \in Commands
  BY CallType DEF TypeOK, Commands
<1>1. ASSUME NEW p \in Prompt, SendPrompt(p) PROVE CallsOK'
  <2>1. From(toChild', toChild, Commands)
    BY <1>0, <1>1, FromSame, StartFrom DEF SendPrompt
  <2>2. From(toParent', toParent, {"confirm"})
    BY <1>0, <1>1, FromSame DEF SendPrompt
  <2>3. UNCHANGED <<call, op, asked, solo, handled>>
    BY <1>1 DEF SendPrompt
  <2> QED BY <2>1, <2>2, <2>3, CallsStay
<1>2. ASSUME NEW k \in Call, Stop(k) PROVE CallsOK'
  BY <1>0, <1>2, NewCall DEF Stop
<1>3. ASSUME NEW k \in Call, Clear(k) PROVE CallsOK'
  BY <1>0, <1>3, NewCall DEF Clear
<1>4. ASSUME NEW k \in Call, Shutdown(k) PROVE CallsOK'
  BY <1>4, DownCalls
<1>5. ASSUME NEW k \in Call, NEW s \in Scope, NEW b \in BOOLEAN, ScopeStop(k, s, b)
      PROVE  CallsOK'
  <2>1. CanCall(k, "scope") /\ asked' = asked /\ UNCHANGED toParent
    BY <1>5 DEF ScopeStop
  <2>2. CASE InFlight(s)
    BY <1>0, <1>5, <2>1, <2>2, NewCall DEF ScopeStop
  <2>3. CASE ~InFlight(s)
    <3>1. call' = As(k, "scopeStop", "ok", s) /\ UNCHANGED <<op, toChild, handled, solo>>
      BY <1>5, <2>3 DEF ScopeStop, NoCommand
    <3>2. /\ call'[k] = [op |-> "scopeStop", at |-> "ok", scope |-> s]
          /\ \A j \in Call \ {k} : call'[j] = call[j]
      BY <3>1, AsCall, Names
    <3>3. call'[k].op = "scopeStop" /\ call'[k].at = "ok"
      BY <3>2
    <3>4. From(toChild', toChild, Commands) /\ From(toParent', toParent, {"confirm"})
      BY <1>0, <2>1, <3>1, FromSame
    <3>5. k \notin solo /\ op # k /\ \A d \in Data : asked[d] # k
      BY <2>1, Unused
    <3> QED BY <2>1, <3>1, <3>2, <3>3, <3>4, <3>5, MoveCall
  <2> QED BY <2>2, <2>3
<1>6. ASSUME NEW k \in Call, NEW s \in Scope, DisposeScope(k, s) PROVE CallsOK'
  <2>1. CanCall(k, "scope") /\ asked' = asked
    BY <1>6 DEF DisposeScope, Release
  <2>2. \/ SendCommand(As(k, "free", "stop", s), k, "stop", NoScope)
        \/ SendCommand(As(k, "free", "main", s), k, "free", s)
    BY <1>6 DEF DisposeScope, Release
  <2> QED BY <1>0, <2>1, <2>2, NewCall
<1>7. ASSUME NEW k \in Call, NEW s \in Scope, Load(k, s) PROVE CallsOK'
  BY <1>0, <1>7, NewCall DEF Load
<1>8. ASSUME NEW k \in Call, NEW s \in Scope, NEW d \in Data, Ask(k, d, s) PROVE CallsOK'
  <2> DEFINE m == [kind |-> d, prompt |-> NoPrompt, id |-> 0, call |-> k, scope |-> s]
  <2>1. /\ \E env : CanCall(k, env)
        /\ call' = As(k, d, "main", s) /\ asked' = [asked EXCEPT ![d] = k]
        /\ UNCHANGED <<op, toParent, handled, solo>> /\ toChild' = Append(toChild, m)
    BY <1>8 DEF Ask
  <2>2. m \in ToChild /\ m.kind \notin Commands
    BY IdsNat DEF ToChild, Data, Commands
  <2> HIDE DEF m
  <2>3. From(toChild', toChild, Commands) /\ From(toParent', toParent, {"confirm"})
    BY <1>0, <2>1, <2>2, FromAppend, FromSame
  <2>4. /\ call'[k] = [op |-> d, at |-> "main", scope |-> s]
        /\ \A j \in Call \ {k} : call'[j] = call[j]
    BY <2>1, AsCall, Names
  <2>5. call'[k].op = d /\ call'[k].at = "main" /\ d # "shutdown"
    BY <2>4 DEF Data
  <2>6. k \notin solo /\ op # k /\ \A e \in Data : asked[e] # k
    BY <2>1, Unused
  <2>7. /\ \A e \in Data : asked'[e] = k => e = d
        /\ \A j \in Call \ {k}, e \in Data : asked'[e] = j => asked[e] = j
    BY <2>1, <2>6 DEF TypeOK
  <2> QED BY <2>1, <2>3, <2>4, <2>5, <2>6, <2>7, MoveCall
<1> QED BY <1>1, <1>2, <1>3, <1>4, <1>5, <1>6, <1>7, <1>8 DEF Caller

(* One call moved to a: the parts MoveCall asks for.                       *)
LEMMA Moved ==
  ASSUME TypeOK, NEW k \in Call, NEW a \in At, call' = [call EXCEPT ![k].at = a]
  PROVE  /\ call'[k].at = a /\ call'[k].op = call[k].op
         /\ \A j \in Call \ {k} : call'[j] = call[j]
<1>1. call[k] \in CallRec /\ call \in [Call -> CallRec]
  BY CallType
<1>2. call'[k] = [call[k] EXCEPT !.at = a] /\ \A j \in Call \ {k} : call'[j] = call[j]
  BY <1>1, AtCall
<1> QED BY <1>1, <1>2, AtRec

LEMMA DisposalCalls ==
  ASSUME TypeOK, TypeOK', CallsOK, Disposal
  PROVE  CallsOK'
<1>0. toChild \in Seq(ToChild) /\ toParent \in Seq(ToParent)
  BY DEF TypeOK
<1>1. ASSUME NEW k \in Call, NEW s \in Scope, DownScope(k, s) PROVE CallsOK'
  BY <1>1, ShutCalls
<1>2. ASSUME NEW k \in Call, DownChild(k) \/ Unsubscribe(k) PROVE CallsOK'
  <2>1. /\ call[k].at \in {"down", "drain"}
        /\ \E a \in {"drain", "ok"} : call' = [call EXCEPT ![k].at = a]
        /\ UNCHANGED <<op, asked, solo, handled, toParent>>
    BY <1>2 DEF DownChild, Unsubscribe
  <2>2. Sits(k) /\ Alone(k) /\ k # NoCall
    BY NullAssumption DEF CallsOK
  <2>3. call[k].op = "shutdown" /\ op = NoCall /\ \A j \in Call \ {k} : call[j].op # "shutdown"
    BY <2>1, <2>2 DEF Sits
  <2>4. /\ call'[k].at \in {"drain", "ok"} /\ call'[k].op = "shutdown"
        /\ \A j \in Call \ {k} : call'[j] = call[j]
    <3>1. PICK a \in {"drain", "ok"} : call' = [call EXCEPT ![k].at = a]
      BY <2>1
    <3>2. a \in At
      BY Names
    <3> QED BY <2>3, <3>1, <3>2, Moved
  <2>5. \A d \in Data : asked[d] # k
    BY <2>2, <2>3 DEF Sits, Data
  <2>6. From(toParent', toParent, {"confirm"})
    BY <1>0, <2>1, FromSame
  <2>7. "shutdown" \notin Data \cup {"none"} /\ (k \in solo => k \in handled)
    BY <2>1, <2>2 DEF Alone, Data
  <2> QED BY <2>1, <2>2, <2>3, <2>4, <2>5, <2>6, <2>7, MoveCall
<1> QED BY <1>1, <1>2 DEF Disposal

LEMMA TimeoutCalls ==
  ASSUME TypeOK, TypeOK', CallsOK, NEW k \in Call, Timeout(k)
  PROVE  CallsOK'
<1>0. /\ toChild \in Seq(ToChild) /\ toParent \in Seq(ToParent) /\ UNCHANGED toParent
      /\ asked \in [Data -> Call \cup {NoCall}]
  BY DEF TypeOK, Timeout
<1>1. CASE call[k].at = "stop" /\ AfterStop(k, "forced") /\ UNCHANGED asked
  BY <1>1, AfterCalls
<1>2. CASE /\ call[k].at = "main"
           /\ call' = [call EXCEPT ![k].at = "failed"]
           /\ IF call[k].op \in Data
              THEN asked' = [asked EXCEPT ![call[k].op] = NoCall] /\ UNCHANGED op
              ELSE op' = NoCall /\ UNCHANGED asked
           /\ UNCHANGED <<generating, scopes, toChild, handled, solo>>
  <2>1. Sits(k) /\ Alone(k) /\ k # NoCall
    BY NullAssumption DEF CallsOK
  <2>2. /\ call'[k].at = "failed" /\ call'[k].op = call[k].op
        /\ \A j \in Call \ {k} : call'[j] = call[j]
    BY <1>2, Moved, Names
  <2>3. From(toParent', toParent, {"confirm"}) /\ From(toChild', toChild, Commands)
    BY <1>0, <1>2, FromSame
  <2>4. call[k].op = "shutdown" => \A j \in Call \ {k} : call[j].op # "shutdown"
    BY <2>1 DEF Sits
  <2>5. /\ \A d \in Data : asked'[d] \in {asked[d], NoCall}
        /\ op' \in {op, NoCall} /\ op' # k /\ (op' # op => op = k)
    <3>1. CASE call[k].op \in Data
      <4> DEFINE d == call[k].op
      <4>1. asked' = [asked EXCEPT ![d] = NoCall] /\ UNCHANGED op
        BY <1>2, <3>1
      <4>2. op # k
        BY <2>1, <3>1 DEF Sits
      <4> HIDE DEF d
      <4> QED BY <1>0, <4>1, <4>2
    <3>2. CASE call[k].op \notin Data
      BY <1>2, <2>1, <3>2 DEF Sits
    <3> QED BY <3>1, <3>2
  <2>6. /\ \A d \in Data : asked'[d] = k => call[k].op = d
        /\ \A j \in Call \ {k}, d \in Data : asked'[d] = j => asked[d] = j
    BY <2>1, <2>5, NullAssumption DEF Sits
  <2>7. k \in solo => call[k].op \notin Data \cup {"none"}
    BY <2>1 DEF Alone
  <2> QED BY <1>2, <2>2, <2>3, <2>4, <2>5, <2>6, <2>7, MoveCall
<1> QED BY <1>1, <1>2 DEF Timeout

LEMMA AnswerCalls ==
  ASSUME TypeOK, TypeOK', CallsOK, OnText \/ OnDataAnswer
  PROVE  CallsOK'
<1>1. From(toParent', toParent, {"confirm"})
  <2>1. \E kinds : Deliver(kinds)
    BY DEF OnText, OnDataAnswer
  <2> QED BY <2>1, DeliverType, FromTail
<1>2. From(toChild', toChild, Commands) /\ UNCHANGED <<op, solo, handled>>
  <2>1. UNCHANGED <<toChild, op, solo, handled>>
    BY DEF OnText, OnDataAnswer, parent
  <2> QED BY <2>1, FromSame DEF TypeOK
<1>3. CASE OnText
  <2>1. UNCHANGED <<call, asked>>
    BY <1>3 DEF OnText, parent
  <2> QED BY <1>1, <1>2, <2>1, CallsStay
<1>4. CASE OnDataAnswer
  <2> DEFINE d == Head(toParent).kind
             k == asked[d]
  <2>1. /\ d \in Data /\ asked' = [asked EXCEPT ![d] = NoCall]
        /\ call' = IF k = NoCall THEN call ELSE [call EXCEPT ![k].at = "ok"]
    BY <1>4, DeliverType DEF OnDataAnswer
  <2>2. asked \in [Data -> Call \cup {NoCall}] /\ k \in Call \cup {NoCall}
    BY <2>1 DEF TypeOK
  <2> HIDE DEF d
  <2>3. \A e \in Data : asked'[e] = IF e = d THEN NoCall ELSE asked[e]
    BY <2>1, <2>2
  <2>4. CASE k = NoCall
    <3>1. call' = call /\ asked' = asked
      BY <2>1, <2>2, <2>3, <2>4
    <3> QED BY <1>1, <1>2, <3>1, CallsStay
  <2>5. CASE k \in Call
    <3>1. Sits(k) /\ Alone(k) /\ k # NoCall
      BY <2>5, NullAssumption DEF CallsOK
    <3>2. call[k].op = d
      BY <2>1, <3>1 DEF Sits
    <3>3. op # k /\ k \notin solo
      BY <2>1, <3>1, <3>2 DEF Sits, Alone
    <3>4. /\ call'[k].at = "ok" /\ call'[k].op = d
          /\ \A j \in Call \ {k} : call'[j] = call[j]
      BY <2>1, <2>5, <3>1, <3>2, Moved, Names
    <3>5. \A e \in Data : asked'[e] = k => d = e
      BY <2>3, <3>1, <3>2 DEF Sits
    <3>6. \A j \in Call \ {k}, e \in Data : asked'[e] = j => asked[e] = j
      BY <2>3, NullAssumption
    <3>7. d # "shutdown"
      BY <2>1 DEF Data
    <3> HIDE DEF k
    <3> QED BY <1>1, <1>2, <2>5, <3>3, <3>4, <3>5, <3>6, <3>7, MoveCall
  <2> QED BY <2>2, <2>4, <2>5
<1> QED BY <1>3, <1>4

LEMMA ConfirmCalls ==
  ASSUME TypeOK, TypeOK', CallsOK, OnConfirm
  PROVE  CallsOK'
<1>0. /\ toParent \in Seq(ToParent) /\ toParent # <<>> /\ Head(toParent).kind = "confirm"
      /\ toParent' = Tail(toParent) /\ asked' = asked
  BY DeliverType DEF OnConfirm, ConfirmKinds
<1>1. From(toParent', toParent, {"confirm"})
  BY <1>0, FromTail
<1>2. 1 \in 1 .. Len(toParent) /\ toParent[1].kind = "confirm"
  BY <1>0
<1>3. \A k \in Call : k \in solo /\ op = k => k \in handled
  BY <1>2 DEF CallsOK, Alone
<1>4. CASE op = NoCall /\ NoCommand(call) /\ UNCHANGED <<generating, scopes>>
  <2>1. From(toChild', toChild, Commands)
    BY <1>4, FromSame DEF NoCommand, TypeOK
  <2> QED BY <1>0, <1>1, <1>4, <2>1, CallsStay DEF NoCommand
<1>5. CASE op # NoCall /\ call[op].at = "stop" /\ AfterStop(op, "ok")
  <2>1. op \in Call
    BY <1>5 DEF TypeOK
  <2> QED BY <1>0, <1>3, <1>5, <2>1, AfterCalls
<1>6. CASE /\ op # NoCall /\ call[op].at = "main"
           /\ call' = [call EXCEPT ![op].at = IF @ = "main" /\ call[op].op = "shutdown"
                                              THEN "down" ELSE "ok"]
           /\ op' = NoCall
           /\ UNCHANGED <<generating, scopes, toChild, handled, solo>>
  <2>1. PICK k \in Call : op = k
    BY <1>6 DEF TypeOK
  <2>2. PICK a \in {"down", "ok"} : /\ a = "down" => call[k].op = "shutdown"
                                    /\ call' = [call EXCEPT ![k].at = a]
    BY <1>6, <2>1
  <2>3. Sits(k) /\ Alone(k) /\ k # NoCall
    BY NullAssumption DEF CallsOK
  <2>4. /\ call'[k].at = a /\ call'[k].op = call[k].op
        /\ \A j \in Call \ {k} : call'[j] = call[j]
    <3>1. a \in At
      BY Names
    <3> QED BY <2>2, <3>1, Moved
  <2>5. call[k].op = "shutdown" => \A j \in Call \ {k} : call[j].op # "shutdown"
    BY <2>3 DEF Sits
  <2>6. /\ k \in solo => call[k].op \notin Data \cup {"none"} /\ k \in handled
        /\ \A d \in Data : asked[d] = k => call[k].op = d
    BY <1>3, <2>1, <2>3 DEF Alone, Sits
  <2> QED BY <1>0, <1>1, <1>6, <2>1, <2>2, <2>3, <2>4, <2>5, <2>6, MoveCall
<1> QED BY <1>4, <1>5, <1>6 DEF OnConfirm

(* The child: a command is handled before its confirmation is sent.        *)
LEMMA HandleCalls ==
  ASSUME TypeOK, TypeOK', CallsOK, NEW kind, Handle(kind),
         NEW r \in Data \cup {"confirm"}, r = "confirm" => kind \in Commands,
         Answered(r) \/ Answered("error") \/ Refused \/ UNCHANGED <<toParent, strayed>>
  PROVE  CallsOK'
<1> DEFINE m == Head(toChild)
<1>1. /\ toChild \in Seq(ToChild) /\ toChild # <<>> /\ m \in ToChild /\ m.kind = kind
      /\ toChild' = Tail(toChild) /\ UNCHANGED <<call, op, asked, solo>>
      /\ handled' = IF m.call \in Call THEN handled \cup {m.call} ELSE handled
  BY HandleType DEF Handle, parent
<1>2. From(toChild', toChild, Commands)
  BY <1>1, FromTail
<1>3. toParent \in Seq(ToParent)
  BY DEF TypeOK
<1>4. CASE UNCHANGED toParent
  BY <1>1, <1>2, <1>3, <1>4, FromSame, CallsStay
<1>5. ASSUME NEW x \in Data \cup {"confirm", "error"}, Say(x, m),
             x = "confirm" => kind \in Commands
      PROVE  CallsOK'
  <2>1. PICK a \in ToParent : a.kind = x /\ toParent' = Append(toParent, a)
    BY <1>1, <1>5, SayType
  <2>2. CASE x # "confirm"
    <3>1. From(toParent', toParent, {"confirm"})
      BY <1>3, <2>1, <2>2, FromAppend
    <3> QED BY <1>1, <1>2, <3>1, CallsStay
  <2>3. CASE x = "confirm"
    <3>1. \A k \in Call : k \in solo /\ op = k => k \in handled'
      <4> SUFFICES ASSUME NEW k \in Call, k \in solo, op = k PROVE k \in handled'
        OBVIOUS
      <4>1. 1 \in 1 .. Len(toChild) /\ toChild[1].kind \in Commands /\ toChild[1] = m
        BY <1>1, <1>5, <2>3
      <4>2. m.call = k
        BY <4>1 DEF CallsOK, Alone
      <4> QED BY <1>1, <4>2
    <3>2. PICK d \in {0, 1} : \A i \in 1 .. Len(toChild') :
            toChild'[i].kind \in Commands =>
                i + d \in 1 .. Len(toChild) /\ toChild'[i] = toChild[i + d]
      BY <1>2 DEF From
    <3>3. ASSUME NEW k \in Call PROVE Sits(k)' /\ Alone(k)'
      <4>1. Sits(k) /\ Alone(k)
        BY DEF CallsOK
      <4>2. Sits(k)'
        BY <1>1, <4>1 DEF Sits
      <4>3. Alone(k)'
        BY <1>1, <3>1, <3>2, <4>1 DEF Alone
      <4> QED BY <4>2, <4>3
    <3> QED BY <3>3 DEF CallsOK
  <2> QED BY <2>2, <2>3
<1> HIDE DEF m
<1>6. Answered(r) => Say(r, m)
  BY DEF Answered, m
<1>7. Answered("error") \/ Refused => Say("error", m)
  BY DEF Answered, Refused, m
<1> QED BY <1>4, <1>5, <1>6, <1>7

LEMMA ChildCalls ==
  ASSUME TypeOK, TypeOK', CallsOK, ChildHears
  PROVE  CallsOK'
<1>0. \A kind \in {"stop", "clear", "free", "load", "dispose"} : kind \in Commands
  BY DEF Commands
<1>1. CASE HandleStop
  BY <1>0, <1>1, HandleCalls DEF HandleStop
<1>2. CASE HandleClear
  BY <1>0, <1>2, HandleCalls DEF HandleClear
<1>3. CASE HandleFree
  BY <1>0, <1>3, HandleCalls DEF HandleFree
<1>4. CASE HandleLoad
  BY <1>0, <1>4, HandleCalls DEF HandleLoad
<1>5. CASE HandleSave
  BY <1>5, HandleCalls DEF HandleSave, Data
<1>6. CASE HandleCount
  BY <1>6, HandleCalls DEF HandleCount, Data
<1>7. CASE HandleDispose
  BY <1>0, <1>7, HandleCalls DEF HandleDispose
<1>8. CASE HandlePrompt
  BY <1>8, HandleCalls DEF HandlePrompt, Data
<1> QED BY <1>1, <1>2, <1>3, <1>4, <1>5, <1>6, <1>7, <1>8 DEF ChildHears

LEMMA RunCalls ==
  ASSUME TypeOK, TypeOK', CallsOK, Generation
  PROVE  CallsOK'
<1>1. PICK m \in running : Token(m) \/ Finish(m) \/ Fail(m)
  BY DEF Generation
<1>2. PICK x \in Tells : Say(x, m)
  BY <1>1 DEF Token, Finish, Fail, Leave, Tells, Ends
<1>3. UNCHANGED <<toChild, call, op, asked, solo, handled>>
  BY <1>1 DEF Token, Finish, Fail, Leave, parent
<1>4. m \in ToChild /\ toParent \in Seq(ToParent) /\ toChild \in Seq(ToChild)
  BY DEF TypeOK
<1>5. PICK a \in ToParent : a.kind = x /\ toParent' = Append(toParent, a)
  BY <1>2, <1>4, SayType DEF Tells, Ends
<1>6. From(toParent', toParent, {"confirm"})
  BY <1>2, <1>4, <1>5, FromAppend DEF Tells, Ends
<1>7. From(toChild', toChild, Commands)
  BY <1>3, <1>4, FromSame
<1> QED BY <1>3, <1>6, <1>7, CallsStay

LEMMA CallsNext == ASSUME TypeOK, TypeOK', CallsOK, [Next]_vars PROVE CallsOK'
<1>1. CASE UNCHANGED vars
  <2>1. UNCHANGED <<toChild, toParent, call, op, asked, solo, handled>>
    BY <1>1 DEF vars, parent
  <2> QED BY <2>1, FromSame, CallsStay DEF TypeOK
<1>2. CASE Next
  BY <1>2, CallerCalls, DisposalCalls, TimeoutCalls, AnswerCalls, ConfirmCalls, EndCalls,
     ChildCalls, RunCalls DEF Next, ParentHears
<1> QED BY <1>1, <1>2

LEMMA CallsInit == ASSUME Init PROVE CallsOK
<1> SUFFICES ASSUME NEW k \in Call PROVE Sits(k) /\ Alone(k)
  BY DEF CallsOK
<1>1. /\ call[k].op = "none" /\ call[k].at = "unused" /\ op # k /\ k \notin solo
      /\ \A d \in Data : asked[d] # k
      /\ \A j \in Call : call[j].op = "none"
  BY NullAssumption DEF Init
<1> QED BY <1>1 DEF Sits, Alone

(* A command that was sent while none was under way is answered by its own *)
(* confirmation.                                                           *)
THEOREM AnswersOwn == Spec => []OwnAnswer
<1>1. Init => CallsOK
  BY CallsInit
<1>2. TypeOK /\ TypeOK' /\ CallsOK /\ [Next]_vars => CallsOK'
  BY CallsNext
<1>3. TypeOK /\ CallsOK => OwnAnswer
  BY DEF TypeOK, CallsOK, Alone, OwnAnswer
<1> QED BY <1>1, <1>2, <1>3, TypeCorrect, PTL DEF Spec
=============================================================================
