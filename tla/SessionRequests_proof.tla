------------------------ MODULE SessionRequests_proof ------------------------
(***************************************************************************)
(* Proofs about SessionRequests, for any number of callers, requests and   *)
(* pieces of text: the types, that no text reaches the listener of another *)
(* request, and that what its own lacks is under way or in the buffer.     *)
(***************************************************************************)
EXTENDS SessionRequests, TLAPS

(* All text of a sequence of pieces was sampled for request r.             *)
OfRequest(text, r) == \A i \in 1 .. Len(text) : text[i][1] = r

(* A generation that has work may sample one more piece.                   *)
Budget ==
    /\ \A r \in Rid : r > rid => made[r] = 0
    /\ status = "generating" /\ fed => made[rid] < MaxText

(* The buffer is the current request's, and every event that of its number.*)
Tagged ==
    /\ bufId = rid /\ OfRequest(buffer, rid)
    /\ \A c \in Caller : \A j \in 1 .. Len(queue[c]) :
           OfRequest(queue[c][j].text, queue[c][j].rid)
    /\ \A c \in Caller : OfRequest(got[c], req[c])

IInv == TypeOK /\ Budget /\ Tagged

-----------------------------------------------------------------------------
(* Sequences of pieces and of events.                                      *)
LEMMA AppendPiece ==
  ASSUME NEW text \in Seq(Piece), NEW r \in Rid, NEW k \in 1 .. MaxText
  PROVE  /\ Append(text, <<r, k>>) \in Seq(Piece)
         /\ OfRequest(text, r) => OfRequest(Append(text, <<r, k>>), r)
<1> DEFINE p == <<r, k>>
<1>1. p \in Piece /\ p[1] = r
  BY DEF Piece
<1> HIDE DEF p
<1>2. Append(text, p) \in Seq(Piece)
  BY <1>1
<1>3. /\ Len(Append(text, p)) = Len(text) + 1 /\ Len(text) \in Nat
      /\ \A i \in 1 .. Len(text) : Append(text, p)[i] = text[i]
      /\ Append(text, p)[Len(text) + 1] = p
  BY <1>1
<1>4. ASSUME OfRequest(text, r) PROVE OfRequest(Append(text, p), r)
  BY <1>1, <1>3, <1>4 DEF OfRequest
<1> QED BY <1>2, <1>4 DEF p

LEMMA EmptyText ==
  /\ <<>> \in Seq(Piece) /\ <<>> \in Seq(Event) /\ Len(<<>>) = 0
  /\ \A r : OfRequest(<<>>, r)
  BY DEF OfRequest

LEMMA JoinText ==
  ASSUME NEW s \in Seq(Piece), NEW t \in Seq(Piece), NEW r,
         OfRequest(s, r), OfRequest(t, r)
  PROVE  s \o t \in Seq(Piece) /\ OfRequest(s \o t, r)
<1>1. /\ s \o t \in Seq(Piece) /\ Len(s \o t) = Len(s) + Len(t)
      /\ Len(s) \in Nat /\ Len(t) \in Nat
      /\ \A i \in 1 .. Len(s) + Len(t) :
            (s \o t)[i] = IF i <= Len(s) THEN s[i] ELSE t[i - Len(s)]
  OBVIOUS
<1> QED BY <1>1 DEF OfRequest

(* Events that are tagged: what a queue holds, and how it grows.           *)
Good(e) == e \in Event /\ OfRequest(e.text, e.rid)
GoodQueue(q) == q \in Seq(Event) /\ \A j \in 1 .. Len(q) : OfRequest(q[j].text, q[j].rid)

LEMMA GoodText ==
  ASSUME NEW r \in Rid, NEW text \in Seq(Piece), OfRequest(text, r)
  PROVE  Good(TextOf(r, text))
  BY DEF Good, TextOf, Event

LEMMA GoodError == ASSUME TypeOK PROVE Good(Error)
  BY SizeAssumption, EmptyText DEF Good, Error, Event, Rid

LEMMA GoodAppend ==
  ASSUME NEW q, NEW e, GoodQueue(q), Good(e)
  PROVE  GoodQueue(Append(q, e))
<1>1. /\ Append(q, e) \in Seq(Event) /\ Len(Append(q, e)) = Len(q) + 1 /\ Len(q) \in Nat
      /\ \A j \in 1 .. Len(q) : Append(q, e)[j] = q[j]
      /\ Append(q, e)[Len(q) + 1] = e
  BY DEF GoodQueue, Good
<1> QED BY <1>1 DEF GoodQueue, Good

LEMMA GoodTail ==
  ASSUME NEW q, GoodQueue(q), q # <<>>
  PROVE  GoodQueue(Tail(q)) /\ Good(Head(q))
<1>1. /\ Tail(q) \in Seq(Event) /\ Len(Tail(q)) = Len(q) - 1 /\ Len(q) \in Nat \ {0}
      /\ \A j \in 1 .. Len(q) - 1 : Tail(q)[j] = q[j + 1]
      /\ Head(q) = q[1] /\ Head(q) \in Event
  BY DEF GoodQueue
<1> QED BY <1>1 DEF GoodQueue, Good

LEMMA GoodOne == ASSUME NEW e, Good(e) PROVE GoodQueue(<<e>>)
<1>1. <<e>> \in Seq(Event) /\ Len(<<e>>) = 1 /\ <<e>>[1] = e
  BY DEF Good
<1> QED BY <1>1 DEF GoodQueue, Good

LEMMA GoodJoin ==
  ASSUME NEW q, NEW u, GoodQueue(q), GoodQueue(u)
  PROVE  GoodQueue(q \o u)
<1>1. /\ q \o u \in Seq(Event) /\ Len(q \o u) = Len(q) + Len(u)
      /\ Len(q) \in Nat /\ Len(u) \in Nat
      /\ \A j \in 1 .. Len(q) + Len(u) :
            (q \o u)[j] = IF j <= Len(q) THEN q[j] ELSE u[j - Len(q)]
  BY DEF GoodQueue
<1> QED BY <1>1 DEF GoodQueue

LEMMA GoodNone == GoodQueue(<<>>)
  BY EmptyText DEF GoodQueue

(* What Tagged says, by queue.                                             *)
LEMMA Queues ==
  ASSUME TypeOK
  PROVE  Tagged <=> /\ bufId = rid /\ OfRequest(buffer, rid)
                    /\ \A c \in Caller : GoodQueue(queue[c])
                    /\ \A c \in Caller : OfRequest(got[c], req[c])
  BY DEF TypeOK, Tagged, GoodQueue

LEMMA SentGood ==
  ASSUME TypeOK, Tagged, NEW e, Good(e)
  PROVE  Sent(e) \in [Caller -> Seq(Event)] /\ \A c \in Caller : GoodQueue(Sent(e)[c])
<1>1. ASSUME NEW c \in Caller
      PROVE  GoodQueue(IF alive /\ at[c] = "listening" THEN Append(queue[c], e) ELSE queue[c])
  BY Queues, GoodAppend
<1> QED BY <1>1 DEF Sent, GoodQueue

-----------------------------------------------------------------------------
(* The invariant in two halves: the callers, and the session.              *)
CallersOK ==
    /\ at \in [Caller -> {"idle", "restoring", "claimed", "opening", "listening", "done", "failed"}]
    /\ req \in [Caller -> Rid] /\ queue \in [Caller -> Seq(Event)]
    /\ got \in [Caller -> Seq(Piece)] /\ heard \in [Caller -> BOOLEAN]
    /\ late \in [Caller -> BOOLEAN]
    /\ \A c \in Caller : GoodQueue(queue[c]) /\ OfRequest(got[c], req[c])

FuturesOK ==
    /\ registered \subseteq 1 .. rid /\ ended \subseteq 0 .. rid
    /\ fate \in [Rid -> {"open", "finished", "failed", "cancelled"}]

SessionOK ==
    /\ status \in {"ready", "generating", "error"} /\ hot \in BOOLEAN /\ fed \in BOOLEAN
    /\ alive \in BOOLEAN /\ looping \in BOOLEAN /\ slice \in BOOLEAN /\ woken \in BOOLEAN
    /\ rid \in Rid /\ bufId = rid
    /\ buffer \in Seq(Piece) /\ OfRequest(buffer, rid) /\ raw \in BOOLEAN
    /\ how \in [Caller -> {"prompt", "stream", "media"}]
    /\ made \in [Rid -> 0 .. MaxText] /\ Budget

LEMMA Parts == IInv <=> CallersOK /\ FuturesOK /\ SessionOK
<1>1. IInv => CallersOK /\ FuturesOK /\ SessionOK
  BY Queues DEF IInv, TypeOK, CallersOK, FuturesOK, SessionOK, Tagged
<1>2. CallersOK /\ FuturesOK /\ SessionOK => TypeOK
  BY DEF TypeOK, CallersOK, FuturesOK, SessionOK
<1>3. CallersOK /\ FuturesOK /\ SessionOK => IInv
  BY <1>2, Queues DEF IInv, CallersOK, FuturesOK, SessionOK
<1> QED BY <1>1, <1>3

LEMMA PartsNext == (CallersOK /\ FuturesOK /\ SessionOK)' => IInv'
<1>1. CallersOK /\ FuturesOK /\ SessionOK => IInv
  BY Parts
<1> QED BY <1>1, PTL

LEMMA InitIInv == Init => IInv
<1> SUFFICES ASSUME Init PROVE IInv
  OBVIOUS
<1>1. CallersOK
  BY GoodNone, EmptyText, SizeAssumption DEF Init, CallersOK, Rid
<1>2. FuturesOK
  BY SizeAssumption DEF Init, FuturesOK, Rid
<1>3. SessionOK
  <2>1. OfRequest(buffer, rid)
    BY EmptyText DEF Init
  <2>2. buffer \in Seq(Piece)
    BY EmptyText DEF Init
  <2>3. rid \in Rid /\ made \in [Rid -> 0 .. MaxText] /\ Budget
    BY SizeAssumption DEF Init, Rid, Budget
  <2> QED BY <2>1, <2>2, <2>3 DEF Init, SessionOK
<1> QED BY <1>1, <1>2, <1>3, Parts

LEMMA CallersStay == ASSUME CallersOK, UNCHANGED callers PROVE CallersOK'
  BY DEF CallersOK, callers, GoodQueue, OfRequest

LEMMA CallersMove ==
  ASSUME CallersOK, NEW c \in Caller,
         NEW a \in {"idle", "restoring", "claimed", "opening", "listening", "done", "failed"},
         at' = [at EXCEPT ![c] = a], UNCHANGED <<req, queue, got, heard, late>>
  PROVE  CallersOK'
  BY DEF CallersOK, GoodQueue, OfRequest

(* c stops listening.                                                      *)
LEMMA DropOK ==
  ASSUME CallersOK, NEW c \in Caller,
         NEW a \in {"idle", "restoring", "claimed", "opening", "listening", "done", "failed"},
         at' = [at EXCEPT ![c] = a], queue' = [queue EXCEPT ![c] = <<>>],
         UNCHANGED <<req, got, heard, late>>
  PROVE  CallersOK'
<1>1. queue' \in [Caller -> Seq(Event)] /\ \A d \in Caller : GoodQueue(queue'[d])
  BY EmptyText, GoodNone DEF CallersOK
<1>2. (\A d \in Caller : GoodQueue(queue[d]) /\ OfRequest(got[d], req[d]))'
  BY <1>1 DEF CallersOK, GoodQueue, OfRequest
<1> QED BY <1>1, <1>2 DEF CallersOK

(* What completes a request.                                               *)
LEMMA CompleteOK ==
  ASSUME NEW reg, NEW r \in Rid, reg \subseteq 1 .. r, ended \subseteq 0 .. r, rid' = r,
         fate \in [Rid -> {"open", "finished", "failed", "cancelled"}],
         NEW end \in {"finished", "failed", "cancelled"}, Complete(reg, r, end)
  PROVE  FuturesOK'
<1>1. fate' \in [Rid -> {"open", "finished", "failed", "cancelled"}]
  BY DEF Complete
<1>2. registered' \subseteq 1 .. r
  BY DEF Complete
<1>3. ended' \subseteq 0 .. r
  BY SizeAssumption DEF Complete, Ended, Rid
<1> QED BY <1>1, <1>2, <1>3 DEF FuturesOK

(* What sends an event to all listeners.                                   *)
LEMMA SentOK ==
  ASSUME IInv, NEW e, Good(e), queue' = Sent(e),
         UNCHANGED <<req, got, heard, late>>,
         at' \in [Caller -> {"idle", "restoring", "claimed", "opening", "listening", "done", "failed"}]
  PROVE  CallersOK'
<1>1. queue' \in [Caller -> Seq(Event)] /\ \A c \in Caller : GoodQueue(queue'[c])
  BY SentGood DEF IInv
<1>2. CallersOK
  BY Parts
<1>3. (\A c \in Caller : GoodQueue(queue[c]))'
  BY <1>1 DEF GoodQueue, OfRequest
<1> QED BY <1>1, <1>2, <1>3 DEF CallersOK, GoodQueue, OfRequest

(* What a new listener is sent.                                            *)
LEMMA ListenOK ==
  ASSUME CallersOK, NEW c \in Caller, NEW r \in Rid, NEW k \in Rid, NEW text \in Seq(Piece),
         OfRequest(text, k), bufId' = k, Listen(c, r, text)
  PROVE  CallersOK' /\ buffer' \in Seq(Piece) /\ OfRequest(buffer', k)
<1> DEFINE q == IF Replays(text) /\ ~(r \notin registered' \cup ended')
                THEN <<TextOf(bufId', text)>> ELSE <<>>
<1>1. GoodQueue(q) /\ q \in Seq(Event)
  BY GoodText, GoodOne, GoodNone DEF GoodQueue
<1>2. queue' = [queue EXCEPT ![c] = q]
  BY DEF Listen
<1> HIDE DEF q
<1>3. queue' \in [Caller -> Seq(Event)] /\ \A d \in Caller : GoodQueue(queue'[d])
  BY <1>1, <1>2 DEF CallersOK
<1>4. /\ at' \in [Caller -> {"idle", "restoring", "claimed", "opening", "listening", "done", "failed"}]
      /\ req' = [req EXCEPT ![c] = r] /\ got' = [got EXCEPT ![c] = <<>>]
      /\ heard' \in [Caller -> BOOLEAN]
      /\ late' \in [Caller -> BOOLEAN]
  BY DEF Listen, CallersOK
<1>5. \A d \in Caller : OfRequest(got'[d], req'[d])
  BY <1>4, EmptyText DEF CallersOK
<1>6. got' \in [Caller -> Seq(Piece)] /\ req' \in [Caller -> Rid]
  BY <1>4, EmptyText DEF CallersOK
<1>7. (\A d \in Caller : GoodQueue(queue[d]) /\ OfRequest(got[d], req[d]))'
  BY <1>3, <1>5 DEF GoodQueue, OfRequest
<1>8. buffer' \in Seq(Piece) /\ OfRequest(buffer', k)
  BY EmptyText DEF Listen, Rest
<1> QED BY <1>3, <1>4, <1>6, <1>7, <1>8 DEF CallersOK

-----------------------------------------------------------------------------
(* The actions.                                                            *)
LEMMA ReturnOK ==
  ASSUME CallersOK, NEW c \in Caller, NEW h, NEW r \in Rid, Return(c, h, r)
  PROVE  CallersOK'
<1>1. /\ at' \in [Caller -> {"idle", "restoring", "claimed", "opening", "listening", "done", "failed"}]
      /\ req' = [req EXCEPT ![c] = r] /\ got' = [got EXCEPT ![c] = <<>>]
      /\ UNCHANGED <<queue, heard, late>>
  BY DEF Return, CallersOK
<1>2. /\ req' \in [Caller -> Rid] /\ got' \in [Caller -> Seq(Piece)]
      /\ \A d \in Caller : OfRequest(got'[d], req'[d])
  BY <1>1, EmptyText DEF CallersOK
<1>3. \A d \in Caller : GoodQueue(queue'[d])
  BY <1>1 DEF CallersOK
<1>4. (\A d \in Caller : GoodQueue(queue[d]) /\ OfRequest(got[d], req[d]))'
  BY <1>2, <1>3 DEF GoodQueue, OfRequest
<1> QED BY <1>1, <1>2, <1>4 DEF CallersOK

LEMMA BodyOK ==
  ASSUME IInv, NEW c \in Caller, NEW h \in {"prompt", "stream", "media"},
         NEW st \in {"ready", "generating", "error"}, Body(c, h, st), hot' \in BOOLEAN
  PROVE  IInv'
<1> DEFINE starts == st = "generating"
           r      == IF starts THEN rid + 1 ELSE rid
           reg    == IF starts THEN registered \cup {r} ELSE registered
<1>0. CallersOK /\ FuturesOK /\ SessionOK
  BY Parts
<1>1. /\ r \in Rid /\ reg \subseteq 1 .. r /\ ended \subseteq 0 .. r
      /\ rid' = r /\ bufId' = r
  BY <1>0, SizeAssumption DEF Body, SessionOK, FuturesOK, Rid
<1>2. NewText(st) \in Seq(Piece) /\ OfRequest(NewText(st), r)
  BY <1>0, EmptyText DEF NewText, SessionOK
<1>3. /\ how' \in [Caller -> {"prompt", "stream", "media"}]
      /\ UNCHANGED <<alive, looping, slice, raw, made>> /\ woken' \in BOOLEAN
  BY <1>0 DEF Body, SessionOK
<1>4. /\ \A k \in Rid : k > r => made'[k] = 0
      /\ starts => made'[r] < MaxText
  BY <1>0, <1>1, <1>3, SizeAssumption DEF SessionOK, Budget, Rid
<1>5. CASE /\ status' = st /\ fed' = TRUE
           /\ registered' = reg /\ UNCHANGED <<ended, fate>>
           /\ \/ Listen(c, r, NewText(st))
              \/ Return(c, h, r) /\ buffer' = NewText(st)
  <2>1. CallersOK' /\ buffer' \in Seq(Piece) /\ OfRequest(buffer', r)
    BY <1>0, <1>1, <1>2, <1>5, ListenOK, ReturnOK
  <2>2. FuturesOK'
    BY <1>0, <1>1, <1>5 DEF FuturesOK
  <2>3. Budget'
    BY <1>1, <1>4, <1>5 DEF Budget
  <2>4. SessionOK'
    BY <1>0, <1>1, <1>3, <1>5, <2>1, <2>3 DEF SessionOK, OfRequest
  <2> QED BY <2>1, <2>2, <2>4, PartsNext
<1>6. CASE /\ status' = "error" /\ fed' = FALSE
           /\ buffer' = <<>> /\ queue' = Sent(Error)
           /\ Complete(reg, r, "failed")
           /\ at' = [at EXCEPT ![c] = "failed"]
           /\ UNCHANGED <<req, got, heard, late>>
  <2>1. CallersOK'
    BY <1>0, <1>6, SentOK, GoodError DEF IInv, CallersOK
  <2>2. FuturesOK'
    BY <1>0, <1>1, <1>6, CompleteOK DEF FuturesOK
  <2>3. Budget'
    BY <1>1, <1>4, <1>6 DEF Budget
  <2>4. buffer' \in Seq(Piece) /\ OfRequest(buffer', r)
    BY <1>6, EmptyText
  <2>5. SessionOK'
    BY <1>0, <1>1, <1>3, <1>6, <2>3, <2>4 DEF SessionOK, OfRequest
  <2> QED BY <2>1, <2>2, <2>5, PartsNext
<1> QED BY <1>5, <1>6 DEF Body

(* A step that leaves request, output and futures alone.                   *)
LEMMA SessionStays ==
  ASSUME IInv, CallersOK', UNCHANGED <<rid, futures, output, made>>,
         status' \in {"ready", "generating", "error"}, hot' \in BOOLEAN, fed' \in BOOLEAN,
         alive' \in BOOLEAN, looping' \in BOOLEAN, slice' \in BOOLEAN, woken' \in BOOLEAN,
         raw' \in BOOLEAN,
         how' \in [Caller -> {"prompt", "stream", "media"}],
         status' = "generating" /\ fed' => status = "generating" /\ fed
  PROVE  IInv'
<1>1. FuturesOK' /\ Budget'
  BY Parts DEF FuturesOK, SessionOK, Budget, futures
<1>2. SessionOK'
  BY <1>1, Parts DEF SessionOK, output, OfRequest
<1> QED BY <1>1, <1>2, PartsNext

LEMMA SuspendOK ==
  ASSUME IInv, NEW c \in Caller, NEW h \in {"prompt", "stream", "media"}, Suspend(c, h)
  PROVE  CallersOK' /\ how' \in [Caller -> {"prompt", "stream", "media"}]
  BY Parts, CallersMove DEF Suspend, SessionOK

LEMMA PromptOK ==
  ASSUME IInv, NEW c \in Caller, NEW h \in {"prompt", "stream"}, SetPrompt(c, h)
  PROVE  IInv'
<1>0. SessionOK
  BY Parts
<1>1. CASE hot /\ Body(c, h, "generating") /\ UNCHANGED hot
  BY <1>0, <1>1, BodyOK DEF SessionOK
<1>2. CASE /\ ~hot /\ Suspend(c, h)
           /\ status' = "generating" /\ fed' = FALSE
           /\ UNCHANGED <<hot, alive, loop, rid, futures, output, raw, made>>
  BY <1>0, <1>2, SuspendOK, SessionStays DEF SessionOK, loop
<1> QED BY <1>1, <1>2 DEF SetPrompt

LEMMA MediaOK == ASSUME IInv, NEW c \in Caller, Media(c) PROVE IInv'
<1>0. SessionOK /\ CallersOK
  BY Parts
<1>1. CallersOK'
  BY <1>0, CallersMove DEF Media
<1> QED BY <1>0, <1>1, SessionStays DEF Media, SessionOK, loop

LEMMA MediaBodyOK == ASSUME IInv, NEW c \in Caller, MediaBody(c) PROVE IInv'
<1>0. SessionOK
  BY Parts
<1>1. CASE hot /\ Body(c, "media", status) /\ UNCHANGED hot
  BY <1>0, <1>1, BodyOK DEF SessionOK
<1>2. CASE /\ ~hot /\ Suspend(c, "media")
           /\ UNCHANGED <<session, loop, rid, futures, output, raw, made>>
  BY <1>0, <1>2, SuspendOK, SessionStays DEF SessionOK, loop, session
<1> QED BY <1>1, <1>2 DEF MediaBody

LEMMA ResumeOK == ASSUME IInv, NEW c \in Caller, Resume(c) PROVE IInv'
<1>0. SessionOK /\ CallersOK
  BY Parts
<1>1. CASE status = "generating" /\ hot' = TRUE /\ Body(c, how[c], status)
  BY <1>0, <1>1, BodyOK DEF SessionOK
<1>2. ASSUME Throw(c) PROVE CallersOK' /\ UNCHANGED how
  BY <1>0, <1>2, CallersMove DEF Throw
<1>3. CASE /\ status # "generating" /\ hot' = TRUE /\ Throw(c)
           /\ UNCHANGED <<status, fed, alive, loop, rid, futures, output, raw, made>>
  BY <1>0, <1>2, <1>3, SessionStays DEF SessionOK, loop
<1>4. CASE /\ ~hot /\ Throw(c)
           /\ UNCHANGED <<session, loop, rid, futures, output, raw, made>>
  BY <1>0, <1>2, <1>4, SessionStays DEF SessionOK, loop, session
<1> QED BY <1>1, <1>3, <1>4 DEF Resume

LEMMA CollectOK == ASSUME IInv, NEW c \in Caller, Collect(c) PROVE IInv'
<1>0. CallersOK /\ FuturesOK /\ SessionOK
  BY Parts
<1>1. CallersOK' /\ buffer' \in Seq(Piece) /\ OfRequest(buffer', rid)
  BY <1>0, ListenOK DEF Collect, SessionOK
<1>2. FuturesOK' /\ Budget'
  BY <1>0 DEF Collect, FuturesOK, SessionOK, Budget, futures, session
<1>3. SessionOK'
  BY <1>0, <1>1, <1>2 DEF Collect, SessionOK, OfRequest, session, loop
<1> QED BY <1>1, <1>2, <1>3, PartsNext

LEMMA OpenOK == ASSUME IInv, NEW c \in Caller, Open(c) PROVE IInv'
<1>0. CallersOK /\ FuturesOK /\ SessionOK
  BY Parts
<1>1. CallersOK' /\ buffer' \in Seq(Piece) /\ OfRequest(buffer', rid)
  BY <1>0, ListenOK DEF Open, SessionOK, CallersOK
<1>2. FuturesOK' /\ Budget'
  BY <1>0 DEF Open, FuturesOK, SessionOK, Budget, futures, session
<1>3. SessionOK'
  BY <1>0, <1>1, <1>2 DEF Open, SessionOK, OfRequest, session, loop
<1> QED BY <1>1, <1>2, <1>3, PartsNext

LEMMA ListenRawOK == ASSUME IInv, ListenRaw PROVE IInv'
<1>0. CallersOK /\ FuturesOK /\ SessionOK
  BY Parts
<1>1. CallersOK'
  BY <1>0, CallersStay DEF ListenRaw
<1>2. FuturesOK' /\ Budget'
  BY <1>0 DEF ListenRaw, FuturesOK, SessionOK, Budget, futures, session
<1>3. buffer' \in Seq(Piece) /\ OfRequest(buffer', rid)
  BY <1>0, EmptyText DEF ListenRaw, SessionOK
<1>4. SessionOK'
  BY <1>0, <1>2, <1>3 DEF ListenRaw, SessionOK, OfRequest, session, loop, callers
<1> QED BY <1>1, <1>2, <1>4, PartsNext

LEMMA CancelOK == ASSUME IInv, Cancel PROVE IInv'
<1>0. CallersOK /\ FuturesOK /\ SessionOK
  BY Parts
<1>1. CallersOK'
  BY <1>0, CallersStay DEF Cancel
<1>2. FuturesOK'
  BY <1>0, CompleteOK DEF Cancel, FuturesOK, SessionOK
<1>3. Budget'
  BY <1>0 DEF Cancel, SessionOK, Budget
<1>4. buffer' \in Seq(Piece) /\ OfRequest(buffer', rid)
  BY EmptyText DEF Cancel
<1>5. SessionOK'
  BY <1>0, <1>3, <1>4 DEF Cancel, SessionOK, OfRequest, loop, callers
<1> QED BY <1>1, <1>2, <1>5, PartsNext

LEMMA FreeSessionOK == ASSUME IInv, FreeSession PROVE IInv'
<1>0. CallersOK /\ SessionOK
  BY Parts
<1>1. CallersOK'
  BY <1>0, CallersStay DEF FreeSession
<1>2. FuturesOK' /\ Budget'
  BY <1>0, Parts DEF FreeSession, FuturesOK, SessionOK, Budget, futures
<1>3. buffer' \in Seq(Piece) /\ OfRequest(buffer', rid)
  BY EmptyText DEF FreeSession
<1>4. SessionOK'
  BY <1>0, <1>2, <1>3 DEF FreeSession, SessionOK, OfRequest, loop, callers
<1> QED BY <1>1, <1>2, <1>4, PartsNext

LEMMA EvictOK == ASSUME IInv, Evict PROVE IInv'
<1>0. CallersOK /\ SessionOK
  BY Parts
<1>1. CallersOK'
  BY <1>0, CallersStay DEF Evict
<1> QED BY <1>0, <1>1, SessionStays DEF Evict, SessionOK, loop, callers

LEMMA LoopEndsOK == ASSUME IInv, LoopEnds PROVE IInv'
<1>0. CallersOK /\ SessionOK
  BY Parts
<1>1. CallersOK'
  BY <1>0, CallersStay DEF LoopEnds
<1> QED BY <1>0, <1>1, SessionStays DEF LoopEnds, SessionOK, session, callers

LEMMA YieldOK == ASSUME IInv, Yield PROVE IInv'
<1>0. CallersOK /\ SessionOK
  BY Parts
<1>1. CallersOK'
  BY <1>0, CallersStay DEF Yield
<1> QED BY <1>0, <1>1, SessionStays DEF Yield, SessionOK, session, callers

LEMMA TurnOK == ASSUME IInv, Turn PROVE IInv'
<1> DEFINE k    == made[rid] + 1
           text == Append(buffer, <<rid, k>>)
<1>0. CallersOK /\ FuturesOK /\ SessionOK
  BY Parts
<1>1. rid \in Rid /\ k \in 1 .. MaxText /\ made' = [made EXCEPT ![rid] = k]
  BY <1>0, SizeAssumption DEF Turn, Works, SessionOK, Budget, Rid
<1>2. text \in Seq(Piece) /\ OfRequest(text, rid)
  BY <1>0, <1>1, AppendPiece DEF SessionOK
<1> HIDE DEF k, text
<1>3. PICK end \in BOOLEAN :
         /\ MustEnd(k) => end
         /\ \/ /\ Heard
               /\ queue' = Sent(TextOf(rid, text)) /\ buffer' = <<>>
               /\ UNCHANGED bufId
            \/ /\ ~Heard \/ ~end
               /\ buffer' = text /\ bufId' = IF Heard THEN bufId ELSE rid
               /\ UNCHANGED queue
         /\ \/ /\ end /\ status' = "ready" /\ fed' = FALSE
               /\ Complete(registered, rid, "finished")
            \/ /\ ~end /\ UNCHANGED <<status, fed, futures>>
  BY DEF Turn, k, text
<1>4. UNCHANGED <<hot, alive, looping, rid, raw, at, how, req, got, heard, late>>
      /\ slice' = TRUE /\ woken' = FALSE
  BY DEF Turn
<1>5. CallersOK'
  <2>1. CASE queue' = Sent(TextOf(rid, text))
    <3>1. Good(TextOf(rid, text))
      BY <1>1, <1>2, GoodText
    <3>2. at' \in [Caller -> {"idle", "restoring", "claimed", "opening", "listening", "done", "failed"}]
      BY <1>0, <1>4 DEF CallersOK
    <3> QED BY <1>4, <2>1, <3>1, <3>2, SentOK
  <2>2. CASE UNCHANGED queue
    BY <1>0, <1>4, <2>2, CallersStay DEF callers, CallersOK, GoodQueue, OfRequest
  <2> QED BY <1>3, <2>1, <2>2
<1>6. FuturesOK'
  <2>1. CASE Complete(registered, rid, "finished")
    BY <1>0, <1>4, <2>1, CompleteOK DEF FuturesOK, SessionOK
  <2>2. CASE UNCHANGED futures
    BY <1>0, <1>4, <2>2 DEF FuturesOK, futures
  <2> QED BY <1>3, <2>1, <2>2
<1>7. buffer' \in Seq(Piece) /\ OfRequest(buffer', rid) /\ bufId' = rid
  BY <1>0, <1>2, <1>3, EmptyText DEF SessionOK
<1>8. status' \in {"ready", "generating", "error"} /\ fed' \in BOOLEAN
  BY <1>0, <1>3 DEF SessionOK
<1>9. made' \in [Rid -> 0 .. MaxText] /\ Budget'
  <2>1. status' = "generating" /\ fed' => k < MaxText
    BY <1>1, <1>3, SizeAssumption DEF MustEnd
  <2> QED BY <1>0, <1>1, <1>4, <2>1 DEF SessionOK, Budget, Rid
<1>10. SessionOK'
  BY <1>0, <1>4, <1>7, <1>8, <1>9 DEF SessionOK, OfRequest
<1> QED BY <1>5, <1>6, <1>10, PartsNext

LEMMA DecodeFailOK == ASSUME IInv, DecodeFail PROVE IInv'
<1> DEFINE kept == ~Heard \/ buffer = <<>>
           more(c) == IF at[c] = "listening" /\ ~kept THEN <<TextOf(rid, buffer)>> ELSE <<>>
<1>0. CallersOK /\ FuturesOK /\ SessionOK
  BY Parts
<1>1. /\ status' = "error" /\ fed' = FALSE /\ slice' = TRUE /\ woken' = FALSE
      /\ buffer' = IF kept THEN buffer ELSE <<>>
      /\ bufId' = IF ~Heard /\ buffer # <<>> THEN rid ELSE bufId
      /\ Complete(registered, rid, "failed")
      /\ UNCHANGED <<hot, alive, looping, rid, raw, at, how, req, got, heard, late, made>>
  BY DEF DecodeFail
<1>2. queue' = [c \in Caller |-> Sent(Error)[c] \o more(c)]
  BY DEF DecodeFail
<1>3. CallersOK'
  <2>1. \A c \in Caller : GoodQueue(Sent(Error)[c])
    BY SentGood, GoodError DEF IInv
  <2>2. \A c \in Caller : GoodQueue(more(c))
    BY <1>0, GoodText, GoodOne, GoodNone DEF SessionOK
  <2>3. \A c \in Caller : GoodQueue(queue'[c])
    BY <1>2, <2>1, <2>2, GoodJoin
  <2>4. queue' \in [Caller -> Seq(Event)]
    BY <1>2, <2>3 DEF GoodQueue
  <2>5. (\A c \in Caller : GoodQueue(queue[c]))'
    BY <2>3 DEF GoodQueue, OfRequest
  <2> QED BY <1>0, <1>1, <2>4, <2>5 DEF CallersOK, GoodQueue, OfRequest
<1>4. FuturesOK'
  BY <1>0, <1>1, CompleteOK DEF FuturesOK, SessionOK
<1>5. Budget'
  BY <1>0, <1>1 DEF SessionOK, Budget
<1>6. buffer' \in Seq(Piece) /\ OfRequest(buffer', rid) /\ bufId' = rid
  BY <1>0, <1>1, EmptyText DEF SessionOK
<1>7. SessionOK'
  BY <1>0, <1>1, <1>5, <1>6 DEF SessionOK, OfRequest
<1> QED BY <1>3, <1>4, <1>7, PartsNext

LEMMA DeliverOK == ASSUME IInv, NEW c \in Caller, Deliver(c) PROVE IInv'
<1> DEFINE e == Head(queue[c])
<1>0. CallersOK /\ SessionOK
  BY Parts
<1>1. /\ queue[c] # <<>>
      /\ UNCHANGED <<session, loop, rid, futures, output, raw, how, req, late, made>>
  BY DEF Deliver
<1>2. GoodQueue(Tail(queue[c])) /\ Good(e)
  BY <1>0, <1>1, GoodTail DEF CallersOK
<1>3. CallersOK'
  <2>1. CASE /\ e.kind = "text"
             /\ got' = IF e.rid = req[c] THEN [got EXCEPT ![c] = @ \o e.text] ELSE got
             /\ queue' = [queue EXCEPT ![c] = Tail(@)]
             /\ heard' = [heard EXCEPT ![c] = req[c] \in ended]
             /\ UNCHANGED at
    <3> HIDE DEF e
    <3>1. queue' \in [Caller -> Seq(Event)] /\ \A d \in Caller : GoodQueue(queue'[d])
      BY <1>0, <1>2, <2>1 DEF CallersOK, GoodQueue
    <3>2. ASSUME e.rid = req[c]
          PROVE  got' \in [Caller -> Seq(Piece)] /\ \A d \in Caller : OfRequest(got'[d], req[d])
      <4>1. got[c] \o e.text \in Seq(Piece) /\ OfRequest(got[c] \o e.text, req[c])
        BY <1>0, <1>2, <3>2, JoinText DEF CallersOK, Good, Event
      <4>2. got' \in [Caller -> Seq(Piece)] /\ \A d \in Caller : OfRequest(got'[d], req[d])
        BY <1>0, <2>1, <3>2, <4>1 DEF CallersOK
      <4> QED BY <4>2
    <3>7. ASSUME e.rid # req[c]
          PROVE  got' \in [Caller -> Seq(Piece)] /\ \A d \in Caller : OfRequest(got'[d], req[d])
      <4>1. got' = got
        BY <2>1, <3>7
      <4> QED BY <1>0, <4>1 DEF CallersOK
    <3>3. got' \in [Caller -> Seq(Piece)] /\ \A d \in Caller : OfRequest(got'[d], req[d])
      BY <3>2, <3>7
    <3>4. heard' \in [Caller -> BOOLEAN]
      BY <1>0, <2>1 DEF CallersOK
    <3>5. (\A d \in Caller : GoodQueue(queue[d]) /\ OfRequest(got[d], req[d]))'
      BY <1>1, <3>1, <3>3 DEF GoodQueue, OfRequest
    <3> QED BY <1>0, <1>1, <2>1, <3>1, <3>3, <3>4, <3>5 DEF CallersOK
  <2>2. CASE /\ e.kind = "error"
             /\ at' = [at EXCEPT ![c] = "failed"] /\ queue' = [queue EXCEPT ![c] = <<>>]
             /\ UNCHANGED <<got, heard>>
    <3>2. UNCHANGED <<req, got, heard, late>>
      BY <1>1, <2>2
    <3> QED BY <1>0, <2>2, <3>2, DropOK
  <2> QED BY <2>1, <2>2 DEF Deliver, e
<1> QED BY <1>0, <1>1, <1>3, SessionStays DEF SessionOK, session, loop

LEMMA EndOK == ASSUME IInv, NEW c \in Caller, End(c) PROVE IInv'
<1>0. CallersOK /\ SessionOK
  BY Parts
<1>2. CallersOK'
  BY <1>0, DropOK DEF End, CallersOK
<1> QED BY <1>0, <1>2, SessionStays DEF End, SessionOK, session, loop

-----------------------------------------------------------------------------
LEMMA Inductive == IInv /\ [Next]_vars => IInv'
<1> SUFFICES ASSUME IInv, [Next]_vars PROVE IInv'
  OBVIOUS
<1>1. ASSUME NEW c \in Caller, NEW h \in {"prompt", "stream"}, SetPrompt(c, h) PROVE IInv'
  BY <1>1, PromptOK
<1>2. ASSUME NEW c \in Caller, Media(c) \/ MediaBody(c) \/ Collect(c) PROVE IInv'
  BY <1>2, MediaOK, MediaBodyOK, CollectOK
<1>3. CASE ListenRaw \/ Cancel \/ FreeSession
  BY <1>3, ListenRawOK, CancelOK, FreeSessionOK
<1>4. CASE Evict \/ LoopEnds
  BY <1>4, EvictOK, LoopEndsOK
<1>5. CASE Turn \/ DecodeFail \/ Yield
  BY <1>5, TurnOK, DecodeFailOK, YieldOK
<1>6. ASSUME NEW c \in Caller, Resume(c) \/ Open(c) \/ Deliver(c) \/ End(c) PROVE IInv'
  BY <1>6, ResumeOK, OpenOK, DeliverOK, EndOK
<1>7. CASE UNCHANGED vars
  <2>1. SessionOK /\ CallersOK
    BY Parts
  <2>2. CallersOK'
    BY <1>7, <2>1, CallersStay DEF vars
  <2> QED BY <1>7, <2>1, <2>2, SessionStays DEF vars, SessionOK, session, loop, callers
<1> QED BY <1>1, <1>2, <1>3, <1>4, <1>5, <1>6, <1>7 DEF Next, Application, Loop, Microtask

(* IInv holds in every reachable state.                                    *)
LEMMA Always == Spec => []IInv
  BY InitIInv, Inductive, PTL DEF Spec

(* The state keeps its types, for any number of callers and requests: no   *)
(* request number beyond the current one is registered or completed, and   *)
(* nothing is sampled past n_predict.                                      *)
THEOREM TypeCorrect == Spec => []TypeOK
<1>1. IInv => TypeOK
  BY DEF IInv
<1> QED BY <1>1, Always, PTL

(* However prompts, cancels, failures, replays and listeners interleave on *)
(* the one buffer and the one stream of a session, no caller collects text *)
(* that was sampled for another request than the one it listens to.        *)
THEOREM OwnTextAlways == Spec => []OwnText
<1>1. IInv => OwnText
  <2> SUFFICES ASSUME IInv, NEW c \in Caller, NEW i \in DOMAIN got[c]
               PROVE  got[c][i][1] = req[c]
    BY DEF OwnText
  <2>1. got[c] \in Seq(Piece) /\ OfRequest(got[c], req[c])
    BY DEF IInv, TypeOK, Tagged
  <2>2. i \in 1 .. Len(got[c])
    BY <2>1
  <2> QED BY <2>1, <2>2 DEF OfRequest
<1> QED BY <1>1, Always, PTL

-----------------------------------------------------------------------------
(* That all text arrives: text is what follows the first a pieces of r.    *)
Follows(text, r, a) == \A i \in 1 .. Len(text) : text[i] = <<r, a + i>>

(* f[i] pieces of r precede event i of the queue q.                        *)
Chain(q, r, f) ==
    \A i \in 1 .. Len(q) :
        IF q[i].rid = r
        THEN Follows(q[i].text, r, f[i]) /\ f[i + 1] = f[i] + Len(q[i].text)
        ELSE f[i + 1] = f[i]

(* Behind the first b pieces of r come what was collected, what is queued, *)
(* and l pieces that are neither, up to the m pieces sampled for r.        *)
Flow(b, g, q, r, m, l) ==
    \E f \in [1 .. Len(q) + 1 -> 0 .. m] :
        /\ Follows(g, r, b) /\ b + Len(g) = f[1]
        /\ Chain(q, r, f) /\ f[Len(q) + 1] + l = m

LEMMA FollowsNone == \A r, a : Follows(<<>>, r, a)
  BY EmptyText DEF Follows

LEMMA FollowsAppend ==
  ASSUME NEW text \in Seq(Piece), NEW r \in Rid, NEW a \in Nat, Follows(text, r, a),
         a + Len(text) + 1 \in 1 .. MaxText
  PROVE  Follows(Append(text, <<r, a + Len(text) + 1>>), r, a)
<1> DEFINE p == <<r, a + Len(text) + 1>>
<1>1. p \in Piece
  BY DEF Piece
<1>2. p = <<r, a + (Len(text) + 1)>>
  OBVIOUS
<1> HIDE DEF p
<1>3. /\ Len(Append(text, p)) = Len(text) + 1 /\ Len(text) \in Nat
      /\ \A i \in 1 .. Len(text) : Append(text, p)[i] = text[i]
      /\ Append(text, p)[Len(text) + 1] = p
  BY <1>1
<1>4. Follows(Append(text, p), r, a)
  <2> SUFFICES ASSUME NEW i \in 1 .. Len(text) + 1 PROVE Append(text, p)[i] = <<r, a + i>>
    BY <1>3 DEF Follows
  <2>1. CASE i \in 1 .. Len(text)
    BY <1>3, <2>1 DEF Follows
  <2>2. CASE i = Len(text) + 1
    BY <1>2, <1>3, <2>2
  <2> QED BY <1>3, <2>1, <2>2
<1> QED BY <1>4 DEF p

LEMMA FollowsJoin ==
  ASSUME NEW s \in Seq(Piece), NEW t \in Seq(Piece), NEW r, NEW b \in Nat,
         Follows(s, r, b), Follows(t, r, b + Len(s))
  PROVE  Follows(s \o t, r, b)
<1>1. /\ Len(s \o t) = Len(s) + Len(t) /\ Len(s) \in Nat /\ Len(t) \in Nat
      /\ \A i \in 1 .. Len(s) + Len(t) :
            (s \o t)[i] = IF i <= Len(s) THEN s[i] ELSE t[i - Len(s)]
  OBVIOUS
<1> SUFFICES ASSUME NEW i \in 1 .. Len(s) + Len(t) PROVE (s \o t)[i] = <<r, b + i>>
  BY <1>1 DEF Follows
<1>2. CASE i <= Len(s)
  <2>1. i \in 1 .. Len(s)
    BY <1>1, <1>2
  <2> QED BY <1>1, <1>2, <2>1 DEF Follows
<1>3. CASE ~(i <= Len(s))
  <2>1. i - Len(s) \in 1 .. Len(t) /\ b + Len(s) + (i - Len(s)) = b + i
    BY <1>1, <1>3
  <2>2. t[i - Len(s)] = <<r, b + Len(s) + (i - Len(s))>>
    BY <2>1 DEF Follows
  <2> QED BY <1>1, <1>3, <2>1, <2>2
<1> QED BY <1>2, <1>3

LEMMA FlowNone ==
  ASSUME NEW r, NEW b \in Nat, NEW l \in Nat
  PROVE  Flow(b, <<>>, <<>>, r, b + l, l)
<1> DEFINE f == [i \in 1 .. 1 |-> b]
<1>1. f \in [1 .. Len(<<>>) + 1 -> 0 .. b + l] /\ b + Len(<<>>) = f[1]
  BY EmptyText
<1>2. f[Len(<<>>) + 1] + l = b + l
  BY EmptyText
<1>3. Chain(<<>>, r, f)
  BY EmptyText DEF Chain
<1> HIDE DEF f
<1> QED BY <1>1, <1>2, <1>3, FollowsNone DEF Flow

LEMMA FlowMore ==
  ASSUME NEW b, NEW g, NEW q \in Seq(Event), NEW r, NEW m \in Nat, NEW l \in Nat,
         Flow(b, g, q, r, m, l)
  PROVE  Flow(b, g, q, r, m + 1, l + 1)
<1>1. PICK f \in [1 .. Len(q) + 1 -> 0 .. m] :
         /\ Follows(g, r, b) /\ b + Len(g) = f[1]
         /\ Chain(q, r, f) /\ f[Len(q) + 1] + l = m
  BY DEF Flow
<1>2. f[Len(q) + 1] \in Nat
  <2>1. Len(q) + 1 \in 1 .. Len(q) + 1
    OBVIOUS
  <2> QED BY <2>1
<1>3. f[Len(q) + 1] + (l + 1) = m + 1
  BY <1>1, <1>2
<1>4. f \in [1 .. Len(q) + 1 -> 0 .. m + 1]
  <2>1. \A x \in 0 .. m : x \in 0 .. m + 1
    OBVIOUS
  <2> QED BY <2>1
<1> QED BY <1>1, <1>3, <1>4 DEF Flow

LEMMA FlowRest ==
  ASSUME NEW b, NEW g, NEW q \in Seq(Event), NEW r, NEW m \in Nat, NEW l \in Nat,
         Flow(b, g, q, r, m, l)
  PROVE  \E a \in Nat : a + l = m
<1>1. PICK f \in [1 .. Len(q) + 1 -> 0 .. m] : f[Len(q) + 1] + l = m
  BY DEF Flow
<1>2. Len(q) + 1 \in 1 .. Len(q) + 1
  OBVIOUS
<1>3. f[Len(q) + 1] \in Nat
  BY <1>2
<1> QED BY <1>1, <1>3

(* An event of r with what comes next, and one that does not matter to r.  *)
LEMMA FlowAppend ==
  ASSUME NEW b, NEW g, NEW q \in Seq(Event), NEW r, NEW e \in Event,
         NEW m \in Nat, NEW l \in Nat, NEW a \in Nat, a + l = m, Flow(b, g, q, r, m, l)
  PROVE  /\ e.rid = r /\ Follows(e.text, r, a) /\ Len(e.text) <= l =>
              Flow(b, g, Append(q, e), r, m, l - Len(e.text))
         /\ e.rid # r \/ e.text = <<>> => Flow(b, g, Append(q, e), r, m, l)
<1>1. PICK f \in [1 .. Len(q) + 1 -> 0 .. m] :
         /\ Follows(g, r, b) /\ b + Len(g) = f[1]
         /\ Chain(q, r, f) /\ f[Len(q) + 1] + l = m
  BY DEF Flow
<1> DEFINE k == IF e.rid = r THEN Len(e.text) ELSE 0
           h == [i \in 1 .. Len(q) + 2 |-> IF i <= Len(q) + 1 THEN f[i] ELSE a + k]
           u == Append(q, e)
<1>2. f[Len(q) + 1] = a
  <2>1. Len(q) + 1 \in 1 .. Len(q) + 1
    OBVIOUS
  <2>2. f[Len(q) + 1] \in Nat
    BY <2>1
  <2> QED BY <1>1, <2>2
<1>3. /\ u \in Seq(Event) /\ Len(u) = Len(q) + 1 /\ Len(q) \in Nat
      /\ \A i \in 1 .. Len(q) : u[i] = q[i]
      /\ u[Len(q) + 1] = e
  OBVIOUS
<1>4. k \in Nat
  BY DEF Event
<1>5. ASSUME k <= l
      PROVE  /\ h \in [1 .. Len(u) + 1 -> 0 .. m] /\ h[1] = f[1]
             /\ \A i \in 1 .. Len(q) + 1 : h[i] = f[i]
             /\ h[Len(u) + 1] = a + k /\ h[Len(q) + 1] = a
  <2>1. a + k \in 0 .. m
    BY <1>4, <1>5
  <2> HIDE DEF k
  <2>2. h \in [1 .. Len(q) + 2 -> 0 .. m]
    BY <1>3, <2>1
  <2>3. \A i \in 1 .. Len(q) + 1 : h[i] = f[i]
    BY <1>3
  <2>4. h[Len(q) + 2] = a + k
    BY <1>3
  <2> QED BY <1>2, <1>3, <2>2, <2>3, <2>4
<1> HIDE DEF k, h, u
<1>6. ASSUME k <= l, e.rid = r => Follows(e.text, r, a) PROVE Chain(u, r, h)
  <2> SUFFICES ASSUME NEW i \in 1 .. Len(q) + 1
               PROVE  IF u[i].rid = r
                      THEN Follows(u[i].text, r, h[i]) /\ h[i + 1] = h[i] + Len(u[i].text)
                      ELSE h[i + 1] = h[i]
    BY <1>3 DEF Chain
  <2>1. CASE i \in 1 .. Len(q)
    <3>1. u[i] = q[i] /\ h[i] = f[i] /\ h[i + 1] = f[i + 1]
      BY <1>3, <1>5, <1>6, <2>1
    <3> QED BY <1>1, <2>1, <3>1 DEF Chain
  <2>2. CASE i = Len(q) + 1
    <3>1. u[i] = e /\ h[i] = a /\ h[i + 1] = a + k
      BY <1>3, <1>5, <1>6, <2>2
    <3> QED BY <1>6, <3>1 DEF k
  <2> QED BY <1>3, <2>1, <2>2
<1>7. ASSUME k <= l, e.rid = r => Follows(e.text, r, a) PROVE Flow(b, g, u, r, m, l - k)
  <2>1. h[Len(u) + 1] = a + k
    BY <1>5, <1>7
  <2>2. h[Len(u) + 1] + (l - k) = m
    BY <1>4, <2>1
  <2>3. h \in [1 .. Len(u) + 1 -> 0 .. m] /\ h[1] = f[1] /\ Chain(u, r, h)
    BY <1>5, <1>6, <1>7
  <2> QED BY <1>1, <2>2, <2>3 DEF Flow
<1>8. ASSUME e.rid = r, Follows(e.text, r, a), Len(e.text) <= l
      PROVE  Flow(b, g, u, r, m, l - Len(e.text))
  BY <1>7, <1>8 DEF k
<1>9. ASSUME e.rid # r \/ e.text = <<>> PROVE Flow(b, g, u, r, m, l)
  <2>1. k = 0 /\ l - 0 = l
    BY <1>9, EmptyText DEF k
  <2>2. e.rid = r => Follows(e.text, r, a)
    BY <1>9, FollowsNone
  <2> QED BY <1>7, <2>1, <2>2
<1> QED BY <1>8, <1>9 DEF u

(* The first event is what comes next, and it is taken.                    *)
LEMMA FlowTake ==
  ASSUME NEW b \in Nat, NEW g \in Seq(Piece), NEW q \in Seq(Event), q # <<>>,
         NEW r, NEW m \in Nat, NEW l, Flow(b, g, q, r, m, l)
  PROVE  /\ Head(q).rid = r => /\ Follows(Head(q).text, r, b + Len(g))
                               /\ b + Len(g) + Len(Head(q).text) <= m
         /\ Flow(b, IF Head(q).rid = r THEN g \o Head(q).text ELSE g, Tail(q), r, m, l)
<1>1. PICK f \in [1 .. Len(q) + 1 -> 0 .. m] :
         /\ Follows(g, r, b) /\ b + Len(g) = f[1]
         /\ Chain(q, r, f) /\ f[Len(q) + 1] + l = m
  BY DEF Flow
<1> DEFINE u == Tail(q)
           e == Head(q)
           h == [i \in 1 .. Len(q) |-> f[i + 1]]
           g2 == IF e.rid = r THEN g \o e.text ELSE g
<1>2. /\ u \in Seq(Event) /\ Len(u) = Len(q) - 1 /\ Len(q) \in Nat \ {0}
      /\ \A i \in 1 .. Len(q) - 1 : u[i] = q[i + 1]
      /\ e = q[1] /\ e \in Event
  OBVIOUS
<1>3. /\ h \in [1 .. Len(u) + 1 -> 0 .. m]
      /\ \A i \in 1 .. Len(q) : h[i] = f[i + 1]
      /\ h[1] = f[2] /\ h[Len(u) + 1] = f[Len(q) + 1] /\ f[2] \in 0 .. m
  <2>1. \A i \in 1 .. Len(q) : i + 1 \in 1 .. Len(q) + 1
    BY <1>2
  <2>2. h \in [1 .. Len(q) -> 0 .. m]
    BY <2>1
  <2>3. 1 \in 1 .. Len(q) /\ 2 \in 1 .. Len(q) + 1 /\ Len(q) \in 1 .. Len(q)
    BY <1>2
  <2>4. h[1] = f[2] /\ h[Len(q)] = f[Len(q) + 1] /\ f[2] \in 0 .. m
    BY <2>3
  <2> QED BY <1>2, <2>2, <2>4
<1> HIDE DEF u, h
<1>4. Chain(u, r, h)
  <2> SUFFICES ASSUME NEW i \in 1 .. Len(u)
               PROVE  IF u[i].rid = r
                      THEN Follows(u[i].text, r, h[i]) /\ h[i + 1] = h[i] + Len(u[i].text)
                      ELSE h[i + 1] = h[i]
    BY DEF Chain
  <2>1. i + 1 \in 1 .. Len(q) /\ u[i] = q[i + 1] /\ h[i] = f[i + 1] /\ h[i + 1] = f[(i + 1) + 1]
    BY <1>2, <1>3
  <2> QED BY <1>1, <2>1 DEF Chain
<1>5. IF e.rid = r THEN Follows(e.text, r, f[1]) /\ f[2] = f[1] + Len(e.text) ELSE f[2] = f[1]
  BY <1>1, <1>2 DEF Chain
<1>6. Follows(g2, r, b) /\ b + Len(g2) = h[1]
  <2>1. CASE e.rid = r
    <3> HIDE DEF e
    <3>1. e.text \in Seq(Piece)
      BY <1>2 DEF Event
    <3>2. Follows(g \o e.text, r, b)
      BY <1>1, <1>5, <2>1, <3>1, FollowsJoin
    <3>3. Len(g \o e.text) = Len(g) + Len(e.text) /\ Len(g) \in Nat /\ Len(e.text) \in Nat
      BY <3>1
    <3>4. b + Len(g \o e.text) = h[1]
      BY <1>1, <1>3, <1>5, <2>1, <3>3
    <3> QED BY <2>1, <3>2, <3>4
  <2>2. CASE e.rid # r
    BY <1>1, <1>3, <1>5, <2>2
  <2> QED BY <2>1, <2>2
<1> HIDE DEF g2
<1>7. Flow(b, g2, u, r, m, l)
  BY <1>1, <1>3, <1>4, <1>6 DEF Flow
<1>8. ASSUME e.rid = r
      PROVE  Follows(e.text, r, b + Len(g)) /\ b + Len(g) + Len(e.text) <= m
  <2>1. Follows(e.text, r, f[1]) /\ f[2] = f[1] + Len(e.text)
    BY <1>5, <1>8
  <2> HIDE DEF e
  <2>2. b + Len(g) + Len(e.text) = f[2]
    BY <1>1, <2>1
  <2>3. Follows(e.text, r, b + Len(g))
    BY <1>1, <2>1
  <2>4. f[2] <= m
    BY <1>3
  <2> QED BY <2>2, <2>3, <2>4
<1> QED BY <1>7, <1>8 DEF g2, e, u

(* Nothing is left.                                                        *)
LEMMA FlowAll ==
  ASSUME NEW g \in Seq(Piece), NEW r, NEW m \in Nat, Flow(0, g, <<>>, r, m, 0)
  PROVE  g = [k \in 1 .. m |-> <<r, k>>]
<1>1. PICK f \in [1 .. 1 -> 0 .. m] : Follows(g, r, 0) /\ 0 + Len(g) = f[1] /\ f[1] + 0 = m
  BY EmptyText DEF Flow
<1>2. Len(g) = m
  BY <1>1
<1>3. \A k \in 1 .. m : g[k] = <<r, k>>
  BY <1>1, <1>2 DEF Follows
<1>4. DOMAIN g = 1 .. m
  BY <1>2
<1>5. g = [k \in 1 .. m |-> g[k]]
  BY <1>4
<1> QED BY <1>3, <1>5

-----------------------------------------------------------------------------
(* The buffer holds the last pieces of the current request.                *)
Buffered == \E a \in Nat : a + Len(buffer) = made[rid] /\ Follows(buffer, rid, a)

Left(r) == IF r = rid THEN Len(buffer) ELSE 0

(* What ended is decided, what works is not, nothing is kept of what       *)
(* finished while somebody listened, and the current request has its       *)
(* completer.                                                              *)
Fates ==
    /\ \A r \in ended : fate[r] # "open"
    /\ status = "generating" /\ fed => fate[rid] = "open"
    /\ Heard /\ fate[rid] = "finished" => buffer = <<>>
    /\ \A r \in Rid : r > rid => fate[r] = "open"
    /\ rid \in registered \cup ended

(* Whoever listens is sent what follows some first pieces of its request,  *)
(* without a gap; if it came in time, all of it, or the failure.           *)
Fails(q) == \E i \in 1 .. Len(q) : q[i].kind = "error"

Served(r) == fate[r] = "finished" \/ (fate[r] = "open" /\ r = rid /\ alive)

Reaches(c) ==
    at[c] = "listening" =>
        \E b \in Nat, l \in Nat :
            /\ Flow(b, got[c], queue[c], req[c], made[req[c]], l)
            /\ Served(req[c]) => l = Left(req[c])
            /\ ~late[c] => b = 0
            /\ alive /\ ~late[c] /\ fate[req[c]] = "failed" => Fails(queue[c])

(* Whoever is about to be told of the end reads what is decided or         *)
(* replaced.                                                               *)
Told(c) == at[c] = "listening" /\ heard[c] => fate[req[c]] # "open" \/ req[c] < rid

Callers == \A c \in Caller : Reaches(c) /\ Told(c) /\ req[c] <= rid

WInv == IInv /\ Buffered /\ Fates /\ Callers

(* No request that is decided changes.                                     *)
Frozen == \A r \in Rid : fate[r] # "open" => fate'[r] = fate[r] /\ made'[r] = made[r]

LEMMA WTypes ==
  ASSUME IInv
  PROVE  /\ rid \in Rid /\ bufId = rid /\ buffer \in Seq(Piece)
         /\ made \in [Rid -> 0 .. MaxText]
         /\ fate \in [Rid -> {"open", "finished", "failed", "cancelled"}]
         /\ req \in [Caller -> Rid] /\ queue \in [Caller -> Seq(Event)]
         /\ got \in [Caller -> Seq(Piece)]
         /\ at \in [Caller -> {"idle", "restoring", "claimed", "opening", "listening", "done", "failed"}]
         /\ late \in [Caller -> BOOLEAN]
         /\ registered \subseteq 1 .. rid /\ ended \subseteq 0 .. rid
         /\ MaxText \in Nat \ {0} /\ MaxRid \in Nat
  BY SizeAssumption DEF IInv, TypeOK, Tagged

LEMMA InitWInv == Init => WInv
<1> SUFFICES ASSUME Init PROVE WInv
  OBVIOUS
<1>1. IInv
  BY InitIInv
<1>2. Buffered
  <2>1. 0 + Len(buffer) = made[rid] /\ Follows(buffer, rid, 0)
    BY EmptyText, FollowsNone, SizeAssumption DEF Init, Rid
  <2> QED BY <2>1 DEF Buffered
<1>3. Fates
  BY SizeAssumption DEF Init, Fates, Rid
<1>4. Callers
  <2> SUFFICES ASSUME NEW c \in Caller PROVE Reaches(c) /\ Told(c) /\ req[c] <= rid
    BY DEF Callers
  <2>1. at[c] = "idle" /\ req[c] = 0 /\ rid = 0
    BY DEF Init
  <2> QED BY <2>1 DEF Reaches, Told
<1> QED BY <1>1, <1>2, <1>3, <1>4 DEF WInv

LEMMA ErrorEvent == Error \in Event /\ Error.text = <<>> /\ Error.kind = "error"
  BY SizeAssumption, EmptyText DEF Error, Event, Rid

LEMMA TextEvent ==
  ASSUME NEW r \in Rid, NEW text \in Seq(Piece)
  PROVE  TextOf(r, text) \in Event /\ TextOf(r, text).rid = r /\ TextOf(r, text).text = text
  BY DEF TextOf, Event

LEMMA FailsAppend ==
  ASSUME NEW q \in Seq(Event), NEW e \in Event
  PROVE  (Fails(q) \/ e.kind = "error" => Fails(Append(q, e)))
<1>1. /\ Len(Append(q, e)) = Len(q) + 1 /\ Len(q) \in Nat
      /\ \A j \in 1 .. Len(q) : Append(q, e)[j] = q[j]
      /\ Append(q, e)[Len(q) + 1] = e
  OBVIOUS
<1> QED BY <1>1 DEF Fails

LEMMA FailsTail ==
  ASSUME NEW q \in Seq(Event), Fails(q), q # <<>>, Head(q).kind # "error"
  PROVE  Fails(Tail(q))
<1>1. /\ Len(Tail(q)) = Len(q) - 1 /\ Len(q) \in Nat \ {0}
      /\ \A j \in 1 .. Len(q) - 1 : Tail(q)[j] = q[j + 1]
      /\ Head(q) = q[1]
  OBVIOUS
<1>2. PICK i \in 1 .. Len(q) : q[i].kind = "error"
  BY DEF Fails
<1>3. i - 1 \in 1 .. Len(Tail(q)) /\ Tail(q)[i - 1] = q[i]
  BY <1>1, <1>2
<1> QED BY <1>2, <1>3 DEF Fails

LEMMA Completed ==
  ASSUME NEW reg, NEW r \in Rid, NEW end \in {"finished", "failed", "cancelled"},
         fate \in [Rid -> {"open", "finished", "failed", "cancelled"}],
         \A k \in ended : fate[k] # "open", Complete(reg, r, end), ended \subseteq Rid
  PROVE  /\ \A k \in ended' : fate'[k] # "open"
         /\ \A k \in Rid : k # r => fate'[k] = fate[k]
         /\ fate'[r] = IF fate[r] = "open" THEN end ELSE fate[r]
         /\ r \in reg \cup ended => r \in registered' \cup ended'
<1>1. /\ \A k \in Rid : k # r => fate'[k] = fate[k]
      /\ fate'[r] = IF fate[r] = "open" THEN end ELSE fate[r]
  BY DEF Complete
<1>2. \A k \in ended' : k \in ended \/ k = r
  BY DEF Complete, Ended
<1>3. r \in reg \cup ended => r \in ended'
  BY DEF Complete, Ended
<1> QED BY <1>1, <1>2, <1>3

-----------------------------------------------------------------------------
(* One caller, in a step of somebody else.                                 *)
LEMMA ToldKept ==
  ASSUME WInv, NEW d \in Caller, Frozen, rid' \in Rid, rid <= rid',
         at'[d] = "listening" /\ heard'[d] =>
            at[d] = "listening" /\ heard[d] /\ UNCHANGED req[d]
  PROVE  Told(d)'
<1>1. Told(d) /\ req[d] \in Rid /\ rid \in Rid
  BY WTypes DEF WInv, Callers
<1> SUFFICES ASSUME at'[d] = "listening", heard'[d]
             PROVE  fate'[req'[d]] # "open" \/ req'[d] < rid'
  BY DEF Told
<1>2. (fate[req[d]] # "open" \/ req[d] < rid) /\ req'[d] = req[d]
  BY <1>1 DEF Told
<1> QED BY <1>1, <1>2 DEF Frozen, Rid

LEMMA ReachesKept ==
  ASSUME WInv, NEW d \in Caller,
         at'[d] = "listening" =>
            /\ at[d] = "listening" /\ UNCHANGED <<late[d], got[d], req[d]>>
            /\ made'[req[d]] = made[req[d]]
            /\ queue'[d] = queue[d] \/ queue'[d] = Append(queue[d], Error)
            /\ alive' => alive
            /\ alive' /\ fate'[req[d]] = "failed" =>
                  fate[req[d]] = "failed" \/ queue'[d] = Append(queue[d], Error)
            /\ Served(req[d])' => Served(req[d]) /\ Left(req[d])' = Left(req[d])
  PROVE  Reaches(d)'
<1> DEFINE r == req[d]
<1>1. Reaches(d) /\ r \in Rid /\ queue[d] \in Seq(Event) /\ made[r] \in Nat
  BY WTypes DEF WInv, Callers
<1> SUFFICES ASSUME at'[d] = "listening"
             PROVE  \E b \in Nat, l \in Nat :
                       /\ Flow(b, got'[d], queue'[d], req'[d], made'[req'[d]], l)
                       /\ Served(req[d])' => l = Left(req[d])'
                       /\ ~late'[d] => b = 0
                       /\ alive' /\ ~late'[d] /\ fate'[req'[d]] = "failed" => Fails(queue'[d])
  BY DEF Reaches
<1>2. PICK b \in Nat, l \in Nat :
         /\ Flow(b, got[d], queue[d], r, made[r], l)
         /\ Served(r) => l = Left(r)
         /\ ~late[d] => b = 0
         /\ alive /\ ~late[d] /\ fate[r] = "failed" => Fails(queue[d])
  BY <1>1 DEF Reaches
<1>3. Flow(b, got[d], queue'[d], r, made[r], l)
  <2>1. CASE queue'[d] = Append(queue[d], Error)
    <3> DEFINE q == queue[d]
               m == made[r]
    <3>1. Flow(b, got[d], q, r, m, l) /\ q \in Seq(Event) /\ m \in Nat
      BY <1>1, <1>2
    <3> HIDE DEF q, m, r
    <3>2. PICK a \in Nat : a + l = m
      BY <3>1, FlowRest
    <3>3. Flow(b, got[d], Append(q, Error), r, m, l)
      BY <3>1, <3>2, ErrorEvent, FlowAppend
    <3> QED BY <2>1, <3>3 DEF q, m
  <2> QED BY <1>2, <2>1
<1>4. ASSUME alive', ~late'[d], fate'[r] = "failed" PROVE Fails(queue'[d])
  BY <1>1, <1>2, <1>4, ErrorEvent, FailsAppend
<1> QED BY <1>2, <1>3, <1>4

(* A step that leaves request, output and futures alone.                   *)
LEMMA WStays ==
  ASSUME WInv, IInv',
         UNCHANGED <<rid, registered, ended, fate, made, buffer>>, Heard' => Heard,
         status' = "generating" /\ fed' => status = "generating" /\ fed
  PROVE  Buffered' /\ Fates' /\ Frozen
<1>1. Buffered'
  BY DEF WInv, Buffered
<1>2. Fates'
  <2> DEFINE H == Heard'
  <2>1. Fates /\ (H => Heard)
    BY DEF WInv
  <2> QED BY <2>1 DEF Fates
<1> QED BY <1>1, <1>2 DEF Frozen

LEMMA CallersRest ==
  ASSUME WInv, IInv',
         UNCHANGED <<rid, registered, ended, fate, made, buffer, req, queue, got, heard, late,
                     raw, alive>>,
         status' = "generating" /\ fed' => status = "generating" /\ fed,
         \A d \in Caller : at'[d] = at[d] \/ at'[d] # "listening"
  PROVE  WInv'
<1>1. Heard' => Heard
  BY DEF Heard
<1>2. Buffered' /\ Fates' /\ Frozen
  BY <1>1, WStays
<1>3. ASSUME NEW d \in Caller PROVE Reaches(d)' /\ Told(d)' /\ req'[d] <= rid'
  <2>0. rid' \in Rid /\ rid <= rid'
    BY WTypes DEF WInv, Rid
  <2>1. Told(d)'
    BY <1>2, <2>0, ToldKept
  <2>2. Reaches(d)'
    BY ReachesKept DEF Served, Left
  <2> QED BY <2>1, <2>2 DEF WInv, Callers
<1> QED BY <1>2, <1>3 DEF WInv, Callers

(* A new listener, of the current request k or an older one, and the       *)
(* buffer after that.                                                      *)
LEMMA ListenFlow ==
  ASSUME IInv, NEW c \in Caller, NEW r \in Rid, NEW k \in Rid, NEW text \in Seq(Piece),
         NEW a \in Nat, a + Len(text) = made[k], Follows(text, k, a),
         Heard /\ fate[k] = "finished" => text = <<>>, r <= k,
         k \in registered' \cup ended',
         Listen(c, r, text), bufId' = k, rid' = k, UNCHANGED <<made, fate, raw>>
  PROVE  /\ Reaches(c)' /\ Told(c)' /\ Buffered' /\ req'[c] = r
         /\ fate'[rid'] = "finished" => buffer' = <<>>
         /\ Heard => buffer' = text
         /\ \A d \in Caller \ {c} : UNCHANGED <<at[d], req[d], queue[d], got[d], heard[d], late[d]>>
<1> DEFINE m == made[r]
           e == TextOf(k, text)
           replay == Replays(text)
           gone == r \notin registered' \cup ended'
<1>0. /\ m \in Nat /\ Len(text) \in Nat /\ Len(<<>>) = 0 /\ <<>> \in Seq(Event)
      /\ made[k] \in Nat
  BY WTypes, EmptyText
<1>1. /\ at' = [at EXCEPT ![c] = "listening"]
      /\ req' = [req EXCEPT ![c] = r]
      /\ queue' = [queue EXCEPT ![c] = IF replay /\ ~gone THEN <<e>> ELSE <<>>]
      /\ buffer' = IF replay THEN <<>> ELSE text
      /\ got' = [got EXCEPT ![c] = <<>>]
      /\ heard' = [heard EXCEPT ![c] = gone]
      /\ late' = [late EXCEPT ![c] = \/ made[r] > (IF r = k THEN Len(text) ELSE 0)
                                     \/ fate[r] = "failed"]
  BY DEF Listen, Rest
<1>2. /\ at'[c] = "listening" /\ req'[c] = r /\ got'[c] = <<>> /\ heard'[c] = gone
      /\ queue'[c] = IF replay /\ ~gone THEN <<e>> ELSE <<>>
      /\ late'[c] <=> made[r] > (IF r = k THEN Len(text) ELSE 0) \/ fate[r] = "failed"
  BY <1>1, WTypes DEF IInv, TypeOK
<1>3. r = k => ~gone
  OBVIOUS
<1>4. e \in Event /\ e.rid = k /\ e.text = text
  BY TextEvent DEF e
<1> HIDE DEF m, e, gone
<1>5. Reaches(c)'
  <2>1. CASE r = k
    <3> DEFINE l == IF replay THEN 0 ELSE Len(text)
    <3>1. Left(r)' = l /\ l \in Nat
      BY <1>0, <1>1, <2>1 DEF Left
    <3> SUFFICES Flow(a, <<>>, queue'[c], r, m, l)
      <4>1. ~late'[c] => a = 0 /\ fate'[r] # "failed"
        BY <1>0, <1>2, <2>1 DEF m
      <4> HIDE DEF l
      <4> QED BY <1>0, <1>2, <3>1, <4>1 DEF Reaches, m
    <3>2. Flow(a, <<>>, <<>>, r, m, Len(text))
      BY <1>0, <2>1, FlowNone DEF m
    <3>3. CASE replay
      <4>1. e.rid = r /\ Follows(e.text, r, a) /\ Len(e.text) <= Len(text)
        BY <1>0, <1>4, <2>1
      <4>2. Flow(a, <<>>, Append(<<>>, e), r, m, Len(text) - Len(e.text))
        <5>1. a + Len(text) = m
          BY <2>1 DEF m
        <5> HIDE DEF replay, l
        <5> QED BY <1>0, <1>4, <3>2, <4>1, <5>1, FlowAppend
      <4>3. Append(<<>>, e) = <<e>> /\ Len(text) - Len(e.text) = 0
        BY <1>0, <1>4
      <4> QED BY <1>2, <1>3, <2>1, <3>3, <4>2, <4>3
    <3>4. CASE ~replay
      BY <1>2, <3>2, <3>4
    <3> QED BY <3>3, <3>4
  <2>2. CASE r # k
    <3>1. Flow(m, <<>>, <<>>, r, m, 0)
      BY <1>0, FlowNone, FollowsNone
    <3>2. Flow(m, <<>>, Append(<<>>, e), r, m, 0)
      <4>1. e.rid # r /\ m + 0 = m
        BY <1>0, <1>4, <2>2
      <4> HIDE DEF replay
      <4> QED BY <1>0, <1>4, <3>1, <4>1, FlowAppend
    <3>3. Append(<<>>, e) = <<e>>
      BY <1>4
    <3>4. Flow(m, <<>>, queue'[c], r, m, 0)
      BY <1>2, <3>1, <3>2, <3>3
    <3>5. Left(r)' = 0 /\ (~late'[c] => m = 0 /\ fate'[r] # "failed")
      BY <1>0, <1>2, <2>2 DEF Left, m
    <3> QED BY <1>0, <1>2, <3>4, <3>5 DEF Reaches, m
  <2> QED BY <2>1, <2>2
<1>6. Told(c)'
  BY <1>2, <1>3 DEF Told, Rid
<1>7. Buffered'
  <2>1. CASE replay
    <3>1. made[k] + Len(buffer') = made'[rid'] /\ Follows(buffer', rid', made[k])
      BY <1>0, <1>1, <2>1, FollowsNone
    <3> QED BY <1>0, <3>1 DEF Buffered
  <2>2. CASE ~replay
    <3>1. a + Len(buffer') = made'[rid'] /\ Follows(buffer', rid', a)
      BY <1>1, <2>2
    <3> QED BY <3>1 DEF Buffered
  <2> QED BY <2>1, <2>2
<1>8. fate'[rid'] = "finished" => buffer' = <<>>
  BY <1>1 DEF Replays
<1>9. Heard => buffer' = text
  BY <1>1 DEF Replays
<1>10. \A d \in Caller \ {c} : UNCHANGED <<at[d], req[d], queue[d], got[d], heard[d], late[d]>>
  BY <1>1, WTypes DEF IInv, TypeOK
<1> QED BY <1>2, <1>5, <1>6, <1>7, <1>8, <1>9, <1>10

(* Collect and Open.                                                       *)
LEMMA ListenWhole ==
  ASSUME WInv, IInv', NEW c \in Caller, NEW r \in Rid, r <= rid, Listen(c, r, buffer),
         UNCHANGED <<status, fed, alive, rid, futures, bufId, raw, made>>
  PROVE  WInv'
<1>1. PICK a \in Nat : a + Len(buffer) = made[rid] /\ Follows(buffer, rid, a)
  BY DEF WInv, Buffered
<1>2. UNCHANGED <<registered, ended, fate>>
  BY DEF futures
<1>3. /\ IInv /\ rid \in Rid /\ buffer \in Seq(Piece) /\ bufId' = rid /\ rid' = rid
      /\ Heard /\ fate[rid] = "finished" => buffer = <<>>
      /\ rid \in registered' \cup ended'
      /\ \A d \in Caller : req[d] \in Rid /\ made[req[d]] \in Nat
  BY <1>2, WTypes DEF WInv, Fates
<1>4. /\ Reaches(c)' /\ Told(c)' /\ Buffered' /\ req'[c] = r
      /\ fate'[rid'] = "finished" => buffer' = <<>>
      /\ Heard => buffer' = buffer
      /\ \A d \in Caller \ {c} : UNCHANGED <<at[d], req[d], queue[d], got[d], heard[d], late[d]>>
  BY <1>1, <1>2, <1>3, ListenFlow
<1>5. Fates'
  BY <1>2, <1>4 DEF WInv, Fates
<1>6. ASSUME NEW d \in Caller \ {c} PROVE Reaches(d)' /\ Told(d)' /\ req'[d] <= rid'
  <2>1. Frozen /\ rid' \in Rid /\ rid <= rid'
    BY <1>2, <1>3 DEF Frozen, Rid
  <2>2. Told(d)'
    BY <1>4, <1>6, <2>1, ToldKept
  <2>3. at'[d] = "listening" => Heard
    BY <1>4, <1>6 DEF Heard
  <2>4. Reaches(d)'
    BY <1>2, <1>4, <1>6, <2>3, ReachesKept DEF Served, Left
  <2> QED BY <1>3, <1>4, <1>6, <2>2, <2>4 DEF WInv, Callers
<1> QED BY <1>3, <1>4, <1>5, <1>6 DEF WInv, Callers

LEMMA CollectWhole == ASSUME WInv, IInv', NEW c \in Caller, Collect(c) PROVE WInv'
<1>1. rid \in Rid /\ rid <= rid
  BY WTypes DEF WInv, Rid
<1> QED BY <1>1, ListenWhole DEF Collect, session

LEMMA OpenWhole == ASSUME WInv, IInv', NEW c \in Caller, Open(c) PROVE WInv'
<1>1. req[c] \in Rid /\ req[c] <= rid
  BY WTypes DEF WInv, Callers
<1> QED BY <1>1, ListenWhole DEF Open, session

LEMMA ListenRawWhole == ASSUME WInv, IInv', ListenRaw PROVE WInv'
<1>1. /\ UNCHANGED <<status, fed, alive, rid, registered, ended, fate, made,
                     at, req, queue, got, heard, late>>
      /\ raw' = ~raw /\ buffer' = IF raw \/ Heard THEN buffer ELSE <<>>
  BY DEF ListenRaw, session, futures, callers
<1>2. Buffered'
  <2>1. CASE raw \/ Heard
    BY <1>1, <2>1 DEF WInv, Buffered
  <2>2. CASE ~(raw \/ Heard)
    <3>1. made[rid] \in Nat
      BY WTypes DEF WInv
    <3>2. made'[rid'] + Len(buffer') = made'[rid'] /\ Follows(buffer', rid', made'[rid'])
      BY <1>1, <2>2, <3>1, EmptyText, FollowsNone
    <3> QED BY <1>1, <3>1, <3>2 DEF Buffered
  <2> QED BY <2>1, <2>2
<1>3. fate[rid] = "finished" => buffer' = <<>>
  BY <1>1 DEF WInv, Fates, Heard
<1>4. Fates'
  BY <1>1, <1>3 DEF WInv, Fates
<1>5. ASSUME NEW d \in Caller PROVE Reaches(d)' /\ Told(d)' /\ req'[d] <= rid'
  <2>1. Told(d)'
    BY <1>1, WTypes, ToldKept DEF Frozen, WInv, Rid
  <2>2. at'[d] = "listening" => Heard
    BY <1>1 DEF Heard
  <2>3. Reaches(d)'
    BY <1>1, <2>2, ReachesKept DEF Served, Left
  <2> QED BY <1>1, <2>1, <2>3 DEF WInv, Callers
<1> QED BY <1>2, <1>4, <1>5 DEF WInv, Callers

(* The buffer is dropped: nobody listens, or the request had finished with *)
(* nothing left, or it is cancelled now.                                   *)
LEMMA CancelWhole == ASSUME WInv, IInv', Cancel PROVE WInv'
<1>1. /\ status' = "ready" /\ fed' = FALSE /\ buffer' = <<>>
      /\ Complete(registered, rid, "cancelled")
      /\ UNCHANGED <<alive, rid, raw, made, at, req, queue, got, heard, late>>
  BY DEF Cancel, callers
<1>2. /\ rid \in Rid /\ made[rid] \in Nat /\ ended \subseteq Rid
      /\ fate \in [Rid -> {"open", "finished", "failed", "cancelled"}]
      /\ req \in [Caller -> Rid]
  BY WTypes DEF WInv, Rid
<1>3. /\ \A k \in ended' : fate'[k] # "open"
      /\ \A k \in Rid : k # rid => fate'[k] = fate[k]
      /\ fate'[rid] = IF fate[rid] = "open" THEN "cancelled" ELSE fate[rid]
      /\ rid \in registered' \cup ended'
  BY <1>1, <1>2, Completed DEF WInv, Fates
<1>4. Buffered'
  <2>1. made'[rid'] + Len(buffer') = made'[rid'] /\ Follows(buffer', rid', made'[rid'])
    BY <1>1, <1>2, EmptyText, FollowsNone
  <2> QED BY <1>1, <1>2, <2>1 DEF Buffered
<1>5. Fates' /\ Frozen
  <2>1. \A r \in Rid : r > rid' => fate'[r] = "open"
    BY <1>1, <1>2, <1>3 DEF WInv, Fates, Rid
  <2>2. Fates'
    BY <1>1, <1>3, <2>1 DEF Fates
  <2> QED BY <1>1, <1>2, <1>3, <2>2 DEF Frozen
<1>6. ASSUME NEW d \in Caller PROVE Reaches(d)' /\ Told(d)' /\ req'[d] <= rid'
  <2>1. Told(d)'
    BY <1>1, <1>2, <1>5, ToldKept DEF Rid
  <2>2. at[d] = "listening" => Heard
    BY DEF Heard
  <2>3. Served(req[d])' => Served(req[d])
    BY <1>1, <1>2, <1>3 DEF Served
  <2>4. Served(req[d])' /\ req[d] = rid => fate[rid] = "finished"
    BY <1>1, <1>2, <1>3 DEF Served
  <2>5. at[d] = "listening" /\ Served(req[d])' => Left(req[d])' = Left(req[d])
    BY <1>1, <2>2, <2>4 DEF Left, WInv, Fates
  <2>6. fate'[req[d]] = "failed" => fate[req[d]] = "failed"
    BY <1>2, <1>3
  <2>7. Reaches(d)'
    BY <1>1, <2>3, <2>5, <2>6, ReachesKept
  <2> QED BY <1>1, <2>1, <2>7 DEF WInv, Callers
<1> QED BY <1>4, <1>5, <1>6 DEF WInv, Callers

(* Nothing is kept of what finished.                                       *)
LEMMA LeftNone ==
  ASSUME WInv, NEW d \in Caller, at[d] = "listening", fate[req[d]] = "finished"
  PROVE  Left(req[d]) = 0
<1>1. Heard
  BY DEF Heard
<1> QED BY <1>1, EmptyText DEF WInv, Fates, Left

LEMMA BodyWhole ==
  ASSUME WInv, IInv', NEW c \in Caller, NEW h \in {"prompt", "stream", "media"},
         NEW st \in {"ready", "generating", "error"}, Body(c, h, st)
  PROVE  WInv'
<1> DEFINE starts == st = "generating"
           r      == IF starts THEN rid + 1 ELSE rid
           reg    == IF starts THEN registered \cup {r} ELSE registered
           text   == NewText(st)
<1>1. /\ rid' = r /\ r <= MaxRid /\ bufId' = IF starts THEN r ELSE bufId
      /\ UNCHANGED <<raw, made, alive>>
      /\ \/ /\ status' = st /\ fed' = TRUE /\ registered' = reg /\ UNCHANGED <<ended, fate>>
            /\ \/ Listen(c, r, text)
               \/ Return(c, h, r) /\ buffer' = text
         \/ /\ status' = "error" /\ fed' = FALSE
            /\ buffer' = <<>> /\ queue' = Sent(Error)
            /\ Complete(reg, r, "failed")
            /\ at' = [at EXCEPT ![c] = "failed"]
            /\ UNCHANGED <<req, got, heard, late>>
  BY DEF Body
<1>2. /\ rid \in Rid /\ bufId = rid /\ buffer \in Seq(Piece) /\ made \in [Rid -> 0 .. MaxText]
      /\ fate \in [Rid -> {"open", "finished", "failed", "cancelled"}]
      /\ req \in [Caller -> Rid] /\ MaxRid \in Nat /\ ended \subseteq Rid
      /\ queue \in [Caller -> Seq(Event)] /\ got \in [Caller -> Seq(Piece)]
      /\ at \in [Caller -> {"idle", "restoring", "claimed", "opening", "listening", "done", "failed"}]
  BY WTypes DEF WInv, Rid
<1>3. r \in Rid /\ bufId' = r /\ rid <= r /\ (starts => r > rid)
  BY <1>1, <1>2 DEF Rid
<1>4. /\ starts => fate[r] = "open" /\ made[r] = 0 /\ text = <<>>
      /\ ~starts => r = rid /\ text = buffer
  BY <1>3 DEF WInv, Fates, IInv, Budget, NewText
<1>5. PICK a \in Nat : a + Len(text) = made[r] /\ Follows(text, r, a)
  <2>1. CASE starts
    <3>1. 0 + Len(text) = made[r] /\ Follows(text, r, 0)
      BY <1>4, <2>1, EmptyText, FollowsNone
    <3> QED BY <3>1
  <2>2. CASE ~starts
    BY <1>4, <2>2 DEF WInv, Buffered
  <2> QED BY <2>1, <2>2
<1>6. text \in Seq(Piece) /\ (Heard /\ fate[r] = "finished" => text = <<>>)
  BY <1>2, <1>4, EmptyText DEF WInv, Fates
<1>7. \A d \in Caller : req[d] \in Rid /\ req[d] <= rid /\ (starts => req[d] # r)
  BY <1>2, <1>3 DEF WInv, Callers, Rid
<1>8. \A k \in Rid : k > r => fate[k] = "open"
  BY <1>2, <1>3 DEF WInv, Fates, Rid
<1>11. r \in reg \cup ended
  BY DEF WInv, Fates
<1>12. rid' \in Rid /\ rid <= rid'
  BY <1>1, <1>3
<1> HIDE DEF r, text, reg
<1>9. CASE /\ status' = st /\ fed' = TRUE /\ registered' = reg /\ UNCHANGED <<ended, fate>>
           /\ \/ Listen(c, r, text)
              \/ Return(c, h, r) /\ buffer' = text
  <2>1. /\ Reaches(c)' /\ Told(c)' /\ Buffered' /\ req'[c] <= r
        /\ Heard' /\ fate'[rid'] = "finished" => buffer' = <<>>
        /\ Heard => buffer' = text
        /\ \A d \in Caller \ {c} :
              UNCHANGED <<at[d], req[d], queue[d], got[d], heard[d], late[d]>>
    <3>1. CASE Listen(c, r, text)
      <4>1. /\ Reaches(c)' /\ Told(c)' /\ Buffered' /\ req'[c] = r
            /\ fate'[rid'] = "finished" => buffer' = <<>>
            /\ Heard => buffer' = text
            /\ \A d \in Caller \ {c} :
                  UNCHANGED <<at[d], req[d], queue[d], got[d], heard[d], late[d]>>
        <5>1. r <= r /\ r \in registered' \cup ended'
          BY <1>3, <1>9, <1>11 DEF Rid
        <5> QED BY <1>1, <1>3, <1>5, <1>6, <1>9, <3>1, <5>1, ListenFlow DEF WInv
      <4> QED BY <1>3, <4>1 DEF Rid
    <3>2. CASE Return(c, h, r) /\ buffer' = text
      <4>1. /\ at'[c] # "listening" /\ req'[c] = r
            /\ \A d \in Caller \ {c} :
                  UNCHANGED <<at[d], req[d], queue[d], got[d], heard[d], late[d]>>
        BY <1>2, <3>2 DEF Return
      <4>2. Heard' => Heard
        BY <1>1, <4>1 DEF Heard
      <4>3. Reaches(c)' /\ Told(c)'
        BY <4>1 DEF Reaches, Told
      <4>4. a + Len(buffer') = made'[rid'] /\ Follows(buffer', rid', a)
        BY <1>1, <1>5, <3>2
      <4>5. req'[c] <= r
        BY <1>3, <4>1 DEF Rid
      <4> QED BY <1>1, <1>6, <1>9, <3>2, <4>1, <4>2, <4>3, <4>4, <4>5 DEF Buffered
    <3> QED BY <1>9, <3>1, <3>2
  <2>2. Frozen
    BY <1>1, <1>9 DEF Frozen
  <2>3. Fates'
    <3>1. status' = "generating" => starts
      BY <1>9
    <3>2. starts => fate'[rid'] = "open"
      BY <1>1, <1>4, <1>9
    <3> QED BY <1>1, <1>8, <1>9, <1>11, <2>1, <3>1, <3>2 DEF WInv, Fates
  <2>4. ASSUME NEW d \in Caller \ {c} PROVE Reaches(d)' /\ Told(d)' /\ req'[d] <= rid'
    <3>1. Told(d)'
      BY <1>12, <2>1, <2>2, ToldKept
    <3>2. ASSUME at[d] = "listening", Served(req[d])'
          PROVE  Served(req[d]) /\ Left(req[d])' = Left(req[d])
      <4>1. buffer' = text
        BY <2>1, <3>2 DEF Heard
      <4>2. CASE starts
        <5>1. fate[req[d]] = "finished" /\ Left(req[d])' = 0
          BY <1>1, <1>7, <1>9, <2>1, <3>2, <4>2 DEF Served, Left
        <5> QED BY <3>2, <5>1, LeftNone DEF Served
      <4>3. CASE ~starts
        BY <1>1, <1>4, <1>9, <2>1, <3>2, <4>1, <4>3 DEF Served, Left
      <4> QED BY <4>2, <4>3
    <3>3. Reaches(d)'
      BY <1>1, <1>9, <2>1, <3>2, ReachesKept
    <3>4. req'[d] <= rid'
      BY <1>1, <1>2, <1>3, <1>7, <2>1 DEF Rid
    <3> QED BY <3>1, <3>3, <3>4
  <2> QED BY <1>1, <2>1, <2>3, <2>4 DEF WInv, Callers
<1>10. CASE /\ status' = "error" /\ fed' = FALSE
            /\ buffer' = <<>> /\ queue' = Sent(Error)
            /\ Complete(reg, r, "failed")
            /\ at' = [at EXCEPT ![c] = "failed"]
            /\ UNCHANGED <<req, got, heard, late>>
  <2>1. /\ \A k \in ended' : fate'[k] # "open"
        /\ \A k \in Rid : k # r => fate'[k] = fate[k]
        /\ fate'[r] = IF fate[r] = "open" THEN "failed" ELSE fate[r]
        /\ r \in registered' \cup ended'
    BY <1>2, <1>3, <1>10, <1>11, Completed DEF WInv, Fates
  <2>2. at'[c] = "failed" /\ \A d \in Caller \ {c} : at'[d] = at[d]
    BY <1>2, <1>10
  <2>3. Frozen
    BY <1>1, <1>3, <2>1 DEF Frozen
  <2>4. Buffered'
    <3>1. made'[rid'] \in Nat
      BY <1>1, <1>2, <1>3
    <3>2. made'[rid'] + Len(buffer') = made'[rid'] /\ Follows(buffer', rid', made'[rid'])
      BY <1>10, <3>1, EmptyText, FollowsNone
    <3> QED BY <3>1, <3>2 DEF Buffered
  <2>5. Fates'
    BY <1>1, <1>3, <1>8, <1>10, <2>1 DEF WInv, Fates, Rid
  <2>6. ASSUME NEW d \in Caller PROVE Reaches(d)' /\ Told(d)' /\ req'[d] <= rid'
    <3>1. Told(d)'
      BY <1>10, <1>12, <2>2, <2>3, ToldKept
    <3>2. ASSUME at[d] = "listening", Served(req[d])'
          PROVE  Served(req[d]) /\ Left(req[d])' = Left(req[d])
      <4>1. fate[req[d]] = "finished"
        BY <1>1, <1>3, <1>7, <1>10, <2>1, <3>2 DEF Served
      <4>2. Left(req[d])' = 0
        BY <1>10, EmptyText DEF Left
      <4> QED BY <3>2, <4>1, <4>2, LeftNone DEF Served
    <3>3. /\ queue'[d] = queue[d] \/ queue'[d] = Append(queue[d], Error)
          /\ at[d] = "listening" /\ alive => queue'[d] = Append(queue[d], Error)
      BY <1>10 DEF Sent
    <3>4. Reaches(d)'
      BY <1>1, <1>10, <2>2, <3>2, <3>3, ReachesKept
    <3>5. req'[d] <= rid'
      BY <1>1, <1>2, <1>3, <1>7, <1>10 DEF Rid
    <3> QED BY <3>1, <3>4, <3>5
  <2> QED BY <2>4, <2>5, <2>6 DEF WInv, Callers
<1> QED BY <1>1, <1>9, <1>10

LEMMA TurnWhole == ASSUME WInv, IInv', Turn PROVE WInv'
<1> DEFINE k    == made[rid] + 1
           text == Append(buffer, <<rid, k>>)
<1>1. /\ rid \in Rid /\ buffer \in Seq(Piece) /\ made \in [Rid -> 0 .. MaxText]
      /\ fate \in [Rid -> {"open", "finished", "failed", "cancelled"}]
      /\ req \in [Caller -> Rid] /\ ended \subseteq Rid /\ MaxText \in Nat
      /\ queue \in [Caller -> Seq(Event)]
  BY WTypes DEF WInv, Rid
<1>2. fate[rid] = "open" /\ k \in 1 .. MaxText
  BY <1>1 DEF WInv, Fates, IInv, Budget, Turn, Works
<1>3. PICK a \in Nat : a + Len(buffer) = made[rid] /\ Follows(buffer, rid, a)
  BY DEF WInv, Buffered
<1>4. /\ text \in Seq(Piece) /\ Len(text) = Len(buffer) + 1
      /\ a + Len(text) = k /\ Follows(text, rid, a)
  <2>1. k = a + Len(buffer) + 1
    BY <1>3
  <2>2. text \in Seq(Piece)
    BY <1>1, <1>2, AppendPiece
  <2>3. Len(text) = Len(buffer) + 1
    <3>1. <<rid, k>> \in Piece
      BY <1>1, <1>2 DEF Piece
    <3> HIDE DEF k
    <3> QED BY <1>1, <3>1
  <2>4. Follows(text, rid, a)
    BY <1>1, <1>2, <1>3, <2>1, FollowsAppend
  <2> QED BY <1>1, <1>3, <2>1, <2>2, <2>3, <2>4
<1> HIDE DEF k, text
<1>5. /\ made' = [made EXCEPT ![rid] = k]
      /\ UNCHANGED <<rid, raw, at, req, got, heard, late, alive>> /\ alive
  BY DEF Turn, Works, k
<1>6. PICK end \in BOOLEAN :
         /\ \/ /\ Heard /\ queue' = Sent(TextOf(rid, text)) /\ buffer' = <<>>
            \/ /\ ~Heard \/ ~end
               /\ buffer' = text /\ UNCHANGED queue
         /\ \/ /\ end /\ status' = "ready" /\ fed' = FALSE
               /\ Complete(registered, rid, "finished")
            \/ /\ ~end /\ UNCHANGED <<status, fed, futures>>
  BY DEF Turn, k, text
<1>7. made'[rid] = k /\ \A r \in Rid : r # rid => made'[r] = made[r]
  BY <1>1, <1>5
<1>8. /\ \A r \in ended' : fate'[r] # "open"
      /\ \A r \in Rid : r # rid => fate'[r] = fate[r]
      /\ IF end THEN fate'[rid] = "finished" /\ status' = "ready"
                ELSE fate'[rid] = "open"
      /\ rid \in registered' \cup ended'
  <2>1. CASE end
    BY <1>1, <1>2, <1>6, <2>1, Completed DEF WInv, Fates
  <2>2. CASE ~end
    BY <1>2, <1>6, <2>2 DEF WInv, Fates, futures
  <2> QED BY <2>1, <2>2
<1>9. Heard' <=> Heard
  BY <1>5 DEF Heard
<1>10. Buffered'
  <2>1. CASE buffer' = <<>>
    <3>1. k + Len(buffer') = made'[rid'] /\ Follows(buffer', rid', k)
      BY <1>2, <1>5, <1>7, <2>1, EmptyText, FollowsNone
    <3> QED BY <1>2, <3>1 DEF Buffered
  <2>2. CASE buffer' = text
    BY <1>4, <1>5, <1>7, <2>2 DEF Buffered
  <2> QED BY <1>6, <2>1, <2>2
<1>11. Fates'
  <2>1. Heard' /\ fate'[rid] = "finished" => buffer' = <<>>
    BY <1>6, <1>8, <1>9
  <2>2. \A r \in Rid : r > rid => fate'[r] = "open"
    BY <1>1, <1>8 DEF WInv, Fates, Rid
  <2> QED BY <1>5, <1>8, <2>1, <2>2 DEF Fates
<1>12. Frozen
  BY <1>2, <1>7, <1>8 DEF Frozen
<1>13. ASSUME NEW d \in Caller PROVE Reaches(d)' /\ Told(d)' /\ req'[d] <= rid'
  <2> DEFINE r == req[d]
             g == got[d]
             q == queue[d]
             e == TextOf(rid, text)
  <2>1. Told(d)'
    BY <1>1, <1>5, <1>12, ToldKept DEF Rid
  <2>2. /\ r \in Rid /\ q \in Seq(Event) /\ made[r] \in Nat /\ Reaches(d) /\ req'[d] <= rid'
    BY <1>1, <1>5 DEF WInv, Callers
  <2>3. e \in Event /\ e.rid = rid /\ e.text = text
    BY <1>1, <1>4, TextEvent
  <2> HIDE DEF e
  <2>4. ASSUME at[d] = "listening"
        PROVE  \E b \in Nat, l \in Nat :
                  /\ Flow(b, g, queue'[d], r, made'[r], l)
                  /\ Served(r)' => l = Left(r)'
                  /\ ~late[d] => b = 0
                  /\ alive' /\ ~late[d] /\ fate'[r] = "failed" => Fails(queue'[d])
    <3>1. PICK b \in Nat, l \in Nat :
             /\ Flow(b, g, q, r, made[r], l)
             /\ Served(r) => l = Left(r)
             /\ ~late[d] => b = 0
             /\ alive /\ ~late[d] /\ fate[r] = "failed" => Fails(q)
      BY <2>2, <2>4 DEF Reaches
    <3>2. \/ queue'[d] = Append(q, e) /\ buffer' = <<>>
          \/ queue'[d] = q /\ buffer' = text
      <4>1. Heard
        BY <2>4 DEF Heard
      <4> QED BY <1>5, <1>6, <2>4, <4>1 DEF Sent, e
    <3>3. CASE r = rid
      <4>1. l = Len(buffer) /\ l \in Nat /\ l + 1 = Len(text) /\ fate'[r] # "failed"
        BY <1>1, <1>2, <1>4, <1>5, <1>8, <3>1, <3>3 DEF Served, Left
      <4>2. Flow(b, g, q, r, made'[r], l + 1) /\ made'[r] = k /\ a + (l + 1) = k
        <5>1. made'[r] = made[r] + 1
          BY <1>7, <3>3 DEF k
        <5> QED BY <1>4, <1>7, <2>2, <3>1, <3>3, <4>1, <5>1, FlowMore
      <4>3. CASE queue'[d] = Append(q, e) /\ buffer' = <<>>
        <5>1. Flow(b, g, Append(q, e), r, made'[r], (l + 1) - Len(e.text))
          <6>1. e.rid = r /\ Follows(e.text, r, a) /\ Len(e.text) <= l + 1
            BY <1>4, <2>3, <3>3, <4>1
          <6> DEFINE m == made'[r]
          <6>2. Flow(b, g, q, r, m, l + 1) /\ m \in Nat /\ l + 1 \in Nat /\ a + (l + 1) = m
            BY <1>2, <4>1, <4>2
          <6> HIDE DEF m, g, q, r
          <6>3. q \in Seq(Event) /\ e \in Event
            BY <2>2, <2>3
          <6> QED BY <6>1, <6>2, <6>3, FlowAppend DEF m
        <5>2. (l + 1) - Len(e.text) = 0 /\ Left(r)' = 0
          BY <1>4, <2>3, <4>1, <4>3, EmptyText DEF Left
        <5>3. Flow(b, g, Append(q, e), r, made'[r], 0)
          BY <5>1, <5>2
        <5>4. Flow(b, g, queue'[d], r, made'[r], 0)
          BY <4>3, <5>3
        <5> QED BY <3>1, <4>1, <5>2, <5>4
      <4>4. CASE queue'[d] = q /\ buffer' = text
        <5>1. Left(r)' = l + 1
          BY <1>5, <3>3, <4>1, <4>4 DEF Left
        <5> QED BY <3>1, <4>1, <4>2, <4>4, <5>1
      <4> QED BY <3>2, <4>3, <4>4
    <3>4. CASE r # rid
      <4>1. /\ Left(r)' = Left(r) /\ made'[r] = made[r] /\ fate'[r] = fate[r]
            /\ Served(r)' => Served(r)
        BY <1>5, <1>7, <1>8, <2>2, <3>4 DEF Left, Served
      <4>2. Flow(b, g, Append(q, e), r, made[r], l)
        <5> DEFINE m == made[r]
        <5>1. Flow(b, g, q, r, m, l) /\ q \in Seq(Event) /\ m \in Nat
          BY <2>2, <3>1
        <5>2. e \in Event /\ e.rid # r
          BY <2>3, <3>4
        <5> HIDE DEF g, q, m, r
        <5>3. PICK x \in Nat : x + l = m
          BY <5>1, FlowRest
        <5>4. Flow(b, g, Append(q, e), r, m, l)
          BY <5>1, <5>2, <5>3, FlowAppend
        <5> QED BY <5>4 DEF m
      <4>3. Fails(q) => Fails(Append(q, e))
        BY <2>2, <2>3, FailsAppend
      <4> QED BY <1>5, <3>1, <3>2, <4>1, <4>2, <4>3
    <3> QED BY <3>3, <3>4
  <2>5. Reaches(d)'
    BY <1>5, <2>4 DEF Reaches
  <2> QED BY <2>1, <2>2, <2>5
<1> QED BY <1>10, <1>11, <1>13 DEF WInv, Callers

LEMMA DecodeFailWhole == ASSUME WInv, IInv', DecodeFail PROVE WInv'
<1> DEFINE kept == ~Heard \/ buffer = <<>>
<1>1. /\ rid \in Rid /\ buffer \in Seq(Piece) /\ made \in [Rid -> 0 .. MaxText]
      /\ fate \in [Rid -> {"open", "finished", "failed", "cancelled"}]
      /\ req \in [Caller -> Rid] /\ ended \subseteq Rid
      /\ queue \in [Caller -> Seq(Event)]
  BY WTypes DEF WInv, Rid
<1>2. fate[rid] = "open"
  BY DEF WInv, Fates, DecodeFail, Works
<1>3. /\ status' = "error" /\ fed' = FALSE
      /\ buffer' = buffer \/ buffer' = <<>>
      /\ Complete(registered, rid, "failed")
      /\ UNCHANGED <<rid, raw, at, req, got, heard, late, made, alive>> /\ alive
  BY DEF DecodeFail, Works
<1>4. /\ \A k \in ended' : fate'[k] # "open"
      /\ \A k \in Rid : k # rid => fate'[k] = fate[k]
      /\ fate'[rid] = "failed"
      /\ rid \in registered' \cup ended'
  BY <1>1, <1>2, <1>3, Completed DEF WInv, Fates
<1>5. Buffered'
  <2>1. CASE buffer' = buffer
    BY <1>3, <2>1 DEF WInv, Buffered
  <2>2. CASE buffer' = <<>>
    <3>1. made[rid] \in Nat
      BY <1>1
    <3>2. made[rid] + Len(buffer') = made'[rid'] /\ Follows(buffer', rid', made[rid])
      BY <1>3, <2>2, <3>1, EmptyText, FollowsNone
    <3> QED BY <3>1, <3>2 DEF Buffered
  <2> QED BY <1>3, <2>1, <2>2
<1>6. Fates' /\ Frozen
  BY <1>1, <1>2, <1>3, <1>4 DEF WInv, Fates, Frozen, Rid
<1>7. PICK a \in Nat : a + Len(buffer) = made[rid] /\ Follows(buffer, rid, a)
  BY DEF WInv, Buffered
<1>8. ASSUME NEW d \in Caller PROVE Reaches(d)' /\ Told(d)' /\ req'[d] <= rid'
  <2> DEFINE r == req[d]
             g == got[d]
             q == queue[d]
             u == Append(q, Error)
             e == TextOf(rid, buffer)
  <2>1. Told(d)'
    BY <1>1, <1>3, <1>6, ToldKept DEF Rid
  <2>2. /\ r \in Rid /\ q \in Seq(Event) /\ made[r] \in Nat /\ Reaches(d) /\ req'[d] <= rid'
    BY <1>1, <1>3 DEF WInv, Callers
  <2>3. e \in Event /\ e.rid = rid /\ e.text = buffer
    BY <1>1, TextEvent
  <2>4. u \in Seq(Event)
    BY <2>2, ErrorEvent
  <2> HIDE DEF e, u
  <2>5. ASSUME at[d] = "listening"
        PROVE  \E b \in Nat, l \in Nat :
                  /\ Flow(b, g, queue'[d], r, made'[r], l)
                  /\ Served(r)' => l = Left(r)'
                  /\ ~late[d] => b = 0
                  /\ alive' /\ ~late[d] /\ fate'[r] = "failed" => Fails(queue'[d])
    <3>1. queue'[d] = u \/ queue'[d] = Append(u, e)
      <4>1. queue'[d] = u \o (IF ~kept THEN <<e>> ELSE <<>>)
        BY <1>3, <2>5 DEF DecodeFail, Sent, u, e
      <4>2. u \o <<>> = u /\ u \o <<e>> = Append(u, e)
        BY <2>3, <2>4
      <4> QED BY <4>1, <4>2
    <3>2. Fails(u) /\ Fails(Append(u, e))
      BY <2>2, <2>3, <2>4, ErrorEvent, FailsAppend DEF u
    <3>3. PICK b \in Nat, l \in Nat :
             /\ Flow(b, g, q, r, made[r], l)
             /\ Served(r) => l = Left(r)
             /\ ~late[d] => b = 0
      BY <2>2, <2>5 DEF Reaches
    <3>4. PICK x \in Nat : x + l = made[r]
      <4> DEFINE m == made[r]
      <4>1. Flow(b, g, q, r, m, l) /\ q \in Seq(Event) /\ m \in Nat
        BY <2>2, <3>3
      <4> HIDE DEF g, q, m, r
      <4>2. \E x \in Nat : x + l = m
        BY <4>1, FlowRest
      <4> QED BY <4>2 DEF m
    <3>5. Flow(b, g, u, r, made[r], l)
      BY <2>2, <3>3, <3>4, ErrorEvent, FlowAppend DEF u
    <3>6. CASE r = rid
      <4>1. ~Served(r)'
        BY <1>3, <1>4, <3>6 DEF Served
      <4>2. l = Len(buffer) /\ x = a
        BY <1>1, <1>2, <1>3, <1>7, <3>3, <3>4, <3>6 DEF Served, Left
      <4>3. Follows(e.text, r, x) /\ Len(e.text) <= l /\ l - Len(e.text) \in Nat
        BY <1>1, <1>7, <2>3, <3>6, <4>2
      <4>4. Flow(b, g, Append(u, e), r, made[r], l - Len(e.text))
        BY <2>2, <2>3, <2>4, <3>4, <3>5, <3>6, <4>3, FlowAppend
      <4> QED BY <1>3, <3>1, <3>2, <3>3, <3>5, <4>1, <4>3, <4>4
    <3>7. CASE r # rid
      <4>1. Flow(b, g, Append(u, e), r, made[r], l)
        BY <2>2, <2>3, <2>4, <3>4, <3>5, <3>7, FlowAppend
      <4>2. Left(r)' = Left(r) /\ (Served(r)' => Served(r))
        BY <1>3, <1>4, <2>2, <3>7 DEF Left, Served
      <4> QED BY <1>3, <3>1, <3>2, <3>3, <3>5, <4>1, <4>2
    <3> QED BY <3>6, <3>7
  <2>6. Reaches(d)'
    BY <1>3, <2>5 DEF Reaches
  <2> QED BY <2>1, <2>2, <2>6
<1> QED BY <1>5, <1>6, <1>8 DEF WInv, Callers

LEMMA DeliverWhole == ASSUME WInv, IInv', NEW c \in Caller, Deliver(c) PROVE WInv'
<1> DEFINE e == Head(queue[c])
<1>1. /\ queue[c] \in Seq(Event) /\ got[c] \in Seq(Piece) /\ req[c] \in Rid
      /\ queue \in [Caller -> Seq(Event)] /\ got \in [Caller -> Seq(Piece)]
      /\ at \in [Caller -> {"idle", "restoring", "claimed", "opening", "listening", "done", "failed"}]
      /\ made[req[c]] \in Nat /\ heard \in [Caller -> BOOLEAN]
      /\ rid \in Rid /\ rid <= rid
  <2>1. heard \in [Caller -> BOOLEAN]
    BY DEF WInv, IInv, TypeOK
  <2> QED BY <2>1, WTypes DEF WInv, Rid
<1>2. /\ at[c] = "listening" /\ queue[c] # <<>>
      /\ UNCHANGED <<status, fed, alive, rid, registered, ended, fate, buffer, raw, req, late, made>>
  BY DEF Deliver, session, futures, output
<1>3. CASE /\ e.kind = "text"
           /\ got' = IF e.rid = req[c] THEN [got EXCEPT ![c] = @ \o e.text] ELSE got
           /\ queue' = [queue EXCEPT ![c] = Tail(@)]
           /\ heard' = [heard EXCEPT ![c] = req[c] \in ended]
           /\ UNCHANGED at
  <2> DEFINE g2 == IF e.rid = req[c] THEN got[c] \o e.text ELSE got[c]
  <2>1. /\ got'[c] = g2 /\ queue'[c] = Tail(queue[c])
        /\ heard'[c] = (req[c] \in ended)
        /\ \A d \in Caller \ {c} : UNCHANGED <<got[d], queue[d], heard[d]>>
    <3> HIDE DEF e
    <3> QED BY <1>1, <1>3
  <2>2. Heard' => Heard
    BY <1>2, <1>3 DEF Heard
  <2>3. Buffered' /\ Fates' /\ Frozen
    BY <1>2, <2>2, WStays
  <2>4. Reaches(c)'
    <3>1. Reaches(c)
      BY DEF WInv, Callers
    <3>2. Left(req[c])' = Left(req[c]) /\ (Served(req[c])' <=> Served(req[c]))
      BY <1>2 DEF Left, Served
    <3>3. ASSUME NEW b \in Nat, NEW l \in Nat, Flow(b, got[c], queue[c], req[c], made[req[c]], l)
          PROVE  Flow(b, got'[c], queue'[c], req[c], made[req[c]], l)
      <4> DEFINE q == queue[c]
                 m == made[req[c]]
      <4>1. Flow(b, IF e.rid = req[c] THEN got[c] \o e.text ELSE got[c], Tail(q), req[c], m, l)
        <5>1. Flow(b, got[c], q, req[c], m, l) /\ q \in Seq(Event) /\ q # <<>> /\ m \in Nat
          BY <1>1, <1>2, <3>3
        <5> HIDE DEF q, m
        <5>2. Flow(b, IF Head(q).rid = req[c] THEN got[c] \o Head(q).text ELSE got[c],
                   Tail(q), req[c], m, l)
          BY <1>1, <5>1, FlowTake
        <5> QED BY <5>2 DEF q
      <4> QED BY <2>1, <4>1
    <3>4. ASSUME Fails(queue[c]) PROVE Fails(queue'[c])
      BY <1>1, <1>2, <1>3, <2>1, <3>4, FailsTail
    <3> HIDE DEF e, g2
    <3> QED BY <1>2, <1>3, <3>1, <3>2, <3>3, <3>4 DEF Reaches
  <2>5. Told(c)'
    BY <1>2, <2>1 DEF Told, WInv, Fates
  <2>6. ASSUME NEW d \in Caller \ {c} PROVE Reaches(d)' /\ Told(d)'
    <3>1. UNCHANGED <<at[d], req[d], late[d], heard[d], got[d], queue[d]>>
      BY <1>2, <1>3, <2>1
    <3>2. Told(d)'
      BY <1>1, <1>2, <2>3, <3>1, ToldKept
    <3>3. Reaches(d)'
      BY <1>2, <3>1, ReachesKept DEF Served, Left
    <3> QED BY <3>2, <3>3
  <2>7. \A d \in Caller : req'[d] <= rid'
    BY <1>2 DEF WInv, Callers
  <2> QED BY <2>3, <2>4, <2>5, <2>6, <2>7 DEF WInv, Callers
<1>4. CASE /\ at' = [at EXCEPT ![c] = "failed"] /\ queue' = [queue EXCEPT ![c] = <<>>]
           /\ UNCHANGED <<got, heard>>
  <2>1. /\ at'[c] = "failed"
        /\ \A d \in Caller \ {c} : at'[d] = at[d] /\ queue'[d] = queue[d]
    BY <1>1, <1>4
  <2>2. Heard' => Heard
    BY <1>2, <2>1 DEF Heard
  <2>3. Buffered' /\ Fates' /\ Frozen
    BY <1>2, <2>2, WStays
  <2>4. ASSUME NEW d \in Caller PROVE Reaches(d)' /\ Told(d)' /\ req'[d] <= rid'
    <3>1. Told(d)'
      BY <1>1, <1>2, <1>4, <2>1, <2>3, ToldKept
    <3>2. Reaches(d)'
      BY <1>2, <1>4, <2>1, ReachesKept DEF Served, Left
    <3> QED BY <1>2, <3>1, <3>2 DEF WInv, Callers
  <2> QED BY <2>3, <2>4 DEF WInv, Callers
<1> QED BY <1>3, <1>4 DEF Deliver

LEMMA EndWhole == ASSUME WInv, IInv', NEW c \in Caller, End(c) PROVE WInv'
<1>1. /\ queue \in [Caller -> Seq(Event)] /\ rid \in Rid /\ rid <= rid
      /\ at \in [Caller -> {"idle", "restoring", "claimed", "opening", "listening", "done", "failed"}]
  BY WTypes DEF WInv, Rid
<1>2. /\ UNCHANGED <<status, fed, alive, rid, registered, ended, fate, buffer, raw, req, late, made,
                     got, heard>>
      /\ at'[c] = "done" /\ \A d \in Caller \ {c} : UNCHANGED <<at[d], queue[d]>>
  BY <1>1 DEF End, session, futures, output
<1>3. Heard' => Heard
  BY <1>2 DEF Heard
<1>4. Buffered' /\ Fates' /\ Frozen
  BY <1>2, <1>3, WStays
<1>5. ASSUME NEW d \in Caller PROVE Reaches(d)' /\ Told(d)' /\ req'[d] <= rid'
  <2>1. Told(d)'
    BY <1>1, <1>2, <1>4, ToldKept
  <2>2. Reaches(d)'
    BY <1>2, ReachesKept DEF Served, Left
  <2> QED BY <1>2, <2>1, <2>2 DEF WInv, Callers
<1> QED BY <1>4, <1>5 DEF WInv, Callers

(* The buffer of a session that is freed is lost to its listeners.         *)
LEMMA FreeSessionWhole == ASSUME WInv, IInv', FreeSession PROVE WInv'
<1>1. /\ UNCHANGED <<status, rid, registered, ended, fate, made, raw, at, req, queue, got, heard, late>>
      /\ fed' = FALSE /\ buffer' = <<>> /\ alive' = FALSE
  BY DEF FreeSession, futures, callers
<1>2. rid \in Rid /\ made[rid] \in Nat /\ rid <= rid
  BY WTypes DEF WInv, Rid
<1>3. Buffered'
  <2>1. made[rid] + Len(buffer') = made'[rid'] /\ Follows(buffer', rid', made[rid])
    BY <1>1, <1>2, EmptyText, FollowsNone
  <2> QED BY <1>2, <2>1 DEF Buffered
<1>4. Fates' /\ Frozen
  BY <1>1 DEF WInv, Fates, Frozen
<1>5. ASSUME NEW d \in Caller PROVE Reaches(d)' /\ Told(d)' /\ req'[d] <= rid'
  <2>1. Told(d)'
    BY <1>1, <1>2, <1>4, ToldKept
  <2>2. at[d] = "listening" /\ Served(req[d])' => Served(req[d]) /\ Left(req[d]) = 0
    BY <1>1, LeftNone DEF Served
  <2>3. Left(req[d])' = 0
    BY <1>1, EmptyText DEF Left
  <2>4. Reaches(d)'
    BY <1>1, <2>2, <2>3, ReachesKept
  <2> QED BY <1>1, <2>1, <2>4 DEF WInv, Callers
<1> QED BY <1>3, <1>4, <1>5 DEF WInv, Callers

-----------------------------------------------------------------------------
LEMMA RestWhole ==
  ASSUME WInv, IInv', NEW c \in Caller,
         at' = [at EXCEPT ![c] = "restoring"] \/ at' = [at EXCEPT ![c] = "claimed"]
            \/ at' = [at EXCEPT ![c] = "failed"] \/ at' = at,
         UNCHANGED <<rid, futures, output, made, req, queue, got, heard, late, raw, alive>>,
         status' = "generating" /\ fed' => status = "generating" /\ fed
  PROVE  WInv'
<1>1. \A d \in Caller : at'[d] = at[d] \/ at'[d] # "listening"
  BY WTypes DEF WInv
<1> QED BY <1>1, CallersRest DEF futures, output

LEMMA InductiveWhole == WInv /\ IInv' /\ [Next]_vars => WInv'
<1> SUFFICES ASSUME WInv, IInv', [Next]_vars PROVE WInv'
  OBVIOUS
<1>0. /\ status \in {"ready", "generating", "error"}
      /\ how \in [Caller -> {"prompt", "stream", "media"}]
  BY DEF WInv, IInv, TypeOK
<1>1. ASSUME NEW c \in Caller, NEW h \in {"prompt", "stream"}, SetPrompt(c, h) PROVE WInv'
  BY <1>1, BodyWhole, RestWhole DEF SetPrompt, Suspend
<1>2. ASSUME NEW c \in Caller, Media(c) PROVE WInv'
  BY <1>2, RestWhole DEF Media
<1>3. ASSUME NEW c \in Caller, MediaBody(c) PROVE WInv'
  BY <1>0, <1>3, BodyWhole, RestWhole DEF MediaBody, Suspend, session
<1>4. ASSUME NEW c \in Caller, Resume(c) PROVE WInv'
  <2>1. CASE status = "generating" /\ Body(c, how[c], status)
    BY <1>0, <2>1, BodyWhole
  <2>2. CASE /\ Throw(c) /\ UNCHANGED <<status, fed, alive, rid, futures, output, raw, made>>
    BY <2>2, RestWhole DEF Throw
  <2> QED BY <1>4, <2>1, <2>2 DEF Resume, session
<1>5. ASSUME NEW c \in Caller, Collect(c) \/ Open(c) \/ Deliver(c) \/ End(c) PROVE WInv'
  BY <1>5, CollectWhole, OpenWhole, DeliverWhole, EndWhole
<1>6. CASE ListenRaw \/ Cancel \/ FreeSession \/ Turn \/ DecodeFail
  BY <1>6, ListenRawWhole, CancelWhole, FreeSessionWhole, TurnWhole, DecodeFailWhole
<1>7. CASE Evict \/ LoopEnds \/ Yield \/ UNCHANGED vars
  <2>1. /\ UNCHANGED <<rid, registered, ended, fate, made, buffer, req, queue, got, heard, late,
                       raw, at, alive>>
        /\ status' = "generating" /\ fed' => status = "generating" /\ fed
    BY <1>7 DEF Evict, LoopEnds, Yield, vars, session, futures, output, callers
  <2> QED BY <2>1, CallersRest
<1> QED BY <1>1, <1>2, <1>3, <1>4, <1>5, <1>6, <1>7 DEF Next, Application, Loop, Microtask

(* However output is buffered, flushed, replayed and delivered between     *)
(* prompts, cancels and failures: a listener that came in time and for     *)
(* whom no event is under way lacks only what the buffer still holds, and  *)
(* nothing once its request is finished; the news of a failure is under    *)
(* way until it is delivered.                                              *)
THEOREM TailUnderWayAlways == Spec => []TailUnderWay
<1>1. WInv /\ [Next]_vars => WInv'
  BY Inductive, InductiveWhole DEF WInv
<1>2. WInv => TailUnderWay
  <2> SUFFICES ASSUME WInv, NEW c \in Caller,
                      at[c] = "listening", ~late[c], queue[c] = <<>>
               PROVE  /\ fate[req[c]] = "finished" => got[c] = Whole(req[c])
                      /\ alive => /\ fate[req[c]] # "failed"
                                  /\ fate[req[c]] = "open" /\ req[c] = rid =>
                                        got[c] \o buffer = Whole(rid)
    BY DEF TailUnderWay
  <2> DEFINE r == req[c]
             g == got[c]
             m == made[r]
  <2>1. /\ r \in Rid /\ m \in Nat /\ g \in Seq(Piece) /\ buffer \in Seq(Piece) /\ Reaches(c)
    BY WTypes DEF WInv, Callers
  <2>2. PICK l \in Nat : /\ Flow(0, g, <<>>, r, m, l) /\ (Served(r) => l = Left(r))
                         /\ alive /\ fate[r] = "failed" => Fails(<<>>)
    BY <2>1 DEF Reaches
  <2>3. ~Fails(<<>>)
    BY EmptyText DEF Fails
  <2>4. ASSUME fate[r] = "finished" PROVE g = Whole(r)
    <3>1. l = 0
      BY <2>2, <2>4, LeftNone DEF Served
    <3>2. Flow(0, g, <<>>, r, m, 0)
      BY <2>2, <3>1
    <3> HIDE DEF g
    <3>3. g = [k \in 1 .. m |-> <<r, k>>]
      BY <2>1, <3>2, FlowAll
    <3> QED BY <3>3 DEF Whole
  <2>5. ASSUME alive, fate[r] = "open", r = rid PROVE g \o buffer = Whole(rid)
    <3>1. l = Len(buffer)
      BY <2>2, <2>5 DEF Served, Left
    <3>2. PICK a \in Nat : a + Len(buffer) = made[rid] /\ Follows(buffer, rid, a)
      BY DEF WInv, Buffered
    <3>3. PICK f \in [1 .. 1 -> 0 .. m] : Follows(g, r, 0) /\ 0 + Len(g) = f[1] /\ f[1] + l = m
      BY <2>2, EmptyText DEF Flow
    <3>4. a = Len(g) /\ Len(g) + Len(buffer) = m
      <4>1. Len(g) \in Nat /\ Len(buffer) \in Nat /\ f[1] \in Nat
        BY <2>1, <3>3
      <4>2. Len(g) + Len(buffer) = m
        BY <3>1, <3>3, <4>1
      <4>3. a + Len(buffer) = m
        BY <2>5, <3>2
      <4> HIDE DEF g, m, r
      <4> QED BY <4>1, <4>2, <4>3
    <3>5. Follows(g \o buffer, r, 0)
      BY <2>1, <2>5, <3>2, <3>3, <3>4, FollowsJoin
    <3>6. Len(g \o buffer) = m /\ DOMAIN (g \o buffer) = 1 .. m
          /\ g \o buffer = [k \in DOMAIN (g \o buffer) |-> (g \o buffer)[k]]
      BY <2>1, <3>4
    <3>7. \A k \in 1 .. m : (g \o buffer)[k] = <<r, k>>
      <4> DEFINE u == g \o buffer
      <4>1. \A k \in 1 .. Len(u) : u[k] = <<r, 0 + k>>
        BY <3>5 DEF Follows
      <4>2. Len(u) = m /\ \A k \in 1 .. m : 0 + k = k
        BY <2>1, <3>6
      <4> HIDE DEF u, m, r
      <4>3. \A k \in 1 .. m : u[k] = <<r, k>>
        BY <4>1, <4>2
      <4> QED BY <4>3 DEF u
    <3> QED BY <2>5, <3>6, <3>7 DEF Whole
  <2> QED BY <2>2, <2>3, <2>4, <2>5
<1> QED BY <1>1, <1>2, InitWInv, PTL DEF Spec

-----------------------------------------------------------------------------
(* The texts are TextLog's: every step of the session is a step of TextLog *)
(* or changes nothing that TextLog sees.                                   *)
TextStep == Texts!Next \/ UNCHANGED Texts!vars

Same(d) == UNCHANGED <<at[d], req[d], got[d], late[d]>>

LEMMA ViewMoves ==
  ASSUME NEW c \in Caller, \A d \in Caller \ {c} : Same(d)
  PROVE  /\ Mode' = [Mode EXCEPT ![c] = Mode'[c]]
         /\ Request' = [Request EXCEPT ![c] = Request'[c]]
         /\ Taken' = [Taken EXCEPT ![c] = Taken'[c]]
         /\ Late' = [Late EXCEPT ![c] = Late'[c]]
<1>1. \A d \in Caller \ {c} : UNCHANGED <<Mode[d], Request[d], Taken[d], Late[d]>>
  BY DEF Same, Mode, Request, Taken, Late, Reads
<1>2. Mode' = [Mode EXCEPT ![c] = Mode'[c]]
  BY <1>1 DEF Mode
<1>3. Request' = [Request EXCEPT ![c] = Request'[c]]
  BY <1>1 DEF Request
<1>4. Taken' = [Taken EXCEPT ![c] = Taken'[c]]
  BY <1>1 DEF Taken
<1>5. Late' = [Late EXCEPT ![c] = Late'[c]]
  BY <1>1 DEF Late
<1> QED BY <1>2, <1>3, <1>4, <1>5

LEMMA ViewStays ==
  ASSUME UNCHANGED <<rid, made, fate>>, \A d \in Caller : Same(d)
  PROVE  UNCHANGED Texts!vars /\ UNCHANGED <<Mode, Request, Taken, Late>>
<1>1. UNCHANGED <<Mode, Request, Taken, Late>>
  BY DEF Same, Mode, Request, Taken, Late, Reads
<1> QED BY <1>1 DEF Texts!vars

LEMMA Detaches ==
  ASSUME NEW c \in Caller, \A d \in Caller \ {c} : Same(d),
         at'[c] \notin {"listening", "done"}
  PROVE  Texts!Detach(c)
<1>1. Mode'[c] = "off" /\ Request'[c] = 0 /\ Taken'[c] = <<>> /\ Late'[c] = FALSE
  BY DEF Mode, Request, Taken, Late, Reads
<1> QED BY <1>1, ViewMoves DEF Texts!Detach

LEMMA Attaches ==
  ASSUME IInv, NEW c \in Caller, NEW r \in Rid, NEW text \in Seq(Piece), Listen(c, r, text)
  PROVE  Texts!Attach(c, r)
<1>1. /\ at'[c] = "listening" /\ req'[c] = r /\ got'[c] = <<>>
      /\ late'[c] <=> made[r] > (IF r = rid' THEN Len(text) ELSE 0) \/ fate[r] = "failed"
      /\ \A d \in Caller \ {c} : Same(d)
  BY WTypes DEF Listen, Same
<1>2. /\ Mode'[c] = "reading" /\ Request'[c] = r /\ Taken'[c] = <<>>
      /\ Late'[c] \in BOOLEAN /\ (Late'[c] <=> late'[c])
  BY <1>1 DEF Mode, Request, Taken, Late, Reads
<1>3. Late'[c] => made[r] > 0 \/ fate[r] = "failed"
  <2>1. Len(text) \in Nat /\ made[r] \in Nat
    BY WTypes
  <2> QED BY <1>1, <1>2, <2>1
<1> QED BY <1>1, <1>2, <1>3, ViewMoves DEF Texts!Attach

(* Who asks is not reading.  What is not listened to and fails is asked    *)
(* for in vain.                                                            *)
LEMMA Away ==
  ASSUME WInv, NEW c \in Caller, at[c] # "listening", at'[c] \notin {"listening", "done"},
         \A d \in Caller \ {c} : Same(d), UNCHANGED <<rid, made, fate>>
  PROVE  TextStep
<1>1. Texts!Detach(c)
  BY Detaches
<1>2. Mode[c] # "reading" /\ rid' \in {rid, rid + 1} /\ rid' <= MaxRid
  BY WTypes DEF WInv, Mode, Rid
<1> QED BY <1>1, <1>2 DEF Texts!Ask, Texts!Next, TextStep

LEMMA BodyText ==
  ASSUME WInv, NEW c \in Caller, NEW h \in {"prompt", "stream", "media"},
         NEW st \in {"ready", "generating", "error"}, Body(c, h, st), at[c] # "listening"
  PROVE  TextStep
<1> DEFINE starts == st = "generating"
           r      == IF starts THEN rid + 1 ELSE rid
           reg    == IF starts THEN registered \cup {r} ELSE registered
<1>1. /\ rid' = r /\ r <= MaxRid /\ UNCHANGED made
      /\ \/ /\ UNCHANGED fate
            /\ Listen(c, r, NewText(st)) \/ Return(c, h, r)
         \/ /\ Complete(reg, r, "failed") /\ at' = [at EXCEPT ![c] = "failed"]
            /\ UNCHANGED <<req, got, late>>
  BY DEF Body
<1>2. /\ rid \in Rid /\ MaxRid \in Nat /\ buffer \in Seq(Piece) /\ IInv
      /\ at \in [Caller -> {"idle", "restoring", "claimed", "opening", "listening", "done", "failed"}]
      /\ req \in [Caller -> Rid] /\ got \in [Caller -> Seq(Piece)]
  BY WTypes DEF WInv
<1>3. r \in Rid /\ r \in 0 .. r /\ r \in {rid, rid + 1} /\ NewText(st) \in Seq(Piece)
  BY <1>1, <1>2, EmptyText DEF Rid, NewText
<1>4. Mode[c] # "reading"
  BY DEF Mode
<1> HIDE DEF r
<1>5. CASE UNCHANGED fate /\ Listen(c, r, NewText(st))
  <2>1. Texts!Attach(c, r)
    BY <1>2, <1>3, <1>5, Attaches
  <2> QED BY <1>1, <1>3, <1>4, <1>5, <2>1 DEF Texts!Ask, Texts!Next, TextStep
<1>6. ASSUME \/ Return(c, h, r)
             \/ at' = [at EXCEPT ![c] = "failed"] /\ UNCHANGED <<req, got, late>>
      PROVE  Texts!Detach(c)
  <2>1. at'[c] \notin {"listening", "done"} /\ \A d \in Caller \ {c} : Same(d)
    BY <1>2, <1>6 DEF Same, Return
  <2> QED BY <2>1, Detaches
<1>7. CASE UNCHANGED fate /\ Return(c, h, r)
  BY <1>1, <1>3, <1>4, <1>6, <1>7 DEF Texts!Ask, Texts!Next, TextStep
<1>8. CASE /\ Complete(reg, r, "failed") /\ at' = [at EXCEPT ![c] = "failed"]
           /\ UNCHANGED <<req, got, late>>
  <2>1. Texts!Decide(r, "failed")
    BY <1>8 DEF Complete, Texts!Decide
  <2> QED BY <1>1, <1>3, <1>4, <1>6, <1>8, <2>1 DEF Texts!Ask, Texts!Next, TextStep
<1> QED BY <1>1, <1>5, <1>7, <1>8

LEMMA ListenText ==
  ASSUME WInv, NEW c \in Caller, NEW r \in Rid, r <= rid, Listen(c, r, buffer),
         at[c] # "listening", UNCHANGED <<rid, futures, made>>
  PROVE  TextStep
<1>1. /\ IInv /\ rid \in Rid /\ MaxRid \in Nat /\ buffer \in Seq(Piece)
      /\ UNCHANGED <<rid, fate, made>>
  BY WTypes DEF WInv, futures
<1>2. Texts!Attach(c, r) /\ r \in 0 .. rid'
  BY <1>1, Attaches DEF Rid
<1>3. Mode[c] # "reading" /\ rid' <= MaxRid
  BY <1>1 DEF Mode, Rid
<1> QED BY <1>1, <1>2, <1>3 DEF Texts!Ask, Texts!Next, TextStep

LEMMA CollectText == ASSUME WInv, NEW c \in Caller, Collect(c) PROVE TextStep
<1>1. rid \in Rid /\ rid <= rid
  BY WTypes DEF WInv, Rid
<1> QED BY <1>1, ListenText DEF Collect, Resting

LEMMA OpenText == ASSUME WInv, NEW c \in Caller, Open(c) PROVE TextStep
<1>1. req[c] \in Rid /\ req[c] <= rid
  BY WTypes DEF WInv, Callers
<1> QED BY <1>1, ListenText DEF Open

LEMMA TurnText == ASSUME WInv, Turn PROVE TextStep
<1>1. /\ rid \in Rid /\ made \in [Rid -> 0 .. MaxText] /\ MaxText \in Nat
  BY WTypes DEF WInv
<1>2. fate[rid] = "open" /\ made[rid] < MaxText
  BY DEF WInv, Fates, IInv, Budget, Turn, Works
<1>3. made' = [made EXCEPT ![rid] = @ + 1] /\ UNCHANGED <<rid, at, req, got, late>>
  BY DEF Turn
<1>4. UNCHANGED <<Mode, Request, Taken, Late>>
  BY <1>3 DEF Mode, Request, Taken, Late, Reads
<1>5. \/ Texts!Decide(rid, "finished")
      \/ made[rid] + 1 < MaxText /\ UNCHANGED fate
  <2>1. PICK end \in BOOLEAN :
           /\ MustEnd(made[rid] + 1) => end
           /\ \/ end /\ Complete(registered, rid, "finished")
              \/ ~end /\ UNCHANGED futures
    BY DEF Turn
  <2>2. CASE end
    BY <2>1, <2>2 DEF Complete, Texts!Decide
  <2>3. CASE ~end
    <3>1. ~(made[rid] + 1 >= MaxText) /\ UNCHANGED fate
      BY <2>1, <2>3 DEF MustEnd, futures
    <3> QED BY <1>1, <3>1
  <2> QED BY <2>2, <2>3
<1>6. Texts!Extend
  BY <1>2, <1>3, <1>4, <1>5 DEF Texts!Extend
<1> QED BY <1>6 DEF Texts!Next, TextStep

LEMMA StopText == ASSUME Cancel \/ DecodeFail PROVE TextStep
<1>1. UNCHANGED <<rid, made, at, req, got, late>>
  BY DEF Cancel, DecodeFail, callers
<1>2. UNCHANGED <<Mode, Request, Taken, Late>>
  BY <1>1 DEF Mode, Request, Taken, Late, Reads
<1>3. Texts!Decide(rid, "failed") \/ Texts!Decide(rid, "cancelled")
  BY DEF Cancel, DecodeFail, Complete, Texts!Decide
<1>4. Texts!Stop
  BY <1>1, <1>2, <1>3 DEF Texts!Stop
<1> QED BY <1>4 DEF Texts!Next, TextStep

(* What follows the first a pieces of r is a piece of its log.             *)
LEMMA FollowsLog ==
  ASSUME NEW text \in Seq(Piece), NEW r, NEW a, Follows(text, r, a)
  PROVE  text = Texts!Log(r, a, Len(text))
<1>1. DOMAIN text = 1 .. Len(text) /\ text = [k \in DOMAIN text |-> text[k]]
  OBVIOUS
<1> QED BY <1>1 DEF Follows, Texts!Log

(* A piece is taken where the last one ended: this needs the flow of the   *)
(* events, from their making to the head of the queue.                     *)
LEMMA ReadText ==
  ASSUME WInv, NEW c \in Caller, Deliver(c), Head(queue[c]).kind = "text",
         Head(queue[c]).rid = req[c], Head(queue[c]).text # <<>>
  PROVE  Texts!Read(c)
<1> DEFINE e == Head(queue[c])
           r == req[c]
           g == got[c]
           m == made[r]
           n == Len(e.text)
<1>1. /\ queue[c] \in Seq(Event) /\ queue[c] # <<>> /\ g \in Seq(Piece)
      /\ r \in Rid /\ m \in Nat /\ got \in [Caller -> Seq(Piece)] /\ late[c] \in BOOLEAN
      /\ at[c] = "listening" /\ Reaches(c)
  BY WTypes DEF WInv, Callers, Deliver
<1>2. e.text \in Seq(Piece) /\ n \in Nat \ {0}
  <2>1. e \in Event
    BY <1>1
  <2> HIDE DEF e
  <2>2. e.text \in Seq(Piece)
    BY <2>1 DEF Event
  <2> QED BY <2>2 DEF e
<1>3. /\ UNCHANGED <<rid, made, fate, at, req, late>>
      /\ got' = [got EXCEPT ![c] = @ \o e.text]
  BY <1>1 DEF Deliver, futures
<1>4. /\ UNCHANGED <<Mode, Request, Late>>
      /\ Mode[c] = "reading" /\ Request[c] = r /\ Taken[c] = g /\ (Late[c] <=> late[c])
      /\ Taken' = [Taken EXCEPT ![c] = @ \o e.text]
  <2>1. UNCHANGED <<Mode, Request, Late>>
    BY <1>3 DEF Mode, Request, Late, Reads
  <2>2. Mode[c] = "reading" /\ Request[c] = r /\ Taken[c] = g /\ (Late[c] <=> late[c])
    BY <1>1 DEF Mode, Request, Taken, Late, Reads
  <2>3. /\ Taken'[c] = g \o e.text
        /\ \A d \in Caller \ {c} : Same(d)
    <3> HIDE DEF e
    <3> QED BY <1>1, <1>3 DEF Taken, Reads, Same
  <2>4. Taken' = [Taken EXCEPT ![c] = Taken'[c]]
    BY <2>3, ViewMoves
  <2> HIDE DEF e, g
  <2> QED BY <2>1, <2>2, <2>3, <2>4
<1>5. PICK b \in Nat, l \in Nat : Flow(b, g, queue[c], r, m, l) /\ (~late[c] => b = 0)
  BY <1>1 DEF Reaches
<1> DEFINE a == b + Len(g)
<1>6. Follows(e.text, r, a) /\ a + n <= m
  <2> DEFINE q == queue[c]
  <2>1. /\ Flow(b, g, q, r, m, l) /\ Head(q).rid = r
        /\ q \in Seq(Event) /\ q # <<>> /\ g \in Seq(Piece) /\ m \in Nat
    BY <1>1, <1>5
  <2> HIDE DEF g, r, m, q
  <2>2. Follows(Head(q).text, r, b + Len(g)) /\ b + Len(g) + Len(Head(q).text) <= m
    BY <2>1, FlowTake
  <2> QED BY <2>2 DEF q
<1>7. Follows(g, r, b) /\ Len(g) \in Nat
  BY <1>1, <1>5 DEF Flow
<1>8. a \in 0 .. m /\ n \in 1 .. m
  BY <1>1, <1>2, <1>6, <1>7
<1>9. e.text = Texts!Log(r, a, n)
  <2> HIDE DEF a, e
  <2> QED BY <1>2, <1>6, FollowsLog
<1>10. Texts!Continues(c, a)
  <2>1. CASE g = <<>>
    BY <1>4, <1>5, <2>1, EmptyText DEF Texts!Continues
  <2>2. CASE g # <<>>
    <3>1. Len(g) \in 1 .. Len(g)
      BY <1>1, <2>2
    <3>2. g[Len(g)] = <<r, a>>
      BY <1>7, <3>1 DEF Follows
    <3> QED BY <1>4, <2>2, <3>2 DEF Texts!Continues
  <2> QED BY <2>1, <2>2
<1> HIDE DEF e, g, m, n, a
<1>11. /\ Taken' = [Taken EXCEPT ![c] = @ \o Texts!Log(r, a, n)]
       /\ Request[c] = r /\ made[Request[c]] = m
  BY <1>4, <1>9 DEF m
<1> QED BY <1>3, <1>4, <1>6, <1>8, <1>10, <1>11 DEF Texts!Read

LEMMA DeliverText == ASSUME WInv, NEW c \in Caller, Deliver(c) PROVE TextStep
<1> DEFINE e == Head(queue[c])
<1>1. /\ queue[c] \in Seq(Event) /\ queue[c] # <<>> /\ got[c] \in Seq(Piece)
      /\ got \in [Caller -> Seq(Piece)]
      /\ at \in [Caller -> {"idle", "restoring", "claimed", "opening", "listening", "done", "failed"}]
      /\ at[c] = "listening" /\ UNCHANGED <<rid, made, fate, req, late>>
  BY WTypes DEF WInv, Deliver, futures
<1>2. CASE e.kind = "text" /\ e.rid = req[c] /\ e.text # <<>>
  BY <1>2, ReadText DEF Texts!Next, TextStep
<1>3. CASE e.kind = "text" /\ (e.rid # req[c] \/ e.text = <<>>)
  <2>1. UNCHANGED at /\ got' = IF e.rid = req[c] THEN [got EXCEPT ![c] = @ \o e.text] ELSE got
    BY <1>3 DEF Deliver
  <2>2. got[c] \o <<>> = got[c]
    BY <1>1
  <2> HIDE DEF e
  <2>3. got' = got
    BY <1>1, <1>3, <2>1, <2>2
  <2>4. \A d \in Caller : Same(d)
    BY <1>1, <2>1, <2>3 DEF Same
  <2> QED BY <1>1, <2>4, ViewStays DEF TextStep
<1>4. CASE e.kind # "text"
  <2>1. at' = [at EXCEPT ![c] = "failed"] /\ UNCHANGED got
    BY <1>4 DEF Deliver
  <2>2. at'[c] = "failed" /\ \A d \in Caller \ {c} : Same(d)
    BY <1>1, <2>1 DEF Same
  <2>3. Texts!Detach(c)
    BY <2>2, Detaches
  <2>4. Mode[c] = "reading"
    BY <1>1 DEF Mode
  <2> QED BY <1>1, <2>3, <2>4 DEF Texts!Fail, Texts!Next, TextStep
<1> QED BY <1>2, <1>3, <1>4

(* Who is told of the end reads what is decided or replaced.               *)
LEMMA EndText == ASSUME WInv, NEW c \in Caller, End(c) PROVE TextStep
<1>1. /\ req[c] \in Rid /\ rid \in Rid /\ req[c] <= rid
      /\ at \in [Caller -> {"idle", "restoring", "claimed", "opening", "listening", "done", "failed"}]
  BY WTypes DEF WInv, Callers
<1>2. /\ at[c] = "listening" /\ at'[c] = "done"
      /\ UNCHANGED <<rid, made, fate, req, got, late>>
      /\ \A d \in Caller \ {c} : Same(d)
  BY <1>1 DEF End, futures, Same
<1>3. fate[req[c]] # "open" \/ req[c] # rid
  BY <1>1 DEF End, WInv, Fates, Callers, Told, Rid
<1>4. Mode[c] = "reading" /\ Mode'[c] = "done" /\ Request[c] = req[c]
  BY <1>2 DEF Mode, Request, Reads
<1>5. UNCHANGED <<Request, Taken, Late>>
  BY <1>2 DEF Same, Request, Taken, Late, Reads
<1>6. Mode' = [Mode EXCEPT ![c] = "done"]
  BY <1>2, <1>4, ViewMoves
<1> QED BY <1>2, <1>3, <1>4, <1>5, <1>6 DEF Texts!Told, Texts!Next, TextStep

LEMMA InitText == Init => Texts!Init
<1> SUFFICES ASSUME Init PROVE Texts!Init
  OBVIOUS
<1>1. /\ Mode = [c \in Caller |-> "off"] /\ Request = [c \in Caller |-> 0]
      /\ Taken = [c \in Caller |-> <<>>] /\ Late = [c \in Caller |-> FALSE]
  BY DEF Init, Mode, Request, Taken, Late, Reads
<1> QED BY <1>1 DEF Init, Texts!Init, Rid

LEMMA NextText == WInv /\ WInv' /\ [Next]_vars => TextStep
<1> SUFFICES ASSUME WInv, WInv', [Next]_vars PROVE TextStep
  OBVIOUS
<1>0. /\ status \in {"ready", "generating", "error"}
      /\ how \in [Caller -> {"prompt", "stream", "media"}]
      /\ at \in [Caller -> {"idle", "restoring", "claimed", "opening", "listening", "done", "failed"}]
  BY DEF WInv, IInv, TypeOK
<1>1. ASSUME NEW c \in Caller, at[c] # "listening",
             \E a \in {"restoring", "claimed", "failed"} : at' = [at EXCEPT ![c] = a],
             UNCHANGED <<rid, futures, req, got, late, made>>
      PROVE  TextStep
  <2>1. at'[c] \notin {"listening", "done"} /\ \A d \in Caller \ {c} : Same(d)
    BY <1>0, <1>1 DEF Same
  <2> QED BY <1>1, <2>1, Away DEF futures
<1>2. ASSUME NEW c \in Caller, NEW h \in {"prompt", "stream"}, SetPrompt(c, h) PROVE TextStep
  <2>1. at[c] # "listening"
    BY <1>2 DEF SetPrompt, Resting
  <2> QED BY <1>1, <1>2, <2>1, BodyText DEF SetPrompt, Suspend
<1>3. ASSUME NEW c \in Caller, Media(c) PROVE TextStep
  BY <1>1, <1>3 DEF Media, Resting
<1>4. ASSUME NEW c \in Caller, MediaBody(c) PROVE TextStep
  BY <1>0, <1>1, <1>4, BodyText DEF MediaBody, Suspend
<1>5. ASSUME NEW c \in Caller, Resume(c) PROVE TextStep
  <2>1. CASE status = "generating" /\ Body(c, how[c], status)
    BY <1>0, <1>5, <2>1, BodyText DEF Resume
  <2>2. CASE Throw(c) /\ UNCHANGED <<rid, futures, made>>
    BY <1>1, <1>5, <2>2 DEF Resume, Throw
  <2> QED BY <1>5, <2>1, <2>2 DEF Resume
<1>6. ASSUME NEW c \in Caller, Collect(c) \/ Open(c) \/ Deliver(c) \/ End(c) PROVE TextStep
  BY <1>6, CollectText, OpenText, DeliverText, EndText
<1>7. CASE Turn \/ Cancel \/ DecodeFail
  BY <1>7, TurnText, StopText
<1>8. CASE ListenRaw \/ FreeSession \/ Evict \/ LoopEnds \/ Yield \/ UNCHANGED vars
  <2>1. UNCHANGED <<rid, made, fate, at, req, got, late>>
    BY <1>8 DEF ListenRaw, FreeSession, Evict, LoopEnds, Yield, vars, futures, callers
  <2>2. \A d \in Caller : Same(d)
    BY <2>1 DEF Same
  <2> QED BY <2>1, <2>2, ViewStays DEF TextStep
<1> QED BY <1>2, <1>3, <1>4, <1>5, <1>6, <1>7, <1>8 DEF Next, Application, Loop, Microtask

(* One buffer, one stream and one completer for each request do keep what  *)
(* TextLog says of each text by itself: a reader takes its request's text  *)
(* in order with no gap and nothing twice, from the first piece unless it  *)
(* came late, and is told of the end only when its request is decided or   *)
(* replaced - with how much of the text, TextLog does not say.             *)
THEOREM TextsRefined == Spec => TextSpec
<1>1. WInv /\ [Next]_vars => WInv'
  BY Inductive, InductiveWhole DEF WInv
<1>2. Init /\ [][Next]_vars => [](WInv)
  BY <1>1, InitWInv, PTL
<1>3. WInv /\ WInv' /\ [Next]_vars => [Texts!Next]_(Texts!vars)
  BY NextText DEF TextStep
<1>4. Init /\ [][Next]_vars => Texts!Init /\ [][Texts!Next]_(Texts!vars)
  BY <1>2, <1>3, InitText, PTL
<1> QED BY <1>4 DEF Spec, TextSpec, Texts!Spec
=============================================================================
