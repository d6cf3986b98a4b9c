-------------------------- MODULE LlamaContext_proof --------------------------
(***************************************************************************)
(* Proofs about LlamaContext, for every number of slots and every size of  *)
(* context, batch, margin and prompt.  What a slot holds is a record here  *)
(* (Of); an action sets the record of one slot, so that most of the work   *)
(* is about the records that Trim and llama_decode make.                   *)
(***************************************************************************)
EXTENDS LlamaContext, TLAPS

(* When none of EnvKinds happens a slot holds the positions below its      *)
(* nPos; at nPos 0 leftovers are allowed, for the next prompt clears them. *)
Sound(m) == Env = {} => m.pos <= NCtx /\ (m.pos > 0 => m.cells = 0 .. m.pos - 1)

CellsOK == Sound(saved) /\ \A s \in Slot : Sound(Of(s))

PlaceOK == CurrentLives /\ (~meddled => current \in Slot)

(* A batch of several tokens was measured when its prompt was set.         *)
BatchOK == /\ PrimedAtEnd
           /\ FitsContext
           /\ status = "generating" /\ n > 1 => pos + n < NCtx

IInv == TypeOK /\ CellsOK /\ PlaceOK /\ BatchOK

-----------------------------------------------------------------------------
(* The records.                                                            *)

(* The slots are records of State.                                         *)
LEMMA OfState == ASSUME TypeOK, NEW s \in Slot PROVE Of(s) \in State
  BY DEF TypeOK, Of, State

(* Setting the record of one slot types the memory and leaves the others.  *)
LEMMA SetType ==
  ASSUME TypeOK, NEW s \in Slot, NEW m \in State, SetTo(s, m)
  PROVE  /\ nPos' \in [Slot -> Nat] /\ nPrompt' \in [Slot -> Nat]
         /\ cells' \in [Slot -> SUBSET Nat]
         /\ nPos'[s] = m.pos
         /\ Of(s)' = m
         /\ \A r \in Slot \ {s} : Of(r)' = Of(r)
  BY DEF TypeOK, SetTo, State, Of

LEMMA SetSound ==
  ASSUME TypeOK, CellsOK, NEW s \in Slot, NEW m \in State, SetTo(s, m), Sound(m)
  PROVE  \A r \in Slot : Sound(Of(r))'
<1>1. SUFFICES ASSUME NEW r \in Slot PROVE Sound(Of(r))'
  OBVIOUS
<1>2. Of(s)' = m /\ (r # s => Of(r)' = Of(r))
  BY SetType
<1>3. CASE r = s
  BY <1>2, <1>3 DEF Sound
<1>4. CASE r # s
  BY <1>2, <1>4 DEF CellsOK, Sound
<1> QED BY <1>3, <1>4

LEMMA SameSound ==
  ASSUME CellsOK, UNCHANGED memory
  PROVE  \A r \in Slot : Sound(Of(r))'
  BY DEF CellsOK, Sound, Of, memory

(* The trim cuts no more than there is.                                    *)
LEMMA CutBound ==
  ASSUME NEW m \in State, NEW k \in Nat
  PROVE  Cut(m, k) \in 0 .. m.pos
  BY SizeAssumption DEF Cut, Full, Needed, Least, Most, State

LEMMA EmptySound == Empty \in State /\ Sound(Empty)
  BY SizeAssumption DEF Empty, State, Sound

LEMMA TrimState ==
  ASSUME NEW m \in State, NEW t \in 0 .. m.pos
  PROVE  /\ Trim(m, t) \in State
         /\ Trim(m, t).pos = IF t > 0 /\ backend = "noshift" THEN 0 ELSE m.pos - t
         /\ Trim(m, t).prompt <= m.prompt
         /\ t = 0 => Trim(m, t) = m
<1>1. Shift(m, t) \in State
  BY DEF Shift, State, Most
<1>2. CASE t = 0
  BY <1>2 DEF Trim, State
<1>3. CASE t > 0 /\ backend = "noshift"
  BY <1>3, EmptySound DEF Trim, Empty, State
<1>4. CASE t > 0 /\ backend # "noshift"
  BY <1>1, <1>4 DEF Trim, Shift, Most, State
<1> QED BY <1>2, <1>3, <1>4

(* A trim keeps a slot sound: the cells move with nPos.                    *)
LEMMA TrimSound ==
  ASSUME NEW m \in State, NEW t \in 0 .. m.pos, Sound(m)
  PROVE  Sound(Trim(m, t))
<1>1. CASE t = 0
  BY <1>1 DEF Trim
<1>2. CASE t > 0 /\ backend = "noshift"
  BY <1>2, EmptySound DEF Trim
<1>3. CASE t > 0 /\ backend # "noshift"
  <2>1. Trim(m, t) = Shift(m, t)
    BY <1>3 DEF Trim
  <2>2. SUFFICES ASSUME Env = {} PROVE Sound(Shift(m, t))
    BY <2>1 DEF Sound, Shift
  <2>3. m.pos <= NCtx /\ m.cells = 0 .. m.pos - 1 /\ m.pos \in Nat
    BY <1>3, <2>2 DEF Sound, State
  <2>4. {c \in 0 .. NCtx - 1 : c + t \in 0 .. m.pos - 1} = 0 .. (m.pos - t) - 1
    BY <2>3, SizeAssumption
  <2>5. /\ Shift(m, t).pos = m.pos - t
        /\ Shift(m, t).cells = {c \in 0 .. NCtx - 1 : c + t \in m.cells}
    BY DEF Shift
  <2>6. Shift(m, t).cells = 0 .. (m.pos - t) - 1
    BY <2>3, <2>4, <2>5
  <2> DEFINE d == Shift(m, t)
  <2>7. d.pos = m.pos - t /\ d.cells = 0 .. (m.pos - t) - 1
    BY <2>5, <2>6
  <2> HIDE DEF d
  <2>8. Sound(d)
    BY <2>3, <2>7, SizeAssumption DEF Sound
  <2> QED BY <2>8 DEF d
<1> QED BY <1>1, <1>2, <1>3

(* A decode at the end of a sound slot leaves it sound.                    *)
Longer(m, k) == [m EXCEPT !.pos = @ + k, !.cells = @ \cup Positions(m.pos, k)]

LEMMA ExceptState ==
  ASSUME NEW m \in State, NEW p \in Nat, NEW c \in SUBSET Nat
  PROVE  [m EXCEPT !.pos = p, !.cells = c] \in State
  BY Zenon DEF State

LEMMA LongerState ==
  ASSUME NEW m \in State, NEW k \in Nat
  PROVE  /\ Longer(m, k) \in State
         /\ Longer(m, k).pos = m.pos + k
         /\ Longer(m, k).prompt = m.prompt
         /\ Longer(m, k).cells = m.cells \cup (m.pos .. m.pos + k - 1)
<1>1. m.cells \cup (m.pos .. m.pos + k - 1) \in SUBSET Nat
  BY DEF State
<1>2. /\ Longer(m, k).pos = m.pos + k
      /\ Longer(m, k).prompt = m.prompt
      /\ Longer(m, k).cells = m.cells \cup (m.pos .. m.pos + k - 1)
  BY DEF State, Positions, Longer
<1>3. Longer(m, k) \in State
  <2> DEFINE c == m.cells \cup Positions(m.pos, k)
  <2>1. c \in SUBSET Nat
    BY <1>1 DEF Positions
  <2>2. m.pos + k \in Nat
    BY DEF State
  <2> QED BY <2>1, <2>2, ExceptState DEF Longer
<1> QED BY <1>2, <1>3

LEMMA DecodeSound ==
  ASSUME NEW m \in State, Sound(m), NEW k \in Nat, k = 0 \/ Able(m.cells, m.pos, k)
  PROVE  Sound(Longer(m, k))
<1> DEFINE d == Longer(m, k)
<1>1. /\ d.pos = m.pos + k
      /\ d.cells = m.cells \cup (m.pos .. m.pos + k - 1)
  BY LongerState
<1> HIDE DEF d
<1>2. SUFFICES ASSUME Env = {}, d.pos > 0
               PROVE  d.pos <= NCtx /\ d.cells = 0 .. d.pos - 1
  BY <1>1, SizeAssumption DEF Sound, State, d
<1>3. CASE k = 0
  <2>1. m.pos .. m.pos + k - 1 = {}
    BY <1>3 DEF State
  <2> QED BY <1>1, <1>2, <1>3, <2>1 DEF Sound, State
<1>4. CASE k > 0 /\ m.pos > 0
  <2>2. m.cells = 0 .. m.pos - 1 /\ m.pos \in Nat
    BY <1>2, <1>4 DEF Sound, State
  <2>3. m.pos + k <= NCtx
    BY <1>4 DEF Able
  <2>4. (0 .. m.pos - 1) \cup (m.pos .. m.pos + k - 1) = 0 .. m.pos + k - 1
    BY <1>4, <2>2
  <2> QED BY <1>1, <2>2, <2>3, <2>4
<1>5. CASE k > 0 /\ m.pos = 0
  <2>1. m.cells = {} /\ m.pos + k <= NCtx
    BY <1>5 DEF Able, State
  <2> QED BY <1>1, <1>5, <2>1
<1> QED BY <1>3, <1>4, <1>5 DEF State

(* All chunks but the last are fewer tokens than the prompt has.           *)
LEMMA DivBound ==
  ASSUME NEW p \in Nat, NEW b \in Nat \ {0}, NEW q \in Int, q = p \div b
  PROVE  b * q \in Nat /\ b * q <= p
<1>1. q \in Nat /\ p % b \in Nat
  BY SMT
<1>2. p = b * q + (p % b)
  BY SMT
<1>3. b * q \in Nat
  BY <1>1, SMT
<1> QED BY <1>1, <1>2, <1>3, SMT

LEMMA DecodedBound ==
  ASSUME NEW m \in State, m.prompt > 0
  PROVE  Decoded(m) \in Nat /\ Decoded(m) <= m.prompt - 1
<1>1. m.prompt - 1 \in Nat /\ NBatch \in Nat \ {0}
  BY SizeAssumption DEF State
<1>2. (m.prompt - 1) \div NBatch \in Int
  BY <1>1
<1> QED BY <1>1, <1>2, DivBound DEF Decoded

-----------------------------------------------------------------------------
(* One lemma per action.  Defs are the parts of the invariant.             *)

(* The memory is untouched, or one slot is set to a sound record.          *)
LEMMA Kept ==
  ASSUME IInv, UNCHANGED <<memory, saved>>
  PROVE  CellsOK'
  BY SameSound DEF IInv, CellsOK, Sound

LEMMA KeptBut ==
  ASSUME IInv, NEW s \in Slot, NEW m \in State, SetTo(s, m), Sound(m), UNCHANGED saved
  PROVE  CellsOK'
  BY SetSound DEF IInv, CellsOK, Sound

LEMMA InitIInv == Init => IInv
<1> SUFFICES ASSUME Init PROVE IInv
  OBVIOUS
<1> USE SizeAssumption DEF Init
<1>1. TypeOK
  BY DEF TypeOK, Status, State, Empty
<1>2. CellsOK
  BY EmptySound DEF CellsOK, Sound, Of
<1>3. PlaceOK /\ BatchOK
  BY DEF PlaceOK, CurrentLives, BatchOK, PrimedAtEnd, FitsContext
<1> QED BY <1>1, <1>2, <1>3 DEF IInv

LEMMA CreateSlotI == ASSUME IInv, NEW s \in Slot, CreateSlot(s) PROVE IInv'
<1> USE DEF CreateSlot
<1>1. CellsOK' /\ TypeOK'
  <2>1. CellsOK'
    BY EmptySound, KeptBut
  <2>2. /\ nPos' \in [Slot -> Nat] /\ nPrompt' \in [Slot -> Nat]
        /\ cells' \in [Slot -> SUBSET Nat]
    BY EmptySound, SetType DEF IInv
  <2>3. TypeOK'
    BY <2>2 DEF IInv, TypeOK, batch, made
  <2> QED BY <2>1, <2>3
<1>2. current # s
  BY SizeAssumption DEF IInv, PlaceOK, CurrentLives
<1>3. nPos'[current] = nPos[current]
  BY <1>2 DEF SetTo, IInv, TypeOK
<1>4. PlaceOK' /\ BatchOK'
  BY <1>3 DEF IInv, PlaceOK, CurrentLives, BatchOK, PrimedAtEnd, FitsContext, batch
<1> QED BY <1>1, <1>4 DEF IInv

LEMMA SetSlotI == ASSUME IInv, NEW s \in Slot, SetSlot(s) PROVE IInv'
<1> USE DEF SetSlot
<1>1. CellsOK'
  BY Kept
<1>2. TypeOK'
  BY DEF IInv, TypeOK, memory, made
<1>3. PlaceOK' /\ BatchOK'
  BY DEF IInv, PlaceOK, CurrentLives, BatchOK, PrimedAtEnd, FitsContext, MayLeave
<1> QED BY <1>1, <1>2, <1>3 DEF IInv

LEMMA OthersLive ==
  ASSUME NEW s \in slots, NEW r \in Others(s), slots \subseteq Slot
  PROVE  r \in (slots \ {s}) \cup {NoSlot}
  BY DEF Others, MayLeave

LEMMA FreeSlotI == ASSUME IInv, NEW s \in Slot, FreeSlot(s) PROVE IInv'
<1> USE DEF FreeSlot
<1>1. CellsOK'
  BY Kept
<1>2. current' \in slots' \cup {NoSlot} \/ current' = current
  BY OthersLive DEF IInv, TypeOK
<1>3. TypeOK'
  <2>1. /\ n' \in Nat /\ due' \in Nat /\ meddled' \in BOOLEAN
        /\ slots' \subseteq Slot /\ current' \in Slot \cup {NoSlot}
    <3>1. /\ n \in Nat /\ due \in Nat /\ meddled \in BOOLEAN
          /\ slots \subseteq Slot /\ current \in Slot \cup {NoSlot}
      BY DEF IInv, TypeOK
    <3>2. slots' = slots \ {s}
      OBVIOUS
    <3>3. n' = n \/ n' = 0
      OBVIOUS
    <3>4. due' = due \/ due' = 0
      OBVIOUS
    <3>5. (meddled' = meddled) \/ (meddled' = FALSE) \/ (meddled' = TRUE)
      BY Zenon
    <3>6. meddled' \in BOOLEAN
      BY <3>1, <3>5
    <3> HIDE DEF FreeSlot
    <3>7. n' \in Nat /\ due' \in Nat /\ slots' \subseteq Slot
      BY <3>1, <3>2, <3>3, <3>4
    <3>8. current' \in Slot \cup {NoSlot}
      BY <1>2, <3>1, <3>7
    <3> QED BY <3>6, <3>7, <3>8
  <2> QED BY <2>1 DEF IInv, TypeOK, memory, made
<1>4. CASE s # current
  <2>1. UNCHANGED <<current, n, pos, meddled, status, nPos>>
    BY <1>4 DEF memory
  <2>2. slots' = slots \ {s}
    OBVIOUS
  <2>3. PlaceOK'
    BY <1>4, <2>1, <2>2 DEF IInv, PlaceOK, CurrentLives
  <2>4. BatchOK'
    BY <2>1 DEF IInv, BatchOK, PrimedAtEnd, FitsContext
  <2> QED BY <1>1, <1>3, <2>3, <2>4 DEF IInv
<1>5. CASE s = current
  <2>1. current' \in slots' \cup {NoSlot}
    BY <1>5, OthersLive DEF IInv, TypeOK
  <2>2. PlaceOK'
    BY <1>5, <2>1, <1>3, SizeAssumption DEF IInv, PlaceOK, CurrentLives, TypeOK
  <2>3. BatchOK'
    BY <1>5 DEF IInv, BatchOK, PrimedAtEnd, FitsContext, MayLeave, batch, memory
  <2> QED BY <1>1, <1>3, <2>2, <2>3 DEF IInv
<1> QED BY <1>1, <1>3, <1>4, <1>5 DEF IInv

LEMMA StartTextI == ASSUME IInv, StartText PROVE IInv'
<1> USE DEF StartText
<1>1. CellsOK'
  BY Kept
<1>2. TypeOK'
  BY DEF IInv, TypeOK, memory, batch, made
<1>3. PlaceOK' /\ BatchOK'
  BY DEF IInv, PlaceOK, CurrentLives, BatchOK, PrimedAtEnd, FitsContext, batch, memory
<1> QED BY <1>1, <1>2, <1>3 DEF IInv

(* The actions that change no more than the status and the stream.         *)
LEMMA StatusI ==
  ASSUME IInv, NoContext \/ Cancel \/ GetEmbeddings \/ Dispose
  PROVE  IInv'
<1> USE DEF NoContext, Cancel, GetEmbeddings, Dispose, Ready
<1>1. UNCHANGED <<current, memory, batch, past, saved, made, due, meddled>>
  OBVIOUS
<1>2. /\ status' \in Status
      /\ status' = "generating" => status = "generating"
      /\ slots' = slots \/ (slots' = {} /\ status' = "disposed")
      /\ stream' \in {"none", stream}
      /\ status' # "disposed" => status # "disposed"
  <2>1. status \in Status
    BY DEF IInv, TypeOK
  <2>2. CASE NoContext
    BY <2>2 DEF Status
  <2>3. CASE Cancel
    BY <2>1, <2>3 DEF Status
  <2>4. CASE GetEmbeddings
    BY <2>1, <2>4 DEF Status, Live
  <2>5. CASE Dispose
    BY <2>5 DEF Status
  <2> HIDE DEF NoContext, Cancel, GetEmbeddings, Dispose
  <2> QED BY <2>2, <2>3, <2>4, <2>5
<1>3. CellsOK'
  BY <1>1, Kept
<1>4. TypeOK'
  <2>1. slots' \subseteq Slot /\ stream' \in {"none", "text", "media"}
    BY <1>2 DEF IInv, TypeOK
  <2> HIDE DEF NoContext, Cancel, GetEmbeddings, Dispose
  <2> QED BY <1>1, <1>2, <2>1 DEF IInv, TypeOK, memory, batch, made
<1>5. PlaceOK' /\ BatchOK'
  BY <1>1, <1>2 DEF IInv, PlaceOK, CurrentLives, BatchOK, PrimedAtEnd, FitsContext, batch, memory
<1> QED BY <1>3, <1>4, <1>5 DEF IInv

LEMMA SaveStateI == ASSUME IInv, SaveState PROVE IInv'
<1> USE DEF SaveState
<1>1. current \in Slot
  BY DEF IInv, TypeOK, Live
<1>2. CellsOK'
  BY <1>1, SameSound DEF IInv, CellsOK, Sound, Here
<1>3. Here \in State
  BY <1>1, OfState DEF IInv, Here
<1>4. TypeOK'
  BY <1>3 DEF IInv, TypeOK, memory, batch, made
<1>5. PlaceOK' /\ BatchOK'
  BY DEF IInv, PlaceOK, CurrentLives, BatchOK, PrimedAtEnd, FitsContext, batch, memory
<1> QED BY <1>2, <1>4, <1>5 DEF IInv

(* The actions that set the current slot to a record m.                    *)
LEMMA HereState ==
  ASSUME IInv, Live
  PROVE  current \in Slot /\ Here \in State /\ Sound(Here)
<1>1. current \in Slot
  BY DEF IInv, TypeOK, Live
<1> QED BY <1>1, OfState DEF IInv, CellsOK, Here

LEMMA PlaceStays ==
  ASSUME IInv, Live, UNCHANGED <<slots, current>>
  PROVE  PlaceOK'
  BY DEF IInv, TypeOK, Live, PlaceOK, CurrentLives

LEMMA TypeStays ==
  ASSUME IInv, Live, NEW m \in State, SetTo(current, m),
         UNCHANGED <<slots, current, made>>, saved' \in State,
         n' \in Nat, pos' \in Nat, past' \in Nat, due' \in Nat,
         status' \in Status, stream' \in {"none", "text", "media"}, meddled' \in BOOLEAN
  PROVE  TypeOK'
<1>1. /\ nPos' \in [Slot -> Nat] /\ nPrompt' \in [Slot -> Nat]
      /\ cells' \in [Slot -> SUBSET Nat]
  BY HereState, SetType DEF IInv
<1> QED BY <1>1 DEF IInv, TypeOK, made

LEMMA BatchStays ==
  ASSUME IInv, Live, NEW m \in State, SetTo(current, m), current' = current,
         n' > 0 /\ ~meddled' => pos' = m.pos,
         status' = "generating" /\ ~meddled' => m.pos + n' <= NCtx,
         status' = "generating" /\ n' > 1 => pos' + n' < NCtx
  PROVE  BatchOK'
<1>1. nPos'[current'] = m.pos
  BY HereState, SetType DEF IInv
<1> QED BY <1>1 DEF BatchOK, PrimedAtEnd, FitsContext

LEMMA ClearI == ASSUME IInv, Clear PROVE IInv'
<1> USE DEF Clear
<1>1. CellsOK'
  BY HereState, EmptySound, KeptBut
<1>2. TypeOK'
  BY EmptySound, TypeStays DEF IInv, TypeOK, Status
<1>3. BatchOK'
  BY EmptySound, BatchStays
<1> QED BY <1>1, <1>2, <1>3, PlaceStays DEF IInv

LEMMA LoadStateI == ASSUME IInv, LoadState PROVE IInv'
<1> DEFINE r == [Here EXCEPT !.cells = {}]
<1>1. /\ Live /\ UNCHANGED <<slots, current, batch, status, stream, past, saved, made, due>>
      /\ \/ SetTo(current, saved) /\ meddled' = TRUE
         \/ SetTo(current, r) /\ UNCHANGED meddled /\ May("load", Here)
  BY DEF LoadState
<1>2. saved \in State /\ Sound(saved)
  BY DEF IInv, TypeOK, CellsOK
<1>3. r \in State /\ r.pos = nPos[current] /\ Here.pos = nPos[current]
  BY <1>1, HereState DEF State, Here, Of
<1> HIDE DEF r
<1>4. May("load", Here) => Sound(r)
  <2>1. r.pos \in Nat
    BY <1>3 DEF State
  <2> QED BY <1>3, <2>1, SizeAssumption DEF Sound, May
<1>5. TypeOK'
  BY <1>1, <1>2, <1>3, TypeStays DEF IInv, TypeOK, batch
<1>6. CASE SetTo(current, saved) /\ meddled' = TRUE
  <2>1. CellsOK'
    BY <1>1, <1>2, <1>6, HereState, KeptBut
  <2>2. BatchOK'
    BY <1>1, <1>2, <1>6, BatchStays DEF IInv, BatchOK, batch
  <2> QED BY <1>1, <1>5, <2>1, <2>2, PlaceStays DEF IInv
<1>7. CASE SetTo(current, r) /\ UNCHANGED meddled /\ May("load", Here)
  <2>1. CellsOK'
    BY <1>1, <1>3, <1>4, <1>7, HereState, KeptBut
  <2>2. BatchOK'
    BY <1>1, <1>3, <1>7, BatchStays DEF IInv, BatchOK, PrimedAtEnd, FitsContext, batch
  <2> QED BY <1>1, <1>5, <2>1, <2>2, PlaceStays DEF IInv
<1> QED BY <1>1, <1>6, <1>7

LEMMA StartMediaI == ASSUME IInv, NEW k \in PromptLens, StartMedia(k) PROVE IInv'
<1> DEFINE whole == [Empty EXCEPT !.pos = k, !.cells = Positions(0, k)]
           part(j) == [Empty EXCEPT !.cells = Positions(0, j)]
<1>1. k \in Nat \ {0} /\ NBatch \in Nat \ {0} /\ NCtx \in Nat
  BY SizeAssumption
<1>2. /\ Live /\ UNCHANGED <<slots, current, saved, made>>
      /\ due' = 0 /\ meddled' = TRUE
  BY DEF StartMedia
<1>3. ASSUME k <= NCtx, SetTo(current, whole), status' = "ready", past' = k,
             NEW l \in 1 .. Least(NBatch, k), n' = l, pos' = k - l,
             stream' \in {"none", "media"}
      PROVE  IInv'
  <2>1. whole \in State /\ Sound(whole)
    <3>1. Positions(0, k) \in SUBSET Nat /\ Positions(0, k) = 0 .. k - 1
      BY <1>1 DEF Positions
    <3>2. whole \in State
      BY <1>1, <3>1, EmptySound, ExceptState
    <3>3. whole.pos = k /\ whole.cells = 0 .. k - 1
      BY <3>1 DEF Empty
    <3> QED BY <1>3, <3>2, <3>3 DEF Sound
  <2> HIDE DEF whole
  <2>2. n' \in Nat /\ pos' \in Nat
    BY <1>1, <1>3 DEF Least
  <2>3. TypeOK'
    BY <1>1, <1>2, <1>3, <2>1, <2>2, TypeStays DEF IInv, TypeOK, Status
  <2>4. CellsOK'
    BY <1>2, <1>3, <2>1, HereState, KeptBut
  <2>5. BatchOK'
    BY <1>2, <1>3, <2>1, BatchStays
  <2> QED BY <1>2, <2>3, <2>4, <2>5, PlaceStays DEF IInv
<1>4. ASSUME NEW j \in 0 .. Least(NCtx, k - 1), SetTo(current, part(j)),
             NEW l \in 0 .. Least(NBatch, k - j), n' = l, pos' = j,
             status' = "error", UNCHANGED <<stream, past>>
      PROVE  IInv'
  <2> DEFINE m == part(j)
  <2>1. m \in State /\ Sound(m)
    <3>1. Positions(0, j) \in SUBSET Nat
      BY <1>4 DEF Positions
    <3>2. m \in State
      BY <3>1, EmptySound, Zenon DEF State
    <3>3. m.pos = 0
      BY DEF Empty
    <3> QED BY <1>1, <3>2, <3>3 DEF Sound
  <2> HIDE DEF m
  <2>2. n' \in Nat /\ pos' \in Nat
    BY <1>1, <1>4 DEF Least
  <2>3. SetTo(current, m)
    BY <1>4 DEF m
  <2>4. TypeOK'
    BY <1>1, <1>2, <1>4, <2>1, <2>2, <2>3, TypeStays DEF IInv, TypeOK, Status
  <2>5. CellsOK'
    BY <1>2, <2>1, <2>3, HereState, KeptBut
  <2>6. BatchOK'
    BY <1>2, <1>4, <2>1, <2>3, BatchStays
  <2> QED BY <1>2, <2>4, <2>5, <2>6, PlaceStays DEF IInv
<1> QED BY <1>3, <1>4 DEF StartMedia

LEMMA MediaTurnI == ASSUME IInv, MediaTurn PROVE IInv'
<1>1. /\ Live /\ UNCHANGED <<slots, current, saved, made>> /\ stream = "media"
      /\ n' = 1 /\ pos' = past /\ due' = 0 /\ meddled' = TRUE
      /\ "mixed" \in Env \/ past = nPos[current]
  BY DEF MediaTurn
<1>2. Ready \in Status /\ past \in Nat /\ status \in Status
  BY DEF IInv, TypeOK, Ready, Status
<1> DEFINE r == [Here EXCEPT !.pos = past + 1, !.cells = @ \cup {past}]
<1>3. ASSUME Able(cells[current], past, 1), SetTo(current, r), past' = past + 1,
             stream' \in {"none", "media"}, status' \in {Ready, status}
      PROVE  IInv'
  <2>1. Here \in State /\ Sound(Here)
    BY <1>1, HereState
  <2>2. /\ r.pos = past + 1 /\ r.cells = Here.cells \cup {past}
        /\ r.prompt = Here.prompt
    BY <2>1 DEF State
  <2>3. r \in State
    <3>1. Here.cells \cup {past} \in SUBSET Nat /\ past + 1 \in Nat
      BY <1>2, <2>1 DEF State
    <3> QED BY <2>1, <3>1, Zenon DEF State
  <2>4. Sound(r)
    <3>1. CASE past = nPos[current]
      <4>1. Here.pos = past /\ Here.cells = cells[current]
        BY <3>1 DEF Here, Of
      <4>2. Sound(Longer(Here, 1))
        BY <1>3, <2>1, <4>1, DecodeSound
      <4>3. /\ Longer(Here, 1).pos = past + 1
            /\ Longer(Here, 1).cells = Here.cells \cup (past .. past + 1 - 1)
        BY <2>1, <4>1, LongerState
      <4>4. past .. past + 1 - 1 = {past}
        BY <1>2
      <4> HIDE DEF r
      <4>5. r.pos = Longer(Here, 1).pos /\ r.cells = Longer(Here, 1).cells
        BY <2>2, <4>3, <4>4
      <4> QED BY <4>2, <4>5 DEF Sound
    <3>2. CASE past # nPos[current]
      BY <1>1, <3>2 DEF Sound
    <3> QED BY <3>1, <3>2
  <2> HIDE DEF r
  <2>5. TypeOK'
    BY <1>1, <1>2, <1>3, <2>3, TypeStays DEF IInv, TypeOK
  <2>6. CellsOK'
    BY <1>1, <1>3, <2>3, <2>4, HereState, KeptBut
  <2>7. BatchOK'
    BY <1>1, <1>3, <2>3, BatchStays
  <2> QED BY <1>1, <2>5, <2>6, <2>7, PlaceStays DEF IInv
<1>4. ASSUME UNCHANGED <<memory, past>>, stream' = "none", status' = "error"
      PROVE  IInv'
  <2>1. CellsOK'
    BY <1>1, <1>4, Kept
  <2>2. TypeOK'
    BY <1>1, <1>2, <1>4 DEF IInv, TypeOK, memory, made, Status
  <2>3. BatchOK'
    BY <1>1, <1>4 DEF BatchOK, PrimedAtEnd, FitsContext
  <2> QED BY <1>1, <2>1, <2>2, <2>3, PlaceStays DEF IInv
<1> QED BY <1>1, <1>3, <1>4 DEF MediaTurn

(* setPrompt.  m0 is the slot with the new prompt, m what the trim leaves, *)
(* d the tokens that are decoded at once.                                  *)
LEMMA SetPromptI == ASSUME IInv, NEW k \in PromptLens, SetPrompt(k) PROVE IInv'
<1> DEFINE m0 == [Clean(Here) EXCEPT !.prompt = k]
           m  == Trim(m0, Cut(m0, k))
           d  == IF m.prompt > NBatch THEN Decoded(m) ELSE 0
           r  == [m EXCEPT !.cells = {}]
<1>1. k \in Nat \ {0} /\ NBatch \in Nat \ {0} /\ NCtx \in Nat
  BY SizeAssumption
<1>2. /\ Live /\ UNCHANGED <<slots, current, stream, past, saved, made>>
      /\ meddled' = (meddled /\ status' = "error" /\ n' > 0)
  BY DEF SetPrompt
<1>3. /\ m0 \in State /\ Sound(m0)
      /\ m0.pos = nPos[current] /\ m0.prompt = k
  <2> DEFINE c == Clean(Here)
  <2>1. Here \in State /\ Sound(Here) /\ Here.pos = nPos[current]
    BY <1>2, HereState DEF Here, Of
  <2>2. c \in State
    <3>1. [Here EXCEPT !.cells = {}] \in State
      BY <2>1, Zenon DEF State
    <3> QED BY <2>1, <3>1 DEF Clean
  <2>3. c.pos = nPos[current] /\ Sound(c)
    BY <2>1, SizeAssumption DEF Clean, Sound, State
  <2> HIDE DEF c
  <2>4. [c EXCEPT !.prompt = k] \in State
    BY <1>1, <2>2, Zenon DEF State
  <2>5. [c EXCEPT !.prompt = k].pos = c.pos /\ [c EXCEPT !.prompt = k].prompt = k
        /\ [c EXCEPT !.prompt = k].cells = c.cells
    BY <2>2 DEF State
  <2>6. Sound([c EXCEPT !.prompt = k])
    BY <2>3, <2>5 DEF Sound
  <2> QED BY <2>3, <2>4, <2>5, <2>6 DEF c
<1>4. SetPrompt(k) =>
      \/ /\ SetTo(current, m0) /\ status' = "error" /\ due' = 0
         /\ n' = IF nPos[current] = 0 THEN 0 ELSE n
         /\ UNCHANGED pos
      \/ /\ SetTo(current, m) /\ status' = "error" /\ due' = 0
         /\ n' = IF nPos[current] = 0 \/ Cut(m0, k) > 0 THEN 0 ELSE n
         /\ UNCHANGED pos
      \/ /\ Fits(m)
         /\ d = 0 \/ Able(m.cells, m.pos, d)
         /\ SetTo(current, Longer(m, d))
         /\ n' = m.prompt - d /\ pos' = m.pos + d
         /\ status' = "generating" /\ due' = k - d
      \/ /\ SetTo(current, r) /\ status' = "error" /\ due' = 0
         /\ n' = 0 /\ UNCHANGED pos /\ May("chunk", m)
  BY DEF SetPrompt, Longer
<1> HIDE DEF m0
<1>5. /\ m \in State /\ Sound(m) /\ m.prompt \in Nat /\ m.prompt <= k /\ m.pos \in Nat
      /\ Cut(m0, k) = 0 => m = m0
  <2>1. Cut(m0, k) \in 0 .. m0.pos
    BY <1>1, <1>3, CutBound
  <2>2. m \in State /\ m.prompt <= k /\ (Cut(m0, k) = 0 => m = m0)
    BY <1>3, <2>1, TrimState
  <2>3. Sound(m)
    BY <1>3, <2>1, TrimSound
  <2> QED BY <2>2, <2>3 DEF State
<1> HIDE DEF m
<1>6. d \in Nat /\ d <= m.prompt
  BY <1>1, <1>5, DecodedBound
<1>7. /\ n \in Nat /\ pos \in Nat /\ saved \in State /\ past \in Nat
      /\ stream \in {"none", "text", "media"} /\ meddled \in BOOLEAN
      /\ n > 0 /\ ~meddled => pos = nPos[current]
  BY DEF IInv, TypeOK, BatchOK, PrimedAtEnd
<1>8. meddled' \in BOOLEAN
  BY <1>2, <1>7, Zenon
<1> HIDE DEF d
<1>9. CASE /\ SetTo(current, m0) /\ status' = "error" /\ due' = 0
           /\ n' = IF nPos[current] = 0 THEN 0 ELSE n
           /\ UNCHANGED pos
  <2>1. n' \in Nat /\ (n' > 0 => n' = n)
    BY <1>7, <1>9
  <2>2. n' > 0 /\ ~meddled' => ~meddled
    BY <1>2, <1>9, Zenon
  <2>3. TypeOK'
    BY <1>2, <1>3, <1>7, <1>8, <1>9, <2>1, TypeStays DEF Status
  <2>4. CellsOK'
    BY <1>2, <1>3, <1>9, HereState, KeptBut
  <2>5. BatchOK'
    BY <1>2, <1>3, <1>7, <1>9, <2>1, <2>2, BatchStays
  <2> QED BY <1>2, <2>3, <2>4, <2>5, PlaceStays DEF IInv
<1>10. CASE /\ SetTo(current, m) /\ status' = "error" /\ due' = 0
            /\ n' = IF nPos[current] = 0 \/ Cut(m0, k) > 0 THEN 0 ELSE n
            /\ UNCHANGED pos
  <2>1. n' \in Nat /\ (n' > 0 => n' = n /\ Cut(m0, k) = 0)
    <3>1. Cut(m0, k) \in 0 .. m0.pos /\ m0.pos \in Nat
      BY <1>1, <1>3, CutBound DEF State
    <3> QED BY <1>7, <1>10, <3>1
  <2>2. n' > 0 /\ ~meddled' => ~meddled
    BY <1>2, <1>10, Zenon
  <2>3. TypeOK'
    BY <1>2, <1>5, <1>7, <1>8, <1>10, <2>1, TypeStays DEF Status
  <2>4. CellsOK'
    BY <1>2, <1>5, <1>10, HereState, KeptBut
  <2>5. BatchOK'
    BY <1>2, <1>3, <1>5, <1>7, <1>10, <2>1, <2>2, BatchStays
  <2> QED BY <1>2, <2>3, <2>4, <2>5, PlaceStays DEF IInv
<1>11. CASE /\ Fits(m)
            /\ d = 0 \/ Able(m.cells, m.pos, d)
            /\ SetTo(current, Longer(m, d))
            /\ n' = m.prompt - d /\ pos' = m.pos + d
            /\ status' = "generating" /\ due' = k - d
  <2>1. /\ Longer(m, d) \in State /\ Longer(m, d).pos = m.pos + d
    BY <1>5, <1>6, LongerState
  <2>2. Sound(Longer(m, d))
    BY <1>5, <1>6, <1>11, DecodeSound
  <2>3. n' \in Nat /\ pos' \in Nat /\ due' \in Nat /\ pos' + n' < NCtx
    BY <1>1, <1>5, <1>6, <1>11 DEF Fits
  <2>4. TypeOK'
    BY <1>2, <1>7, <1>8, <1>11, <2>1, <2>3, TypeStays DEF Status
  <2>5. CellsOK'
    BY <1>2, <1>11, <2>1, <2>2, HereState, KeptBut
  <2>6. BatchOK'
    BY <1>1, <1>2, <1>11, <2>1, <2>3, BatchStays
  <2> QED BY <1>2, <2>4, <2>5, <2>6, PlaceStays DEF IInv
<1>12. CASE /\ SetTo(current, r) /\ status' = "error" /\ due' = 0
            /\ n' = 0 /\ UNCHANGED pos /\ May("chunk", m)
  <2>1. r \in State
    BY <1>5, Zenon DEF State
  <2>2. r.pos = m.pos
    BY <1>5 DEF State
  <2> HIDE DEF r
  <2>3. Sound(r)
    BY <1>1, <1>5, <1>12, <2>2 DEF Sound, May
  <2>4. TypeOK'
    BY <1>2, <1>7, <1>8, <1>12, <2>1, TypeStays DEF Status
  <2>5. CellsOK'
    BY <1>2, <1>12, <2>1, <2>3, HereState, KeptBut
  <2>6. BatchOK'
    BY <1>2, <1>12, <2>1, BatchStays
  <2> QED BY <1>2, <2>4, <2>5, <2>6, PlaceStays DEF IInv
<1> QED BY <1>4, <1>9, <1>10, <1>11, <1>12

(* getNextWithStatus.  m is what the trim leaves and p where the batch is; *)
(* unless the batch was made for something else, p is the end of m.        *)
LEMMA GetNextI == ASSUME IInv, GetNext PROVE IInv'
<1> DEFINE t == Cut(Here, n)
           m == Trim(Here, t)
           p == Moved(t)
           r == [m EXCEPT !.pos = @ + n, !.cells = @ \cup Positions(p, n)]
           f(cs) == [m EXCEPT !.cells = cs]
<1>1. /\ Live /\ UNCHANGED <<slots, current, past, saved, made>> /\ stream = "text"
      /\ "mixed" \in Env \/ n = 0 \/ ~meddled
      /\ \/ /\ SetTo(current, m) /\ pos' = p /\ UNCHANGED <<n, due, meddled>>
            /\ stream' = "none" /\ status' \in {"ready", Ready}
         \/ /\ ~AtLimit(m) /\ Able(m.cells, p, n) /\ SetTo(current, r)
            /\ pos' = m.pos + n /\ n' = 1 /\ due' = 0 /\ meddled' = (p # m.pos)
            /\ \/ stream' = "none" /\ status' = Ready
               \/ UNCHANGED <<stream, status>>
         \/ /\ \E cs \in Partial(m, p, n) : SetTo(current, f(cs))
            /\ pos' = p /\ UNCHANGED <<n, due, meddled>>
            /\ stream' = "none" /\ status' \in {"ready", "error"}
  BY DEF GetNext
<1>2. /\ n \in Nat /\ pos \in Nat /\ saved \in State /\ past \in Nat /\ due \in Nat
      /\ stream \in {"none", "text", "media"} /\ meddled \in BOOLEAN
      /\ n > 0 /\ ~meddled => pos = nPos[current]
      /\ status = "generating" /\ n > 1 => pos + n < NCtx
      /\ status \in Status
  BY DEF IInv, TypeOK, BatchOK, PrimedAtEnd
<1>3. Ready \in {"ready", "error"} /\ NCtx \in Nat
  BY SizeAssumption DEF Ready
<1>4. Here \in State /\ Sound(Here) /\ Here.pos = nPos[current]
  BY <1>1, HereState DEF Here, Of
<1>5. t \in 0 .. Here.pos
  BY <1>2, <1>4, CutBound
<1>6. /\ m \in State /\ Sound(m) /\ m.pos \in Nat
      /\ m.pos = IF t > 0 /\ backend = "noshift" THEN 0 ELSE Here.pos - t
  <2> HIDE DEF t
  <2>1. m \in State /\ m.pos = IF t > 0 /\ backend = "noshift" THEN 0 ELSE Here.pos - t
    BY <1>4, <1>5, TrimState
  <2>2. Sound(m)
    BY <1>4, <1>5, TrimSound
  <2> QED BY <2>1, <2>2 DEF State
<1>7. /\ p \in Nat /\ p <= pos
      /\ n > 0 /\ ~meddled => p = m.pos
  <2> HIDE DEF t, m
  <2>1. Here.pos \in Nat /\ t \in Nat
    BY <1>4, <1>5 DEF State
  <2> QED BY <1>2, <1>4, <1>5, <1>6, <2>1 DEF Moved, Most
<1> HIDE DEF t, m, p, f
<1>8. ASSUME SetTo(current, m), pos' = p, UNCHANGED <<n, due, meddled>>,
             stream' = "none", status' \in {"ready", Ready}
      PROVE  IInv'
  <2>1. TypeOK'
    BY <1>1, <1>2, <1>3, <1>6, <1>7, <1>8, TypeStays DEF Status
  <2>2. CellsOK'
    BY <1>1, <1>6, <1>8, HereState, KeptBut
  <2>3. BatchOK'
    BY <1>1, <1>3, <1>6, <1>7, <1>8, BatchStays
  <2> QED BY <1>1, <2>1, <2>2, <2>3, PlaceStays DEF IInv
<1>9. ASSUME ~AtLimit(m), Able(m.cells, p, n), SetTo(current, r),
             pos' = m.pos + n, n' = 1, due' = 0, meddled' = (p # m.pos),
             status' \in {Ready, status}, stream' \in {"none", stream}
      PROVE  IInv'
  <2>1. n > 0
    BY <1>9 DEF Able
  <2>2. /\ r.pos = m.pos + n /\ r.cells = m.cells \cup Positions(p, n)
    BY <1>6 DEF State
  <2>3. r \in State
    <3>1. m.cells \cup Positions(p, n) \in SUBSET Nat /\ m.pos + n \in Nat
      BY <1>2, <1>6, <1>7 DEF State, Positions
    <3> QED BY <1>6, <3>1, Zenon DEF State
  <2>a. pos' = r.pos /\ n' = 1
    BY <1>9, <2>2
  <2> HIDE DEF r
  <2>4. meddled' \in BOOLEAN /\ (~meddled' => p = m.pos)
    BY <1>9, Zenon
  <2>5. Sound(r)
    <3>1. CASE p = m.pos
      <4>1. Sound(Longer(m, n))
        BY <1>2, <1>6, <1>9, <3>1, DecodeSound
      <4>2. /\ Longer(m, n).pos = m.pos + n 
            /\ Longer(m, n).cells = m.cells \cup Positions(p, n)
        BY <1>2, <1>6, <3>1, LongerState DEF Positions
      <4> QED BY <2>2, <4>1, <4>2 DEF Sound
    <3>2. CASE p # m.pos
      BY <1>1, <1>7, <2>1, <3>2 DEF Sound
    <3> QED BY <3>1, <3>2
  <2>6. TypeOK'
    <3>a. n' \in Nat /\ due' \in Nat /\ meddled' \in BOOLEAN
      BY <1>9, <2>4
    <3>b. pos' \in Nat
      BY <1>2, <1>6, <1>9
    <3>1. /\ n' \in Nat /\ due' \in Nat /\ meddled' \in BOOLEAN
          /\ pos' \in Nat /\ stream' \in {"none", "text", "media"}
      BY <1>2, <1>9, <3>a, <3>b
    <3>2. status' \in Status
      BY <1>2, <1>3, <1>9 DEF Status
    <3>3. saved' \in State /\ past' \in Nat
      BY <1>1, <1>2
    <3> QED BY <1>1, <1>9, <2>3, <3>1, <3>2, <3>3, TypeStays
  <2>7. CellsOK'
    BY <1>1, <1>9, <2>3, <2>5, HereState, KeptBut
  <2>8. status' = "generating" /\ ~meddled' => r.pos + n' <= NCtx
    <3>1. SUFFICES ASSUME status = "generating", p = m.pos PROVE m.pos + n + 1 <= NCtx
      BY <1>3, <1>6, <1>9, <2>2, <2>4
    <3>2. m.pos + 2 < NCtx
      BY <1>3, <1>6, <1>9 DEF AtLimit
    <3>3. n > 1 => m.pos + n < NCtx
      BY <1>2, <1>3, <1>6, <1>7, <3>1
    <3> QED BY <1>2, <1>3, <1>6, <2>1, <3>2, <3>3
  <2>9. BatchOK'
    <3>1. pos' = r.pos /\ ~(n' > 1) /\ current' = current
      BY <1>1, <2>a
    <3> QED BY <1>1, <1>9, <2>3, <2>8, <3>1, BatchStays
  <2> QED BY <1>1, <2>6, <2>7, <2>9, PlaceStays DEF IInv
<1>10. ASSUME NEW cs \in Partial(m, p, n), SetTo(current, f(cs)),
              pos' = p, UNCHANGED <<n, due, meddled>>,
              stream' = "none", status' \in {"ready", "error"}
       PROVE  IInv'
  <2> DEFINE g == f(cs)
  <2>1. g.pos = m.pos /\ g.cells = cs
    BY <1>6 DEF State, f
  <2>2. g \in State
    <3>1. cs \in SUBSET Nat
      BY <1>2, <1>6, <1>7 DEF State, Partial, Positions
    <3> QED BY <1>6, <3>1, Zenon DEF State, f
  <2> HIDE DEF g
  <2>3. Env = {} => m.pos = 0 \/ cs = m.cells
    BY <1>6, <1>10 DEF Partial, May
  <2>4. Sound(g)
    BY <1>6, <2>1, <2>3 DEF Sound
  <2>5. SetTo(current, g)
    BY <1>10 DEF g
  <2>6. TypeOK'
    BY <1>1, <1>2, <1>7, <1>10, <2>2, <2>5, TypeStays DEF Status
  <2>7. CellsOK'
    BY <1>1, <2>2, <2>4, <2>5, HereState, KeptBut
  <2>8. BatchOK'
    BY <1>1, <1>7, <1>10, <2>1, <2>2, <2>5, BatchStays
  <2> QED BY <1>1, <2>6, <2>7, <2>8, PlaceStays DEF IInv
<1> HIDE DEF r
<1> QED BY <1>1, <1>8, <1>9, <1>10

LEMMA StutterI == ASSUME IInv, UNCHANGED vars PROVE IInv'
<1> USE DEF vars, memory, batch, made
<1>1. CellsOK'
  BY Kept
<1>2. TypeOK'
  BY DEF IInv, TypeOK
<1>3. PlaceOK' /\ BatchOK'
  BY DEF IInv, PlaceOK, CurrentLives, BatchOK, PrimedAtEnd, FitsContext
<1> QED BY <1>1, <1>2, <1>3 DEF IInv

LEMMA NextI == ASSUME IInv, [Next]_vars PROVE IInv'
<1>1. CASE Slots
  BY <1>1, CreateSlotI, SetSlotI, FreeSlotI DEF Slots
<1>2. CASE Prompts
  BY <1>2, SetPromptI, StartMediaI DEF Prompts
<1>3. CASE Streams
  BY <1>3, StartTextI, GetNextI, MediaTurnI, StatusI DEF Streams
<1>4. CASE States
  BY <1>4, StatusI, SaveStateI, LoadStateI, ClearI DEF States
<1>5. CASE UNCHANGED vars
  BY <1>5, StutterI
<1> QED BY <1>1, <1>2, <1>3, <1>4, <1>5 DEF Next

LEMMA Inductive == Spec => []IInv
  BY InitIInv, NextI, PTL DEF Spec

-----------------------------------------------------------------------------
(* Every variable keeps its type: nPos and n_tokens never fall below 0.    *)
THEOREM TypeCorrect == Spec => []TypeOK
<1>1. IInv => TypeOK
  BY DEF IInv
<1> QED BY <1>1, Inductive, PTL

(* When none of EnvKinds happens, a slot holds exactly the positions below *)
(* its nPos, whatever is trimmed, saved, loaded, switched, cancelled or    *)
(* fails at position 0; each kind is needed (README, section 5).           *)
THEOREM CellsMatchAlways == ASSUME Env = {} PROVE Spec => []CellsMatch
<1>1. IInv => CellsMatch
  BY DEF IInv, TypeOK, CellsOK, Sound, Of, CellsMatch, Filled
<1> QED BY <1>1, Inductive, PTL

(* The tokens that wait in the batch follow what the current slot holds.   *)
THEOREM Primed == Spec => []PrimedAtEnd
<1>1. IInv => PrimedAtEnd
  BY DEF IInv, BatchOK
<1> QED BY <1>1, Inductive, PTL

(* The tokens that wait in the batch of a generation fit into n_ctx.       *)
THEOREM FitsAlways == Spec => []FitsContext
<1>1. IInv => FitsContext
  BY DEF IInv, BatchOK
<1> QED BY <1>1, Inductive, PTL

(* The current slot is never one that was freed.                           *)
THEOREM CurrentLive == Spec => []CurrentLives
<1>1. IInv => CurrentLives
  BY DEF IInv, PlaceOK
<1> QED BY <1>1, Inductive, PTL
=============================================================================
