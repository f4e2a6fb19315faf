---------------------------- MODULE ClientProofs ----------------------------
(***************************************************************************)
(* Theorems about WebClient, for every value of the constants: types, the   *)
(* view and its conversation, deletion, complete replies, that a retry runs *)
(* once unless another message displaced its pending submission, and that   *)
(* the composer of the new chat is not locked for nothing.                  *)
(*                                                                         *)
(* Whatever is under way for the view (a poll, an event, the transcript) is *)
(* about the open conversation (Placed), since opening another cancels it;  *)
(* only the answer to a submission is not cancelled: where it moves the     *)
(* view, moved and late record it.                                          *)
(***************************************************************************)
EXTENDS WebClient, FiniteSetTheorems, SequenceTheorems, WellFoundedInduction, TLAPS

\* Message q is the reply to a run of conversation t.
Belongs(q, t) == \E i \in DOMAIN runs : runs[i].id = q /\ runs[i].thread = t

Distinct == \A i, j \in DOMAIN runs : runs[i].id = runs[j].id => i = j

Placed ==
    /\ run # Idle => run.thread = activeId
    /\ poll # Idle =>
          poll.run = Idle \/ (poll.run.thread = activeId /\ Belongs(poll.run.id, activeId))
    /\ \A i \in DOMAIN wire : Belongs(wire[i].id, activeId)
    /\ ~moved => \A q \in Id : messages[q] # NotShown => Belongs(q, activeId)

Left ==
    /\ \A e \in Entry : call[e].pc = "created" =>
          call[e].thread \in Thread /\ threads[call[e].thread] = "kept"
    /\ \A e \in Entry : call[e].pc = "accepted" /\ threads[call[e].thread] = "told" =>
          call[e].thread \in late
    /\ DeletedIsLeft

\* A submission that is posted has an id and a conversation.
Posted(m) == m.pc \in {"post", "accepted", "refused"}
Addressed == \A e \in Entry : Posted(call[e]) => call[e].id \in Id /\ call[e].thread \in Thread

IInv == TypeOK /\ Distinct /\ Placed /\ Left /\ Addressed

-----------------------------------------------------------------------------
(* Facts *)

LEMMA Numbers ==
  /\ None \in Nat /\ None \notin Entry /\ None \notin Id /\ Hidden \notin Version
  /\ Entry \subseteq Nat /\ Id \subseteq Nat /\ Version \subseteq Nat /\ 0 \in Version
  /\ {MaxEntry, MaxId, MaxVersion, MaxWire} \subseteq Nat
  BY BoundAssumption DEF None, Entry, Id, Version, Hidden

LEMMA NoDraft ==
  ASSUME NEW n \in Nat
  PROVE  None <= n + 1
  BY DEF None

LEMMA Later ==
  ASSUME NEW a \in Nat, NEW b \in Nat, NEW c \in Nat, a <= b, b <= c
  PROVE  a <= c
  OBVIOUS

LEMMA InitInv == Init => IInv
<1> SUFFICES ASSUME Init PROVE IInv
  OBVIOUS
<1>1. DOMAIN runs = {} /\ DOMAIN wire = {}
  BY DEF Init
<1>2. runs \in Seq(Run) /\ wire \in Seq(Event) /\ Len(wire) <= MaxWire
  BY Numbers DEF Init
<1>3. TypeOK
  <2>1. messages \in [Id -> Shown \cup {NotShown}] /\ call \in [Entry -> Call \cup {Idle}]
        /\ threads \in [Thread -> {"none", "kept", "deleted", "told"}]
    BY DEF Init
  <2>2. drawn \in 0..MaxId /\ typed \in 0..MaxEntry
    BY Numbers DEF Init
  <2> QED
    BY <1>2, <2>1, <2>2 DEF Init, TypeOK, Place
<1>4. Distinct /\ Placed
  BY <1>1 DEF Init, Distinct, Placed
<1>5. Left /\ Addressed
  BY DEF Init, Left, DeletedIsLeft, Addressed, Posted, Idle
<1> QED
  BY <1>3, <1>4, <1>5 DEF IInv

\* The number of the conversations that were deleted is one.
LEMMA SpentTyped ==
  ASSUME TypeOK
  PROVE  Spent \in Nat /\ typed <= Spent
<1> DEFINE D == {t \in Thread : threads[t] \in {"deleted", "told"}}
<1>1. Cardinality(D) \in Nat
  BY ThreadAssumption, FS_Subset, FS_CardinalityType
<1>2. typed \in Nat
  BY Numbers DEF TypeOK
<1> QED
  BY <1>1, <1>2 DEF Spent

\* Of sets of rows, one has no other within it.
LEMMA Least ==
  ASSUME NEW S, IsFiniteSet(S), NEW F, F \subseteq SUBSET S, F # {}
  PROVE  \E x \in F : \A y \in F : ~(y \subseteq x /\ y # x)
<1>1. IsWellFoundedOn(StrictSubsetOrdering(S), SUBSET S)
  BY FS_StrictSubsetOrderingWellFounded, FS_FiniteSubsetsOfFinite
<1>2. \E x \in F : \A y \in F : ~(<<y, x>> \in StrictSubsetOrdering(S))
  BY <1>1, WFMin
<1> QED
  BY <1>2 DEF StrictSubsetOrdering

\* A set of rows that is not empty has a last one.
LEMMA LastRow ==
  ASSUME NEW n \in Nat, NEW S \in SUBSET (1..n), S # {}
  PROVE  \E i \in S : \A j \in S : j <= i
<1> DEFINE From(i) == {j \in S : i <= j}
           F == {From(i) : i \in S}
           N == 1..n
<1>1. IsFiniteSet(N)
  BY FS_Interval
<1>2. F \subseteq SUBSET N /\ F # {}
  OBVIOUS
<1>3. \E x \in F : \A y \in F : ~(y \subseteq x /\ y # x)
  <2> HIDE DEF F, N
  <2> QED
    BY <1>1, <1>2, Least
<1>4. PICK i \in S : \A j \in S : ~(From(j) \subseteq From(i) /\ From(j) # From(i))
  <2>1. PICK x \in F : \A y \in F : ~(y \subseteq x /\ y # x)
    BY <1>3
  <2>2. PICK i \in S : x = From(i)
    BY <2>1
  <2>3. \A j \in S : From(j) \in F
    OBVIOUS
  <2> HIDE DEF F, From
  <2> QED
    BY <2>1, <2>2, <2>3
<1>5. ASSUME NEW j \in S, ~(j <= i) PROVE FALSE
  <2>1. i \in Nat /\ j \in Nat /\ i < j /\ \A k \in S : k \in Nat
    BY <1>5
  <2>2. From(j) \subseteq From(i) /\ i \in From(i) /\ i \notin From(j)
    <3>1. i <= i /\ ~(j <= i) /\ \A k \in S : j <= k => i <= k
      BY <2>1
    <3> QED
      BY <3>1
  <2> HIDE DEF From
  <2> QED
    BY <1>4, <2>2
<1> QED
  BY <1>5

LEMMA LatestIs ==
  ASSUME TypeOK, NEW t, RunsOf(t) # {}
  PROVE  Latest(t) \in RunsOf(t) /\ \A j \in RunsOf(t) : j <= Latest(t)
<1>1. Len(runs) \in Nat /\ RunsOf(t) \in SUBSET (1..Len(runs))
  BY DEF TypeOK, RunsOf
<1>2. \E i \in RunsOf(t) : \A j \in RunsOf(t) : j <= i
  BY <1>1, LastRow
<1> QED
  BY <1>2 DEF Latest

LEMMA ThreadOfIs ==
  ASSUME Distinct, NEW q, NEW t, Belongs(q, t)
  PROVE  ThreadOf(q) = t
<1>1. PICK i \in DOMAIN runs : runs[i].id = q /\ runs[i].thread = t
  BY DEF Belongs
<1>2. \A j \in DOMAIN runs : runs[j].id = q => j = i
  BY <1>1 DEF Distinct
<1> QED
  BY <1>1, <1>2 DEF ThreadOf

LEMMA SeenRunIs ==
  ASSUME TypeOK, NEW t \in Thread
  PROVE  /\ SeenRun(t) \in Seen \cup {Idle}
         /\ SeenRun(t) # Idle => SeenRun(t).thread = t /\ Belongs(SeenRun(t).id, t)
<1>1. CASE RunsOf(t) = {}
  BY <1>1 DEF SeenRun
<1>2. CASE RunsOf(t) # {}
  <2> DEFINE r == runs[Latest(t)]
  <2>1. Latest(t) \in DOMAIN runs /\ r.thread = t
    BY <1>2, LatestIs DEF RunsOf
  <2>2. r \in Run
    BY <2>1 DEF TypeOK
  <2>3. SeenRun(t) = [id |-> r.id, thread |-> t, v |-> r.v, active |-> r.active]
    BY <1>2 DEF SeenRun
  <2> QED
    BY <2>1, <2>2, <2>3 DEF Run, Seen, Belongs
<1> QED
  BY <1>1, <1>2

LEMMA PlacedSame ==
  ASSUME Placed, UNCHANGED <<runs, activeId, run, poll, wire, messages, moved>>
  PROVE  Placed'
  BY DEF Placed, Belongs

LEMMA LeftSame ==
  ASSUME Left, UNCHANGED <<threads, activeId, back, late>>,
         \A e \in Entry : /\ call'[e].pc = "created" => call'[e] = call[e]
                          /\ call'[e].pc = "accepted" => call'[e] = call[e] \/ Exists(call'[e].thread)
  PROVE  Left'
  BY DEF Left, DeletedIsLeft, Exists

LEMMA AddressedSame ==
  ASSUME Addressed, UNCHANGED call
  PROVE  Addressed'
  BY DEF Addressed

LEMMA DistinctSame ==
  ASSUME Distinct, UNCHANGED runs
  PROVE  Distinct'
  BY DEF Distinct

-----------------------------------------------------------------------------
(* The conversations *)

LEMMA SetActiveTyped ==
  ASSUME TypeOK, NEW t \in Place, SetActive(t)
  PROVE  /\ activeId' \in Place /\ run' \in Seen \cup {Idle} /\ loading' \in BOOLEAN
         /\ poll' \in [pc: {"answered"}, run: Seen \cup {Idle}] \cup {Idle}
         /\ wire' \in Seq(Event) /\ Len(wire') <= MaxWire
<1>1. CASE t = activeId
  BY <1>1 DEF SetActive, inbound, TypeOK
<1>2. CASE t # activeId
  <2>1. <<>> \in Seq(Event) /\ Len(<< >>) <= MaxWire
    BY Numbers
  <2> QED
    BY <1>2, <2>1 DEF SetActive, Switch
<1> QED
  BY <1>1, <1>2

\* What is under way for the view is of the conversation it shows then.
LEMMA SetActivePlaced ==
  ASSUME Placed, NEW t, SetActive(t), UNCHANGED runs
  PROVE  /\ run' # Idle => run'.thread = activeId'
         /\ poll' # Idle =>
              poll'.run = Idle \/ (poll'.run.thread = activeId' /\ Belongs(poll.run.id, activeId)')
         /\ \A i \in DOMAIN wire' : Belongs(wire[i].id, activeId)'
<1>1. CASE t = activeId
  BY <1>1 DEF SetActive, inbound, Placed, Belongs
<1>2. CASE t # activeId
  BY <1>2 DEF SetActive, Switch
<1> QED
  BY <1>1, <1>2

LEMMA ActivateInv ==
  ASSUME IInv, NEW t \in Place, Activate(t), late' \subseteq Thread,
         threads' \in [Thread -> {"none", "kept", "deleted", "told"}],
         \A u \in Thread : threads[u] = "kept" => threads'[u] = "kept",
         \A e \in Entry : call[e].pc = "accepted" /\ threads'[call[e].thread] = "told" =>
            call[e].thread \in late',
         t # Nowhere => threads' = threads
  PROVE  IInv'
<1>1. /\ activeId' = t /\ draft' = None /\ sending' = FALSE /\ pending' = Idle
      /\ messages' = [q \in Id |-> NotShown] /\ UNCHANGED <<runs, drawn, typed, displaced, scope>>
      /\ moved' = FALSE /\ back' = (t # Nowhere /\ threads[t] = "told")
      /\ SetActive(t)
  BY DEF Activate, SetActive
<1>2. call' \in [Entry -> Call \cup {Idle}] /\ \A e \in Entry :
         /\ call'[e].pc = call[e].pc
         /\ call[e] # Idle => call'[e].thread = call[e].thread /\ call'[e].id = call[e].id
  <2>1. \A e \in Entry : call[e] # Idle =>
          /\ [call[e] EXCEPT !.current = FALSE] \in Call
          /\ [call[e] EXCEPT !.current = FALSE].pc = call[e].pc
          /\ [call[e] EXCEPT !.current = FALSE].thread = call[e].thread
          /\ [call[e] EXCEPT !.current = FALSE].id = call[e].id
    BY DEF IInv, TypeOK, Call
  <2> QED
    BY <2>1 DEF Activate
<1>3. TypeOK'
  BY <1>1, <1>2, SetActiveTyped DEF IInv, TypeOK
<1>4. Distinct' /\ Placed'
  BY <1>1, SetActivePlaced DEF IInv, Distinct, Placed
<1>5. Left'
  <2>1. ASSUME NEW e \in Entry, call'[e].pc = "created"
        PROVE  call'[e].thread \in Thread /\ threads'[call'[e].thread] = "kept"
    <3>1. call[e].pc = "created" /\ call[e] # Idle /\ call'[e].thread = call[e].thread
      BY <2>1, <1>2 DEF Idle
    <3>2. call[e].thread \in Thread /\ threads[call[e].thread] = "kept"
      BY <3>1 DEF IInv, Left
    <3> QED
      BY <3>1, <3>2
  <2>2. ASSUME NEW e \in Entry, call'[e].pc = "accepted", threads'[call'[e].thread] = "told"
        PROVE  call'[e].thread \in late'
    <3>1. call[e].pc = "accepted" /\ call[e] # Idle /\ call'[e].thread = call[e].thread
      BY <2>2, <1>2 DEF Idle
    <3> QED
      BY <2>2, <3>1
  <2>3. DeletedIsLeft'
    BY <1>1 DEF DeletedIsLeft
  <2> QED
    BY <2>1, <2>2, <2>3 DEF Left
<1>6. Addressed'
  BY <1>2 DEF IInv, Addressed, Posted, Idle
<1> QED
  BY <1>3, <1>4, <1>5, <1>6 DEF IInv

LEMMA OpenInv ==
  ASSUME IInv, NewChat \/ \E t \in Thread : SelectThread(t) \/ Back(t)
  PROVE  IInv'
<1>1. PICK t \in Place : Open(t)
  BY DEF NewChat, SelectThread, Back, Place
<1>2. Activate(t) /\ late' = late /\ threads' = threads
  BY <1>1 DEF Open
<1> QED
  BY <1>2, ActivateInv DEF IInv, TypeOK, Left

LEMMA DeleteInv ==
  ASSUME IInv, NEW t \in Thread, Delete(t)
  PROVE  IInv'
<1>1. /\ threads' = [threads EXCEPT ![t] = "deleted"]
      /\ UNCHANGED <<runs, activeId, draft, sending, messages, pending, run, call, poll, loading, wire,
                     drawn, typed, moved, back, late, displaced, scope>>
  BY DEF Delete, inbound, history
<1>2. TypeOK'
  BY <1>1 DEF IInv, TypeOK
<1>3. Distinct' /\ Placed'
  BY <1>1, PlacedSame, DistinctSame DEF IInv
<1>4. Left'
  <2>1. \A e \in Entry : call[e].pc = "created" => call[e].thread # t
    BY DEF Delete, Listed
  <2> QED
    BY <1>1, <2>1 DEF IInv, TypeOK, Left, DeletedIsLeft
<1> QED
  BY <1>1, <1>2, <1>3, <1>4, AddressedSame DEF IInv

LEMMA DeletedInv ==
  ASSUME IInv, NEW t \in Thread, Deleted(t)
  PROVE  IInv'
<1>1. threads[t] = "deleted" /\ threads' = [threads EXCEPT ![t] = "told"]
      /\ threads' \in [Thread -> {"none", "kept", "deleted", "told"}]
      /\ \A u \in Thread : threads[u] = "kept" => threads'[u] = "kept"
  BY DEF Deleted, IInv, TypeOK
<1>0. late' = late \cup {u \in {t} : \E e \in Entry : call[e].pc = "accepted" /\ call[e].thread = u}
  BY DEF Deleted
<1>4. late' \subseteq Thread
  BY <1>0 DEF IInv, TypeOK
<1>5. \A e \in Entry : call[e].pc = "accepted" /\ threads'[call[e].thread] = "told" =>
         call[e].thread \in late'
  BY <1>0, <1>1 DEF IInv, TypeOK, Left
<1>2. CASE StillThere(t)
  <2>1. Activate(Nowhere) /\ Nowhere \in Place
    BY <1>2 DEF Deleted, Place
  <2> QED
    BY <1>1, <1>4, <1>5, <2>1, ActivateInv
<1>3. CASE ~StillThere(t)
  <2>1. UNCHANGED <<runs, activeId, draft, sending, messages, pending, run, call, poll, loading, wire,
                    drawn, typed, moved, back, displaced, scope>>
    BY <1>3 DEF Deleted, inbound, history
  <2>2. TypeOK'
    BY <1>1, <1>4, <2>1 DEF IInv, TypeOK
  <2>3. Distinct' /\ Placed'
    BY <2>1, PlacedSame, DistinctSame DEF IInv
  <2>4. Left'
    <3>1. DeletedIsLeft'
      BY <1>0, <1>1, <1>3, <2>1 DEF IInv, TypeOK, Left, DeletedIsLeft, StillThere, Place
    <3> QED
      BY <1>1, <1>5, <2>1, <3>1 DEF IInv, Left
  <2> QED
    BY <2>1, <2>2, <2>3, <2>4, AddressedSame DEF IInv
<1> QED
  BY <1>2, <1>3

-----------------------------------------------------------------------------
(* The backend *)

LEMMA Short ==
  ASSUME NEW S
  PROVE  /\ << >> \in Seq(S) /\ Len(<< >>) = 0 /\ DOMAIN << >> = {}
         /\ \A m \in S : <<m>> \in Seq(S) /\ Len(<<m>>) = 1 /\ DOMAIN <<m>> = {1} /\ <<m>>[1] = m
  OBVIOUS

LEMMA RunTyped ==
  ASSUME TypeOK, NEW i \in DOMAIN runs
  PROVE  /\ runs[i] \in Run /\ i \in 1..Len(runs)
         /\ runs[i].v \in Version /\ runs[i].id \in Id /\ runs[i].thread \in Thread /\ runs[i].entry \in Entry
<1>1. runs[i] \in Run /\ i \in 1..Len(runs)
  BY DEF TypeOK
<1> QED
  BY <1>1 DEF Run

LEMMA BroadcastDoes ==
  ASSUME IInv, NEW t, NEW news \in Seq(Event), Broadcast(t, news),
         \A i \in DOMAIN news : Belongs(news[i].id, t)
  PROVE  /\ wire' \in Seq(Event) /\ Len(wire') <= MaxWire
         /\ \A i \in DOMAIN wire' : Belongs(wire'[i].id, activeId)
<1>1. PICK part \in {<<>>, news} \cup {<<news[i]>> : i \in DOMAIN news} :
         /\ part # <<>> => t = activeId /\ Len(wire) + Len(part) <= MaxWire
         /\ wire' = wire \o part
  BY DEF Broadcast
<1>2. part \in Seq(Event) /\ \A i \in DOMAIN part : Belongs(part[i].id, t)
  <2>1. CASE part = <<>> \/ part = news
    BY <2>1, Short
  <2>2. CASE \E i \in DOMAIN news : part = <<news[i]>>
    <3>1. PICK i \in DOMAIN news : part = <<news[i]>>
      BY <2>2
    <3>2. news[i] \in Event
      OBVIOUS
    <3> QED
      BY <3>1, <3>2, Short
  <2> QED
    BY <1>1, <2>1, <2>2
<1>3. wire \in Seq(Event) /\ Len(wire) <= MaxWire /\ \A i \in DOMAIN wire : Belongs(wire[i].id, activeId)
  BY DEF IInv, TypeOK, Placed
<1>4. CASE part = <<>>
  BY <1>1, <1>3, <1>4, ConcatEmptySeq
<1>5. CASE part # <<>>
  <2>1. /\ wire \o part \in Seq(Event) /\ Len(wire \o part) = Len(wire) + Len(part)
        /\ \A i \in 1..Len(wire) + Len(part) :
              (wire \o part)[i] = IF i <= Len(wire) THEN wire[i] ELSE part[i - Len(wire)]
    BY <1>2, <1>3, ConcatProperties
  <2>2. t = activeId /\ Len(wire') <= MaxWire
    BY <1>1, <1>5, <2>1
  <2>3. ASSUME NEW i \in DOMAIN wire' PROVE Belongs(wire'[i].id, activeId)
    <3>1. CASE i <= Len(wire)
      BY <1>1, <1>3, <2>1, <2>3, <3>1
    <3>2. CASE ~(i <= Len(wire))
      <4>1. i - Len(wire) \in DOMAIN part /\ wire'[i] = part[i - Len(wire)]
        BY <1>1, <1>2, <1>3, <2>1, <2>3, <3>2
      <4> QED
        BY <1>2, <2>2, <4>1
    <3> QED
      BY <3>1, <3>2
  <2> QED
    BY <1>1, <2>1, <2>2, <2>3
<1> QED
  BY <1>4, <1>5

LEMMA BroadcastTwo ==
  ASSUME IInv, NEW t, NEW m \in Event, NEW n \in Event, Belongs(m.id, t), Belongs(n.id, t),
         NEW final, final = << >> \/ final = <<m>>, NEW error, error = << >> \/ error = <<n>>,
         Broadcast(t, final \o error)
  PROVE  /\ wire' \in Seq(Event) /\ Len(wire') <= MaxWire
         /\ \A i \in DOMAIN wire' : Belongs(wire'[i].id, activeId)
<1>1. final \in Seq(Event) /\ (Len(final) = 0 \/ (Len(final) = 1 /\ final[1] = m))
  <2>1. CASE final = << >>
    BY <2>1, Short
  <2>2. CASE final = <<m>>
    BY <2>2
  <2> QED
    BY <2>1, <2>2
<1>2. error \in Seq(Event) /\ (Len(error) = 0 \/ (Len(error) = 1 /\ error[1] = n))
  <2>1. CASE error = << >>
    BY <2>1, Short
  <2>2. CASE error = <<n>>
    BY <2>2
  <2> QED
    BY <2>1, <2>2
<1>3. /\ final \o error \in Seq(Event) /\ Len(final \o error) = Len(final) + Len(error)
      /\ \A i \in 1..Len(final) + Len(error) :
            (final \o error)[i] = IF i <= Len(final) THEN final[i] ELSE error[i - Len(final)]
  BY <1>1, <1>2, ConcatProperties
<1>4. \A i \in DOMAIN (final \o error) : (final \o error)[i] \in {m, n}
  BY <1>1, <1>2, <1>3
<1> QED
  BY <1>3, <1>4, BroadcastDoes

LEMMA BroadcastOne ==
  ASSUME IInv, NEW t, NEW m \in Event, Belongs(m.id, t), Broadcast(t, <<m>>)
  PROVE  /\ wire' \in Seq(Event) /\ Len(wire') <= MaxWire
         /\ \A i \in DOMAIN wire' : Belongs(wire'[i].id, activeId)
<1>1. <<m>> \in Seq(Event) /\ \A i \in DOMAIN <<m>> : <<m>>[i] = m
  OBVIOUS
<1> QED
  BY <1>1, BroadcastDoes

\* Runs change but do not move.
LEMMA ProceedDoes ==
  ASSUME IInv, NEW i \in DOMAIN runs, Proceed(i)
  PROVE  /\ runs' \in Seq(Run) /\ DOMAIN runs' = DOMAIN runs
         /\ \A j \in DOMAIN runs : /\ runs'[j].id = runs[j].id /\ runs'[j].thread = runs[j].thread
                                   /\ runs'[j].entry = runs[j].entry
<1>0. /\ runs \in Seq(Run) /\ i \in 1..Len(runs)
      /\ runs[i] \in Run /\ runs[i].v \in Version /\ runs[i].id \in Id
  BY RunTyped DEF IInv, TypeOK
<1>1. PICK r \in Run : /\ runs' = [runs EXCEPT ![i] = r]
                       /\ r.id = runs[i].id /\ r.thread = runs[i].thread /\ r.entry = runs[i].entry
  <2>1. CASE Stream(i) \/ LateReply(i)
    <3>1. runs' = [runs EXCEPT ![i].v = @ + 1] /\ runs[i].v + 1 \in Version
      BY <1>0, <2>1, Numbers DEF Stream, LateReply, Version
    <3>2. [runs[i] EXCEPT !.v = @ + 1] \in Run
      BY <1>0, <3>1 DEF Run
    <3> QED
      BY <1>0, <3>1, <3>2 DEF Run
  <2>2. CASE Settle(i)
    <3>1. runs' = [runs EXCEPT ![i].active = FALSE]
      BY <2>2 DEF Settle
    <3>2. [runs[i] EXCEPT !.active = FALSE] \in Run
      BY <1>0 DEF Run
    <3> QED
      BY <1>0, <3>1, <3>2 DEF Run
  <2> QED
    BY <2>1, <2>2 DEF Proceed
<1> QED
  BY <1>0, <1>1, ExceptSeq

LEMMA ProceedInv ==
  ASSUME IInv, NEW i \in DOMAIN runs, Proceed(i)
  PROVE  IInv'
<1>0. /\ runs[i] \in Run /\ runs[i].v \in Version /\ runs[i].id \in Id
  BY RunTyped DEF IInv
<1>2. /\ runs' \in Seq(Run) /\ DOMAIN runs' = DOMAIN runs
      /\ \A j \in DOMAIN runs : runs'[j].id = runs[j].id /\ runs'[j].thread = runs[j].thread
  BY ProceedDoes
<1>3. \A q, t : Belongs(q, t)' <=> Belongs(q, t)
  BY <1>2 DEF Belongs
<1>4. UNCHANGED <<threads, activeId, draft, sending, messages, pending, run, call, poll, loading,
                  drawn, typed, moved, back, late, displaced, scope>>
  BY DEF Proceed, history
<1>5. /\ wire' \in Seq(Event) /\ Len(wire') <= MaxWire
      /\ \A j \in DOMAIN wire' : Belongs(wire'[j].id, activeId)
  <2>0. \A v \in Version, b \in BOOLEAN :
           MessageOf(i, v, b) \in Event /\ MessageOf(i, v, b).id = runs[i].id
           /\ ErrorOf(i) \in Event /\ ErrorOf(i).id = runs[i].id
    BY <1>0, Numbers DEF MessageOf, ErrorOf, Event
  <2>1. Belongs(runs[i].id, runs[i].thread)
    BY DEF Belongs
  <2>2. CASE Stream(i)
    <3>1. runs[i].v + 1 \in Version
      BY <1>0, <2>2, Numbers DEF Stream, Version
    <3>2. Broadcast(runs[i].thread, <<MessageOf(i, runs[i].v + 1, TRUE)>>)
      BY <2>2 DEF Stream
    <3>3. MessageOf(i, runs[i].v + 1, TRUE) \in Event /\ MessageOf(i, runs[i].v + 1, TRUE).id = runs[i].id
      BY <2>0, <3>1
    <3> QED
      BY <2>1, <3>2, <3>3, BroadcastOne
  <2>3. CASE Settle(i)
    <3>1. PICK final \in {<<>>, <<MessageOf(i, runs[i].v, FALSE)>>}, error \in {<<>>, <<ErrorOf(i)>>} :
             Broadcast(runs[i].thread, final \o error)
      BY <2>3 DEF Settle
    <3>2. MessageOf(i, runs[i].v, FALSE) \in Event /\ MessageOf(i, runs[i].v, FALSE).id = runs[i].id
          /\ ErrorOf(i) \in Event /\ ErrorOf(i).id = runs[i].id
      BY <1>0, <2>0
    <3> QED
      BY <2>1, <3>1, <3>2, BroadcastTwo
  <2>4. CASE LateReply(i)
    BY <2>4 DEF LateReply, IInv, TypeOK, Placed
  <2> QED
    BY <2>2, <2>3, <2>4 DEF Proceed
<1>6. TypeOK'
  BY <1>2, <1>4, <1>5 DEF IInv, TypeOK
<1>7. Distinct' /\ Placed'
  BY <1>2, <1>3, <1>4, <1>5 DEF IInv, Distinct, Placed
<1>8. Left'
  BY <1>4, LeftSame DEF IInv
<1> QED
  BY <1>4, <1>6, <1>7, <1>8, AddressedSame DEF IInv

-----------------------------------------------------------------------------
(* Submissions *)

\* The actions of the composer leave the view and the backend alone.
LEMMA ComposerInv ==
  ASSUME IInv, TypeOK', Addressed', UNCHANGED <<threads, runs, activeId, messages, run, poll, wire, moved, back, late>>,
         \A e \in Entry : call'[e].pc \in {"created", "accepted"} => call'[e] = call[e]
  PROVE  IInv'
  BY PlacedSame, DistinctSame, LeftSame DEF IInv

LEMMA SteerInv ==
  ASSUME IInv, Steer
  PROVE  IInv'
<1>1. TypeOK'
  BY DEF Steer, backend, inbound, IInv, TypeOK, history
<1> QED
  BY <1>1, AddressedSame, ComposerInv DEF IInv, Steer, backend, inbound, history

LEMMA DisplaceDoes ==
  ASSUME TypeOK, NEW e, Displace(e)
  PROVE  /\ displaced' \subseteq Entry /\ displaced \subseteq displaced'
         /\ pending # Idle /\ pending.entry # e => pending.entry \in displaced'
<1>1. pending # Idle => pending.entry \in Entry
  BY DEF TypeOK, Submission
<1> QED
  BY <1>1 DEF Displace, TypeOK

\* A submission has an id, the one of its retries.
LEMMA SubmitDoes ==
  ASSUME TypeOK, NEW t \in Thread, NEW e \in Entry, Submit(t, e)
  PROVE  /\ pending' = [id |-> pending'.id, thread |-> t, entry |-> e] /\ pending' \in Submission
         /\ drawn' \in 0..MaxId /\ displaced' \subseteq Entry /\ call' \in [Entry -> Call \cup {Idle}]
         /\ call'[e] = [pc |-> "post", current |-> TRUE, id |-> pending'.id, thread |-> t]
         /\ \A f \in Entry : f # e => call'[f] = call[f]
<1>0. displaced' \subseteq Entry
  BY DisplaceDoes DEF Submit
<1>1. pending' = [id |-> pending'.id, thread |-> t, entry |-> e] /\ pending' \in Submission
      /\ drawn' \in 0..MaxId
  <2>1. CASE Same(t, e)
    <3>1. pending' = pending /\ drawn' = drawn /\ pending # Idle /\ pending.thread = t /\ pending.entry = e
      BY <2>1 DEF Submit, Same
    <3>2. pending \in Submission
      BY <3>1 DEF TypeOK
    <3> QED
      BY <3>1, <3>2 DEF Submission, TypeOK
  <2>2. CASE ~Same(t, e)
    <3>0. drawn < scope.id /\ pending' = [id |-> drawn + 1, thread |-> t, entry |-> e] /\ drawn' = drawn + 1
      BY <2>2 DEF Submit
    <3>1. drawn < MaxId /\ pending' = [id |-> drawn + 1, thread |-> t, entry |-> e] /\ drawn' = drawn + 1
      <4>1. scope.id \in 0..MaxId /\ drawn \in 0..MaxId
        BY BoundAssumption DEF TypeOK
      <4> QED
        BY <3>0, <4>1, Numbers
    <3>2. drawn + 1 \in Id /\ drawn + 1 \in 0..MaxId
      BY <3>1, Numbers DEF TypeOK, Id
    <3> QED
      BY <3>1, <3>2 DEF Submission
  <2> QED
    BY <2>1, <2>2
<1>2. pending'.id \in Id
  BY <1>1 DEF Submission
<1>3. [pc |-> "post", current |-> TRUE, id |-> pending'.id, thread |-> t] \in Call
  BY <1>2 DEF Call, Place
<1>4. call' = [call EXCEPT ![e] = [pc |-> "post", current |-> TRUE, id |-> pending'.id, thread |-> t]]
  BY DEF Submit
<1>5. call' \in [Entry -> Call \cup {Idle}]
      /\ call'[e] = [pc |-> "post", current |-> TRUE, id |-> pending'.id, thread |-> t]
      /\ \A f \in Entry : f # e => call'[f] = call[f]
  BY <1>3, <1>4 DEF TypeOK
<1> QED
  BY <1>0, <1>1, <1>5

\* The message that is sent is the one given back, or the next.
LEMMA CanSendIs ==
  ASSUME TypeOK, NEW e \in Entry, SendMessage(e)
  PROVE  /\ typed' \in 0..MaxEntry /\ (e = draft \/ e = typed + 1)
         /\ typed' = IF e = draft THEN typed ELSE e
<1>1. /\ typed' = IF e = draft THEN typed ELSE e
      /\ e = draft \/ e = typed + 1
  BY DEF SendMessage, CanSend
<1>2. e \in 0..MaxEntry
  BY Numbers DEF Entry
<1> QED
  BY <1>1, <1>2 DEF TypeOK

LEMMA SendMessageInv ==
  ASSUME IInv, NEW e \in Entry, SendMessage(e)
  PROVE  IInv'
<1>1. /\ UNCHANGED <<threads, runs, activeId, messages, run, poll, loading, wire, moved, back, late, scope>>
      /\ sending' = TRUE /\ draft' = None
  BY DEF SendMessage, backend, inbound, history
<1>2. typed' \in 0..MaxEntry
  BY CanSendIs DEF IInv
<1>3. CASE activeId = Nowhere
  <2>1. /\ call' = [call EXCEPT ![e] = [pc |-> "create", current |-> TRUE, id |-> None, thread |-> Nowhere]]
        /\ UNCHANGED <<pending, drawn, displaced>>
    BY <1>3 DEF SendMessage
  <2>2. [pc |-> "create", current |-> TRUE, id |-> None, thread |-> Nowhere] \in Call
    BY DEF Call, Place
  <2>3. /\ call' \in [Entry -> Call \cup {Idle}]
        /\ \A f \in Entry : call'[f].pc \in {"created", "accepted"} => call'[f] = call[f]
    BY <2>1, <2>2 DEF IInv, TypeOK
  <2>4. TypeOK'
    BY <1>1, <1>2, <2>1, <2>3 DEF IInv, TypeOK
  <2>5. Addressed'
    BY <2>1, <2>2 DEF IInv, TypeOK, Addressed, Posted
  <2> QED
    BY <1>1, <2>3, <2>4, <2>5, ComposerInv
<1>4. CASE activeId # Nowhere
  <2>1. activeId \in Thread /\ Submit(activeId, e)
    BY <1>4 DEF SendMessage, IInv, TypeOK, Place
  <2>2. /\ pending' \in Submission /\ drawn' \in 0..MaxId /\ call' \in [Entry -> Call \cup {Idle}]
        /\ call'[e].pc = "post" /\ call'[e].id \in Id /\ call'[e].thread \in Thread
        /\ displaced' \subseteq Entry
        /\ \A f \in Entry : f # e => call'[f] = call[f]
    <3>1. /\ pending' \in Submission /\ drawn' \in 0..MaxId /\ call' \in [Entry -> Call \cup {Idle}]
          /\ call'[e] = [pc |-> "post", current |-> TRUE, id |-> pending'.id, thread |-> activeId]
          /\ displaced' \subseteq Entry
          /\ \A f \in Entry : f # e => call'[f] = call[f]
      BY <2>1, SubmitDoes DEF IInv
    <3>2. pending'.id \in Id
      BY <3>1 DEF Submission
    <3> QED
      BY <2>1, <3>1, <3>2
  <2>3. TypeOK'
    BY <1>1, <1>2, <2>2 DEF IInv, TypeOK
  <2>4. Addressed'
    BY <2>2 DEF IInv, Addressed
  <2>5. \A f \in Entry : call'[f].pc \in {"created", "accepted"} => call'[f] = call[f]
    BY <2>2
  <2> QED
    BY <1>1, <2>3, <2>4, <2>5, ComposerInv
<1> QED
  BY <1>3, <1>4

LEMMA GotoDoes ==
  ASSUME TypeOK, NEW e \in Entry, call[e].pc = "post", NEW pc \in {"accepted", "refused"}, Goto(e, pc)
  PROVE  /\ call' \in [Entry -> Call \cup {Idle}] /\ call'[e].pc = pc
         /\ call'[e].id = call[e].id /\ call'[e].thread = call[e].thread
         /\ call'[e].current = call[e].current
         /\ \A f \in Entry : f # e => call'[f] = call[f]
<1>1. call[e] \in Call
  BY DEF TypeOK, Idle
<1>2. [call[e] EXCEPT !.pc = pc] \in Call
  BY <1>1 DEF Call
<1> QED
  BY <1>1, <1>2 DEF Goto, TypeOK, Call

LEMMA EndDoes ==
  ASSUME TypeOK, NEW e \in Entry, End(e)
  PROVE  /\ call' \in [Entry -> Call \cup {Idle}] /\ call'[e] = Idle
         /\ \A f \in Entry : f # e => call'[f] = call[f]
         /\ \A f \in Entry : call'[f].pc \in {"created", "accepted"} => call'[f] = call[f]
  BY DEF End, TypeOK, Idle

LEMMA CreateThreadInv ==
  ASSUME IInv, NEW e \in Entry, Handle(e), CreateThread(e)
  PROVE  IInv'
<1>0. UNCHANGED <<activeId, draft, sending, messages, pending, run, poll, loading, wire, drawn, typed, moved, back, late, displaced, scope>>
      /\ UNCHANGED runs /\ call[e].pc = "create"
  BY DEF Handle, CreateThread, inbound, history
<1>1. PICK t \in Thread : /\ threads[t] = "none" /\ threads' = [threads EXCEPT ![t] = "kept"]
                          /\ call' = [call EXCEPT ![e].pc = "created", ![e].thread = t]
  BY DEF CreateThread
<1>2. call[e] \in Call
  BY <1>0 DEF IInv, TypeOK, Idle
<1>3. [call[e] EXCEPT !.pc = "created", !.thread = t] \in Call
  BY <1>2 DEF Call, Place
<1>4. /\ call' \in [Entry -> Call \cup {Idle}] /\ call'[e].pc = "created" /\ call'[e].thread = t
      /\ \A f \in Entry : f # e => call'[f] = call[f]
  BY <1>1, <1>2, <1>3 DEF IInv, TypeOK, Call
<1>5. TypeOK'
  BY <1>0, <1>1, <1>4 DEF IInv, TypeOK
<1>6. Distinct' /\ Placed'
  BY <1>0, PlacedSame, DistinctSame DEF IInv
<1>7. Left'
  BY <1>0, <1>1, <1>4 DEF IInv, TypeOK, Left, DeletedIsLeft
<1>8. Addressed'
  BY <1>4 DEF IInv, Addressed, Posted
<1> QED
  BY <1>5, <1>6, <1>7, <1>8 DEF IInv

\* A run is created for an id that has none.
LEMMA CreateRunDoes ==
  ASSUME IInv, NEW e \in Entry, CreateRun(e)
  PROVE  /\ call' \in [Entry -> Call \cup {Idle}] /\ call'[e].pc \in {"accepted", "refused"}
         /\ call'[e].id = call[e].id /\ call'[e].thread = call[e].thread
         /\ call'[e].current = call[e].current
         /\ call'[e].pc = "accepted" => Exists(call[e].thread)
         /\ \A f \in Entry : f # e => call'[f] = call[f]
         /\ \/ runs' = runs
            \/ /\ runs' = Append(runs, NewRun(call[e].id, call[e].thread, e))
               /\ NewRun(call[e].id, call[e].thread, e) \in Run
               /\ \A i \in DOMAIN runs : runs[i].id # call[e].id
<1> DEFINE m == call[e]
<1>0. m.pc = "post" /\ m.id \in Id /\ m.thread \in Thread
  BY DEF CreateRun, IInv, Addressed, Posted
<1>1. CASE Exists(m.thread) /\ \E i \in DOMAIN runs : runs[i].id = m.id
  BY <1>0, <1>1, GotoDoes DEF CreateRun, IInv
<1>2. CASE /\ ~(Exists(m.thread) /\ \E i \in DOMAIN runs : runs[i].id = m.id)
           /\ ~Exists(m.thread) \/ HasActive(m.thread)
  BY <1>0, <1>2, GotoDoes DEF CreateRun, IInv
<1>3. CASE Exists(m.thread) /\ ~HasActive(m.thread) /\ \A i \in DOMAIN runs : runs[i].id # m.id
  <2>1. Goto(e, "accepted") /\ runs' = Append(runs, NewRun(m.id, m.thread, e))
    BY <1>0, <1>3 DEF CreateRun
  <2>2. NewRun(m.id, m.thread, e) \in Run
    <3>1. \A q \in Id, t \in Thread, v \in Version : [id |-> q, thread |-> t, entry |-> e, v |-> v, active |-> TRUE] \in Run
      BY DEF Run
    <3> QED
      BY <1>0, <3>1, Numbers DEF NewRun
  <2> QED
    BY <1>0, <1>3, <2>1, <2>2, GotoDoes DEF IInv
<1> QED
  BY <1>1, <1>2, <1>3

LEMMA CreateRunInv ==
  ASSUME IInv, NEW e \in Entry, Handle(e), CreateRun(e)
  PROVE  IInv'
<1> DEFINE new == NewRun(call[e].id, call[e].thread, e)
<1>0. UNCHANGED <<threads, activeId, draft, sending, messages, pending, run, poll, loading, wire, drawn, typed, moved, back, late, displaced, scope>>
  BY DEF Handle, CreateRun, inbound, history
<1>1. /\ call' \in [Entry -> Call \cup {Idle}] /\ call'[e].pc \in {"accepted", "refused"}
      /\ call'[e].id = call[e].id /\ call'[e].thread = call[e].thread
      /\ call'[e].pc = "accepted" => Exists(call'[e].thread)
      /\ \A f \in Entry : f # e => call'[f] = call[f]
  BY CreateRunDoes
<1>2. Posted(call[e])
  BY DEF CreateRun, Posted
<1>3. Left' /\ Addressed'
  BY <1>0, <1>1, <1>2, LeftSame DEF IInv, Addressed, Posted
<1>4. CASE runs' = runs
  <2>1. TypeOK'
    BY <1>0, <1>1, <1>4 DEF IInv, TypeOK
  <2>2. Distinct' /\ Placed'
    BY <1>0, <1>4, PlacedSame, DistinctSame DEF IInv
  <2> QED
    BY <1>3, <2>1, <2>2 DEF IInv
<1>5. CASE /\ runs' = Append(runs, new) /\ new \in Run
           /\ \A i \in DOMAIN runs : runs[i].id # call[e].id
  <2>1. /\ runs' \in Seq(Run) /\ DOMAIN runs' = DOMAIN runs \cup {Len(runs) + 1}
        /\ (\A i \in DOMAIN runs : runs'[i] = runs[i]) /\ runs'[Len(runs) + 1] = new
    <3>1. runs \in Seq(Run)
      BY DEF IInv, TypeOK
    <3> HIDE DEF new
    <3> QED
      BY <1>5, <3>1, AppendProperties
  <2>2. TypeOK'
    BY <1>0, <1>1, <2>1 DEF IInv, TypeOK
  <2>3. new.id = call[e].id
    BY DEF NewRun
  <2>4. Distinct'
    BY <1>5, <2>1, <2>3 DEF IInv, Distinct
  <2>5. \A q, t : Belongs(q, t) => Belongs(q, t)'
    BY <2>1 DEF Belongs
  <2>6. Placed'
    BY <1>0, <2>5 DEF IInv, Placed
  <2> QED
    BY <1>3, <2>2, <2>4, <2>6 DEF IInv
<1> QED
  BY <1>4, <1>5, CreateRunDoes

LEMMA CreatedInv ==
  ASSUME IInv, NEW e \in Entry, Created(e)
  PROVE  IInv'
<1> DEFINE t == call[e].thread
<1>0. /\ UNCHANGED <<threads, runs, draft, sending, typed, moved, back, late, scope>> /\ call[e].pc = "created"
      /\ t \in Thread /\ threads[t] = "kept"
  BY DEF Created, backend, IInv, Left, history
<1>1. CASE ~call[e].current
  <2>1. End(e) /\ UNCHANGED <<activeId, messages, pending, run, poll, loading, wire, drawn, displaced>>
    BY <1>1 DEF Created, inbound, history
  <2>2. call' \in [Entry -> Call \cup {Idle}] /\ call'[e] = Idle
        /\ \A f \in Entry : f # e => call'[f] = call[f]
    BY <2>1, EndDoes DEF IInv
  <2>3. Addressed' /\ \A f \in Entry : call'[f].pc \in {"created", "accepted"} => call'[f] = call[f]
    BY <2>2 DEF IInv, Addressed, Posted, Idle
  <2>4. TypeOK'
    BY <1>0, <2>1, <2>2 DEF IInv, TypeOK
  <2> QED
    BY <1>0, <2>1, <2>3, <2>4, ComposerInv
<1>2. CASE call[e].current
  <2>1. SetActive(t) /\ activeId' = t /\ messages' = [q \in Id |-> NotShown] /\ Submit(t, e) /\ t \in Place
    BY <1>0, <1>2 DEF Created, SetActive, Place
  <2>2. /\ pending' \in Submission /\ drawn' \in 0..MaxId /\ call' \in [Entry -> Call \cup {Idle}]
        /\ call'[e].pc = "post" /\ call'[e].id \in Id /\ call'[e].thread \in Thread
        /\ displaced' \subseteq Entry
        /\ \A f \in Entry : f # e => call'[f] = call[f]
    <3>1. /\ pending' \in Submission /\ drawn' \in 0..MaxId /\ call' \in [Entry -> Call \cup {Idle}]
          /\ call'[e] = [pc |-> "post", current |-> TRUE, id |-> pending'.id, thread |-> t]
          /\ displaced' \subseteq Entry
          /\ \A f \in Entry : f # e => call'[f] = call[f]
      BY <1>0, <2>1, SubmitDoes DEF IInv
    <3>2. pending'.id \in Id
      BY <3>1 DEF Submission
    <3> QED
      BY <1>0, <2>1, <3>1, <3>2
  <2>3. TypeOK'
    BY <1>0, <2>1, <2>2, SetActiveTyped DEF IInv, TypeOK
  <2>4. Distinct' /\ Placed'
    <3>1. /\ run' # Idle => run'.thread = activeId'
          /\ poll' # Idle =>
               poll'.run = Idle \/ (poll'.run.thread = activeId' /\ Belongs(poll.run.id, activeId)')
          /\ \A i \in DOMAIN wire' : Belongs(wire[i].id, activeId)'
      BY <1>0, <2>1, SetActivePlaced DEF IInv
    <3> QED
      BY <1>0, <2>1, <3>1 DEF IInv, Distinct, Placed
  <2>5. Left' /\ Addressed'
    BY <1>0, <2>1, <2>2 DEF IInv, Left, DeletedIsLeft, Addressed
  <2> QED
    BY <2>3, <2>4, <2>5 DEF IInv
<1> QED
  BY <1>1, <1>2

\* The only answer that may move the view to where the person has not gone.
LEMMA AcceptedInv ==
  ASSUME IInv, NEW e \in Entry, Accepted(e)
  PROVE  IInv'
<1> DEFINE t == call[e].thread
<1>0. /\ UNCHANGED <<threads, runs, draft, sending, messages, drawn, typed, late, scope>>
      /\ call[e].pc = "accepted" /\ pending' = Idle /\ SetActive(t) /\ activeId' = t /\ End(e)
      /\ moved' = (moved \/ t # activeId) /\ back' = (back /\ t = activeId) /\ Displace(e)
  BY DEF Accepted, SetActive, backend
<1>1. t \in Thread /\ t \in Place
  BY <1>0 DEF IInv, Addressed, Posted, Place
<1>2. call' \in [Entry -> Call \cup {Idle}] /\ call'[e] = Idle
      /\ \A f \in Entry : f # e => call'[f] = call[f]
  BY <1>0, EndDoes DEF IInv
<1>3. TypeOK'
  <2>1. displaced' \subseteq Entry
    BY <1>0, DisplaceDoes DEF IInv
  <2> QED
    BY <1>0, <1>1, <1>2, <2>1, SetActiveTyped DEF IInv, TypeOK
<1>4. Distinct' /\ Placed'
  <2>1. ASSUME ~moved', NEW q \in Id, messages'[q] # NotShown PROVE Belongs(q, activeId)'
    <3>1. ~moved /\ activeId' = activeId /\ messages'[q] = messages[q]
      BY <1>0, <2>1
    <3>2. Belongs(q, activeId)
      BY <2>1, <3>1 DEF IInv, Placed
    <3> QED
      BY <1>0, <3>1, <3>2 DEF Belongs
  <2>2. /\ run' # Idle => run'.thread = activeId'
        /\ poll' # Idle =>
             poll'.run = Idle \/ (poll'.run.thread = activeId' /\ Belongs(poll.run.id, activeId)')
        /\ \A i \in DOMAIN wire' : Belongs(wire[i].id, activeId)'
    BY <1>0, SetActivePlaced DEF IInv
  <2> QED
    BY <1>0, <2>1, <2>2 DEF IInv, Distinct, Placed
<1>5. Left' /\ Addressed'
  <2>2. DeletedIsLeft'
    BY <1>0 DEF IInv, Left, DeletedIsLeft
  <2>3. \A f \in Entry : call'[f] # call[f] => call'[f].pc = "idle"
    BY <1>2 DEF Idle
  <2> QED
    BY <1>0, <2>2, <2>3 DEF IInv, Left, Addressed, Posted
<1> QED
  BY <1>3, <1>4, <1>5 DEF IInv

LEMMA FailedInv ==
  ASSUME IInv, NEW e \in Entry, Failed(e)
  PROVE  IInv'
<1>1. /\ UNCHANGED <<threads, runs, activeId, messages, pending, run, poll, loading, wire, drawn, typed, moved, back, late, displaced, scope>>
      /\ draft' \in Entry \cup {None} /\ sending' \in BOOLEAN /\ End(e)
  BY DEF Failed, backend, inbound, IInv, TypeOK, history
<1>2. call' \in [Entry -> Call \cup {Idle}] /\ call'[e] = Idle
      /\ \A f \in Entry : f # e => call'[f] = call[f]
  BY <1>1, EndDoes DEF IInv
<1>3. Addressed' /\ \A f \in Entry : call'[f].pc \in {"created", "accepted"} => call'[f] = call[f]
  BY <1>2 DEF IInv, Addressed, Posted, Idle
<1>4. TypeOK'
  BY <1>1, <1>2 DEF IInv, TypeOK
<1> QED
  BY <1>1, <1>3, <1>4, ComposerInv

-----------------------------------------------------------------------------
(* Polls, the transcript, the socket *)

LEMMA PollInv ==
  ASSUME IInv, Poll \/ PollFails
  PROVE  IInv'
<1>0. UNCHANGED <<threads, runs, activeId, draft, sending, messages, pending, run, call, loading, wire,
                  drawn, typed, moved, back, late, displaced, scope>>
  BY DEF Poll, PollFails, backend, history
<1>1. /\ poll' \in [pc: {"answered"}, run: Seen \cup {Idle}] \cup {Idle}
      /\ poll' # Idle =>
            poll'.run = Idle \/ (poll'.run.thread = activeId /\ Belongs(poll'.run.id, activeId))
  <2>1. CASE PollFails
    BY <2>1 DEF PollFails
  <2>2. CASE Poll
    <3>1. activeId \in Thread /\ poll' = [pc |-> "answered", run |-> SeenRun(activeId)]
      BY <2>2 DEF Poll, IInv, TypeOK, Place
    <3>2. /\ SeenRun(activeId) \in Seen \cup {Idle}
          /\ SeenRun(activeId) # Idle =>
                SeenRun(activeId).thread = activeId /\ Belongs(SeenRun(activeId).id, activeId)
      BY <3>1, SeenRunIs DEF IInv
    <3> QED
      BY <3>1, <3>2
  <2> QED
    BY <2>1, <2>2
<1>2. TypeOK'
  BY <1>0, <1>1 DEF IInv, TypeOK
<1>3. Placed'
  BY <1>0, <1>1 DEF IInv, Placed, Belongs
<1> QED
  BY <1>0, <1>2, <1>3, DistinctSame, LeftSame, AddressedSame DEF IInv

\* A message enters the list under its own id.
LEMMA UpsertDoes ==
  ASSUME TypeOK, NEW q \in Id, NEW m \in Shown
  PROVE  /\ Upsert(messages, q, m) \in [Id -> Shown \cup {NotShown}]
         /\ \A p \in Id : p # q => Upsert(messages, q, m)[p] = messages[p]
  BY DEF TypeOK, Upsert

\* What changes the messages only, and adds only what belongs to the open
\* conversation.
LEMMA MessagesInv ==
  ASSUME IInv, UNCHANGED <<threads, runs, activeId, draft, pending, call, drawn, typed, moved, back, late, displaced, scope>>,
         messages' \in [Id -> Shown \cup {NotShown}], sending' \in BOOLEAN,
         run' \in Seen \cup {Idle}, run' # Idle => run'.thread = activeId,
         poll' \in {poll, Idle}, loading' \in BOOLEAN,
         wire' \in Seq(Event), Len(wire') <= MaxWire,
         \A i \in DOMAIN wire' : Belongs(wire'[i].id, activeId),
         \A q \in Id : messages'[q] # NotShown => messages[q] # NotShown \/ Belongs(q, activeId)
  PROVE  IInv'
<1>1. TypeOK'
  BY DEF IInv, TypeOK
<1>2. ASSUME ~moved', NEW q \in Id, messages'[q] # NotShown PROVE Belongs(q, activeId)
  BY <1>2 DEF IInv, Placed
<1>3. \A q : Belongs(q, activeId) => Belongs(q, activeId)'
  BY DEF Belongs
<1>4. /\ \A i \in DOMAIN wire' : Belongs(wire[i].id, activeId)'
      /\ ~moved' => \A q \in Id : messages'[q] # NotShown => Belongs(q, activeId)'
  BY <1>2, <1>3
<1>5. poll' # Idle =>
        poll'.run = Idle \/ (poll'.run.thread = activeId' /\ Belongs(poll.run.id, activeId)')
  BY <1>3 DEF IInv, Placed
<1>6. Placed'
  BY <1>4, <1>5 DEF Placed
<1> QED
  BY <1>1, <1>6, DistinctSame, LeftSame, AddressedSame DEF IInv

LEMMA ApplyPollInv ==
  ASSUME IInv, ApplyPoll
  PROVE  IInv'
<1> DEFINE r == poll.run
<1>0. /\ UNCHANGED <<threads, runs, activeId, draft, pending, call, loading, wire, drawn, typed, moved, back, late, displaced, scope>>
      /\ poll # Idle /\ poll' = Idle /\ run' = r
  BY DEF ApplyPoll, backend, history
<1>1. r \in Seen \cup {Idle} /\ (r = Idle \/ (r.thread = activeId /\ Belongs(r.id, activeId)))
  BY <1>0 DEF IInv, TypeOK, Placed
<1>2. /\ messages' \in [Id -> Shown \cup {NotShown}] /\ sending' \in BOOLEAN
      /\ \A q \in Id : messages'[q] # NotShown => messages[q] # NotShown \/ Belongs(q, activeId)
  <2>1. CASE r = Idle
    BY <2>1 DEF ApplyPoll, IInv, TypeOK
  <2>2. CASE r # Idle
    <3>1. r \in Seen /\ r.id \in Id /\ r.v \in Version /\ r.active \in BOOLEAN
      BY <1>1, <2>2 DEF Seen
    <3>2. sending' = r.active
          /\ messages' = IF r.v = 0 THEN messages
                         ELSE Upsert(messages, r.id, [v |-> r.v, streaming |-> r.active])
      BY <1>1, <2>2 DEF ApplyPoll, StillSending
    <3>3. [v |-> r.v, streaming |-> r.active] \in Shown
      BY <3>1 DEF Shown
    <3>4. /\ messages' \in [Id -> Shown \cup {NotShown}]
          /\ \A q \in Id : q # r.id => messages'[q] = messages[q]
      <4>1. CASE r.v = 0
        BY <3>2, <4>1 DEF IInv, TypeOK
      <4>2. CASE r.v # 0
        BY <3>1, <3>2, <3>3, <4>2, UpsertDoes DEF IInv
      <4> QED
        BY <4>1, <4>2
    <3> QED
      BY <1>1, <2>2, <3>1, <3>2, <3>4
  <2> QED
    BY <2>1, <2>2
<1>3. run' # Idle => run'.thread = activeId
  BY <1>0, <1>1
<1>4. /\ wire' \in Seq(Event) /\ Len(wire') <= MaxWire /\ loading' \in BOOLEAN
      /\ \A i \in DOMAIN wire' : Belongs(wire'[i].id, activeId)
  BY <1>0 DEF IInv, TypeOK, Placed
<1> QED
  BY <1>0, <1>1, <1>2, <1>3, <1>4, MessagesInv

LEMMA LoadInv ==
  ASSUME IInv, Load
  PROVE  IInv'
<1>0. UNCHANGED <<threads, runs, activeId, draft, sending, pending, run, call, poll, wire, drawn, typed, moved, back, late, displaced, scope>>
      /\ loading' = FALSE
  BY DEF Load, backend, history
<1>1. /\ messages' \in [Id -> Shown \cup {NotShown}]
      /\ \A q \in Id : messages'[q] # NotShown => messages[q] # NotShown \/ Belongs(q, activeId)
  <2>1. CASE UNCHANGED messages
    BY <2>1 DEF IInv, TypeOK
  <2>2. CASE \E rows \in Rows(activeId) : messages' = Merge(messages, rows, activeId)
    <3>1. PICK rows \in Rows(activeId) : messages' = Merge(messages, rows, activeId)
      BY <2>2
    <3>2. /\ rows \in [Id -> {Hidden} \cup (Version \ {0})]
          /\ \A q \in Id : rows[q] # Hidden => Belongs(q, activeId)
      BY DEF Rows, Belongs, RunsOf
    <3>3. ASSUME NEW q \in Id
          PROVE  /\ messages'[q] \in Shown \cup {NotShown}
                 /\ messages'[q] # NotShown => messages[q] # NotShown \/ Belongs(q, activeId)
      <4>1. \/ messages[q] # NotShown /\ messages'[q] = messages[q]
            \/ rows[q] # Hidden /\ messages'[q] = [v |-> rows[q], streaming |-> FALSE]
            \/ messages'[q] = NotShown
        BY <3>1 DEF Merge
      <4>2. rows[q] # Hidden => [v |-> rows[q], streaming |-> FALSE] \in Shown
        BY <3>2 DEF Shown
      <4> QED
        BY <3>2, <4>1, <4>2 DEF IInv, TypeOK
    <3>4. messages' = [q \in Id |-> messages'[q]]
      BY <3>1 DEF Merge
    <3> QED
      BY <3>3, <3>4
  <2> QED
    BY <2>1, <2>2 DEF Load
<1>2. /\ wire' \in Seq(Event) /\ Len(wire') <= MaxWire /\ sending' \in BOOLEAN /\ run' \in Seen \cup {Idle}
      /\ run' # Idle => run'.thread = activeId
      /\ \A i \in DOMAIN wire' : Belongs(wire'[i].id, activeId)
  BY <1>0 DEF IInv, TypeOK, Placed
<1> QED
  BY <1>0, <1>1, <1>2, MessagesInv

LEMMA DeliverDoes ==
  ASSUME IInv, Deliver
  PROVE  /\ Head(wire) \in Event /\ Belongs(Head(wire).id, activeId)
         /\ wire' \in Seq(Event) /\ Len(wire') <= MaxWire
         /\ \A i \in DOMAIN wire' : Belongs(wire'[i].id, activeId)
<1>1. wire # << >> /\ wire' = Tail(wire) /\ wire \in Seq(Event) /\ Len(wire) <= MaxWire
      /\ \A i \in DOMAIN wire : Belongs(wire[i].id, activeId)
  BY DEF Deliver, IInv, TypeOK, Placed
<1>2. /\ wire[1] = Head(wire) /\ 1 \in DOMAIN wire /\ Len(wire) \in Nat /\ Len(wire) > 0
      /\ Head(wire) \in Event /\ Tail(wire) \in Seq(Event)
      /\ Len(Tail(wire)) = Len(wire) - 1
      /\ \A i \in 1..Len(Tail(wire)) : Tail(wire)[i] = wire[i + 1] /\ i + 1 \in DOMAIN wire
  BY <1>1
<1>3. Len(wire') <= MaxWire
  BY <1>1, <1>2, Numbers
<1> QED
  BY <1>1, <1>2, <1>3

LEMMA DeliverInv ==
  ASSUME IInv, Deliver
  PROVE  IInv'
<1> DEFINE e == Head(wire)
<1>0. UNCHANGED <<threads, runs, activeId, draft, pending, run, call, poll, loading, drawn, typed, moved, back, late, displaced, scope>>
  BY DEF Deliver, backend, history
<1>1. /\ e \in Event /\ e.id \in Id /\ e.v \in Version /\ e.streaming \in BOOLEAN
      /\ Belongs(e.id, activeId)
  BY DeliverDoes DEF Event
<1>2. /\ messages' \in [Id -> Shown \cup {NotShown}] /\ sending' \in BOOLEAN
      /\ \A q \in Id : messages'[q] # NotShown => messages[q] # NotShown \/ Belongs(q, activeId)
  <2>1. CASE e.kind = "error"
    <3>1. messages' = [q \in Id |-> [messages[q] EXCEPT !.streaming = FALSE]] /\ sending' = FALSE
      BY <2>1 DEF Deliver
    <3>2. ASSUME NEW q \in Id
          PROVE  /\ [messages[q] EXCEPT !.streaming = FALSE] \in Shown \cup {NotShown}
                 /\ messages[q] = NotShown => [messages[q] EXCEPT !.streaming = FALSE] = NotShown
      <4>1. messages[q] \in Shown \/ messages[q] = NotShown
        BY DEF IInv, TypeOK
      <4>2. CASE messages[q] \in Shown
        <5>1. \A m \in Shown : [m EXCEPT !.streaming = FALSE] \in Shown
          BY DEF Shown
        <5>2. messages[q] # NotShown
          BY <4>2, Numbers DEF Shown, NotShown
        <5> QED
          BY <4>2, <5>1, <5>2
      <4>3. CASE messages[q] = NotShown
        <5>1. \A m \in [v: {Hidden}, streaming: {FALSE}] : [m EXCEPT !.streaming = FALSE] = m
          OBVIOUS
        <5>2. NotShown \in [v: {Hidden}, streaming: {FALSE}]
          BY DEF NotShown
        <5> QED
          BY <4>3, <5>1, <5>2
      <4> QED
        BY <4>1, <4>2, <4>3
    <3> QED
      BY <3>1, <3>2
  <2>2. CASE e.kind # "error"
    <3>1. /\ messages' = Upsert(messages, e.id, [v |-> e.v, streaming |-> e.streaming])
          /\ sending' = (sending /\ e.streaming)
      BY <2>2 DEF Deliver
    <3>2. [v |-> e.v, streaming |-> e.streaming] \in Shown
      BY <1>1 DEF Shown
    <3>3. /\ messages' \in [Id -> Shown \cup {NotShown}]
          /\ \A q \in Id : q # e.id => messages'[q] = messages[q]
      <4> HIDE DEF e
      <4> QED
        BY <1>1, <3>1, <3>2, UpsertDoes DEF IInv
    <3>4. sending' \in BOOLEAN
      BY <3>1, <1>1 DEF IInv, TypeOK
    <3> QED
      BY <1>1, <3>3, <3>4
  <2> QED
    BY <2>1, <2>2
<1>3. run' \in Seen \cup {Idle} /\ (run' # Idle => run'.thread = activeId) /\ loading' \in BOOLEAN
  BY <1>0 DEF IInv, TypeOK, Placed
<1> QED
  BY <1>0, <1>2, <1>3, DeliverDoes, MessagesInv

-----------------------------------------------------------------------------
(* The theorems *)

LEMMA NextInv == IInv /\ [Next]_vars => IInv'
<1> SUFFICES ASSUME IInv, [Next]_vars PROVE IInv'
  OBVIOUS
<1>1. ASSUME NEW i \in DOMAIN runs, Proceed(i) PROVE IInv'
  BY <1>1, ProceedInv
<1>2. CASE NewChat \/ \E t \in Thread : SelectThread(t) \/ Back(t)
  BY <1>2, OpenInv
<1>3. ASSUME NEW t \in Thread, Delete(t) \/ Deleted(t) PROVE IInv'
  BY <1>3, DeleteInv, DeletedInv
<1>4. CASE Steer \/ \E e \in Entry : SendMessage(e)
  BY <1>4, SteerInv, SendMessageInv
<1>5. ASSUME NEW e \in Entry, Handle(e) PROVE IInv'
  <2>1. CreateThread(e) \/ CreateRun(e)
    BY <1>5 DEF Handle
  <2> QED
    BY <1>5, <2>1, CreateThreadInv, CreateRunInv
<1>6. ASSUME NEW e \in Entry, Answer(e) PROVE IInv'
  BY <1>6, CreatedInv, AcceptedInv, FailedInv DEF Answer
<1>7. CASE Poll \/ PollFails \/ ApplyPoll \/ Load \/ Deliver
  BY <1>7, PollInv, ApplyPollInv, LoadInv, DeliverInv
<1>8. CASE UNCHANGED vars
  <2>1. UNCHANGED <<threads, runs, activeId, draft, sending, messages, pending, run, call, poll, loading, wire,
                    drawn, typed, moved, back, late, displaced, scope>>
    BY <1>8 DEF vars, backend, inbound, history
  <2>2. TypeOK'
    BY <2>1 DEF IInv, TypeOK
  <2> QED
    BY <2>1, <2>2, AddressedSame, ComposerInv DEF IInv
<1> QED
  BY <1>1, <1>2, <1>3, <1>4, <1>5, <1>6, <1>7, <1>8 DEF Next

\* The invariant of the view holds in every state.
THEOREM Invariance == Spec => []IInv
  BY InitInv, NextInv, PTL DEF Spec

\* What the view, its requests and its socket hold has its type, with at most
\* MaxWire events under way and every message under the id of a reply.
THEOREM TypeCorrect == Spec => []TypeOK
<1>1. IInv => TypeOK
  BY DEF IInv
<1> QED
  BY <1>1, Invariance, PTL

\* The view never shows a message, nor controls a run, of another conversation
\* than the one that is open, whatever polls, events, loads and answers arrive
\* after the person opened it (activateConversation, the effects of App).
THEOREM ViewIsOneConversation == Spec => []OneConversation
<1>1. IInv => OneConversation
  BY ThreadOfIs DEF IInv, Placed, OneConversation
<1> QED
  BY <1>1, Invariance, PTL

\* The view is not left on a conversation the person was told is deleted, unless
\* they went back to it, or deleted it while an accepted message to it was
\* unanswered: that answer opens it again (deleteThread, sendMessage).
THEOREM DeletionIsSeen == Spec => []DeletedIsLeft
<1>1. IInv => DeletedIsLeft
  BY DEF IInv, Left
<1> QED
  BY <1>1, Invariance, PTL

\* A message that is complete stays so or leaves the list.
Kept(q) == messages[q] # NotShown /\ ~messages[q].streaming => messages'[q] = NotShown \/ ~messages'[q].streaming

LEMMA UpsertKeeps ==
  ASSUME TypeOK, NEW p \in Id, NEW m \in Shown, messages' = Upsert(messages, p, m)
  PROVE  \A q \in Id : Kept(q)
  BY DEF TypeOK, Upsert, Kept

LEMMA StepKeeps ==
  ASSUME IInv, Next
  PROVE  \A q \in Id : Kept(q)
<1>1. CASE UNCHANGED messages
  BY <1>1 DEF Kept
<1>2. CASE \E t : Activate(t)
  BY <1>2 DEF Activate, Kept
<1>3. CASE \E e \in Entry : Created(e)
  BY <1>3 DEF Created, Kept
<1>4. CASE ApplyPoll
  <2> DEFINE r == poll.run
  <2>1. CASE messages' = messages
    BY <2>1 DEF Kept
  <2>2. CASE r # Idle /\ messages' = Upsert(messages, r.id, [v |-> r.v, streaming |-> r.active])
    <3>1. r \in Seen
      BY <1>4, <2>2 DEF ApplyPoll, IInv, TypeOK
    <3>2. r.id \in Id /\ [v |-> r.v, streaming |-> r.active] \in Shown
      BY <3>1 DEF Seen, Shown
    <3> QED
      BY <2>2, <3>2, UpsertKeeps DEF IInv
  <2> QED
    BY <1>4, <2>1, <2>2 DEF ApplyPoll
<1>5. CASE Load
  <2>1. CASE UNCHANGED messages
    BY <2>1 DEF Kept
  <2>2. CASE \E rows \in Rows(activeId) : messages' = Merge(messages, rows, activeId)
    <3>1. PICK rows \in Rows(activeId) : messages' = Merge(messages, rows, activeId)
      BY <2>2
    <3>2. \A q \in Id : messages'[q] \in {messages[q], [v |-> rows[q], streaming |-> FALSE], NotShown}
      BY <3>1 DEF Merge
    <3> QED
      BY <3>2 DEF Kept
  <2> QED
    BY <1>5, <2>1, <2>2 DEF Load
<1>6. CASE Deliver
  <2> DEFINE e == Head(wire)
  <2>1. e \in Event /\ e.id \in Id /\ [v |-> e.v, streaming |-> e.streaming] \in Shown
    BY <1>6, DeliverDoes DEF Event, Shown
  <2>2. CASE e.kind = "error"
    <3>1. messages' = [q \in Id |-> [messages[q] EXCEPT !.streaming = FALSE]]
      BY <1>6, <2>2 DEF Deliver
    <3>2. \A q \in Id : messages[q] \in Shown \/ messages[q] = NotShown
      BY DEF IInv, TypeOK
    <3> QED
      BY <3>1, <3>2 DEF Kept, Shown, NotShown
  <2>3. CASE e.kind # "error"
    <3>1. messages' = Upsert(messages, e.id, [v |-> e.v, streaming |-> e.streaming])
      BY <1>6, <2>3 DEF Deliver
    <3> HIDE DEF e
    <3> QED
      BY <2>1, <3>1, UpsertKeeps DEF IInv
  <2> QED
    BY <2>2, <2>3
<1>7. UNCHANGED messages \/ (\E t : Activate(t)) \/ (\E e \in Entry : Created(e)) \/ ApplyPoll \/ Load \/ Deliver
  BY DEF Next, Proceed, NewChat, SelectThread, Back, Open, Delete, Deleted, Steer, SendMessage,
         Handle, Answer, Accepted, Failed, Poll, PollFails
<1> QED
  BY <1>1, <1>2, <1>3, <1>4, <1>5, <1>6, <1>7

\* While a conversation is open, no poll, event or load turns a complete reply
\* into a fragment again (upsertMessage, mergeThreadMessages).
THEOREM CompleteRepliesStay == Spec => CompleteStays
<1>1. IInv /\ [Next]_vars =>
        [\A q \in Id : messages[q] # NotShown /\ ~messages[q].streaming
              => messages'[q] = NotShown \/ ~messages'[q].streaming]_vars
  BY StepKeeps DEF Kept
<1> QED
  BY <1>1, Invariance, PTL DEF Spec, CompleteStays

-----------------------------------------------------------------------------
(* Retries *)

\* The pending submission is that of message e, with id q.
Holds(e, q) == pending # Idle /\ pending.entry = e /\ pending.id = q

\* A text that was given back is of a message that is not under way; messages
\* that were not typed have neither a call nor a run.
Typed ==
    /\ draft <= typed
    /\ \A e \in Entry : call[e] # Idle => e <= typed /\ draft # e
    /\ \A i \in DOMAIN runs : runs[i].entry <= typed

\* The pending submission is to the open conversation; a submission of the view
\* holds it unless it was displaced.
PendingIsItsOwn ==
    /\ pending # Idle => pending.thread = activeId
    /\ \A e \in Entry \ displaced : Posted(call[e]) /\ call[e].current => Holds(e, call[e].id)

\* A message that runs already is sent again with the id of its run only, be it
\* under way or given back.
RunIsKnown ==
    \A i \in DOMAIN runs : \A e \in Entry \ displaced : runs[i].entry = e =>
        /\ draft = e => Holds(e, runs[i].id)
        /\ call[e] # Idle => Posted(call[e]) /\ call[e].id = runs[i].id

RInv == Typed /\ PendingIsItsOwn /\ RunIsKnown /\ RetryIsSame

LEMMA RInit == Init => RInv
<1> SUFFICES ASSUME Init PROVE RInv
  OBVIOUS
<1>1. Typed
  BY DEF Init, Typed, None
<1>2. PendingIsItsOwn
  BY DEF Init, PendingIsItsOwn, Posted, Idle
<1>3. RunIsKnown /\ RetryIsSame
  BY DEF Init, RunIsKnown, RetryIsSame
<1> QED
  BY <1>1, <1>2, <1>3 DEF RInv

LEMMA TypedNumbers ==
  ASSUME TypeOK
  PROVE  typed \in Nat /\ draft \in Nat
  BY Numbers DEF TypeOK

\* What the backend, polls and the socket do is no matter of submissions.
LEMMA ElsewhereR ==
  ASSUME RInv, UNCHANGED <<activeId, draft, pending, call, typed, displaced>>,
         DOMAIN runs' = DOMAIN runs,
         \A j \in DOMAIN runs : runs'[j].id = runs[j].id /\ runs'[j].entry = runs[j].entry
  PROVE  RInv'
<1>1. Typed'
  BY DEF RInv, Typed
<1>2. PendingIsItsOwn'
  BY DEF RInv, PendingIsItsOwn, Posted, Holds
<1>3. RunIsKnown'
  BY DEF RInv, RunIsKnown, Posted, Holds
<1>4. RetryIsSame'
  BY DEF RInv, RetryIsSame
<1> QED
  BY <1>1, <1>2, <1>3, <1>4 DEF RInv

LEMMA ActivateR ==
  ASSUME IInv, RInv, NEW t, Activate(t)
  PROVE  RInv'
<1>1. /\ draft' = None /\ pending' = Idle /\ UNCHANGED <<runs, typed, displaced>>
      /\ call' = [e \in Entry |-> IF call[e] = Idle THEN Idle ELSE [call[e] EXCEPT !.current = FALSE]]
  BY DEF Activate
<1>2. \A e \in Entry : /\ call'[e] # Idle => call[e] # Idle /\ call'[e].current = FALSE
                       /\ call'[e].pc = call[e].pc
                       /\ call[e] # Idle => call'[e].id = call[e].id
  <2>1. \A e \in Entry : call[e] # Idle =>
          /\ [call[e] EXCEPT !.current = FALSE].current = FALSE
          /\ [call[e] EXCEPT !.current = FALSE].pc = call[e].pc
          /\ [call[e] EXCEPT !.current = FALSE].id = call[e].id
    BY DEF IInv, TypeOK, Call
  <2> QED
    BY <1>1, <2>1
<1>3. \A e \in Entry : (Posted(call'[e]) <=> Posted(call[e])) /\ (Posted(call[e]) => call[e] # Idle)
  BY <1>2 DEF Posted, Idle
<1>4. \A e \in Entry : draft' # e
  BY <1>1, Numbers
<1>5. Typed'
  <2>1. draft' <= typed'
    BY <1>1, TypedNumbers DEF None, IInv
  <2> QED
    BY <1>1, <1>2, <1>4, <2>1 DEF RInv, Typed
<1>6. PendingIsItsOwn'
  BY <1>1, <1>2, <1>3 DEF PendingIsItsOwn, Posted, Idle
<1>7. RunIsKnown'
  <2> HIDE DEF Posted
  <2> QED
    BY <1>1, <1>2, <1>3, <1>4 DEF RInv, RunIsKnown
<1>8. RetryIsSame'
  BY <1>1 DEF RInv, RetryIsSame
<1> QED
  BY <1>5, <1>6, <1>7, <1>8 DEF RInv

LEMMA SteerR ==
  ASSUME IInv, RInv, Steer
  PROVE  RInv'
<1>1. /\ draft' = None /\ UNCHANGED <<runs, activeId, pending, call, typed, displaced>>
  BY DEF Steer, backend, history
<1>2. Typed'
  <2>1. draft' <= typed' /\ \A e \in Entry : draft' # e
    BY <1>1, Numbers, TypedNumbers DEF None, IInv
  <2> QED
    BY <1>1, <2>1 DEF RInv, Typed
<1>3. PendingIsItsOwn'
  BY <1>1 DEF RInv, PendingIsItsOwn, Posted, Holds
<1>4. RunIsKnown'
  BY <1>1, Numbers DEF RInv, RunIsKnown
<1>5. RetryIsSame'
  BY <1>1 DEF RInv, RetryIsSame
<1> QED
  BY <1>2, <1>3, <1>4, <1>5 DEF RInv

\* A message keeps its own pending submission, or is displaced, when another is
\* sent or accepted.
LEMMA HoldsOrDisplaced ==
  ASSUME TypeOK, NEW e \in Entry, NEW f \in Entry, f # e, NEW q, Holds(f, q), Displace(e)
  PROVE  f \in displaced'
  BY DisplaceDoes DEF Holds

\* A message is submitted to the open conversation, or to the one just made for
\* it, with the id its run has, if it has one.
LEMMA SubmitR ==
  ASSUME IInv, RInv, NEW t \in Thread, NEW e \in Entry, Submit(t, e), e <= typed', typed <= typed', typed' \in Nat,
         UNCHANGED runs, activeId' = t, draft' # e, draft' \in {draft, None},
         \A i \in DOMAIN runs : runs[i].entry = e => e \in displaced \/ (Holds(e, runs[i].id) /\ pending.thread = t)
  PROVE  RInv'
<1>1. /\ pending' = [id |-> pending'.id, thread |-> t, entry |-> e] /\ pending' \in Submission
      /\ displaced' \subseteq Entry
      /\ call'[e] = [pc |-> "post", current |-> TRUE, id |-> pending'.id, thread |-> t]
      /\ \A f \in Entry : f # e => call'[f] = call[f]
  BY SubmitDoes DEF IInv
<1>2. pending' # Idle /\ pending'.thread = t /\ pending'.entry = e
  BY <1>1 DEF Submission, Idle
<1>3. call'[e].pc = "post" /\ call'[e].id = pending'.id /\ Posted(call'[e])
  BY <1>1 DEF Posted
<1>4. Displace(e) /\ displaced \subseteq displaced'
  BY DisplaceDoes DEF Submit, IInv
<1>5. \A f \in Entry \ displaced' : \A q : f # e => ~Holds(f, q)
  BY <1>4, HoldsOrDisplaced DEF IInv
<1>6. Typed'
  <2>0. /\ typed \in Nat /\ typed' \in Nat /\ typed <= typed' /\ draft \in Nat
    BY TypedNumbers DEF IInv
  <2>1. draft' <= typed'
    BY <2>0, Later DEF RInv, Typed, None
  <2>2. ASSUME NEW f \in Entry, call'[f] # Idle PROVE f <= typed' /\ draft' # f
    <3>1. CASE f = e
      BY <3>1
    <3>2. CASE f # e
      <4>1. f <= typed /\ draft # f /\ f \in Nat
        BY <1>1, <2>2, <3>2, Numbers DEF RInv, Typed
      <4> QED
        BY <2>0, <4>1, Later, Numbers
    <3> QED
      BY <3>1, <3>2
  <2>3. ASSUME NEW i \in DOMAIN runs PROVE runs[i].entry <= typed'
    <3>1. runs[i].entry \in Entry
      BY RunTyped DEF IInv
    <3>2. runs[i].entry \in Nat /\ runs[i].entry <= typed
      BY <3>1, Numbers DEF RInv, Typed
    <3> QED
      BY <2>0, <3>2, Later
  <2> QED
    BY <2>1, <2>2, <2>3 DEF Typed
<1>7. PendingIsItsOwn'
  <2> SUFFICES ASSUME NEW f \in Entry \ displaced', Posted(call'[f]), call'[f].current
               PROVE  pending'.entry = f /\ pending'.id = call'[f].id
    BY <1>2 DEF PendingIsItsOwn, Holds
  <2>1. f = e
    <3>1. ASSUME f # e PROVE FALSE
      <4>1. f \in Entry \ displaced /\ Posted(call[f]) /\ call[f].current
        BY <1>1, <1>4, <3>1
      <4> QED
        BY <1>5, <3>1, <4>1 DEF RInv, PendingIsItsOwn
    <3> QED
      BY <3>1
  <2> QED
    BY <1>2, <1>3, <2>1
<1>8. RunIsKnown'
  <2> SUFFICES ASSUME NEW i \in DOMAIN runs, NEW f \in Entry \ displaced', runs[i].entry = f
               PROVE  /\ draft' # f
                      /\ call'[f] # Idle => Posted(call'[f]) /\ call'[f].id = runs[i].id
    BY DEF RunIsKnown
  <2>1. f \in Entry \ displaced
    BY <1>4
  <2>2. CASE f = e
    <3>1. Holds(e, runs[i].id) /\ pending.thread = t
      BY <2>1, <2>2
    <3>2. pending' = pending
      BY <3>1 DEF Submit, Same, Holds
    <3> QED
      BY <1>3, <2>2, <3>1, <3>2 DEF Holds
  <2>3. CASE f # e
    <3>1. /\ draft = f => Holds(f, runs[i].id)
          /\ call[f] # Idle => Posted(call[f]) /\ call[f].id = runs[i].id
      BY <2>1 DEF RInv, RunIsKnown
    <3>2. draft' # f
      BY <1>5, <2>3, <3>1, Numbers
    <3> QED
      BY <1>1, <2>3, <3>1, <3>2
  <2> QED
    BY <2>2, <2>3
<1>9. RetryIsSame'
  BY <1>4 DEF RInv, RetryIsSame
<1> QED
  BY <1>6, <1>7, <1>8, <1>9 DEF RInv

LEMMA SendMessageR ==
  ASSUME IInv, RInv, NEW e \in Entry, SendMessage(e)
  PROVE  RInv'
<1>1. /\ UNCHANGED <<runs, activeId>> /\ draft' = None /\ \A f \in Entry : draft' # f
      /\ e = draft \/ e = typed + 1
      /\ typed' = IF e = draft THEN typed ELSE e
  BY CanSendIs, Numbers DEF SendMessage, backend, IInv
<1>2. typed \in Nat /\ e \in Nat /\ typed' \in Nat /\ e <= typed' /\ typed <= typed' /\ draft' <= typed'
  <2>1. typed \in Nat /\ draft \in Nat /\ e \in Nat /\ draft <= typed
    BY TypedNumbers, Numbers DEF IInv, RInv, Typed
  <2> QED
    BY <1>1, <2>1 DEF None
<1>3. pending # Idle => pending.thread \in Thread /\ pending.thread = activeId
  BY DEF IInv, TypeOK, Submission, RInv, PendingIsItsOwn
<1>4. ASSUME NEW i \in DOMAIN runs, runs[i].entry = e
      PROVE  e \in displaced \/ (Holds(e, runs[i].id) /\ pending.thread = activeId)
  <2>1. e = draft
    <3>1. e <= typed
      BY <1>4 DEF RInv, Typed
    <3> QED
      BY <1>1, <1>2, <3>1
  <2>2. e \in displaced \/ Holds(e, runs[i].id)
    BY <1>4, <2>1 DEF RInv, RunIsKnown
  <2> QED
    BY <1>3, <2>2 DEF Holds
<1>5. CASE activeId = Nowhere
  <2>1. /\ call' = [call EXCEPT ![e] = [pc |-> "create", current |-> TRUE, id |-> None, thread |-> Nowhere]]
        /\ UNCHANGED <<pending, drawn, displaced>>
    BY <1>5 DEF SendMessage
  <2>2. /\ call'[e].pc = "create" /\ \A f \in Entry : f # e => call'[f] = call[f]
    BY <2>1 DEF IInv, TypeOK
  <2>3. pending = Idle /\ ~Posted(call'[e])
    BY <1>3, <1>5, <2>2, ThreadAssumption DEF Posted
  <2>4. Typed'
    <3>1. ASSUME NEW f \in Entry, call'[f] # Idle PROVE f <= typed'
      <4>1. CASE f = e
        BY <1>2, <4>1
      <4>2. CASE f # e
        BY <1>2, <2>2, <3>1, <4>2, Later, Numbers DEF RInv, Typed
      <4> QED
        BY <4>1, <4>2
    <3>2. ASSUME NEW i \in DOMAIN runs PROVE runs[i].entry <= typed'
      <4>1. runs[i].entry \in Entry
        BY RunTyped DEF IInv
      <4>2. runs[i].entry \in Nat /\ runs[i].entry <= typed
        BY <4>1, Numbers DEF RInv, Typed
      <4> QED
        BY <1>2, <4>2, Later
    <3> QED
      BY <1>1, <1>2, <3>1, <3>2 DEF Typed
  <2>5. PendingIsItsOwn'
    <3> SUFFICES ASSUME NEW f \in Entry \ displaced, Posted(call'[f]), call'[f].current PROVE FALSE
      BY <2>1, <2>3 DEF PendingIsItsOwn
    <3>1. f # e /\ call'[f] = call[f]
      BY <2>2, <2>3
    <3> QED
      BY <2>3, <3>1 DEF RInv, PendingIsItsOwn, Holds
  <2>6. RunIsKnown'
    <3> SUFFICES ASSUME NEW i \in DOMAIN runs, NEW f \in Entry \ displaced, runs[i].entry = f, call'[f] # Idle
                 PROVE  Posted(call'[f]) /\ call'[f].id = runs[i].id
      <4>1. runs' = runs /\ displaced' = displaced /\ \A f \in Entry : draft' # f
        BY <1>1, <2>1
      <4> HIDE DEF Posted
      <4> QED
        BY <4>1 DEF RunIsKnown
    <3>1. f # e
      BY <1>4, <2>3 DEF Holds
    <3>2. call'[f] = call[f]
      BY <2>2, <3>1
    <3> QED
      BY <3>2 DEF RInv, RunIsKnown
  <2>7. RetryIsSame'
    BY <1>1, <2>1 DEF RInv, RetryIsSame
  <2> QED
    BY <2>4, <2>5, <2>6, <2>7 DEF RInv
<1>6. CASE activeId # Nowhere
  <2>1. activeId \in Thread /\ Submit(activeId, e)
    BY <1>6 DEF SendMessage, IInv, TypeOK, Place
  <2> QED
    BY <1>1, <1>2, <1>4, <2>1, SubmitR
<1> QED
  BY <1>5, <1>6

LEMMA CreateThreadR ==
  ASSUME IInv, RInv, NEW e \in Entry, Handle(e), CreateThread(e)
  PROVE  RInv'
<1>0. UNCHANGED <<activeId, draft, pending, typed, runs, displaced>> /\ call[e].pc = "create" /\ call[e] # Idle
  BY DEF Handle, CreateThread, Idle, history
<1>1. PICK t \in Thread : call' = [call EXCEPT ![e].pc = "created", ![e].thread = t]
  BY DEF CreateThread
<1>2. call[e] \in Call
  BY <1>0 DEF IInv, TypeOK
<1>3. /\ call'[e].pc = "created" /\ call'[e].current = call[e].current
      /\ \A f \in Entry : f # e => call'[f] = call[f]
  BY <1>1, <1>2 DEF IInv, TypeOK, Call
<1>4. \A f \in Entry : /\ call'[f] # Idle => call[f] # Idle
                       /\ Posted(call'[f]) => Posted(call[f]) /\ call'[f] = call[f]
  BY <1>0, <1>3 DEF Posted
<1>5. Typed'
  BY <1>0, <1>4 DEF RInv, Typed
<1>6. PendingIsItsOwn'
  <2> HIDE DEF Posted
  <2> QED
    BY <1>0, <1>4 DEF RInv, PendingIsItsOwn, Holds
<1>7. RunIsKnown'
  <2>1. \A i \in DOMAIN runs : runs[i].entry = e => e \in displaced
    BY <1>0 DEF RInv, RunIsKnown, Posted
  <2> QED
    BY <1>0, <1>3, <2>1 DEF RInv, RunIsKnown, Holds
<1>8. RetryIsSame'
  BY <1>0 DEF RInv, RetryIsSame
<1> QED
  BY <1>5, <1>6, <1>7, <1>8 DEF RInv

\* The run of a message that has one has its id, so a second one is not made.
LEMMA CreateRunR ==
  ASSUME IInv, RInv, NEW e \in Entry, Handle(e), CreateRun(e)
  PROVE  RInv'
<1> DEFINE new == NewRun(call[e].id, call[e].thread, e)
<1>0. UNCHANGED <<activeId, draft, pending, typed, displaced>>
      /\ Posted(call[e]) /\ call[e] # Idle
  BY DEF Handle, CreateRun, Posted, Idle, history
<1>1. /\ Posted(call'[e])
      /\ call'[e].id = call[e].id /\ call'[e].current = call[e].current
      /\ \A f \in Entry : f # e => call'[f] = call[f]
  BY CreateRunDoes DEF Posted
<1>2. \A f \in Entry : /\ call'[f] # Idle => call[f] # Idle
                       /\ Posted(call'[f]) <=> Posted(call[f])
                       /\ Posted(call'[f]) => call'[f].id = call[f].id /\ call'[f].current = call[f].current
  BY <1>0, <1>1
<1>3. PendingIsItsOwn'
  BY <1>0, <1>2 DEF RInv, PendingIsItsOwn, Holds
<1>4. \A i \in DOMAIN runs : \A f \in Entry \ displaced : runs[i].entry = f =>
        /\ draft = f => Holds(f, runs[i].id)
        /\ call'[f] # Idle => Posted(call'[f]) /\ call'[f].id = runs[i].id
  BY <1>2 DEF RInv, RunIsKnown
<1>5. CASE runs' = runs
  <2>1. Typed' /\ RetryIsSame'
    BY <1>0, <1>2, <1>5 DEF RInv, Typed, RetryIsSame
  <2>2. RunIsKnown'
    BY <1>0, <1>4, <1>5 DEF RunIsKnown, Holds
  <2> QED
    BY <1>3, <2>1, <2>2 DEF RInv
<1>6. CASE /\ runs' = Append(runs, new) /\ new \in Run
           /\ \A i \in DOMAIN runs : runs[i].id # call[e].id
  <2>1. /\ DOMAIN runs' = DOMAIN runs \cup {Len(runs) + 1}
        /\ (\A i \in DOMAIN runs : runs'[i] = runs[i]) /\ runs'[Len(runs) + 1] = new
    <3>1. runs \in Seq(Run)
      BY DEF IInv, TypeOK
    <3> HIDE DEF new
    <3> QED
      BY <1>6, <3>1, AppendProperties
  <2>2. new.id = call[e].id /\ new.entry = e
    BY DEF NewRun
  <2> HIDE DEF new
  <2>3. \A i \in DOMAIN runs : runs[i].entry = e => e \in displaced
    BY <1>0, <1>6 DEF RInv, RunIsKnown
  <2>4. \A i \in DOMAIN runs' : (i \in DOMAIN runs /\ runs'[i] = runs[i]) \/ (i = Len(runs) + 1 /\ runs'[i] = new)
    BY <2>1
  <2>5. Typed'
    <3>1. e <= typed
      BY <1>0 DEF RInv, Typed
    <3> QED
      BY <1>0, <1>2, <2>2, <2>4, <3>1 DEF RInv, Typed
  <2>6. RunIsKnown'
    <3> SUFFICES ASSUME NEW i \in DOMAIN runs', NEW f \in Entry \ displaced, runs'[i].entry = f
                 PROVE  /\ draft = f => Holds(f, runs'[i].id)
                        /\ call'[f] # Idle => Posted(call'[f]) /\ call'[f].id = runs'[i].id
      BY <1>0 DEF RunIsKnown, Holds
    <3>1. CASE i \in DOMAIN runs /\ runs'[i] = runs[i]
      BY <1>4, <3>1
    <3>2. CASE runs'[i] = new
      <4>1. f = e /\ draft # f
        BY <1>0, <2>2, <3>2 DEF RInv, Typed
      <4> QED
        BY <1>1, <2>2, <3>2, <4>1
    <3> QED
      BY <2>4, <3>1, <3>2
  <2>7. RetryIsSame'
    <3> SUFFICES ASSUME NEW i \in DOMAIN runs', NEW j \in DOMAIN runs', runs'[i].entry = runs'[j].entry
                 PROVE  i = j \/ runs'[i].entry \in displaced
      BY <1>0 DEF RetryIsSame
    <3>1. CASE runs'[i] = new \/ runs'[j] = new
      BY <2>2, <2>3, <2>4, <3>1
    <3>2. CASE i \in DOMAIN runs /\ runs'[i] = runs[i] /\ j \in DOMAIN runs /\ runs'[j] = runs[j]
      BY <3>2 DEF RInv, RetryIsSame
    <3> QED
      BY <2>4, <3>1, <3>2
  <2> QED
    BY <1>3, <2>5, <2>6, <2>7 DEF RInv
<1> QED
  BY <1>5, <1>6, CreateRunDoes

\* A call ends: the text is given back, if the call is current.
LEMMA FailedR ==
  ASSUME IInv, RInv, NEW e \in Entry, call[e] # Idle, End(e),
         UNCHANGED <<runs, activeId, pending, typed, displaced>>,
         draft' = draft \/ (draft' = e /\ call[e].current)
  PROVE  RInv'
<1>1. call'[e] = Idle /\ \A f \in Entry : f # e => call'[f] = call[f]
  BY EndDoes DEF IInv
<1>2. \A f \in Entry : call'[f] # Idle => f # e /\ call'[f] = call[f]
  BY <1>1
<1>3. \A f \in Entry : Posted(call'[f]) => call'[f] # Idle
  BY DEF Posted, Idle
<1>4. Typed'
  BY <1>2 DEF RInv, Typed
<1>5. PendingIsItsOwn'
  BY <1>2, <1>3 DEF RInv, PendingIsItsOwn, Holds
<1>6. RunIsKnown'
  <2> SUFFICES ASSUME NEW i \in DOMAIN runs, NEW f \in Entry \ displaced, runs[i].entry = f
               PROVE  /\ draft' = f => Holds(f, runs[i].id)
                      /\ call'[f] # Idle => Posted(call'[f]) /\ call'[f].id = runs[i].id
    BY DEF RunIsKnown, Holds
  <2>1. /\ draft = f => Holds(f, runs[i].id)
        /\ call[f] # Idle => Posted(call[f]) /\ call[f].id = runs[i].id
    BY DEF RInv, RunIsKnown
  <2>2. ASSUME f = e, call[e].current PROVE Holds(f, runs[i].id)
    BY <2>1, <2>2 DEF RInv, PendingIsItsOwn
  <2> QED
    BY <1>2, <2>1, <2>2
<1>7. RetryIsSame'
  BY DEF RInv, RetryIsSame
<1> QED
  BY <1>4, <1>5, <1>6, <1>7 DEF RInv

\* An accepted message clears the pending submission, of which no other message
\* is left without being displaced.
LEMMA AcceptedR ==
  ASSUME IInv, RInv, NEW e \in Entry, Accepted(e)
  PROVE  RInv'
<1>1. /\ call[e] # Idle /\ End(e) /\ pending' = Idle /\ Displace(e)
      /\ UNCHANGED <<runs, draft, typed>>
  BY DEF Accepted, backend, Idle
<1>2. \A f \in Entry : call'[f] # Idle => f # e /\ call'[f] = call[f]
  BY <1>1, EndDoes DEF IInv
<1>3. \A f \in Entry : Posted(call'[f]) => call'[f] # Idle
  BY DEF Posted, Idle
<1>4. displaced \subseteq displaced' /\ \A f \in Entry \ displaced' : \A q : f # e => ~Holds(f, q)
  BY <1>1, DisplaceDoes, HoldsOrDisplaced DEF IInv
<1>5. Typed'
  BY <1>1, <1>2 DEF RInv, Typed
<1>6. PendingIsItsOwn'
  <2> SUFFICES ASSUME NEW f \in Entry \ displaced', Posted(call'[f]), call'[f].current PROVE FALSE
    BY <1>1 DEF PendingIsItsOwn
  <2>1. f # e /\ call'[f] = call[f] /\ f \in Entry \ displaced
    BY <1>2, <1>3, <1>4
  <2> QED
    BY <1>4, <2>1 DEF RInv, PendingIsItsOwn
<1>7. RunIsKnown'
  <2> SUFFICES ASSUME NEW i \in DOMAIN runs, NEW f \in Entry \ displaced', runs[i].entry = f
               PROVE  /\ draft # f
                      /\ call'[f] # Idle => Posted(call'[f]) /\ call'[f].id = runs[i].id
    BY <1>1 DEF RunIsKnown
  <2>1. /\ draft = f => Holds(f, runs[i].id)
        /\ call[f] # Idle => Posted(call[f]) /\ call[f].id = runs[i].id
    BY <1>4 DEF RInv, RunIsKnown
  <2>2. draft = f => f # e
    BY <1>1 DEF RInv, Typed
  <2> QED
    BY <1>2, <1>4, <2>1, <2>2
<1>8. RetryIsSame'
  BY <1>1, <1>4 DEF RInv, RetryIsSame
<1> QED
  BY <1>5, <1>6, <1>7, <1>8 DEF RInv

LEMMA AnswerR ==
  ASSUME IInv, RInv, NEW e \in Entry, Answer(e)
  PROVE  RInv'
<1>0. call[e] # Idle
  BY DEF Answer, Created, Accepted, Failed, Idle
<1>1. CASE Failed(e)
  BY <1>0, <1>1, FailedR DEF Failed, backend, history
<1>2. CASE Accepted(e)
  BY <1>2, AcceptedR
<1>3. CASE Created(e) /\ ~call[e].current
  BY <1>0, <1>3, FailedR DEF Created, backend
<1>4. CASE Created(e) /\ call[e].current
  <2> DEFINE t == call[e].thread
  <2>1. /\ t \in Thread /\ Submit(t, e) /\ activeId' = t /\ UNCHANGED <<runs, draft, typed>>
        /\ call[e].pc = "created"
    BY <1>4 DEF Created, SetActive, backend, IInv, Left
  <2>2. typed' \in Nat /\ typed <= typed' /\ e <= typed' /\ draft' # e
    <3>1. typed \in Nat
      BY TypedNumbers DEF IInv
    <3>2. typed <= typed
      BY <3>1
    <3> QED
      BY <1>0, <2>1, <3>1, <3>2 DEF RInv, Typed
  <2>3. \A i \in DOMAIN runs : runs[i].entry = e => e \in displaced
    BY <1>0, <2>1 DEF RInv, RunIsKnown, Posted
  <2> HIDE DEF t
  <2> QED
    BY <2>1, <2>2, <2>3, SubmitR
<1> QED
  BY <1>1, <1>2, <1>3, <1>4 DEF Answer

LEMMA RNext ==
  ASSUME IInv, RInv, [Next]_vars
  PROVE  RInv'
<1>1. ASSUME NEW i \in DOMAIN runs, Proceed(i) PROVE RInv'
  <2>1. UNCHANGED <<activeId, draft, pending, call, typed, displaced>>
    BY <1>1 DEF Proceed, history
  <2> QED
    BY <1>1, <2>1, ProceedDoes, ElsewhereR
<1>2. ASSUME NEW t, Activate(t) PROVE RInv'
  BY <1>2, ActivateR
<1>3. CASE Steer \/ \E e \in Entry : SendMessage(e)
  BY <1>3, SteerR, SendMessageR
<1>4. ASSUME NEW e \in Entry, Handle(e) PROVE RInv'
  <2>1. CreateThread(e) \/ CreateRun(e)
    BY <1>4 DEF Handle
  <2> QED
    BY <1>4, <2>1, CreateThreadR, CreateRunR
<1>5. ASSUME NEW e \in Entry, Answer(e) PROVE RInv'
  BY <1>5, AnswerR
<1>6. CASE UNCHANGED <<runs, activeId, draft, pending, call, typed, displaced>>
  BY <1>6, ElsewhereR
<1>7. ASSUME NEW t \in Thread, Delete(t) \/ Deleted(t)
      PROVE  (\E u : Activate(u)) \/ UNCHANGED <<runs, activeId, draft, pending, call, typed, displaced>>
  BY <1>7 DEF Delete, Deleted, history
<1>8. ASSUME Poll \/ PollFails \/ ApplyPoll \/ Load \/ Deliver \/ UNCHANGED vars
      PROVE  UNCHANGED <<runs, activeId, draft, pending, call, typed, displaced>>
  BY <1>8 DEF Poll, PollFails, ApplyPoll, Load, Deliver, vars, backend, history
<1>9. ASSUME NewChat \/ \E t \in Thread : SelectThread(t) \/ Back(t)
      PROVE  \E u : Activate(u)
  BY <1>9 DEF NewChat, SelectThread, Back, Open
<1> QED
  BY <1>1, <1>2, <1>3, <1>4, <1>5, <1>6, <1>7, <1>8, <1>9 DEF Next

\* A message that is retried, however often its submission seems to fail,
\* wherever the person goes and whatever else they send meanwhile, runs once
\* (sendMessage, the pending submission), unless the submission of another
\* message replaced its pending submission, or the acceptance of another cleared
\* it; the run ClientRetry shows what happens then.
THEOREM RetryRunsOnce == Spec => []RetryIsSame
<1>1. Init => IInv /\ RInv
  BY InitInv, RInit
<1>2. (IInv /\ RInv) /\ [Next]_vars => (IInv /\ RInv)'
  BY NextInv, RNext
<1>3. IInv /\ RInv => RetryIsSame
  BY DEF RInv
<1> QED
  BY <1>1, <1>2, <1>3, PTL DEF Spec

-----------------------------------------------------------------------------
(* The composer of the new chat *)

\* Nothing polls the new chat, so only the call that locked its composer can
\* free it; that call is still under way, and still the view's.
Creating(e) == call[e].pc \in {"create", "created"} /\ call[e].current
NewChatIsFree ==
    /\ activeId = Nowhere => poll = Idle
    /\ activeId = Nowhere /\ sending => \E e \in Entry : Creating(e)

LEMMA SetActiveIsFree ==
  ASSUME NewChatIsFree, NEW t \in Place, SetActive(t)
  PROVE  activeId' = t /\ (activeId' = Nowhere => poll' = Idle)
  BY DEF SetActive, Switch, inbound, NewChatIsFree

LEMMA CreatingStays ==
  ASSUME NewChatIsFree, UNCHANGED <<activeId, poll>>, sending' => sending,
         \A e \in Entry : Creating(e) => Creating(e)'
  PROVE  NewChatIsFree'
  BY DEF NewChatIsFree

LEMMA SendIsFree ==
  ASSUME IInv, NewChatIsFree, NEW e \in Entry, SendMessage(e)
  PROVE  NewChatIsFree'
<1>1. UNCHANGED <<activeId, poll>>
  BY DEF SendMessage, inbound
<1>2. ASSUME activeId = Nowhere PROVE Creating(e)'
  <2>1. call' = [call EXCEPT ![e] = [pc |-> "create", current |-> TRUE, id |-> None, thread |-> Nowhere]]
    BY <1>2 DEF SendMessage
  <2> QED
    BY <2>1 DEF Creating, IInv, TypeOK
<1> QED
  BY <1>1, <1>2 DEF NewChatIsFree

LEMMA AnswerIsFree ==
  ASSUME IInv, NewChatIsFree, NEW e \in Entry, Answer(e)
  PROVE  NewChatIsFree'
<1>1. Nowhere \notin Thread /\ Thread \subseteq Place
  BY ThreadAssumption DEF Place
<1>2. CASE Created(e) /\ call[e].current
  <2>1. call[e].thread \in Thread /\ SetActive(call[e].thread)
    BY <1>2 DEF Created, IInv, Left
  <2> QED
    BY <1>1, <2>1, SetActiveIsFree DEF NewChatIsFree
<1>3. CASE Accepted(e)
  <2>1. call[e].thread \in Thread /\ SetActive(call[e].thread)
    BY <1>3 DEF Accepted, IInv, Addressed, Posted
  <2> QED
    BY <1>1, <2>1, SetActiveIsFree DEF NewChatIsFree
<1>4. CASE Failed(e) /\ call[e].current
  BY <1>4 DEF Failed, inbound, NewChatIsFree
<1>5. CASE (Created(e) \/ Failed(e)) /\ ~call[e].current
  <2>1. End(e) /\ UNCHANGED <<activeId, poll, sending>>
    BY <1>5 DEF Created, Failed, inbound
  <2>2. \A d \in Entry : Creating(d) => Creating(d)'
    BY <1>5, <2>1 DEF End, Creating, IInv, TypeOK
  <2> QED
    BY <2>1, <2>2, CreatingStays
<1> QED
  BY <1>2, <1>3, <1>4, <1>5 DEF Answer

LEMMA HandleIsFree ==
  ASSUME IInv, NewChatIsFree, NEW e \in Entry, Handle(e)
  PROVE  NewChatIsFree'
<1>1. UNCHANGED <<activeId, poll, sending>>
  BY DEF Handle, inbound
<1>2. \A d \in Entry : Creating(d) => Creating(d)'
  <2>1. CASE CreateThread(e)
    <3>1. PICK t \in Thread : call' = [call EXCEPT ![e].pc = "created", ![e].thread = t]
      BY <2>1 DEF CreateThread
    <3>2. call[e] \in Call
      BY <2>1 DEF CreateThread, Idle, IInv, TypeOK
    <3> QED
      BY <3>1, <3>2 DEF Creating, Call, IInv, TypeOK
  <2>2. CASE CreateRun(e)
    <3>1. call[e].pc = "post" /\ \A d \in Entry \ {e} : call'[d] = call[d]
      BY <2>2 DEF CreateRun, Goto, IInv, TypeOK
    <3> QED
      BY <3>1 DEF Creating
  <2> QED
    BY <2>1, <2>2 DEF Handle
<1> QED
  BY <1>1, <1>2, CreatingStays

\* In the new chat the composer is never locked for nothing: whoever leaves a
\* conversation while a message is being sent, comes back, or sends another
\* meanwhile, finds it free or finds the call that will free it.
THEOREM NewChatStaysFree == Spec => []NewChatIsFree
<1>1. Init => NewChatIsFree
  BY DEF Init, NewChatIsFree
<1>2. IInv /\ NewChatIsFree /\ [Next]_vars => NewChatIsFree'
  <2> SUFFICES ASSUME IInv, NewChatIsFree, [Next]_vars PROVE NewChatIsFree'
    OBVIOUS
  <2>1. ASSUME NEW t \in Place, Activate(t) PROVE NewChatIsFree'
    BY <2>1, SetActiveIsFree DEF Activate, NewChatIsFree
  <2>2. CASE NewChat \/ \E t \in Thread : SelectThread(t) \/ Back(t) \/ Deleted(t)
    <3>1. (\E t \in Place : Activate(t)) \/ UNCHANGED <<activeId, poll, sending, call>>
      BY <2>2 DEF NewChat, SelectThread, Back, Open, Deleted, Place, inbound
    <3> QED
      BY <2>1, <3>1, CreatingStays DEF Creating
  <2>3. CASE \/ \E i \in DOMAIN runs : Proceed(i)
             \/ \E t \in Thread : Delete(t)
             \/ Steer \/ Load \/ Deliver \/ UNCHANGED vars
    <3>1. UNCHANGED <<activeId, poll, call>> /\ (sending' => sending)
      BY <2>3 DEF Proceed, Delete, Steer, Load, Deliver, vars, inbound, IInv, TypeOK
    <3> QED
      BY <3>1, CreatingStays DEF Creating
  <2>4. CASE Poll \/ PollFails \/ ApplyPoll
    BY <2>4 DEF Poll, PollFails, ApplyPoll, NewChatIsFree, Creating
  <2> QED
    BY <2>2, <2>3, <2>4, SendIsFree, HandleIsFree, AnswerIsFree DEF Next
<1> QED
  BY <1>1, <1>2, Invariance, PTL DEF Spec

=============================================================================
