--------------------------- MODULE ChannelProofs ---------------------------
(***************************************************************************)
(* Theorems about Channel, for every value of its constants.  The          *)
(* inductive invariant adds to the properties what they rest on: rowids    *)
(* below nextRow, copies that belong to the record they were read from,    *)
(* and one submission per key.  The last section shows that the channel is *)
(* the gateway Runs relies on.                                             *)
(***************************************************************************)
EXTENDS Channel, FiniteSetTheorems, TLAPS

Submitting(h) == request[h].pc = "hand" /\ request[h].kind = "submit"

Rows == \A k \in Key : Known(k) => deliveries[k].seq < nextRow

\* What a request holds is a copy of the record it names.
Copies ==
    \A h \in Request : request[h] # Idle =>
        /\ Known(request[h].id)
        /\ request[h].copy.chat = deliveries[request[h].id].chat
        /\ request[h].copy.seq = deliveries[request[h].id].seq
        /\ request[h].pc = "body" => request[h].copy.status \in Active /\ request[h].kind # "submit"
        /\ request[h].kind = "submit" => request[h].copy.status = "queued"

\* A submission under way is the only one of its key, and not handed over yet.
Submissions ==
    /\ \A h \in Request : Submitting(h) => handed[request[h].id] = 0
    /\ \A g, h \in Request : Submitting(g) /\ Submitting(h) /\ request[g].id = request[h].id => g = h
    /\ \A k \in Key : handed[k] > 0 => Known(k)

IInv == /\ TypeOK /\ Rows /\ Copies /\ Submissions
        /\ HandedOnce /\ ActiveIsNewest /\ ActiveIsProcessed

-----------------------------------------------------------------------------
(* Types *)

LEMMA InitTyped == Init => TypeOK
  BY BoundAssumption DEF Init, TypeOK, Approval, Idle, NoDelivery

LEMMA RefreshTyped ==
  ASSUME TypeOK, NEW d \in Delivery
  PROVE  /\ Refresh(d) \in Delivery
         /\ Refresh(d).chat = d.chat /\ Refresh(d).seq = d.seq /\ Refresh(d).messages = d.messages
         /\ d.status \in Active => Refresh(d).status \in Active
         /\ d.status \notin Active => Refresh(d) = d
<1>1. d.chat \in Chat /\ approval[d.chat] \in Approval
  BY DEF TypeOK, Delivery
<1>2. 0 \in Approval
  BY BoundAssumption DEF Approval
<1> QED
  BY <1>1, <1>2 DEF Refresh, Delivery, Active, Terminal

LEMMA CopyTyped ==
  ASSUME TypeOK, NEW h \in Request, request[h] # Idle
  PROVE  /\ request[h] \in RequestState
         /\ request[h].id \in Key /\ request[h].copy \in Delivery
  BY DEF TypeOK, RequestState

LEMMA DeliveryEdits ==
  ASSUME NEW d \in Delivery, NEW s \in Active \cup Terminal, NEW a \in Approval
  PROVE  /\ [d EXCEPT !.status = s] \in Delivery
         /\ [d EXCEPT !.status = s, !.approval = a] \in Delivery
         /\ \A m \in Message : [d EXCEPT !.messages = @ \cup {m}] \in Delivery
  BY DEF Delivery

LEMMA NoApproval == 0 \in Approval
  BY BoundAssumption DEF Approval

LEMMA RequestTyped ==
  ASSUME TypeOK, NEW h \in Request, RequestStep(h)
  PROVE  TypeOK'
<1> USE DEF TypeOK, Return, runner
<1>0. request[h].pc # "idle" => request[h] # Idle
  BY DEF Idle
<1>1. CASE \E k \in Key, c \in Chat : Submit(h, k, c)
  <2>1. PICK k \in Key, c \in Chat : Submit(h, k, c)
    BY <1>1
  <2> DEFINE d == [chat |-> c, seq |-> nextRow, status |-> "queued", messages |-> {}, approval |-> 0]
  <2>2. d \in Delivery
    BY BoundAssumption DEF Delivery, Active, Approval
  <2>3. [pc |-> "hand", kind |-> "submit", id |-> k, copy |-> d] \in RequestState
    BY <2>2 DEF RequestState
  <2> HIDE DEF d
  <2>4. /\ deliveries' = [deliveries EXCEPT ![k] = d]
        /\ request' = [request EXCEPT ![h] = [pc |-> "hand", kind |-> "submit", id |-> k, copy |-> d]]
        /\ nextRow' = nextRow + 1
        /\ UNCHANGED <<up, runner, sent, handed, revived, budget>>
    BY <2>1 DEF Submit, d
  <2> QED
    BY <2>2, <2>3, <2>4
<1>2. CASE Admit(h)
  <2>1. request[h].id \in Key /\ request[h].copy.chat \in Chat
    BY <1>2, <1>0, CopyTyped DEF Admit, Delivery
  <2> QED
    BY <1>2, <2>1 DEF Admit, Hand
<1>3. CASE Refuse(h)
  <2>1. request[h].id \in Key /\ [request[h].copy EXCEPT !.status = "failed"] \in Delivery
    BY <1>3, <1>0, CopyTyped DEF Refuse, Delivery, Terminal
  <2> QED
    BY <1>3, <2>1 DEF Refuse, Spend, Event
<1>4. CASE \E k \in Key, kind \in Controls : ReadControl(h, k, kind)
  <2>1. PICK k \in Key, kind \in Controls : ReadControl(h, k, kind)
    BY <1>4
  <2>2. deliveries[k] \in Delivery
    BY <2>1 DEF ReadControl, IsActive, Active, NoDelivery
  <2>3. Refresh(deliveries[k]) \in Delivery
    BY <2>2, RefreshTyped
  <2>4. [pc |-> "body", kind |-> kind, id |-> k, copy |-> Refresh(deliveries[k])] \in RequestState
    BY <2>3, ControlsAssumption DEF RequestState
  <2> QED
    BY <2>1, <2>4 DEF ReadControl, Spend, Event
<1>5. CASE Approve(h)
  <2>1. request[h].id \in Key /\ request[h].copy \in Delivery
    BY <1>5, <1>0, CopyTyped DEF Approve
  <2>2. [request[h].copy EXCEPT !.status = "running", !.approval = 0] \in Delivery
    BY <2>1, NoApproval, DeliveryEdits DEF Active
  <2>3. approval' \in [Chat -> Approval]
    BY <1>5, <2>1, NoApproval DEF Approve, Delivery
  <2> QED
    BY <1>5, <2>1, <2>2, <2>3 DEF Approve, SaveCopy
<1>6. CASE Steer(h)
  <2>1. request[h].id \in Key /\ request[h].copy \in Delivery /\ request[h] \in RequestState
    BY <1>6, <1>0, CopyTyped DEF Steer
  <2>2. [request[h] EXCEPT !.pc = "hand"] \in RequestState
    BY <2>1 DEF RequestState
  <2> QED
    BY <1>6, <2>1, <2>2 DEF Steer, SaveCopy
<1>7. CASE HandUpdate(h)
  <2>1. request[h].copy.chat \in Chat
    BY <1>7, <1>0, CopyTyped DEF HandUpdate, Delivery
  <2> QED
    BY <1>7, <2>1 DEF HandUpdate, Hand
<1>8. CASE HandCommand(h)
  BY <1>8 DEF HandCommand
<1>9. CASE Abandon(h)
  BY <1>9 DEF Abandon
<1> QED
  BY <1>1, <1>2, <1>3, <1>4, <1>5, <1>6, <1>7, <1>8, <1>9 DEF RequestStep

LEMMA RecordTyped ==
  ASSUME TypeOK, NEW k \in Key
  PROVE  /\ Known(k) <=> deliveries[k] \in Delivery
         /\ IsActive(k) => Known(k)
         /\ IsActive(k) <=> Known(k) /\ ~IsSettled(k)
  BY DEF TypeOK, Known, IsActive, IsSettled, Delivery, NoDelivery, Active, Terminal

LEMMA HookTyped ==
  ASSUME TypeOK, NEW c \in Chat, NEW k \in Key
  PROVE  k \in HookRun(c) <=> Known(k) /\ deliveries[k].chat = c /\ Newest(k) /\ IsActive(k)
  BY DEF HookRun, Latest, Known, IsActive

LEMMA RunnerTyped ==
  ASSUME TypeOK, NEW c \in Chat, RunnerStep(c)
  PROVE  TypeOK'
<1> USE DEF TypeOK, runner
<1>1. CASE TurnStart(c)
  BY <1>1, RecordTyped, HookTyped, DeliveryEdits, NoApproval DEF TurnStart, UpdateRun, Active
<1>2. CASE TurnEnd(c)
  <2>1. \A o \in Outcome : StatusOf(o) \in Terminal
    BY DEF Outcome, StatusOf, Terminal
  <2>2. deliveries' \in [Key -> Delivery \cup {NoDelivery}]
    <3>1. CASE StaysQueued(c)
      <4>1. UpdateRun(HookRun(c), "queued")
        BY <1>2, <3>1 DEF TurnEnd
      <4> QED
        BY <4>1, RecordTyped, HookTyped, DeliveryEdits, NoApproval DEF UpdateRun, Active
    <3>2. CASE ~StaysQueued(c)
      <4>1. PICK o \in Outcome :
               deliveries' = [k \in Key |->
                  IF k \in HookRun(c)
                  THEN [deliveries[k] EXCEPT !.status = StatusOf(o), !.approval = 0]
                  ELSE deliveries[k]]
        BY <1>2, <3>2 DEF TurnEnd
      <4> QED
        BY <4>1, <2>1, RecordTyped, HookTyped, DeliveryEdits, NoApproval
    <3> QED
      BY <3>1, <3>2
  <2> QED
    BY <1>2, <2>2 DEF TurnEnd
<1>3. CASE TurnNext(c)
  BY <1>3 DEF TurnNext
<1>4. CASE AskApproval(c)
  <2>1. nextApproval[c] \in Approval /\ nextApproval[c] + 1 \in Nat
    BY <1>4, BoundAssumption DEF AskApproval, Approval
  <2> QED
    BY <1>4, <2>1 DEF AskApproval
<1>5. CASE ExpireApproval(c)
  BY <1>5, BoundAssumption DEF ExpireApproval, Approval
<1>6. CASE \E m \in Message : Send(c, m)
  <2>1. PICK m \in Message : Send(c, m)
    BY <1>6
  <2>2. \A k \in Latest(c) : deliveries[k] \in Delivery
    BY RecordTyped DEF Latest, Known
  <2>3. \A k \in Latest(c) : [deliveries[k] EXCEPT !.messages = @ \cup {m}] \in Delivery
    BY <2>2 DEF Delivery
  <2> QED
    BY <2>1, <2>3 DEF Send
<1> QED
  BY <1>1, <1>2, <1>3, <1>4, <1>5, <1>6 DEF RunnerStep

LEMMA StepTyped ==
  ASSUME TypeOK, [Next]_vars
  PROVE  TypeOK'
<1>1. CASE \E h \in Request : RequestStep(h)
  BY <1>1, RequestTyped
<1>2. CASE \E c \in Chat : RunnerStep(c)
  BY <1>2, RunnerTyped
<1>3. CASE \E k \in Key : Status(k)
  <2>1. PICK k \in Key : Status(k)
    BY <1>3
  <2>2. Refresh(deliveries[k]) \in Delivery
    BY <2>1, RecordTyped, RefreshTyped DEF Status, TypeOK, Known
  <2> QED
    BY <2>1, <2>2 DEF Status, TypeOK, runner
<1>4. CASE Crash
  <2>1. budget' \in [Event -> Nat]
    BY <1>4 DEF Crash, TypeOK, Spend, Event
  <2>2. /\ request' \in [Request -> RequestState \cup {Idle}]
        /\ turn' \in [Chat -> {"none", "admitted", "running", "ending"}]
        /\ pending' \in [Chat -> BOOLEAN] /\ approval' \in [Chat -> Approval]
    BY <1>4, NoApproval DEF Crash
  <2> QED
    BY <1>4, <2>1, <2>2 DEF Crash, TypeOK
<1>5. CASE Boot
  <2>1. \A k \in Interrupted : deliveries[k] \in Delivery
    BY DEF Interrupted, TypeOK, IsActive, Active, NoDelivery
  <2>2. deliveries' \in [Key -> Delivery \cup {NoDelivery}]
    BY <1>5, <2>1, DeliveryEdits, NoApproval DEF Boot, TypeOK, Terminal
  <2> QED
    BY <1>5, <2>2 DEF Boot, TypeOK, runner
<1>6. CASE UNCHANGED vars
  BY <1>6 DEF TypeOK, vars, runner
<1> QED
  BY <1>1, <1>2, <1>3, <1>4, <1>5, <1>6 DEF Next

\* The types hold in every reachable state: no handler, hook or restart
\* stores a record the table does not allow.
THEOREM TypeCorrect == Spec => []TypeOK
<1>1. Init => TypeOK
  BY InitTyped
<1>2. TypeOK /\ [Next]_vars => TypeOK'
  BY StepTyped
<1> QED
  BY <1>1, <1>2, PTL DEF Spec

-----------------------------------------------------------------------------
(* What an action keeps.  Only Submit adds a row, and only a request that    *)
(* writes its copy can make a settled delivery active.                       *)

RowsKept ==
    /\ nextRow' = nextRow
    /\ \A k \in Key :
          /\ Known(k)' <=> Known(k)
          /\ Known(k) => /\ deliveries'[k].chat = deliveries[k].chat
                         /\ deliveries'[k].seq = deliveries[k].seq

NoneRevived ==
    /\ revived \subseteq revived'
    /\ \A k \in Key : IsActive(k)' /\ k \notin revived' => IsActive(k)

OnlyReturns == \A h \in Request : request'[h] \in {request[h], Idle}

LEMMA RowsStay ==
  ASSUME IInv, RowsKept, NoneRevived
  PROVE  Rows' /\ ActiveIsNewest'
<1>1. Rows'
  BY DEF IInv, Rows, RowsKept
<1>2. \A k \in Key : IsActive(k)' => Known(k)'
  BY DEF IsActive, Known, Active, NoDelivery
<1>3. ASSUME NEW k \in Key, IsActive(k)', k \notin revived'
      PROVE  Newest(k)'
  <2>1. IsActive(k) /\ k \notin revived /\ Known(k)
    BY <1>2, <1>3 DEF NoneRevived, RowsKept
  <2>2. Newest(k)
    BY <2>1 DEF IInv, ActiveIsNewest
  <2> QED
    BY <2>1, <2>2 DEF RowsKept, Newest, Known
<1> QED
  BY <1>1, <1>3 DEF ActiveIsNewest

LEMMA CopiesStay ==
  ASSUME IInv, RowsKept, OnlyReturns
  PROVE  Copies'
<1> SUFFICES ASSUME NEW h \in Request, request'[h] # Idle
             PROVE  /\ request'[h] = request[h]
                    /\ Known(request[h].id)'
                    /\ request[h].copy.chat = deliveries'[request[h].id].chat
                    /\ request[h].copy.seq = deliveries'[request[h].id].seq
  BY DEF IInv, Copies
<1>1. request'[h] = request[h] /\ request[h] # Idle
  BY DEF OnlyReturns
<1>2. request[h].id \in Key
  BY <1>1, CopyTyped DEF IInv
<1> QED
  BY <1>1, <1>2 DEF IInv, Copies, RowsKept

LEMMA SubmissionsStay ==
  ASSUME IInv, RowsKept, handed' = handed,
         \A h \in Request : Submitting(h)' => Submitting(h) /\ request'[h] = request[h]
  PROVE  Submissions' /\ HandedOnce'
<1>1. Submissions'
  BY DEF IInv, Submissions, RowsKept, Submitting
<1> QED
  BY <1>1 DEF IInv, HandedOnce

TurnsGoOn ==
    \A c \in Chat : /\ turn[c] # "none" => turn'[c] = turn[c]
                    /\ pending[c] => pending'[c]

LEMMA ProcessedStays ==
  ASSUME IInv, RowsKept, NoneRevived, up' = up, TurnsGoOn,
         \A h \in Request : Submitting(h) => request'[h] = request[h] \/ deliveries'[request[h].id].status \notin Active
  PROVE  ActiveIsProcessed'
<1> SUFFICES ASSUME up, NEW k \in Key, IsActive(k)', k \notin revived'
             PROVE  \/ \E h \in Request : Submitting(h)' /\ request'[h].id = k
                    \/ turn'[deliveries'[k].chat] \in {"admitted", "running"}
                    \/ turn'[deliveries'[k].chat] = "ending" /\ pending'[deliveries'[k].chat]
  BY DEF ActiveIsProcessed, Submitting
<1>1. IsActive(k) /\ k \notin revived /\ Known(k)
  BY DEF NoneRevived, IsActive, Known, Active, NoDelivery
<1>2. deliveries'[k].chat = deliveries[k].chat /\ deliveries[k].chat \in Chat
  BY <1>1, RecordTyped DEF RowsKept, IInv, Delivery
<1>3. \/ \E h \in Request : Submitting(h) /\ request[h].id = k
      \/ turn[deliveries[k].chat] \in {"admitted", "running"}
      \/ turn[deliveries[k].chat] = "ending" /\ pending[deliveries[k].chat]
  BY <1>1 DEF IInv, ActiveIsProcessed, Submitting
<1> QED
  BY <1>1, <1>2, <1>3 DEF TurnsGoOn, Submitting, IsActive

-----------------------------------------------------------------------------
(* Each action keeps the invariant.                                          *)

LEMMA SubmitKeeps ==
  ASSUME IInv, TypeOK', NEW h \in Request, NEW k \in Key, NEW c \in Chat, Submit(h, k, c)
  PROVE  IInv'
<1> DEFINE d == [chat |-> c, seq |-> nextRow, status |-> "queued", messages |-> {}, approval |-> 0]
<1>1. /\ deliveries' = [deliveries EXCEPT ![k] = d]
      /\ request' = [request EXCEPT ![h] = [pc |-> "hand", kind |-> "submit", id |-> k, copy |-> d]]
      /\ nextRow' = nextRow + 1 /\ ~Known(k) /\ ~Busy(c) /\ request[h] = Idle
      /\ UNCHANGED <<up, turn, pending, handed, revived>>
  BY DEF Submit, runner
<1>2. d.chat = c /\ d.seq = nextRow /\ d.status = "queued" /\ Known(k)' /\ deliveries'[k] = d
  BY <1>1 DEF Known, NoDelivery, IInv, TypeOK
<1> HIDE DEF d
<1>3. \A j \in Key : j # k => deliveries'[j] = deliveries[j] /\ (Known(j)' <=> Known(j))
  BY <1>1 DEF IInv, TypeOK, Known
<1>4. \A g \in Request : request[g] # Idle => request[g].id # k /\ g # h /\ request'[g] = request[g]
  BY <1>1 DEF IInv, TypeOK, Copies
<1>5. request'[h] = [pc |-> "hand", kind |-> "submit", id |-> k, copy |-> d] /\ request'[h].id = k
  BY <1>1 DEF IInv, TypeOK
<1>6. \A g \in Request : request'[g] # Idle => g = h \/ (request[g] # Idle /\ request'[g] = request[g])
  <2>1. \A g \in Request : g # h => request'[g] = request[g]
    BY <1>1 DEF IInv, TypeOK
  <2> QED
    BY <2>1
<1>a. nextRow \in Nat /\ \A j \in Key : Known(j) => deliveries[j].seq \in Nat /\ deliveries[j].seq < nextRow
  BY RecordTyped DEF IInv, TypeOK, Delivery, Rows, Known
<1>7. Rows'
  BY <1>1, <1>2, <1>3, <1>a DEF Rows
<1>8. Copies'
  <2>1. ASSUME NEW g \in Request, request'[g] # Idle, g # h
        PROVE  /\ request'[g] = request[g] /\ request[g] # Idle
               /\ request[g].id \in Key /\ request[g].id # k
    BY <1>4, <1>6, <2>1, CopyTyped DEF IInv
  <2> QED
    BY <2>1, <1>2, <1>3, <1>5 DEF IInv, Copies
<1>9. Submissions'
  <2>1. handed[k] = 0
    BY <1>1 DEF IInv, Submissions, TypeOK
  <2>2. \A g \in Request : Submitting(g)' =>
           g = h \/ (Submitting(g) /\ request'[g] = request[g] /\ request[g].id # k)
    BY <1>4, <1>6 DEF Submitting, Idle
  <2> QED
    BY <2>1, <2>2, <1>1, <1>2, <1>3, <1>5 DEF IInv, Submissions
<1>10. HandedOnce'
  BY <1>1 DEF IInv, HandedOnce
<1>11. \A j \in Key : IsActive(j)' /\ j # k => IsActive(j) /\ Known(j)
  BY <1>3 DEF IsActive, Known, Active, NoDelivery
<1>12. ActiveIsNewest'
  <2>1. Newest(k)'
    BY <1>2, <1>3, <1>a DEF Newest, Known
  <2>2. ASSUME NEW j \in Key, j # k, IsActive(j)', j \notin revived'
        PROVE  Newest(j)'
    <3>1. IsActive(j) /\ Known(j) /\ Newest(j)
      BY <1>1, <1>11, <2>2 DEF IInv, ActiveIsNewest
    <3>2. deliveries[j].chat # c
      BY <1>1, <3>1 DEF Busy, Latest, Known
    <3> QED
      BY <3>1, <3>2, <1>2, <1>3, <2>2 DEF Newest, Known
  <2> QED
    BY <2>1, <2>2 DEF ActiveIsNewest
<1>13. ActiveIsProcessed'
  <2>1. \A g \in Request : Submitting(g) => Submitting(g)' /\ request'[g].id = request[g].id
    BY <1>4 DEF Submitting, Idle
  <2>2. Submitting(h)' /\ request'[h].id = k
    BY <1>5 DEF Submitting
  <2> QED
    BY <1>1, <1>3, <1>11, <2>1, <2>2 DEF IInv, ActiveIsProcessed, Submitting
<1> QED
  BY <1>7, <1>8, <1>9, <1>10, <1>12, <1>13 DEF IInv

LEMMA AdmitKeeps ==
  ASSUME IInv, TypeOK', NEW h \in Request, Admit(h)
  PROVE  IInv'
<1> DEFINE q == request[h].id
<1>1. /\ request[h] # Idle /\ Submitting(h) /\ q \in Key /\ Known(q)
      /\ request[h].copy.chat = deliveries[q].chat /\ deliveries[q].chat \in Chat
  BY CopyTyped DEF Admit, Submitting, IInv, Copies, Idle, Delivery
<1>2. /\ request' = [request EXCEPT ![h] = Idle] /\ handed' = [handed EXCEPT ![q] = @ + 1]
      /\ Hand(deliveries[q].chat)
      /\ UNCHANGED <<up, deliveries, nextRow, revived>>
  BY <1>1 DEF Admit, Return
<1>3. RowsKept /\ NoneRevived /\ OnlyReturns
  BY <1>2 DEF RowsKept, NoneRevived, OnlyReturns, Known, IsActive, IInv, TypeOK
<1>4. /\ request'[h] = Idle
      /\ \A g \in Request : g # h => request'[g] = request[g]
  BY <1>2 DEF IInv, TypeOK
<1>5. ~Submitting(h)'
  BY <1>4 DEF Submitting, Idle
<1>6. Submissions' /\ HandedOnce'
  <2>1. handed[q] = 0 /\ handed'[q] = 1 /\ \A j \in Key : j # q => handed'[j] = handed[j]
    BY <1>1, <1>2 DEF IInv, Submissions, TypeOK
  <2>2. \A g \in Request : Submitting(g)' => Submitting(g) /\ request'[g] = request[g] /\ request[g].id # q /\ g # h
    BY <1>1, <1>4, <1>5 DEF IInv, Submissions, Submitting
  <2>3. \A g \in Request : Submitting(g) => request[g].id \in Key
    BY CopyTyped DEF Submitting, IInv, Idle
  <2> QED
    BY <1>1, <2>1, <2>2, <2>3, <1>3 DEF IInv, Submissions, HandedOnce, RowsKept
<1>7. ActiveIsProcessed'
  <2> DEFINE c == deliveries[q].chat
  <2>1. \/ turn'[c] \in {"admitted", "running"}
        \/ turn'[c] = "ending" /\ pending'[c]
    BY <1>1, <1>2 DEF Hand, IInv, TypeOK
  <2>2. \A x \in Chat : /\ turn[x] # "none" => turn'[x] = turn[x]
                        /\ pending[x] => pending'[x]
    BY <1>1, <1>2 DEF Hand, IInv, TypeOK
  <2>3. \A j \in Key : Known(j) => deliveries[j].chat \in Chat
    BY RecordTyped DEF IInv, TypeOK, Known, Delivery
  <2>4. \A j \in Key : IsActive(j) => Known(j)
    BY DEF IsActive, Known, Active, NoDelivery
  <2> SUFFICES ASSUME up, NEW j \in Key, IsActive(j), j \notin revived, j # q
               PROVE  \/ \E g \in Request : Submitting(g)' /\ request'[g].id = j
                      \/ turn'[deliveries[j].chat] \in {"admitted", "running"}
                      \/ turn'[deliveries[j].chat] = "ending" /\ pending'[deliveries[j].chat]
    BY <1>2, <2>1 DEF ActiveIsProcessed, IsActive, Submitting
  <2>5. \/ \E g \in Request : Submitting(g) /\ request[g].id = j
        \/ turn[deliveries[j].chat] \in {"admitted", "running"}
        \/ turn[deliveries[j].chat] = "ending" /\ pending[deliveries[j].chat]
    BY DEF IInv, ActiveIsProcessed, Submitting
  <2>6. deliveries[j].chat \in Chat
    BY <2>3, <2>4
  <2> QED
    BY <2>2, <2>5, <2>6, <1>4 DEF Submitting
<1> QED
  BY <1>3, <1>6, <1>7, RowsStay, CopiesStay DEF IInv

LEMMA RefuseKeeps ==
  ASSUME IInv, TypeOK', NEW h \in Request, Refuse(h)
  PROVE  IInv'
<1> DEFINE q == request[h].id
           d == [request[h].copy EXCEPT !.status = "failed"]
<1>1. /\ request[h] # Idle /\ Submitting(h) /\ q \in Key /\ Known(q)
      /\ request[h].copy.chat = deliveries[q].chat /\ request[h].copy.seq = deliveries[q].seq
      /\ request[h].copy \in Delivery
  BY CopyTyped DEF Refuse, Submitting, IInv, Copies, Idle
<1>2. d.chat = deliveries[q].chat /\ d.seq = deliveries[q].seq /\ d.status = "failed"
  BY <1>1 DEF Delivery
<1>3. /\ request' = [request EXCEPT ![h] = Idle] /\ deliveries' = [deliveries EXCEPT ![q] = d]
      /\ UNCHANGED <<up, nextRow, turn, pending, handed, revived>>
  BY DEF Refuse, Return, runner
<1> HIDE DEF d
<1>4. deliveries'[q] = d /\ \A j \in Key : j # q => deliveries'[j] = deliveries[j]
  BY <1>1, <1>3 DEF IInv, TypeOK
<1>5. RowsKept /\ NoneRevived /\ deliveries'[q].status \notin Active
  BY <1>1, <1>2, <1>3, <1>4 DEF RowsKept, NoneRevived, Known, NoDelivery, IsActive, Active
<1>6. request'[h] = Idle /\ \A g \in Request : g # h => request'[g] = request[g]
  BY <1>3 DEF IInv, TypeOK
<1>7. OnlyReturns /\ \A g \in Request : Submitting(g)' => Submitting(g) /\ request'[g] = request[g]
  BY <1>6 DEF OnlyReturns, Submitting, Idle
<1>8. TurnsGoOn
  BY <1>3 DEF TurnsGoOn
<1>9. ActiveIsProcessed'
  BY <1>3, <1>5, <1>6, <1>8, ProcessedStays
<1> QED
  BY <1>3, <1>5, <1>7, <1>9, RowsStay, CopiesStay, SubmissionsStay DEF IInv

LEMMA ReadControlKeeps ==
  ASSUME IInv, TypeOK', NEW h \in Request, NEW k \in Key, NEW kind \in Controls, ReadControl(h, k, kind)
  PROVE  IInv'
<1> DEFINE r == [pc |-> "body", kind |-> kind, id |-> k, copy |-> Refresh(deliveries[k])]
<1>1. /\ request[h] = Idle /\ IsActive(k)
      /\ request' = [request EXCEPT ![h] = r]
      /\ UNCHANGED <<up, deliveries, nextRow, turn, pending, handed, revived>>
  BY DEF ReadControl, runner
<1>2. /\ Known(k) /\ Refresh(deliveries[k]).chat = deliveries[k].chat
      /\ Refresh(deliveries[k]).seq = deliveries[k].seq
      /\ Refresh(deliveries[k]).status \in Active /\ kind # "submit"
  BY <1>1, RecordTyped, RefreshTyped, ControlsAssumption DEF IInv, IsActive, ControlKind
<1>3. RowsKept /\ NoneRevived /\ TurnsGoOn
  BY <1>1 DEF RowsKept, NoneRevived, TurnsGoOn, Known, IsActive
<1>4. request'[h] = r /\ \A g \in Request : g # h => request'[g] = request[g]
  BY <1>1 DEF IInv, TypeOK
<1>5. ~Submitting(h) /\ ~Submitting(h)'
  BY <1>1, <1>4 DEF Submitting, Idle
<1>6. Copies'
  BY <1>1, <1>2, <1>4 DEF IInv, Copies, Known
<1> QED
  BY <1>1, <1>3, <1>4, <1>5, <1>6, RowsStay, SubmissionsStay, ProcessedStays DEF IInv, Submitting

\* The two controls that save the copy they hold.
LEMMA SaveCopyKeeps ==
  ASSUME IInv, NEW h \in Request, request[h] # Idle, NEW d \in Delivery, SaveCopy(h, d),
         d.chat = request[h].copy.chat, d.seq = request[h].copy.seq, nextRow' = nextRow
  PROVE  RowsKept /\ NoneRevived
<1> DEFINE q == request[h].id
<1>1. q \in Key /\ Known(q) /\ d.chat = deliveries[q].chat /\ d.seq = deliveries[q].seq
  BY CopyTyped DEF IInv, Copies
<1>2. deliveries'[q] = d /\ \A j \in Key : j # q => deliveries'[j] = deliveries[j]
  BY <1>1 DEF SaveCopy, IInv, TypeOK
<1>3. IsActive(q) \/ q \in revived'
  BY <1>1, RecordTyped DEF SaveCopy, IInv
<1> QED
  BY <1>1, <1>2, <1>3 DEF RowsKept, NoneRevived, Known, NoDelivery, IsActive, SaveCopy, Delivery

LEMMA ControlKeeps ==
  ASSUME IInv, TypeOK', NEW h \in Request,
         Approve(h) \/ Steer(h) \/ HandUpdate(h) \/ HandCommand(h) \/ Abandon(h)
  PROVE  IInv'
<1>1. /\ request[h] # Idle /\ request[h] \in RequestState
      /\ request[h].id \in Key /\ request[h].copy \in Delivery /\ ~Submitting(h)
  BY CopyTyped DEF IInv, Copies, Submitting, Idle, Approve, Steer, HandUpdate, HandCommand, Abandon
<1>2. nextRow' = nextRow /\ up' = up /\ handed' = handed
  BY DEF Approve, Steer, HandUpdate, HandCommand, Abandon
<1>3. RowsKept /\ NoneRevived
  <2>1. CASE Approve(h)
    <3>1. /\ [request[h].copy EXCEPT !.status = "running", !.approval = 0] \in Delivery
          /\ [request[h].copy EXCEPT !.status = "running", !.approval = 0].chat = request[h].copy.chat
          /\ [request[h].copy EXCEPT !.status = "running", !.approval = 0].seq = request[h].copy.seq
      BY <1>1, DeliveryEdits, NoApproval DEF Active, Delivery
    <3> QED
      BY <2>1, <3>1, <1>1, <1>2, SaveCopyKeeps DEF Approve
  <2>2. CASE Steer(h)
    BY <2>2, <1>1, <1>2, SaveCopyKeeps DEF Steer
  <2>3. CASE HandUpdate(h) \/ HandCommand(h) \/ Abandon(h)
    BY <2>3 DEF HandUpdate, HandCommand, Abandon, RowsKept, NoneRevived, Known, IsActive
  <2> QED
    BY <2>1, <2>2, <2>3
<1>4. TurnsGoOn
  BY <1>1 DEF TurnsGoOn, Approve, Steer, HandUpdate, HandCommand, Abandon, Hand, runner, IInv, TypeOK, Delivery
<1>5. \A g \in Request : g # h => request'[g] = request[g]
  BY DEF IInv, TypeOK, Approve, Steer, HandUpdate, HandCommand, Abandon, Return
<1>6. request'[h] = Idle \/ (Steer(h) /\ request'[h] = [request[h] EXCEPT !.pc = "hand"])
  BY DEF IInv, TypeOK, Approve, Steer, HandUpdate, HandCommand, Abandon, Return
<1>7. ~Submitting(h)'
  BY <1>1, <1>6 DEF Submitting, Idle, Steer, RequestState
<1>8. Copies'
  <2>1. CASE request'[h] = Idle
    BY <2>1, <1>3, <1>5, CopiesStay DEF OnlyReturns
  <2>2. CASE Steer(h) /\ request'[h] = [request[h] EXCEPT !.pc = "hand"]
    <3>1. /\ request'[h].id = request[h].id /\ request'[h].copy = request[h].copy
          /\ request'[h].pc = "hand" /\ request'[h].kind = "steer"
      BY <2>2, <1>1 DEF Steer, RequestState
    <3>2. \A g \in Request : request[g] # Idle => request[g].id \in Key
      BY CopyTyped DEF IInv
    <3> QED
      BY <3>1, <3>2, <1>1, <1>3, <1>5 DEF IInv, Copies, RowsKept
  <2> QED
    BY <2>1, <2>2, <1>6
<1> QED
  BY <1>2, <1>3, <1>4, <1>5, <1>1, <1>7, <1>8, RowsStay, SubmissionsStay, ProcessedStays DEF IInv, Submitting

LEMMA StatusKeeps ==
  ASSUME IInv, TypeOK', NEW k \in Key, Status(k)
  PROVE  IInv'
<1>1. deliveries[k] \in Delivery /\ Known(k)
  BY RecordTyped DEF Status, IInv
<1>2. /\ deliveries' = [deliveries EXCEPT ![k] = Refresh(deliveries[k])]
      /\ UNCHANGED <<up, nextRow, request, turn, pending, handed, revived>>
  BY DEF Status, runner
<1>3. /\ deliveries'[k] = Refresh(deliveries[k])
      /\ \A j \in Key : j # k => deliveries'[j] = deliveries[j]
  BY <1>2 DEF IInv, TypeOK
<1>4. RowsKept /\ NoneRevived
  BY <1>1, <1>2, <1>3, RefreshTyped, RecordTyped
     DEF IInv, RowsKept, NoneRevived, Known, IsActive, Delivery, NoDelivery
<1>5. TurnsGoOn /\ OnlyReturns
  BY <1>2 DEF TurnsGoOn, OnlyReturns
<1> QED
  BY <1>2, <1>4, <1>5, RowsStay, CopiesStay, SubmissionsStay, ProcessedStays DEF IInv, Submitting

\* A hook changes only the status and the approval of active deliveries.
LEMMA HookKeeps ==
  ASSUME IInv, NEW c \in Chat, RunnerStep(c)
  PROVE  /\ RowsKept /\ NoneRevived /\ OnlyReturns
         /\ UNCHANGED <<up, request, handed, revived>>
<1>1. CASE TurnStart(c)
  BY <1>1, RecordTyped, HookTyped
     DEF IInv, TurnStart, UpdateRun, RowsKept, NoneRevived, OnlyReturns, Known, IsActive, Delivery, NoDelivery
<1>2. CASE TurnEnd(c)
  <2>1. \A o \in Outcome : StatusOf(o) \in Terminal
    BY DEF Outcome, StatusOf, Terminal
  <2>2. CASE StaysQueued(c)
    BY <1>2, <2>2, RecordTyped, HookTyped
       DEF IInv, TurnEnd, UpdateRun, RowsKept, NoneRevived, OnlyReturns, Known, IsActive, Delivery, NoDelivery
  <2>3. CASE ~StaysQueued(c)
    <3>1. PICK o \in Outcome :
             deliveries' = [k \in Key |->
                IF k \in HookRun(c)
                THEN [deliveries[k] EXCEPT !.status = StatusOf(o), !.approval = 0]
                ELSE deliveries[k]]
      BY <1>2, <2>3 DEF TurnEnd
    <3>2. UNCHANGED <<up, request, handed, revived, nextRow>>
      BY <1>2 DEF TurnEnd
    <3>3. \A k \in HookRun(c) : k \in Key /\ deliveries[k] \in Delivery /\ IsActive(k)
      BY RecordTyped DEF IInv, HookRun, Latest
    <3>4. StatusOf(o) \in Terminal
      BY <2>1
    <3>5. \A k \in Key : \/ deliveries'[k] = deliveries[k]
                         \/ /\ deliveries[k] \in Delivery /\ deliveries'[k] \in Delivery
                            /\ deliveries'[k].chat = deliveries[k].chat
                            /\ deliveries'[k].seq = deliveries[k].seq
                            /\ deliveries'[k].status \in Terminal
      <4> SUFFICES ASSUME NEW k \in HookRun(c)
                   PROVE  /\ deliveries[k] \in Delivery /\ deliveries'[k] \in Delivery
                          /\ deliveries'[k].chat = deliveries[k].chat
                          /\ deliveries'[k].seq = deliveries[k].seq
                          /\ deliveries'[k].status \in Terminal
        BY <3>1, <3>3
      <4>1. deliveries'[k] = [deliveries[k] EXCEPT !.status = StatusOf(o), !.approval = 0]
        BY <3>1, <3>3
      <4>2. deliveries[k] \in Delivery /\ StatusOf(o) \in Active \cup Terminal
        BY <3>3, <3>4
      <4>3. [deliveries[k] EXCEPT !.status = StatusOf(o), !.approval = 0] \in Delivery
        BY <4>2, DeliveryEdits, NoApproval
      <4> QED
        BY <4>1, <4>2, <4>3, <3>4 DEF Delivery
    <3>6. \A k \in Key : deliveries[k] \in Delivery <=> Known(k)
      BY RecordTyped DEF IInv
    <3>7. \A k \in Key : deliveries'[k] # deliveries[k] => ~IsActive(k)'
      <4>1. Active \cap Terminal = {}
        BY DEF Active, Terminal
      <4> QED
        BY <3>5, <4>1 DEF IsActive
    <3>8. NoneRevived
      BY <3>2, <3>7 DEF NoneRevived, IsActive
    <3>9. RowsKept
      BY <3>2, <3>5, <3>6 DEF RowsKept, Known, NoDelivery, Delivery
    <3> QED
      BY <3>2, <3>8, <3>9 DEF OnlyReturns
  <2> QED
    BY <2>2, <2>3
<1>3. CASE TurnNext(c) \/ AskApproval(c) \/ ExpireApproval(c)
  BY <1>3 DEF TurnNext, AskApproval, ExpireApproval, RowsKept, NoneRevived, OnlyReturns, Known, IsActive
<1>4. CASE \E m \in Message : Send(c, m)
  <2>1. PICK m \in Message : Send(c, m)
    BY <1>4
  <2>2. \A k \in Latest(c) : k \in Key /\ deliveries[k] \in Delivery
    BY RecordTyped DEF IInv, Latest, Known
  <2> QED
    BY <2>1, <2>2 DEF Send, RowsKept, NoneRevived, OnlyReturns, Known, IsActive, Delivery, NoDelivery
<1> QED
  BY <1>1, <1>2, <1>3, <1>4 DEF RunnerStep

LEMMA RunnerKeeps ==
  ASSUME IInv, TypeOK', NEW c \in Chat, RunnerStep(c)
  PROVE  IInv'
<1>1. RowsKept /\ NoneRevived /\ OnlyReturns /\ UNCHANGED <<up, request, handed, revived>>
  BY HookKeeps
<1>2. ActiveIsProcessed'
  <2>1. CASE TurnStart(c) \/ TurnNext(c) \/ (TurnEnd(c) /\ StaysQueued(c))
    <3>1. /\ \A x \in Chat : x # c => turn'[x] = turn[x] /\ pending'[x] = pending[x]
          /\ turn[c] = "ending" /\ pending[c] => turn'[c] = "admitted"
          /\ turn[c] = "admitted" => turn'[c] = "running"
          /\ turn[c] = "running" => turn'[c] = "ending" /\ pending'[c]
      BY <2>1 DEF TurnStart, TurnNext, TurnEnd, StaysQueued, IInv, TypeOK
    <3> SUFFICES ASSUME up, NEW k \in Key, IsActive(k)', k \notin revived'
                 PROVE  \/ \E h \in Request : Submitting(h)' /\ request'[h].id = k
                        \/ turn'[deliveries'[k].chat] \in {"admitted", "running"}
                        \/ turn'[deliveries'[k].chat] = "ending" /\ pending'[deliveries'[k].chat]
      BY <1>1 DEF ActiveIsProcessed, Submitting
    <3>2. IsActive(k) /\ k \notin revived /\ Known(k)
      BY <1>1 DEF NoneRevived, IsActive, Known, Active, NoDelivery
    <3>3. deliveries'[k].chat = deliveries[k].chat /\ deliveries[k].chat \in Chat
      BY <1>1, <3>2, RecordTyped DEF RowsKept, IInv, Delivery
    <3>4. \/ \E h \in Request : Submitting(h) /\ request[h].id = k
          \/ turn[deliveries[k].chat] \in {"admitted", "running"}
          \/ turn[deliveries[k].chat] = "ending" /\ pending[deliveries[k].chat]
      BY <1>1, <3>2 DEF IInv, ActiveIsProcessed, Submitting
    <3> QED
      BY <1>1, <3>1, <3>3, <3>4 DEF Submitting
  <2>2. CASE TurnEnd(c) /\ ~StaysQueued(c)
    \* What is active afterwards is not in this conversation.
    <3>1. PICK o \in Outcome :
             deliveries' = [k \in Key |->
                IF k \in HookRun(c)
                THEN [deliveries[k] EXCEPT !.status = StatusOf(o), !.approval = 0]
                ELSE deliveries[k]]
      BY <2>2 DEF TurnEnd
    <3>2. StatusOf(o) \notin Active
      BY DEF Outcome, StatusOf, Active
    <3> SUFFICES ASSUME up, NEW k \in Key, IsActive(k)', k \notin revived'
                 PROVE  \/ \E h \in Request : Submitting(h)' /\ request'[h].id = k
                        \/ turn'[deliveries'[k].chat] \in {"admitted", "running"}
                        \/ turn'[deliveries'[k].chat] = "ending" /\ pending'[deliveries'[k].chat]
      BY <1>1 DEF ActiveIsProcessed, Submitting
    <3>3. IsActive(k) /\ k \notin revived /\ Known(k)
      BY <1>1 DEF NoneRevived, IsActive, Known, Active, NoDelivery
    <3>4. Newest(k) /\ deliveries[k] \in Delivery
      BY <3>3, RecordTyped DEF IInv, ActiveIsNewest
    <3>5. deliveries[k].chat # c
      BY <3>1, <3>2, <3>3, <3>4, HookTyped DEF IInv, IsActive, Delivery
    <3>6. deliveries'[k].chat = deliveries[k].chat /\ deliveries[k].chat \in Chat
      BY <1>1, <3>3, <3>4 DEF RowsKept, Delivery
    <3>7. \A x \in Chat : x # c => turn'[x] = turn[x] /\ pending'[x] = pending[x]
      BY <2>2 DEF TurnEnd, IInv, TypeOK
    <3>8. \/ \E h \in Request : Submitting(h) /\ request[h].id = k
          \/ turn[deliveries[k].chat] \in {"admitted", "running"}
          \/ turn[deliveries[k].chat] = "ending" /\ pending[deliveries[k].chat]
      BY <1>1, <3>3 DEF IInv, ActiveIsProcessed, Submitting
    <3> QED
      BY <1>1, <3>5, <3>6, <3>7, <3>8 DEF Submitting
  <2>3. CASE AskApproval(c) \/ ExpireApproval(c) \/ \E m \in Message : Send(c, m)
    <3>1. TurnsGoOn
      BY <2>3 DEF TurnsGoOn, AskApproval, ExpireApproval, Send, runner
    <3> QED
      BY <1>1, <3>1, ProcessedStays
  <2> QED
    BY <2>1, <2>2, <2>3 DEF RunnerStep
<1> QED
  BY <1>1, <1>2, RowsStay, CopiesStay, SubmissionsStay DEF IInv, Submitting

LEMMA ProcessKeeps ==
  ASSUME IInv, TypeOK', Crash \/ Boot
  PROVE  IInv'
<1>1. CASE Crash
  <2>1. /\ request' = [h \in Request |-> Idle] /\ up' = FALSE
        /\ UNCHANGED <<deliveries, nextRow, handed, revived>>
    BY <1>1 DEF Crash
  <2>2. RowsKept /\ NoneRevived /\ OnlyReturns /\ \A h \in Request : ~Submitting(h)'
    BY <2>1 DEF RowsKept, NoneRevived, OnlyReturns, Known, IsActive, Submitting, Idle
  <2>3. ActiveIsProcessed'
    BY <2>1 DEF ActiveIsProcessed
  <2> QED
    BY <2>1, <2>2, <2>3, RowsStay, CopiesStay, SubmissionsStay DEF IInv
<1>2. CASE Boot
  <2>1. /\ UNCHANGED <<nextRow, request, handed, revived>>
        /\ deliveries' = [k \in Key |->
              IF IsActive(k) THEN [deliveries[k] EXCEPT !.status = "interrupted", !.approval = 0]
              ELSE deliveries[k]]
    BY <1>2 DEF Boot, Interrupted
  <2>2. \A k \in Key : IsActive(k) => deliveries[k] \in Delivery
    BY RecordTyped DEF IInv
  <2>3. RowsKept /\ OnlyReturns /\ \A k \in Key : ~IsActive(k)'
    BY <2>1, <2>2 DEF RowsKept, OnlyReturns, Known, IsActive, Active, Delivery, NoDelivery
  <2>4. NoneRevived /\ ActiveIsProcessed'
    BY <2>1, <2>3 DEF NoneRevived, ActiveIsProcessed
  <2> QED
    BY <2>1, <2>3, <2>4, RowsStay, CopiesStay, SubmissionsStay DEF IInv, Submitting
<1> QED
  BY <1>1, <1>2

LEMMA Invariance == Spec => []IInv
<1>1. Init => IInv
  <2> SUFFICES ASSUME Init PROVE IInv
    OBVIOUS
  <2>1. \A k \in Key : ~Known(k) /\ ~IsActive(k) /\ handed[k] = 0
    BY DEF Init, Known, IsActive, NoDelivery, Active
  <2>2. \A h \in Request : request[h] = Idle /\ ~Submitting(h)
    BY DEF Init, Submitting, Idle
  <2> QED
    BY <2>1, <2>2, InitTyped
       DEF IInv, Rows, Copies, Submissions, HandedOnce, ActiveIsNewest, ActiveIsProcessed
<1>2. ASSUME IInv, [Next]_vars PROVE IInv'
  <2>0. TypeOK'
    BY <1>2, StepTyped DEF IInv
  <2>1. ASSUME NEW h \in Request, RequestStep(h) PROVE IInv'
    <3>1. CASE \E k \in Key, c \in Chat : Submit(h, k, c)
      BY <1>2, <2>0, <3>1, SubmitKeeps
    <3>2. CASE \E k \in Key, kind \in Controls : ReadControl(h, k, kind)
      BY <1>2, <2>0, <3>2, ReadControlKeeps
    <3>3. CASE Approve(h) \/ Steer(h) \/ HandUpdate(h) \/ HandCommand(h) \/ Abandon(h)
      BY <1>2, <2>0, <3>3, ControlKeeps
    <3> QED
      BY <1>2, <2>0, <2>1, <3>1, <3>2, <3>3, AdmitKeeps, RefuseKeeps DEF RequestStep
  <2>2. CASE UNCHANGED vars
    BY <1>2, <2>2 DEF vars, runner, IInv, TypeOK, Rows, Copies, Submissions, HandedOnce,
       ActiveIsNewest, ActiveIsProcessed, Known, IsActive, Newest, Submitting
  <2> QED
    BY <1>2, <2>0, <2>1, <2>2, StatusKeeps, RunnerKeeps, ProcessKeeps DEF Next
<1> QED
  BY <1>1, <1>2, PTL DEF Spec

\* A repeated submission, before or after a restart, never hands its message
\* to the runner a second time.
THEOREM SubmittedOnce == Spec => []HandedOnce
<1>1. IInv => HandedOnce
  BY DEF IInv
<1> QED
  BY <1>1, Invariance, PTL

\* The delivery that hooks and replies go to is the active one, in every
\* conversation and whatever the order of requests, turns and restarts, unless
\* a control has made an older delivery active again.
THEOREM ActiveIsTheNewest == Spec => []ActiveIsNewest
<1>1. IInv => ActiveIsNewest
  BY DEF IInv
<1> QED
  BY <1>1, Invariance, PTL

\* While the gateway runs, no delivery is left active without a request or a
\* turn that has yet to report on it.
THEOREM ActiveIsOnItsWay == Spec => []ActiveIsProcessed
<1>1. IInv => ActiveIsProcessed
  BY DEF IInv
<1> QED
  BY <1>1, Invariance, PTL

-----------------------------------------------------------------------------
(* Channel implements Receipts *)

LEMMA ReceiptStates ==
  ASSUME TypeOK, NEW k \in Key
  PROVE  /\ Receipt(k) = Receipts!Absent <=> ~Known(k)
         /\ Receipt(k).state = "open" <=> IsActive(k)
         /\ Known(k) => Receipt(k) = [state |-> IF IsActive(k) THEN "open" ELSE deliveries[k].status,
                                      chat |-> deliveries[k].chat]
  BY RecordTyped DEF Receipt, Known, Receipts!Absent, IsActive, IsSettled, NoDelivery, Active, Terminal

\* Requests only let go of receipts.
LetGo == \A h \in Request : Holds(h)' => Holds(h) /\ request'[h].id = request[h].id

LEMMA HeldShrinks ==
  ASSUME LetGo
  PROVE  Held' \in SUBSET Held
  BY DEF LetGo, Held, Holds

LEMMA ReturnLetsGo ==
  ASSUME TypeOK, NEW h \in Request, Return(h)
  PROVE  LetGo
<1>1. request'[h] = Idle /\ \A g \in Request \ {h} : request'[g] = request[g]
  BY DEF TypeOK, Return
<1> QED
  BY <1>1 DEF LetGo, Holds, Idle

LEMMA DropStep ==
  ASSUME TypeOK, LetGo, \A k \in Key : Receipt(k)' = Receipt(k)
  PROVE  Receipts!Next
<1>1. Receipts!Drop
  BY HeldShrinks DEF Receipts!Drop
<1> QED
  BY <1>1 DEF Receipts!Next

LEMMA SubmitAccepts ==
  ASSUME TypeOK, NEW h \in Request, NEW k \in Key, NEW c \in Chat, Submit(h, k, c)
  PROVE  Receipts!Accept(k, c)
<1> DEFINE d == [chat |-> c, seq |-> nextRow, status |-> "queued", messages |-> {}, approval |-> 0]
<1>1. /\ request[h] = Idle /\ ~Known(k)
      /\ deliveries'[k] = d
      /\ \A j \in Key \ {k} : deliveries'[j] = deliveries[j]
      /\ request'[h] = [pc |-> "hand", kind |-> "submit", id |-> k, copy |-> d]
      /\ \A g \in Request \ {h} : request'[g] = request[g]
  BY DEF Submit, TypeOK
<1>2. Receipt(k)' = [state |-> "open", chat |-> c]
  BY <1>1 DEF Receipt, IsActive, Active, NoDelivery
<1>3. \A j \in Key \ {k} : Receipt(j)' = Receipt(j)
  BY <1>1 DEF Receipt, IsActive
<1>4. Held' = Held \cup {k}
  <2>1. ~Holds(h) /\ Holds(h)' /\ request'[h].id = k
    BY <1>1 DEF Holds, Idle
  <2>2. \A g \in Request \ {h} : Holds(g)' = Holds(g) /\ request'[g].id = request[g].id
    BY <1>1 DEF Holds
  <2> QED
    BY <2>1, <2>2 DEF Held
<1> QED
  BY <1>1, <1>2, <1>3, <1>4, ReceiptStates DEF Receipts!Accept

LEMMA ReadControlTakes ==
  ASSUME TypeOK, NEW h \in Request, NEW k \in Key, NEW kind \in Controls, ReadControl(h, k, kind)
  PROVE  Receipts!Take(k)
<1>1. /\ request[h] = Idle /\ IsActive(k) /\ deliveries' = deliveries
      /\ request'[h].pc = "body" /\ request'[h].id = k
      /\ \A g \in Request \ {h} : request'[g] = request[g]
  BY DEF ReadControl, TypeOK
<1>2. \A j \in Key : Receipt(j)' = Receipt(j)
  BY <1>1 DEF Receipt, IsActive
<1>3. Held' = Held \cup {k}
  <2>1. ~Holds(h) /\ Holds(h)' /\ request'[h].id = k
    BY <1>1 DEF Holds, Idle
  <2>2. \A g \in Request \ {h} : Holds(g)' = Holds(g) /\ request'[g].id = request[g].id
    BY <1>1 DEF Holds
  <2> QED
    BY <2>1, <2>2 DEF Held
<1> QED
  BY <1>1, <1>2, <1>3, ReceiptStates DEF Receipts!Take, Receipts!Open

\* What a request that holds k writes: an active record, or a failed one, of
\* the same conversation.
LEMMA CopyWritten ==
  ASSUME TypeOK, LetGo, NEW h \in Request, Holds(h), NEW k \in Key, k = request[h].id,
         Known(k), NEW d \in Delivery, d.chat = deliveries[k].chat,
         d.status \in Active \cup {"failed"},
         deliveries' = [deliveries EXCEPT ![k] = d]
  PROVE  Receipts!WriteCopy(k)
<1>1. deliveries'[k] = d /\ \A j \in Key \ {k} : deliveries'[j] = deliveries[j]
  BY DEF TypeOK
<1>2. \A j \in Key \ {k} : Receipt(j)' = Receipt(j)
  BY <1>1 DEF Receipt, IsActive
<1>3. PICK s \in {"open", "failed"} : Receipt(k)' = [state |-> s, chat |-> deliveries[k].chat]
  BY <1>1 DEF Receipt, IsActive, Active, NoDelivery, Delivery
<1>4. k \in Held
  BY DEF Held
<1>5. [j \in Key |-> Receipt(j)]' = [[j \in Key |-> Receipt(j)] EXCEPT ![k].state = s]
  BY <1>2, <1>3, ReceiptStates
<1> QED
  BY <1>4, <1>5, HeldShrinks DEF Receipts!WriteCopy

LEMMA RequestRefines ==
  ASSUME IInv, NEW h \in Request, RequestStep(h)
  PROVE  Receipts!Next
<1>1. CASE \E k \in Key, c \in Chat : Submit(h, k, c)
  BY <1>1, SubmitAccepts DEF IInv, Receipts!Next
<1>2. CASE \E k \in Key, kind \in Controls : ReadControl(h, k, kind)
  BY <1>2, ReadControlTakes DEF IInv, Receipts!Next
<1>3. CASE Admit(h) \/ HandUpdate(h) \/ HandCommand(h) \/ Abandon(h)
  <2>1. LetGo
    BY <1>3, ReturnLetsGo DEF IInv, Admit, HandUpdate, HandCommand, Abandon
  <2>2. \A k \in Key : Receipt(k)' = Receipt(k)
    BY <1>3 DEF Receipt, IsActive, Admit, HandUpdate, HandCommand, Abandon
  <2> QED
    BY <2>1, <2>2, DropStep DEF IInv
<1>4. CASE Refuse(h) \/ Approve(h) \/ Steer(h)
  <2>1. /\ request[h] # Idle /\ Holds(h) /\ request[h].id \in Key /\ request[h].copy \in Delivery
    BY <1>4, CopyTyped DEF IInv, Holds, Idle, Refuse, Approve, Steer
  <2>2. /\ Known(request[h].id) /\ request[h].copy.chat = deliveries[request[h].id].chat
        /\ request[h].pc = "body" => request[h].copy.status \in Active
    BY <2>1 DEF IInv, Copies
  <2>3. LetGo
    <3>1. CASE Refuse(h) \/ Approve(h)
      BY <3>1, ReturnLetsGo DEF IInv, Refuse, Approve
    <3>2. CASE Steer(h)
      <4>1. /\ request[h] \in RequestState
            /\ request'[h] = [request[h] EXCEPT !.pc = "hand"] /\ request[h].kind = "steer"
            /\ \A g \in Request \ {h} : request'[g] = request[g]
        BY <3>2, <2>1, CopyTyped DEF Steer, IInv, TypeOK
      <4>2. ~Holds(h)'
        BY <4>1 DEF Holds, RequestState
      <4> QED
        BY <4>1, <4>2 DEF LetGo, Holds
    <3> QED
      BY <1>4, <3>1, <3>2
  <2>4. PICK d \in Delivery : /\ d.chat = request[h].copy.chat /\ d.status \in Active \cup {"failed"}
                              /\ deliveries' = [deliveries EXCEPT ![request[h].id] = d]
    <3>1. CASE Refuse(h)
      <4>1. [request[h].copy EXCEPT !.status = "failed"] \in Delivery
        BY <2>1, NoApproval, DeliveryEdits DEF Terminal
      <4> QED
        BY <3>1, <2>1, <4>1 DEF Refuse, Delivery
    <3>2. CASE Approve(h)
      <4>1. [request[h].copy EXCEPT !.status = "running", !.approval = 0] \in Delivery
        BY <2>1, NoApproval, DeliveryEdits DEF Active
      <4> QED
        BY <3>2, <2>1, <4>1 DEF Approve, SaveCopy, Delivery, Active
    <3>3. CASE Steer(h)
      BY <3>3, <2>1, <2>2 DEF Steer, SaveCopy
    <3> QED
      BY <1>4, <3>1, <3>2, <3>3
  <2>5. Receipts!WriteCopy(request[h].id)
    BY <2>1, <2>2, <2>3, <2>4, CopyWritten DEF IInv
  <2> QED
    BY <2>1, <2>5 DEF Receipts!Next
<1> QED
  BY <1>1, <1>2, <1>3, <1>4 DEF RequestStep

LEMMA StateReplaced ==
  ASSUME NEW c, NEW r, r = [state |-> "open", chat |-> c], NEW s \in Terminal
  PROVE  [r EXCEPT !.state = s] = [state |-> s, chat |-> c]
<1>1. [[state |-> "open", chat |-> c] EXCEPT !.state = s] = [state |-> s, chat |-> c]
  BY DEF Terminal
<1> QED
  BY <1>1, Zenon

\* Open deliveries that get a final status.
LEMMA SettleStep ==
  ASSUME TypeOK, UNCHANGED request, NEW S, S \subseteq Key, \A k \in S : IsActive(k),
         NEW s \in Terminal,
         deliveries' = [k \in Key |->
            IF k \in S THEN [deliveries[k] EXCEPT !.status = s, !.approval = 0] ELSE deliveries[k]]
  PROVE  Receipts!Next
<1>1. \A k \in S : deliveries[k] \in Delivery
  BY RecordTyped
<1>2. \A k \in S : Receipt(k)' = [state |-> s, chat |-> deliveries[k].chat]
  BY <1>1 DEF Receipt, IsActive, Active, Terminal, NoDelivery, Delivery
<1>3. \A k \in Key \ S : Receipt(k)' = Receipt(k)
  BY DEF Receipt, IsActive
<1>4. \A k \in S : Known(k) /\ Receipt(k) = [state |-> "open", chat |-> deliveries[k].chat]
  BY RecordTyped, ReceiptStates
<1>5. [k \in S |-> s] \in [S -> Receipts!Final]
  BY DEF Receipts!Final, Terminal
<1>6. [k \in Key |-> Receipt(k)]' =
         [k \in Key |-> IF k \in S
                        THEN [[j \in Key |-> Receipt(j)][k] EXCEPT !.state = [j \in S |-> s][k]]
                        ELSE [j \in Key |-> Receipt(j)][k]]
  <2> DEFINE r == [j \in Key |-> Receipt(j)]
             f == [j \in S |-> s]
  <2>1. ASSUME NEW k \in S
        PROVE  [r[k] EXCEPT !.state = f[k]] = [state |-> s, chat |-> deliveries[k].chat]
    <3>1. r[k] = [state |-> "open", chat |-> deliveries[k].chat] /\ f[k] = s
      BY <1>4
    <3>2. [r[k] EXCEPT !.state = s] = [state |-> s, chat |-> deliveries[k].chat]
      BY <3>1, StateReplaced
    <3> QED
      BY <3>1, <3>2, Zenon
  <2>2. \A k \in Key \ S : r[k] = Receipt(k)
    OBVIOUS
  <2> HIDE DEF f
  <2>3. \A k \in Key : Receipt(k)' = IF k \in S THEN [r[k] EXCEPT !.state = f[k]] ELSE r[k]
    BY <1>2, <1>3, <2>1, <2>2
  <2> QED
    BY <2>3 DEF f
<1>7. \A k \in S : [j \in Key |-> Receipt(j)][k].state = "open"
  BY ReceiptStates
<1>8. Held' = Held
  BY DEF Held, Holds
<1>9. Receipts!Settle(S)
  BY <1>5, <1>6, <1>7, <1>8 DEF Receipts!Settle, Receipts!Open
<1> QED
  BY <1>9 DEF Receipts!Next

LEMMA RunnerRefines ==
  ASSUME IInv, NEW c \in Chat, RunnerStep(c)
  PROVE  Receipts!Next
<1>1. UNCHANGED request
  BY HookKeeps
<1>2. LetGo
  BY <1>1 DEF LetGo, Holds
<1>3. \A k \in HookRun(c) : k \in Key /\ deliveries[k] \in Delivery /\ IsActive(k)
  BY RecordTyped DEF IInv, HookRun, Latest
<1>4. CASE TurnStart(c) \/ (TurnEnd(c) /\ StaysQueued(c))
  <2>1. PICK s \in Active : UpdateRun(HookRun(c), s)
    BY <1>4 DEF TurnStart, TurnEnd, Active
  <2>2. \A k \in Key : Receipt(k)' = Receipt(k)
    BY <2>1, <1>3 DEF UpdateRun, Receipt, IsActive, NoDelivery, Delivery, Active
  <2> QED
    BY <2>2, <1>2, DropStep DEF IInv
<1>5. CASE TurnEnd(c) /\ ~StaysQueued(c)
  <2>1. PICK o \in Outcome :
           deliveries' = [k \in Key |->
              IF k \in HookRun(c)
              THEN [deliveries[k] EXCEPT !.status = StatusOf(o), !.approval = 0]
              ELSE deliveries[k]]
    BY <1>5 DEF TurnEnd
  <2>2. StatusOf(o) \in Terminal
    BY DEF Outcome, StatusOf, Terminal
  <2>3. HookRun(c) \subseteq Key
    BY <1>3
  <2> QED
    BY <1>1, <1>3, <2>1, <2>2, <2>3, SettleStep DEF IInv
<1>6. CASE TurnNext(c) \/ AskApproval(c) \/ ExpireApproval(c)
  <2>1. \A k \in Key : Receipt(k)' = Receipt(k)
    BY <1>6 DEF TurnNext, AskApproval, ExpireApproval, Receipt, IsActive
  <2> QED
    BY <2>1, <1>2, DropStep DEF IInv
<1>7. CASE \E m \in Message : Send(c, m)
  <2>1. PICK m \in Message : Send(c, m)
    BY <1>7
  <2>2. \A k \in Latest(c) : k \in Key /\ deliveries[k] \in Delivery
    BY RecordTyped DEF IInv, Latest, Known
  <2>3. \A k \in Key : Receipt(k)' = Receipt(k)
    BY <2>1, <2>2 DEF Send, Receipt, IsActive, NoDelivery, Delivery
  <2> QED
    BY <2>3, <1>2, DropStep DEF IInv
<1> QED
  BY <1>4, <1>5, <1>6, <1>7 DEF RunnerStep

LEMMA StatusRefines ==
  ASSUME IInv, NEW k \in Key, Status(k)
  PROVE  Receipts!Next
<1>1. deliveries[k] \in Delivery /\ request' = request /\ deliveries' = [deliveries EXCEPT ![k] = Refresh(deliveries[k])]
  BY RecordTyped DEF Status, IInv
<1>2. /\ deliveries'[k] = Refresh(deliveries[k])
      /\ \A j \in Key \ {k} : deliveries'[j] = deliveries[j]
  BY <1>1 DEF IInv, TypeOK
<1>3. Receipt(k)' = Receipt(k)
  BY <1>1, <1>2, RefreshTyped DEF IInv, Receipt, IsActive, NoDelivery, Delivery
<1>4. \A j \in Key : Receipt(j)' = Receipt(j)
  BY <1>2, <1>3 DEF Receipt, IsActive
<1> QED
  BY <1>1, <1>4, DropStep DEF IInv, LetGo, Holds

LEMMA ProcessRefines ==
  ASSUME IInv, Crash \/ Boot
  PROVE  Receipts!Next
<1>1. CASE Crash
  <2>1. LetGo
    BY <1>1 DEF Crash, LetGo, Holds, Idle
  <2> QED
    BY <1>1, <2>1, DropStep DEF IInv, Crash, Receipt, IsActive
<1>2. CASE Boot
  BY <1>2, SettleStep DEF IInv, Boot, Interrupted, Terminal
<1> QED
  BY <1>1, <1>2

\* The deliveries, with the copies that requests hold, implement Receipts: a
\* key is accepted once, stays with its conversation, and a settled delivery
\* is rewritten only by a request that began while it was active.
THEOREM ChannelImplementsReceipts == Spec => ImplementsReceipts
<1>1. Init => Receipts!Init
  <2> SUFFICES ASSUME Init PROVE Receipts!Init
    OBVIOUS
  <2>1. Held = {}
    BY DEF Init, Held, Holds, Idle
  <2>2. \A k \in Key : Receipt(k) = Receipts!Absent
    BY DEF Init, Receipt, Receipts!Absent
  <2> QED
    BY <2>1, <2>2 DEF Receipts!Init
<1>2. ASSUME IInv, [Next]_vars PROVE [Receipts!Next]_<<[k \in Key |-> Receipt(k)], Held>>
  <2>1. CASE UNCHANGED vars
    BY <2>1 DEF vars, Held, Holds, Receipt, IsActive
  <2> QED
    BY <1>2, <2>1, RequestRefines, StatusRefines, RunnerRefines, ProcessRefines DEF Next
<1> QED
  BY <1>1, <1>2, Invariance, PTL DEF Spec, ImplementsReceipts, Receipts!ReceiptSpec

-----------------------------------------------------------------------------
(* Channel implements Gateway *)

\* Rowids are distinct, so that a conversation has one newest delivery, and
\* what records and copies hold has been sent.
Told ==
    /\ \A j, k \in Key : Known(j) /\ Known(k) /\ deliveries[j].seq = deliveries[k].seq => j = k
    /\ \A k \in Key : Known(k) => deliveries[k].messages \subseteq sent
    /\ \A h \in Request : request[h] # Idle => request[h].copy.messages \subseteq sent

Records == [k \in Key |-> Record(k)]

\* Records are taken as wholes: what follows unfolds these only to say what
\* they do to a row.
Row(c, s, o) == [thread |-> c, body |-> "message", status |-> s, output |-> o, stop |-> FALSE]
WithStatus(r, s)   == [r EXCEPT !.status = s]
WithOutput(r, o)   == [r EXCEPT !.output = o]
WithBoth(r, s, o)  == [r EXCEPT !.status = s, !.output = o]

LEMMA RowFields ==
  ASSUME NEW c, NEW s, NEW o, NEW t, NEW p
  PROVE  /\ Row(c, s, o).thread = c /\ Row(c, s, o).body = "message"
         /\ Row(c, s, o).status = s /\ Row(c, s, o).output = o
         /\ WithStatus(Row(c, s, o), t) = Row(c, t, o)
         /\ WithOutput(Row(c, s, o), p) = Row(c, s, p)
         /\ WithBoth(Row(c, s, o), t, p) = Row(c, t, p)
<1>1. /\ Row(c, s, o).thread = c /\ Row(c, s, o).body = "message"
      /\ Row(c, s, o).status = s /\ Row(c, s, o).output = o
  BY DEF Row
<1> PICK b, e : b = "message" /\ e = FALSE
  OBVIOUS
<1>2. \A x, y : Row(c, x, y) = [thread |-> c, body |-> b, status |-> x, output |-> y, stop |-> e]
  BY DEF Row
<1>3. ASSUME NEW x, NEW y, NEW z PROVE WithStatus(Row(c, x, y), z) = Row(c, z, y)
  BY <1>2 DEF WithStatus
<1>4. ASSUME NEW x, NEW y, NEW z PROVE WithOutput(Row(c, x, y), z) = Row(c, x, z)
  BY <1>2 DEF WithOutput
<1>5. WithBoth(Row(c, s, o), t, p) = WithOutput(WithStatus(Row(c, s, o), t), p)
  BY DEF WithBoth, WithStatus, WithOutput
<1> QED
  BY <1>1, <1>3, <1>4, <1>5

LEMMA RecordIs ==
  ASSUME TypeOK, NEW k \in Key
  PROVE  /\ Records[k] = Gateway!NoDelivery <=> ~Known(k)
         /\ Records[k].status \in Gateway!Active <=> IsActive(k)
         /\ Known(k) => Records[k] = Row(deliveries[k].chat, deliveries[k].status,
                                         Cardinality(deliveries[k].messages))
  BY RecordTyped DEF Records, Record, Row, Known, Gateway!NoDelivery, Gateway!Active,
     NoDelivery, IsActive, IsSettled, Delivery, Active, Terminal

LEMMA OutputIs ==
  ASSUME NEW d \in Delivery
  PROVE  /\ IsFiniteSet(d.messages) /\ Cardinality(d.messages) \in Gateway!Output
         /\ Cardinality(d.messages) <= Cardinality(Message)
         /\ Cardinality(d.messages) \in Nat /\ Cardinality(Message) \in Nat
<1>1. d.messages \in SUBSET Message
  BY DEF Delivery
<1>2. /\ IsFiniteSet(d.messages) /\ Cardinality(d.messages) <= Cardinality(Message)
      /\ Cardinality(d.messages) \in Nat /\ Cardinality(Message) \in Nat
  BY <1>1, MessageAssumption, FS_Subset, FS_CardinalityType
<1> QED
  BY <1>2 DEF Gateway!Output

\* A step that changes one row.
LEMMA OneRecord ==
  ASSUME TypeOK, NEW k \in Key, NEW d \in Delivery, deliveries' = [deliveries EXCEPT ![k] = d]
  PROVE  Records' = [Records EXCEPT ![k] = Row(d.chat, d.status, Cardinality(d.messages))]
<1>1. deliveries'[k] = d /\ \A j \in Key \ {k} : deliveries'[j] = deliveries[j]
  BY DEF TypeOK
<1>2. d # NoDelivery
  BY DEF Delivery, NoDelivery
<1> QED
  BY <1>1, <1>2 DEF Records, Record, Row

LEMMA RowMovesOn ==
  ASSUME TypeOK, NEW k \in Key, IsActive(k), NEW d \in Delivery,
         d.chat = deliveries[k].chat, d.messages = deliveries[k].messages,
         deliveries' = [deliveries EXCEPT ![k] = d]
  PROVE  Gateway!Progress(k) \/ Gateway!Settle(k)
<1>1. Known(k) /\ Records[k].status \in Gateway!Active
  BY RecordIs, RecordTyped
<1>2. Records' = [Records EXCEPT ![k].status = d.status]
  <2>1. WithStatus(Records[k], d.status) = Row(d.chat, d.status, Cardinality(d.messages))
    <3>1. Records[k] = Row(d.chat, deliveries[k].status, Cardinality(d.messages))
      BY <1>1, RecordIs
    <3> QED
      BY <3>1, RowFields
  <2>2. Records' = [Records EXCEPT ![k] = WithStatus(Records[k], d.status)]
    BY <2>1, OneRecord
  <2> QED
    BY <2>2 DEF WithStatus
<1>3. \/ d.status \in (Active \cup Terminal) \cap Gateway!Active
      \/ d.status \in (Active \cup Terminal) \cap Gateway!Terminal
  BY DEF Delivery, Active, Terminal, Gateway!Active, Gateway!Terminal
<1> QED
  BY <1>1, <1>2, <1>3 DEF Gateway!Progress, Gateway!Settle, Records

LEMMA CopyOverwrites ==
  ASSUME TypeOK, NEW k \in Key, Known(k), NEW d \in Delivery,
         d.chat = deliveries[k].chat, d.status \in Active \cup {"failed"},
         deliveries' = [deliveries EXCEPT ![k] = d]
  PROVE  Gateway!Overwrite(k)
<1>1. Records[k] # Gateway!NoDelivery
  BY RecordIs
<1>2. Records' = [Records EXCEPT ![k].status = d.status, ![k].output = Cardinality(d.messages)]
  <2>1. WithBoth(Records[k], d.status, Cardinality(d.messages))
           = Row(d.chat, d.status, Cardinality(d.messages))
    BY RecordIs, RowFields
  <2>2. Records' = [Records EXCEPT ![k] = WithBoth(Records[k], d.status, Cardinality(d.messages))]
    BY <2>1, OneRecord
  <2> QED
    BY <2>2 DEF WithBoth
<1>3. d.status \in ((Active \cup Terminal) \cap Gateway!Active) \cup {"queued", "failed"}
  BY DEF Active, Gateway!Active
<1> QED
  BY <1>1, <1>2, <1>3, OutputIs DEF Gateway!Overwrite, Records

\* What a step does to the records.
Obeys == Gateway!GatewayNext \/ UNCHANGED Records

LEMMA SameRecords ==
  ASSUME deliveries' = deliveries
  PROVE  Obeys
  BY DEF Obeys, Records, Record

LEMMA ToldStays ==
  ASSUME Told, RowsKept, sent \subseteq sent',
         \A k \in Key : Known(k) => deliveries'[k].messages \subseteq sent',
         \A h \in Request : request'[h] # Idle => request'[h].copy.messages \subseteq sent'
  PROVE  Told'
  BY DEF Told, RowsKept, Known

\* Requests

LEMMA SubmitTells ==
  ASSUME IInv, Told, NEW h \in Request, NEW k \in Key, NEW c \in Chat, Submit(h, k, c)
  PROVE  Told' /\ Obeys
<1> PICK d : d = [chat |-> c, seq |-> nextRow, status |-> "queued", messages |-> {}, approval |-> 0]
  OBVIOUS
<1>1. d \in Delivery /\ d.messages = {} /\ d.seq = nextRow /\ d.chat = c /\ d.status = "queued"
  BY NoApproval DEF IInv, TypeOK, Delivery, Active
<1>2. /\ ~Known(k) /\ sent' = sent
      /\ deliveries' = [deliveries EXCEPT ![k] = d]
      /\ request' = [request EXCEPT ![h] = [pc |-> "hand", kind |-> "submit", id |-> k, copy |-> d]]
  BY DEF Submit
<1>3. deliveries'[k] = d /\ \A j \in Key \ {k} : deliveries'[j] = deliveries[j]
  BY <1>2 DEF IInv, TypeOK
<1>4. Told'
  <2>1. \A j \in Key \ {k} : Known(j)' = Known(j) /\ (Known(j) => deliveries[j].seq # nextRow)
    <3>1. \A j \in Key : Known(j) => deliveries[j].seq \in Nat /\ deliveries[j].seq < nextRow
      BY RecordTyped DEF IInv, Rows, Delivery
    <3> QED
      BY <1>3, <3>1 DEF Known, IInv, TypeOK
  <2>2. \A i, j \in Key : Known(i)' /\ Known(j)' /\ deliveries'[i].seq = deliveries'[j].seq => i = j
    BY <1>1, <1>3, <2>1 DEF Told
  <2>3. \A j \in Key : Known(j)' => deliveries'[j].messages \subseteq sent'
    BY <1>1, <1>2, <1>3, <2>1 DEF Told
  <2>4. /\ request'[h].copy = d
        /\ \A g \in Request \ {h} : request'[g] = request[g]
    BY <1>2 DEF IInv, TypeOK
  <2> QED
    BY <1>1, <1>2, <2>2, <2>3, <2>4 DEF Told
<1>5. PICK m : m = [id |-> k, thread |-> c, body |-> "message"]
  OBVIOUS
<1>6. m \in Gateway!Post /\ m.id = k /\ m.thread = c /\ m.body = "message"
  BY <1>5 DEF Gateway!Post
<1>7. Records[k] = Gateway!NoDelivery
  BY <1>2, RecordIs DEF IInv
<1>8. Records' = [Records EXCEPT ![k] = Row(c, "queued", 0)]
  BY <1>1, <1>2, OneRecord, FS_EmptySet DEF IInv
<1>9. Gateway!Accept(m)
  BY <1>6, <1>7, <1>8 DEF Gateway!Accept, Gateway!Known, Records, Row
<1> QED
  BY <1>4, <1>6, <1>9 DEF Obeys, Gateway!GatewayNext

LEMMA ReadTells ==
  ASSUME IInv, Told, NEW h \in Request, NEW k \in Key, NEW kind \in Controls, ReadControl(h, k, kind)
  PROVE  Told' /\ Obeys
<1>1. /\ deliveries' = deliveries /\ nextRow' = nextRow /\ sent' = sent /\ IsActive(k)
      /\ request'[h].copy = Refresh(deliveries[k])
      /\ \A g \in Request \ {h} : request'[g] = request[g]
  BY DEF ReadControl, IInv, TypeOK
<1>2. Known(k) /\ Refresh(deliveries[k]).messages = deliveries[k].messages
  BY <1>1, RecordTyped, RefreshTyped DEF IInv
<1>3. RowsKept
  BY <1>1 DEF RowsKept, Known
<1> QED
  BY <1>1, <1>2, <1>3, SameRecords, ToldStays DEF Told

\* What a request writes is the copy it holds.
LEMMA WriteTells ==
  ASSUME IInv, Told, NEW h \in Request, Refuse(h) \/ Approve(h) \/ Steer(h)
  PROVE  Told' /\ Obeys
<1>1. /\ request[h] # Idle /\ request[h].id \in Key /\ request[h].copy \in Delivery
  BY CopyTyped DEF IInv, Idle, Refuse, Approve, Steer
<1> PICK k \in Key : k = request[h].id
  BY <1>1
<1>2. /\ Known(k) /\ request[h].copy.chat = deliveries[k].chat
      /\ request[h].copy.seq = deliveries[k].seq
      /\ request[h].pc = "body" => request[h].copy.status \in Active
  BY <1>1 DEF IInv, Copies
<1>3. PICK d \in Delivery : /\ d.chat = deliveries[k].chat /\ d.seq = deliveries[k].seq
                            /\ d.status \in Active \cup {"failed"}
                            /\ d.messages = request[h].copy.messages
                            /\ deliveries' = [deliveries EXCEPT ![k] = d]
  <2>1. CASE Refuse(h)
    <3>1. [request[h].copy EXCEPT !.status = "failed"] \in Delivery
      BY <1>1, NoApproval, DeliveryEdits DEF Terminal
    <3> QED
      BY <1>1, <1>2, <2>1, <3>1 DEF Refuse, Delivery
  <2>2. CASE Approve(h)
    <3>1. [request[h].copy EXCEPT !.status = "running", !.approval = 0] \in Delivery
      BY <1>1, NoApproval, DeliveryEdits DEF Active
    <3> QED
      BY <1>1, <1>2, <2>2, <3>1 DEF Approve, SaveCopy, Delivery, Active
  <2>3. CASE Steer(h)
    BY <1>1, <1>2, <2>3 DEF Steer, SaveCopy
  <2> QED
    BY <2>1, <2>2, <2>3
<1>4. deliveries'[k] = d /\ \A j \in Key \ {k} : deliveries'[j] = deliveries[j]
  BY <1>3 DEF IInv, TypeOK
<1>5. nextRow' = nextRow /\ sent' = sent
  BY DEF Refuse, Approve, Steer
<1>6. RowsKept
  BY <1>2, <1>3, <1>4, <1>5 DEF RowsKept, Known, Delivery, NoDelivery
<1>7. \A g \in Request : request'[g] # Idle => request[g] # Idle /\ request'[g].copy = request[g].copy
  <2>1. CASE Refuse(h) \/ Approve(h)
    BY <2>1 DEF Refuse, Approve, Return, IInv, TypeOK
  <2>2. CASE Steer(h)
    <3>1. request[h] \in RequestState /\ request' = [request EXCEPT ![h] = [request[h] EXCEPT !.pc = "hand"]]
      BY <1>1, <2>2, CopyTyped DEF Steer, IInv
    <3>2. request'[h].copy = request[h].copy /\ \A g \in Request \ {h} : request'[g] = request[g]
      BY <3>1 DEF RequestState, IInv, TypeOK
    <3> QED
      BY <1>1, <3>2
  <2> QED
    BY <2>1, <2>2
<1>8. d.messages \subseteq sent
  BY <1>1, <1>3 DEF Told
<1>9. Told'
  BY <1>4, <1>5, <1>6, <1>7, <1>8, ToldStays DEF Told
<1>10. Gateway!Overwrite(k)
  BY <1>2, <1>3, CopyOverwrites DEF IInv
<1> QED
  BY <1>9, <1>10 DEF Obeys, Gateway!GatewayNext

LEMMA ReturnTells ==
  ASSUME IInv, Told, NEW h \in Request,
         Admit(h) \/ HandUpdate(h) \/ HandCommand(h) \/ Abandon(h)
  PROVE  Told' /\ Obeys
<1>1. /\ deliveries' = deliveries /\ nextRow' = nextRow /\ sent' = sent /\ Return(h)
  BY DEF Admit, HandUpdate, HandCommand, Abandon
<1>2. \A g \in Request : request'[g] # Idle => request'[g] = request[g]
  BY <1>1 DEF Return, IInv, TypeOK
<1>3. RowsKept
  BY <1>1 DEF RowsKept, Known
<1> QED
  BY <1>1, <1>2, <1>3, SameRecords, ToldStays DEF Told

\* The runner

LEMMA OneNewest ==
  ASSUME TypeOK, Told, NEW c \in Chat, NEW k \in Latest(c)
  PROVE  Latest(c) = {k} /\ k \in Key /\ Known(k) /\ deliveries[k] \in Delivery
<1>1. \A j \in Latest(c) : j \in Key /\ Known(j) /\ deliveries[j] \in Delivery /\ Newest(j) /\ deliveries[j].chat = c
  BY RecordTyped DEF Latest, Known
<1>2. \A j \in Latest(c) : deliveries[j].seq <= deliveries[k].seq /\ deliveries[k].seq <= deliveries[j].seq
  BY <1>1 DEF Newest, Known
<1>3. \A j \in Latest(c) : deliveries[j].seq = deliveries[k].seq
  BY <1>1, <1>2 DEF Delivery
<1> QED
  BY <1>1, <1>3 DEF Told

\* A hook moves on the newest delivery, or finds none.
LEMMA HookMovesOn ==
  ASSUME TypeOK, Told, TypeOK', NEW c \in Chat,
         \A k \in HookRun(c) : /\ deliveries'[k] \in Delivery
                               /\ deliveries'[k].chat = deliveries[k].chat
                               /\ deliveries'[k].messages = deliveries[k].messages,
         \A k \in Key \ HookRun(c) : deliveries'[k] = deliveries[k]
  PROVE  /\ \A k \in Key : Known(k) => deliveries'[k].messages = deliveries[k].messages
         /\ Obeys
<1>1. \A k \in HookRun(c) : k \in Latest(c) /\ IsActive(k)
  BY DEF HookRun
<1>2. \A k \in Key : Known(k) => deliveries'[k].messages = deliveries[k].messages
  OBVIOUS
<1>3. CASE HookRun(c) = {}
  <2>1. deliveries' = deliveries
    BY <1>3 DEF TypeOK
  <2> QED
    BY <2>1, <1>2, SameRecords
<1>4. CASE HookRun(c) # {}
  <2>1. PICK k \in HookRun(c) : TRUE
    BY <1>4
  <2>2. HookRun(c) = {k} /\ k \in Key /\ deliveries[k] \in Delivery /\ IsActive(k)
    BY <2>1, <1>1, OneNewest
  <2>3. deliveries' = [deliveries EXCEPT ![k] = deliveries'[k]]
    BY <2>2 DEF TypeOK
  <2> PICK d \in Delivery : d = deliveries'[k]
    BY <2>1
  <2>4. Gateway!Progress(k) \/ Gateway!Settle(k)
    BY <2>1, <2>2, <2>3, RowMovesOn
  <2> QED
    BY <1>2, <2>2, <2>4 DEF Obeys, Gateway!GatewayNext
<1> QED
  BY <1>3, <1>4

LEMMA SendAdds ==
  ASSUME IInv, Told, NEW c \in Chat, NEW m \in Message, Send(c, m)
  PROVE  /\ \A k \in Key : Known(k) => deliveries'[k].messages \subseteq sent'
         /\ Obeys
<1> PICK k \in Latest(c) : TRUE
  BY DEF Send
<1>1. Latest(c) = {k} /\ k \in Key /\ Known(k) /\ deliveries[k] \in Delivery
  BY OneNewest DEF IInv
<1>2. PICK d : d = [deliveries[k] EXCEPT !.messages = @ \cup {m}]
  OBVIOUS
<1>3. /\ d \in Delivery /\ d.chat = deliveries[k].chat /\ d.status = deliveries[k].status
      /\ d.messages = deliveries[k].messages \cup {m}
  BY <1>1, <1>2 DEF Delivery
<1>4. deliveries' = [deliveries EXCEPT ![k] = d] /\ sent' = sent \cup {m} /\ m \notin sent
  BY <1>1, <1>2 DEF Send, IInv, TypeOK
<1>5. deliveries[k].messages \subseteq sent /\ m \notin deliveries[k].messages
  BY <1>1, <1>4 DEF Told
<1>6. Cardinality(d.messages) = Cardinality(deliveries[k].messages) + 1
  BY <1>1, <1>3, <1>5, OutputIs, FS_AddElement
<1>7. Cardinality(deliveries[k].messages) < Cardinality(Message)
  <2>1. Cardinality(d.messages) <= Cardinality(Message)
    BY <1>3, OutputIs
  <2> QED
    BY <2>1, <1>1, <1>6, OutputIs
<1>8. PICK n \in Nat : n = Cardinality(deliveries[k].messages)
  BY <1>1, OutputIs
<1>9. Records[k] = Row(d.chat, d.status, n)
  BY <1>1, <1>3, <1>8, RecordIs DEF IInv
<1>10. Records' = [Records EXCEPT ![k] = WithOutput(Records[k], n + 1)]
  <2>1. WithOutput(Records[k], n + 1) = Row(d.chat, d.status, n + 1)
    BY <1>9, RowFields
  <2>2. Cardinality(d.messages) = n + 1
    BY <1>6, <1>8
  <2>3. Records' = [Records EXCEPT ![k] = Row(d.chat, d.status, Cardinality(d.messages))]
    BY <1>1, <1>3, <1>4, OneRecord DEF IInv
  <2> QED
    BY <2>1, <2>2, <2>3
<1>11. Records' = [Records EXCEPT ![k].output = @ + 1]
  <2>1. Records[k].output = n
    BY <1>9, RowFields
  <2> QED
    BY <2>1, <1>10 DEF WithOutput
<1>12. Gateway!AddReply(k)
  <2>1. Records[k] # Gateway!NoDelivery /\ Records[k].output < Cardinality(Message)
    BY <1>1, <1>7, <1>8, <1>9, RecordIs, RowFields DEF IInv
  <2> QED
    BY <2>1, <1>11 DEF Gateway!AddReply, Records
<1>13. \A j \in Key : Known(j) => deliveries'[j].messages \subseteq sent'
  BY <1>1, <1>3, <1>4 DEF Told, IInv, TypeOK
<1> QED
  BY <1>1, <1>12, <1>13 DEF Obeys, Gateway!GatewayNext

LEMMA RunnerTells ==
  ASSUME IInv, Told, TypeOK', NEW c \in Chat, RunnerStep(c)
  PROVE  Told' /\ Obeys
<1>1. RowsKept /\ request' = request /\ sent \subseteq sent'
  <2>1. sent \subseteq sent'
    BY DEF RunnerStep, TurnStart, TurnEnd, TurnNext, AskApproval, ExpireApproval, Send
  <2> QED
    BY <2>1, HookKeeps
<1> SUFFICES /\ \A k \in Key : Known(k) => deliveries'[k].messages \subseteq sent'
             /\ Obeys
  BY <1>1, ToldStays DEF Told
<1>2. \A k \in Key : Known(k) => deliveries[k].messages \subseteq sent'
  BY <1>1 DEF Told
<1>3. CASE TurnStart(c) \/ (TurnEnd(c) /\ StaysQueued(c))
  <2>1. PICK s \in Active : UpdateRun(HookRun(c), s)
    BY <1>3 DEF TurnStart, TurnEnd, Active
  <2>2. \A k \in HookRun(c) : /\ deliveries[k] \in Delivery
                              /\ deliveries'[k] = [deliveries[k] EXCEPT !.status = s]
    BY <2>1, RecordTyped DEF UpdateRun, HookRun, Latest, IInv
  <2>3. \A k \in HookRun(c) : /\ deliveries'[k] \in Delivery
                              /\ deliveries'[k].chat = deliveries[k].chat
                              /\ deliveries'[k].messages = deliveries[k].messages
    BY <2>2 DEF Delivery
  <2>4. \A k \in Key \ HookRun(c) : deliveries'[k] = deliveries[k]
    BY <2>1 DEF UpdateRun
  <2> QED
    BY <2>3, <2>4, <1>2, HookMovesOn DEF IInv
<1>4. CASE TurnEnd(c) /\ ~StaysQueued(c)
  <2>1. PICK o \in Outcome :
           deliveries' = [k \in Key |->
              IF k \in HookRun(c)
              THEN [deliveries[k] EXCEPT !.status = StatusOf(o), !.approval = 0]
              ELSE deliveries[k]]
    BY <1>4 DEF TurnEnd
  <2>2. PICK s \in Terminal : s = StatusOf(o)
    BY DEF Outcome, StatusOf, Terminal
  <2>3. \A k \in HookRun(c) : /\ deliveries[k] \in Delivery
                              /\ deliveries'[k] = [deliveries[k] EXCEPT !.status = s, !.approval = 0]
    BY <2>1, <2>2, RecordTyped DEF HookRun, Latest, IInv
  <2>4. \A k \in HookRun(c) : /\ deliveries'[k] \in Delivery
                              /\ deliveries'[k].chat = deliveries[k].chat
                              /\ deliveries'[k].messages = deliveries[k].messages
    BY <2>3, NoApproval DEF Delivery
  <2>5. \A k \in Key \ HookRun(c) : deliveries'[k] = deliveries[k]
    BY <2>1
  <2> QED
    BY <2>4, <2>5, <1>2, HookMovesOn DEF IInv
<1>5. CASE TurnNext(c) \/ AskApproval(c) \/ ExpireApproval(c)
  <2>1. deliveries' = deliveries
    BY <1>5 DEF TurnNext, AskApproval, ExpireApproval
  <2> QED
    BY <2>1, <1>2, SameRecords
<1>6. CASE \E m \in Message : Send(c, m)
  BY <1>6, SendAdds
<1> QED
  BY <1>3, <1>4, <1>5, <1>6 DEF RunnerStep

\* A status request writes only when the approval it finds is news.
LEMMA StatusTells ==
  ASSUME IInv, Told, NEW k \in Key, Status(k)
  PROVE  Told' /\ Obeys
<1>1. /\ Known(k) /\ deliveries[k] \in Delivery
      /\ deliveries' = [deliveries EXCEPT ![k] = Refresh(deliveries[k])]
      /\ UNCHANGED <<nextRow, request, sent>>
  BY RecordTyped DEF Status, IInv
<1> PICK d \in Delivery : d = Refresh(deliveries[k])
  BY <1>1, RefreshTyped DEF IInv
<1>2. /\ d.chat = deliveries[k].chat /\ d.seq = deliveries[k].seq /\ d.messages = deliveries[k].messages
      /\ ~IsActive(k) => d = deliveries[k]
  BY <1>1, RefreshTyped DEF IInv, IsActive
<1>3. deliveries'[k] = d /\ \A j \in Key \ {k} : deliveries'[j] = deliveries[j]
  BY <1>1 DEF IInv, TypeOK
<1>4. RowsKept
  BY <1>1, <1>2, <1>3 DEF RowsKept, Known, Delivery, NoDelivery
<1>5. Told'
  BY <1>1, <1>2, <1>3, <1>4, ToldStays DEF Told
<1>6. CASE IsActive(k)
  <2>1. Gateway!Progress(k) \/ Gateway!Settle(k)
    BY <1>1, <1>2, <1>6, RowMovesOn DEF IInv
  <2> QED
    BY <2>1, <1>5 DEF Obeys, Gateway!GatewayNext
<1>7. CASE ~IsActive(k)
  <2>1. deliveries' = deliveries
    BY <1>1, <1>2, <1>7 DEF IInv, TypeOK
  <2> QED
    BY <2>1, <1>5, SameRecords
<1> QED
  BY <1>6, <1>7

LEMMA ProcessTells ==
  ASSUME IInv, Told, Crash \/ Boot
  PROVE  Told' /\ Obeys
<1>1. CASE Crash
  <2>1. deliveries' = deliveries /\ nextRow' = nextRow /\ sent' = sent /\ \A h \in Request : request'[h] = Idle
    BY <1>1 DEF Crash
  <2>2. RowsKept
    BY <2>1 DEF RowsKept, Known
  <2> QED
    BY <2>1, <2>2, SameRecords, ToldStays DEF Told
<1>2. CASE Boot
  <2>1. /\ UNCHANGED <<nextRow, sent, request>>
        /\ deliveries' = [k \in Key |->
              IF IsActive(k) THEN [deliveries[k] EXCEPT !.status = "interrupted", !.approval = 0]
              ELSE deliveries[k]]
    BY <1>2 DEF Boot, Interrupted
  <2>2. ASSUME NEW k \in Key, IsActive(k)
        PROVE  /\ deliveries[k] \in Delivery /\ deliveries'[k] \in Delivery
               /\ deliveries'[k].chat = deliveries[k].chat /\ deliveries'[k].seq = deliveries[k].seq
               /\ deliveries'[k].messages = deliveries[k].messages
               /\ deliveries'[k].status = "interrupted"
    <3>1. deliveries[k] \in Delivery /\ deliveries'[k] = [deliveries[k] EXCEPT !.status = "interrupted", !.approval = 0]
      BY <2>1, <2>2, RecordTyped DEF IInv
    <3>2. [deliveries[k] EXCEPT !.status = "interrupted", !.approval = 0] \in Delivery
      BY <3>1, NoApproval, DeliveryEdits DEF Terminal
    <3> QED
      BY <3>1, <3>2 DEF Delivery
  <2>3. \A k \in Key : ~IsActive(k) => deliveries'[k] = deliveries[k]
    BY <2>1
  <2>4. RowsKept
    BY <2>1, <2>2, <2>3 DEF RowsKept, Known, Delivery, NoDelivery
  <2>5. Told'
    BY <2>1, <2>2, <2>3, <2>4, ToldStays DEF Told
  <2>6. ASSUME NEW k \in Key
        PROVE  Record(k)' = IF Records[k].status \in Gateway!Active
                            THEN WithStatus(Records[k], "interrupted") ELSE Records[k]
    <3>1. CASE IsActive(k)
      <4>1. Record(k)' = Row(deliveries[k].chat, "interrupted", Cardinality(deliveries[k].messages))
        BY <2>2, <3>1 DEF Record, Row, Delivery, NoDelivery
      <4>2. WithStatus(Records[k], "interrupted")
               = Row(deliveries[k].chat, "interrupted", Cardinality(deliveries[k].messages))
        BY <3>1, RecordIs, RecordTyped, RowFields DEF IInv
      <4> QED
        BY <3>1, <4>1, <4>2, RecordIs DEF IInv
    <3>2. CASE ~IsActive(k)
      BY <2>3, <3>2, RecordIs DEF IInv, Records, Record
    <3> QED
      BY <3>1, <3>2
  <2>7. Gateway!Interrupt
    BY <2>6 DEF Gateway!Interrupt, Records, WithStatus
  <2> QED
    BY <2>5, <2>7 DEF Obeys, Gateway!GatewayNext
<1> QED
  BY <1>1, <1>2

\* The gateway that Runs is proved against is what the adapter's code does:
\* every step is an action of Gateway, or leaves the records as they are.
THEOREM ChannelImplementsGateway == Spec => ImplementsGateway
<1>1. Init => Told /\ Gateway!GatewayInit
  <2> SUFFICES ASSUME Init PROVE Told /\ Gateway!GatewayInit
    OBVIOUS
  <2>1. \A k \in Key : ~Known(k) /\ Record(k) = Gateway!NoDelivery
    BY DEF Init, Known, Record, NoDelivery, Gateway!NoDelivery
  <2>2. \A h \in Request : request[h] = Idle
    BY DEF Init
  <2> QED
    BY <2>1, <2>2 DEF Told, Gateway!GatewayInit
<1>2. ASSUME IInv, Told, [Next]_vars PROVE Told' /\ Obeys
  <2>0. TypeOK'
    BY <1>2, StepTyped DEF IInv
  <2>1. ASSUME NEW h \in Request, RequestStep(h) PROVE Told' /\ Obeys
    <3>1. CASE \E k \in Key, c \in Chat : Submit(h, k, c)
      BY <1>2, <3>1, SubmitTells
    <3>2. CASE \E k \in Key, kind \in Controls : ReadControl(h, k, kind)
      BY <1>2, <3>2, ReadTells
    <3>3. CASE Refuse(h) \/ Approve(h) \/ Steer(h)
      BY <1>2, <3>3, WriteTells
    <3>4. CASE Admit(h) \/ HandUpdate(h) \/ HandCommand(h) \/ Abandon(h)
      BY <1>2, <3>4, ReturnTells
    <3> QED
      BY <2>1, <3>1, <3>2, <3>3, <3>4 DEF RequestStep
  <2>2. CASE UNCHANGED vars
    <3>1. UNCHANGED <<deliveries, nextRow, request, sent>> /\ RowsKept
      BY <2>2 DEF vars, RowsKept, Known
    <3> QED
      BY <1>2, <3>1, SameRecords, ToldStays DEF Told
  <2> QED
    BY <1>2, <2>0, <2>1, <2>2, StatusTells, RunnerTells, ProcessTells DEF Next
<1>3. Obeys => [Gateway!GatewayNext]_[k \in Key |-> Record(k)]
  BY DEF Obeys, Records
<1> QED
  BY <1>1, <1>2, <1>3, Invariance, PTL DEF Spec, ImplementsGateway, Gateway!GatewaySpec

=============================================================================
