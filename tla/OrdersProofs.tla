---------------------------- MODULE OrdersProofs ----------------------------
(***************************************************************************)
(* Proofs about Orders for any number of intents, handlers and failures.   *)
(* The invariants do not depend on how often or in which order requests,   *)
(* answers and restarts come, so every step is first reduced to one of a   *)
(* few kinds of change to the rows, the workers and the exchange.          *)
(***************************************************************************)
EXTENDS Orders, FiniteSetTheorems, TLAPS

(* Records and continuations *)

LEMMA HandlersWork == Handlers \subseteq Workers /\ Reconciler \in Workers
  BY DEF Workers

LEMMA AbsentType == Absent \in OrderRecord
  BY SizesAssumption DEF Absent, OrderRecord

LEMMA OpenOrderType ==
  ASSUME NEW order \in OrderRecord, order.status \in OpenStatuses
  PROVE  order \in [status : Statuses, filled : 0 .. Qty]
  BY DEF OrderRecord, OpenStatuses, Absent

LEMMA FilledType ==
  ASSUME NEW order \in OrderRecord
  PROVE  order.filled \in 0 .. Qty
<1>1. CASE order = Absent
  BY <1>1, SizesAssumption DEF Absent
<1>2. CASE order \in [status : Statuses, filled : 0 .. Qty]
  BY <1>2
<1> QED BY <1>1, <1>2 DEF OrderRecord

LEMMA CalledType ==
  ASSUME TypeOK, NEW i \in Intents, NEW op \in ApiCalls, Called(op, i)
  PROVE  calls' \in [Intents -> [ApiCalls -> Nat]]
<1>1. calls[i] \in [ApiCalls -> Nat]
  BY DEF TypeOK
<1>2. [calls[i] EXCEPT ![op] = @ + 1] \in [ApiCalls -> Nat]
  BY <1>1
<1>3. calls' = [calls EXCEPT ![i] = [calls[i] EXCEPT ![op] = @ + 1]]
  BY DEF Called
<1> QED BY <1>2, <1>3 DEF TypeOK

LEMMA IdleType == Idle \in Continuations
  BY AbsentType DEF Idle, Continuations, Steps

LEMMA AtType ==
  ASSUME NEW step \in Steps, NEW i \in Intents
  PROVE  At(step, i) \in Continuations
  BY AbsentType DEF At, Continuations

LEMMA ApplyType ==
  ASSUME NEW i \in Intents, NEW answer \in OrderRecord
  PROVE  Apply(i, answer) \in Continuations
  BY DEF Apply, Continuations, Steps

LEMMA GotoType ==
  ASSUME TypeOK, NEW w \in Workers, NEW c \in Continuations, Goto(w, c)
  PROVE  /\ worker' \in [Workers -> Continuations]
         /\ worker'[w] = c
         /\ \A v \in Workers \ {w} : worker'[v] = worker[v]
  BY DEF TypeOK, Goto

LEMMA BusyIntent ==
  ASSUME BusyWithAnIntent, NEW w \in Workers, worker[w].pc # "idle"
  PROVE  worker[w].intent \in Intents
  BY DEF BusyWithAnIntent

(* The creation ticket counts rows, of which there are finitely many.       *)
LEMMA TicketType == Cardinality({j \in Intents : Exists(j)}) + 1 \in Nat
<1>1. IsFiniteSet({j \in Intents : Exists(j)})
  BY IntentsAssumption, FS_Subset, {j \in Intents : Exists(j)} \subseteq Intents
<1> QED BY <1>1, FS_CardinalityType

-----------------------------------------------------------------------------
(* Types *)

LEMMA TypeStep ==
  ASSUME TypeOK, BusyWithAnIntent, [Next]_vars
  PROVE  TypeOK'
<1> USE DEF database, process, exchange
<1>1. ASSUME NEW h \in Handlers, NEW i \in Intents,
             PlaceRequest(h, i) \/ SyncRequest(h, i) \/ CancelRequest(h, i)
      PROVE  TypeOK'
  <2>1. worker' \in [Workers -> Continuations]
    BY <1>1, HandlersWork, GotoType, AtType
       DEF PlaceRequest, SyncRequest, CancelRequest, TypeOK, Steps
  <2>2. calls' \in [Intents -> [ApiCalls -> Nat]]
    BY <1>1, CalledType DEF PlaceRequest, SyncRequest, CancelRequest, ApiCalls
  <2> QED
    BY <1>1, <2>1, <2>2 DEF PlaceRequest, SyncRequest, CancelRequest, TypeOK
<1>2. ASSUME NEW w \in Workers,
             \/ CredentialsRefused(w) \/ CreateConflict(w) \/ SyncPaper(w)
             \/ FetchFails(w) \/ CancelFails(w) \/ WriteFails(w)
      PROVE  TypeOK'
  BY <1>2, GotoType, IdleType, BoundsAssumption
     DEF CredentialsRefused, CreateConflict, SyncPaper, FetchFails, CancelFails,
         WriteFails, TypeOK
<1>3. ASSUME NEW w \in Workers, CreateRow(w)
      PROVE  TypeOK'
  <2> DEFINE i == worker[w].intent
  <2>1. i \in Intents
    BY <1>3, BusyIntent DEF CreateRow
  <2>2. row' \in [Intents -> [state : RowStates, filled : 0 .. Qty]]
    BY <1>3, <2>1 DEF CreateRow, TypeOK, RowStates
  <2>3. created' \in [Intents -> Nat]
    BY <1>3, <2>1, TicketType DEF CreateRow, TypeOK
  <2>4. worker' \in [Workers -> Continuations]
    BY <1>3, <2>1, GotoType, AtType DEF CreateRow, Steps
  <2> QED
    BY <1>3, <2>2, <2>3, <2>4 DEF CreateRow, TypeOK
<1>4. ASSUME NEW w \in Workers, PaperFill(w) \/ RecordFailure(w) \/ CancelPaper(w)
      PROVE  TypeOK'
  <2>1. worker[w].intent \in Intents /\ worker' \in [Workers -> Continuations]
    BY <1>4, GotoType, IdleType, BusyIntent DEF PaperFill, RecordFailure, CancelPaper
  <2>2. [state |-> "FILLED", filled |-> Qty] \in [state : RowStates, filled : 0 .. Qty]
    BY SizesAssumption DEF RowStates, Statuses, TerminalStates
  <2>3. \A state \in {"PENDING", "REJECTED", "CANCELED"} :
           [row EXCEPT ![worker[w].intent].state = state]
              \in [Intents -> [state : RowStates, filled : 0 .. Qty]]
    BY <2>1 DEF TypeOK, RowStates, Statuses, TerminalStates
  <2>4. row' \in [Intents -> [state : RowStates, filled : 0 .. Qty]]
    BY <1>4, <2>1, <2>2, <2>3 DEF PaperFill, RecordFailure, CancelPaper, TypeOK
  <2> QED
    BY <1>4, <2>1, <2>4 DEF PaperFill, RecordFailure, CancelPaper, TypeOK
<1>5. ASSUME NEW w \in Workers, Submit(w)
      PROVE  TypeOK'
  <2>1. worker' \in [Workers -> Continuations]
    BY <1>5, GotoType, AtType, BusyIntent DEF Submit, Steps
  <2>2. sent' \in [Intents -> Nat]
    BY <1>5, BusyIntent DEF Submit, TypeOK
  <2> QED
    BY <1>5, <2>1, <2>2, BusyIntent DEF Submit, TypeOK
<1>6. ASSUME NEW w \in Workers, PlaceAnswered(w) \/ FetchOrder(w)
      PROVE  TypeOK'
  BY <1>6, GotoType, ApplyType, BusyIntent DEF PlaceAnswered, FetchOrder, TypeOK
<1>7. ASSUME NEW w \in Workers,
             \/ PlaceRefused(w) \/ PlaceRetryable(w) \/ PlacePlainError(w)
             \/ CancelAcknowledged(w)
      PROVE  TypeOK'
  BY <1>7, GotoType, AtType, BusyIntent
     DEF PlaceRefused, PlaceRetryable, PlacePlainError, CancelAcknowledged, TypeOK, Steps
<1>8. ASSUME NEW w \in Workers, ApplyResult(w)
      PROVE  TypeOK'
  <2> DEFINE i == worker[w].intent
  <2> DEFINE answer == worker[w].answer
  <2>1. i \in Intents /\ answer \in OrderRecord /\ worker' \in [Workers -> Continuations]
    BY <1>8, BusyIntent, GotoType, IdleType DEF ApplyResult, TypeOK, Continuations
  <2>2. row' \in [Intents -> [state : RowStates, filled : 0 .. Qty]]
    <3>1. CASE answer = Absent
      BY <1>8, <2>1, <3>1 DEF ApplyResult, TypeOK, RowStates, Statuses, TerminalStates
    <3>2. CASE answer # Absent
      <4>1. [state |-> answer.status, filled |-> answer.filled]
               \in [state : RowStates, filled : 0 .. Qty]
        BY <2>1, <3>2 DEF OrderRecord, RowStates
      <4> QED BY <1>8, <2>1, <3>2, <4>1 DEF ApplyResult, TypeOK
    <3> QED BY <3>1, <3>2
  <2> QED BY <1>8, <2>1, <2>2 DEF ApplyResult, TypeOK
<1>9. ASSUME NEW w \in Workers, CancelOrder(w)
      PROVE  TypeOK'
  <2> DEFINE i == worker[w].intent
  <2> DEFINE closed == [book[i] EXCEPT !.status = "CANCELED"]
  <2>1. i \in Intents
    BY <1>9, BusyIntent DEF CancelOrder
  <2>2. closed \in OrderRecord
    BY <1>9, <2>1 DEF CancelOrder, TypeOK, OrderRecord, Statuses, OpenStatuses,
                      TerminalStates, Absent
  <2>3. worker' \in [Workers -> Continuations]
    BY <1>9, <2>1, <2>2, GotoType, IdleType, ApplyType DEF CancelOrder
  <2> QED BY <1>9, <2>1, <2>2, <2>3 DEF CancelOrder, TypeOK
<1>10. ASSUME NEW i \in Intents, Land(i)
       PROVE  TypeOK'
  <2>1. \A status \in {"NEW", "REJECTED"} : [status |-> status, filled |-> 0] \in OrderRecord
    BY SizesAssumption DEF OrderRecord, Statuses, OpenStatuses, TerminalStates
  <2>2. [status |-> "FILLED", filled |-> Qty] \in OrderRecord
    BY SizesAssumption DEF OrderRecord, Statuses, OpenStatuses, TerminalStates
  <2> QED BY <1>10, <2>1, <2>2 DEF Land, TypeOK
<1>11. ASSUME NEW i \in Intents, Trade(i)
       PROVE  TypeOK'
  <2> DEFINE filled == book[i].filled + 1
  <2>1. book[i].filled \in 0 .. Qty
    BY FilledType DEF TypeOK
  <2>2. [status |-> IF filled = Qty THEN "FILLED" ELSE "PARTIALLY_FILLED", filled |-> filled]
           \in OrderRecord
    BY <1>11, <2>1, SizesAssumption DEF Trade, OrderRecord, Statuses, OpenStatuses, TerminalStates
  <2> QED BY <1>11, <2>2 DEF Trade, TypeOK
<1>12. ASSUME NEW i \in Intents, CloseOnExchange(i)
       PROVE  TypeOK'
  <2>0. book[i] \in [status : Statuses, filled : 0 .. Qty]
    BY <1>12, OpenOrderType DEF CloseOnExchange, TypeOK
  <2>1. \A status \in {"CANCELED", "EXPIRED"} :
           [book[i] EXCEPT !.status = status] \in OrderRecord
    BY <2>0 DEF OrderRecord, Statuses, TerminalStates
  <2> QED BY <1>12, <2>1 DEF CloseOnExchange, TypeOK
<1>13. ASSUME NEW i \in Intents, FailToLand(i) \/ Age(i)
       PROVE  TypeOK'
  BY <1>13 DEF FailToLand, Age, TypeOK
<1>14. ASSUME ReconcilerTick
       PROVE  TypeOK'
  BY <1>14 DEF ReconcilerTick, Oldest, Candidates, TypeOK
<1>15. ASSUME ReconcilerNext
       PROVE  TypeOK'
  <2>1. PICK i \in batch : Goto(Reconciler, At("sync", i)) /\ batch' = batch \ {i}
    BY <1>15 DEF ReconcilerNext, Oldest
  <2>2. worker' \in [Workers -> Continuations]
    BY <2>1, HandlersWork, GotoType, AtType DEF TypeOK, Intents, Steps
  <2> QED BY <1>15, <2>1, <2>2 DEF ReconcilerNext, TypeOK
<1>16. ASSUME Crash
       PROVE  TypeOK'
  BY <1>16, IdleType, BoundsAssumption DEF Crash, TypeOK
<1>17. ASSUME UNCHANGED vars
       PROVE  TypeOK'
  BY <1>17 DEF TypeOK, vars
<1> QED
  BY HandlersWork, <1>1, <1>2, <1>3, <1>4, <1>5, <1>6, <1>7, <1>8, <1>9, <1>10, <1>11,
     <1>12, <1>13, <1>14, <1>15, <1>16, <1>17 DEF Next, Continue

-----------------------------------------------------------------------------
(* Kinds of steps *)

Recorded == {i \in Intents : Exists(i)}

(* A handler goes on without touching a row or the exchange.                *)
Moves(w) ==
    \E c \in Continuations :
        /\ Goto(w, c)
        /\ c.pc \notin {"paper", "queued"}
        /\ c.pc # "idle" => c.intent \in Intents
        /\ c.pc \notin {"idle", "create"} => Exists(c.intent)
        /\ c.pc = "cancelPaper" => c.intent \in Paper
        /\ c.pc = "apply" => c.intent \in Live /\ c.answer = book[c.intent]
        /\ batch' \subseteq batch
        /\ UNCHANGED <<row, book, wire, sent>>

(* Nothing of the rows, the workers or the exchange changes.                *)
Rests ==
    /\ batch' \subseteq batch \cup Recorded
    /\ UNCHANGED <<row, worker, book, wire, sent>>

(* A worker writes a paper row, a failure or an answer, and is done.        *)
Writes(w) ==
    /\ PaperFill(w) \/ CancelPaper(w) \/ RecordFailure(w) \/ ApplyResult(w)
    /\ Goto(w, Idle)
    /\ UNCHANGED <<batch, book, wire, sent>>

(* The exchange's record of an order that was sent gains fills or closes.   *)
Executes(i) ==
    /\ i \in Intents
    /\ sent[i] = 1
    /\ book[i].status \notin TerminalStates
    /\ \E order \in [status : Statuses, filled : 0 .. Qty] :
          /\ order.filled >= book[i].filled
          /\ book' = [book EXCEPT ![i] = order]
    /\ \/ UNCHANGED wire /\ wire[i] # "travelling"
       \/ wire' = [wire EXCEPT ![i] = "landed"]
    /\ UNCHANGED <<row, batch, sent>>

LEMMA RequestMoves ==
  ASSUME IInv, NEW h \in Handlers, NEW i \in Intents,
         PlaceRequest(h, i) \/ SyncRequest(h, i) \/ CancelRequest(h, i)
  PROVE  Moves(h) \/ Rests
<1>1. CASE PlaceRequest(h, i) /\ UNCHANGED worker
  BY <1>1 DEF PlaceRequest, Rests, database, exchange
<1>2. CASE \/ PlaceRequest(h, i) /\ ~UNCHANGED worker
           \/ SyncRequest(h, i) \/ CancelRequest(h, i)
  <2>1. PICK step \in {"create", "sync", "cancel", "cancelPaper"} :
           /\ Goto(h, At(step, i))
           /\ step # "create" => Exists(i)
           /\ step = "cancelPaper" => i \in Paper
    BY <1>2 DEF PlaceRequest, SyncRequest, CancelRequest
  <2>2. At(step, i) \in Continuations
    BY AtType DEF Steps
  <2> QED
    BY <1>2, <2>1, <2>2
       DEF Moves, At, PlaceRequest, SyncRequest, CancelRequest, database, exchange
<1> QED BY <1>1, <1>2

LEMMA StopMoves ==
  ASSUME IInv, NEW w \in Workers,
         \/ CredentialsRefused(w) \/ CreateConflict(w) \/ SyncPaper(w)
         \/ FetchFails(w) \/ CancelFails(w) \/ WriteFails(w)
  PROVE  Moves(w)
<1>1. Goto(w, Idle) /\ UNCHANGED <<row, batch, book, wire, sent>>
  BY DEF CredentialsRefused, CreateConflict, SyncPaper, FetchFails, CancelFails,
         WriteFails, database, exchange
<1> QED BY <1>1, IdleType DEF Moves, Idle

LEMMA ResumeMoves ==
  ASSUME IInv, NEW w \in Workers,
         \/ PlaceRefused(w) \/ PlaceRetryable(w) \/ PlacePlainError(w)
         \/ PlaceAnswered(w) \/ FetchOrder(w) \/ CancelAcknowledged(w)
  PROVE  Moves(w)
<1> DEFINE i == worker[w].intent
<1>1. i \in Intents /\ Exists(i)
  BY DEF IInv, BusyWithAnIntent, OwnersAreUnique, PlaceRefused, PlaceRetryable,
         PlacePlainError, PlaceAnswered, FetchOrder, CancelAcknowledged
<1>2. UNCHANGED <<row, batch, book, wire, sent>>
  BY DEF PlaceRefused, PlaceRetryable, PlacePlainError, PlaceAnswered, FetchOrder,
         CancelAcknowledged, database, exchange
<1>3. CASE PlaceRefused(w) \/ PlaceRetryable(w) \/ PlacePlainError(w) \/ CancelAcknowledged(w)
  <2>1. PICK step \in {"retryable", "final", "sync"} : Goto(w, At(step, i))
    BY <1>3 DEF PlaceRefused, PlaceRetryable, PlacePlainError, CancelAcknowledged
  <2>2. At(step, i) \in Continuations
    BY <1>1, AtType DEF Steps
  <2> QED BY <1>1, <1>2, <2>1, <2>2 DEF Moves, At
<1>4. CASE PlaceAnswered(w) \/ FetchOrder(w)
  <2>1. Goto(w, Apply(i, book[i])) /\ i \in Live
    BY <1>1, <1>4 DEF PlaceAnswered, FetchOrder, IInv, RecordedThenSent
  <2>2. Apply(i, book[i]) \in Continuations
    BY <1>1, ApplyType DEF IInv, TypeOK
  <2> QED BY <1>1, <1>2, <2>1, <2>2 DEF Moves, Apply
<1> QED BY <1>3, <1>4

LEMMA ReconcilerMoves ==
  ASSUME IInv, ReconcilerNext
  PROVE  Moves(Reconciler)
<1>1. PICK i \in batch : Goto(Reconciler, At("sync", i)) /\ batch' = batch \ {i}
  BY DEF ReconcilerNext, Oldest
<1>2. i \in Intents /\ Exists(i)
  BY <1>1 DEF IInv, TypeOK, Intents, RecordedThenSent
<1>3. At("sync", i) \in Continuations
  BY <1>2, AtType DEF Steps
<1>4. UNCHANGED <<row, book, wire, sent>>
  BY DEF ReconcilerNext, database, exchange
<1> QED BY <1>1, <1>2, <1>3, <1>4 DEF Moves, At

LEMMA TimeRests ==
  ASSUME IInv,
         ReconcilerTick \/ (\E i \in Intents : Age(i)) \/ UNCHANGED vars
  PROVE  Rests
<1>1. Candidates \subseteq Recorded
  BY DEF Candidates, Recorded, Exists, OpenStatuses, Intents
<1> QED
  BY <1>1 DEF Rests, ReconcilerTick, Oldest, Age, vars, database, process, exchange

LEMMA WorkerWrites ==
  ASSUME NEW w \in Workers,
         PaperFill(w) \/ CancelPaper(w) \/ RecordFailure(w) \/ ApplyResult(w)
  PROVE  Writes(w)
  BY DEF Writes, PaperFill, CancelPaper, RecordFailure, ApplyResult, exchange

LEMMA ExchangeExecutes ==
  ASSUME IInv, NEW i \in Intents, Land(i) \/ Trade(i) \/ CloseOnExchange(i)
  PROVE  Executes(i) /\ UNCHANGED worker
<1> USE DEF database, process
<1>1. book[i].filled \in 0 .. Qty /\ book[i] \in OrderRecord
  BY FilledType DEF IInv, TypeOK
<1>2. sent[i] = 1
  BY DEF IInv, RecordedThenSent, Land, Trade, CloseOnExchange, OpenStatuses, Absent
<1>3. CASE Land(i)
  <2>1. book[i] = Absent
    BY <1>3 DEF Land, IInv, RecordedThenSent
  <2>2. PICK outcome \in {[status |-> "NEW", filled |-> 0],
                          [status |-> "FILLED", filled |-> Qty],
                          [status |-> "REJECTED", filled |-> 0]} :
           book' = [book EXCEPT ![i] = outcome]
    BY <1>3 DEF Land
  <2>3. outcome \in [status : Statuses, filled : 0 .. Qty] /\ outcome.filled >= 0
    BY <2>2, SizesAssumption DEF Statuses, OpenStatuses, TerminalStates
  <2>4. book[i].status \notin TerminalStates /\ outcome.filled >= book[i].filled
    BY <2>1, <2>3 DEF Absent, TerminalStates
  <2> QED
    BY <1>2, <1>3, <2>2, <2>3, <2>4 DEF Land, Executes
<1>4. CASE Trade(i) \/ CloseOnExchange(i)
  <2>1. book[i] \in [status : Statuses, filled : 0 .. Qty]
    BY <1>1, <1>4, OpenOrderType DEF Trade, CloseOnExchange
  <2>2. book[i] # Absent
    BY <1>4 DEF Trade, CloseOnExchange, OpenStatuses, Absent
  <2>3. wire[i] # "travelling"
    BY <2>2 DEF IInv, RecordedThenSent
  <2>4. book[i].status \notin TerminalStates
    BY <1>4 DEF Trade, CloseOnExchange, OpenStatuses, TerminalStates
  <2>5. \E order \in [status : Statuses, filled : 0 .. Qty] :
           order.filled >= book[i].filled /\ book' = [book EXCEPT ![i] = order]
    <3>1. CASE Trade(i)
      <4> DEFINE filled == book[i].filled + 1
      <4> DEFINE order == [status |-> IF filled = Qty THEN "FILLED" ELSE "PARTIALLY_FILLED",
                           filled |-> filled]
      <4>1. filled \in 0 .. Qty /\ book' = [book EXCEPT ![i] = order]
        BY <1>1, <3>1, SizesAssumption DEF Trade
      <4>2. order \in [status : Statuses, filled : 0 .. Qty]
        BY <4>1 DEF Statuses, OpenStatuses, TerminalStates
      <4>3. order.filled >= book[i].filled
        BY <1>1, <4>1, SizesAssumption
      <4> QED BY <4>1, <4>2, <4>3
    <3>2. CASE CloseOnExchange(i)
      <4>1. PICK status \in {"CANCELED", "EXPIRED"} :
               book' = [book EXCEPT ![i].status = status]
        BY <3>2 DEF CloseOnExchange
      <4>2. [book[i] EXCEPT !.status = status] \in [status : Statuses, filled : 0 .. Qty]
        BY <2>1 DEF Statuses, TerminalStates
      <4>3. [book[i] EXCEPT !.status = status].filled = book[i].filled
        BY <2>1
      <4>4. book' = [book EXCEPT ![i] = [book[i] EXCEPT !.status = status]]
        BY <4>1
      <4>5. [book[i] EXCEPT !.status = status].filled >= book[i].filled
        BY <1>1, <4>3, SizesAssumption
      <4> QED BY <4>2, <4>4, <4>5
    <3> QED BY <1>4, <3>1, <3>2
  <2> QED
    BY <1>2, <1>4, <2>3, <2>4, <2>5 DEF Trade, CloseOnExchange, Executes
<1> QED BY <1>3, <1>4

LEMMA CancelExecutes ==
  ASSUME IInv, NEW w \in Workers, CancelOrder(w)
  PROVE  LET i == worker[w].intent
         IN  /\ Executes(i)
             /\ i \in Live
             /\ Exists(i)
             /\ Goto(w, Apply(i, book'[i])) \/ Goto(w, Idle)
<1> DEFINE i == worker[w].intent
<1> DEFINE closed == [book[i] EXCEPT !.status = "CANCELED"]
<1>1. i \in Intents /\ Exists(i)
  BY DEF IInv, BusyWithAnIntent, OwnersAreUnique, CancelOrder
<1>2. book[i] \in [status : Statuses, filled : 0 .. Qty]
  BY <1>1, OpenOrderType DEF CancelOrder, IInv, TypeOK
<1>3. book[i] # Absent
  BY DEF CancelOrder, OpenStatuses, Absent
<1>4. sent[i] = 1 /\ i \in Live /\ wire[i] # "travelling"
  BY <1>1, <1>3 DEF IInv, RecordedThenSent
<1>5. closed \in [status : Statuses, filled : 0 .. Qty] /\ closed.filled = book[i].filled
  BY <1>2 DEF Statuses, TerminalStates
<1>6. book' = [book EXCEPT ![i] = closed] /\ book'[i] = closed
  BY <1>1 DEF CancelOrder, IInv, TypeOK
<1>7. book[i].status \notin TerminalStates
  BY DEF CancelOrder, OpenStatuses, TerminalStates
<1>8. closed.filled >= book[i].filled
  BY <1>2, <1>5
<1>9. Executes(i)
  BY <1>1, <1>4, <1>5, <1>6, <1>7, <1>8 DEF CancelOrder, Executes, database
<1> QED
  BY <1>1, <1>4, <1>6, <1>9 DEF CancelOrder

LEMMA StepKinds ==
  ASSUME IInv, [Next]_vars
  PROVE  \/ Rests
         \/ \E w \in Workers :
               Moves(w) \/ CreateRow(w) \/ Submit(w) \/ Writes(w) \/ CancelOrder(w)
         \/ \E i \in Intents : (Executes(i) /\ UNCHANGED worker) \/ FailToLand(i)
         \/ Crash
  BY HandlersWork, RequestMoves, StopMoves, ResumeMoves, ReconcilerMoves, TimeRests,
     WorkerWrites, ExchangeExecutes DEF Next, Continue

-----------------------------------------------------------------------------
(* The inductive invariant *)

Kept ==
    /\ BusyWithAnIntent
    /\ RecordedThenSent
    /\ OwnersAreUnique
    /\ AnswersAreBacked
    /\ RowsClaimOnlyTheTruth

LEMMA MovesKeep ==
  ASSUME IInv, NEW w \in Workers, Moves(w)
  PROVE  Kept'
<1>1. PICK c \in Continuations :
        /\ Goto(w, c)
        /\ c.pc \notin {"paper", "queued"}
        /\ c.pc # "idle" => c.intent \in Intents
        /\ c.pc \notin {"idle", "create"} => Exists(c.intent)
        /\ c.pc = "cancelPaper" => c.intent \in Paper
        /\ c.pc = "apply" => c.intent \in Live /\ c.answer = book[c.intent]
        /\ batch' \subseteq batch
        /\ UNCHANGED <<row, book, wire, sent>>
  BY DEF Moves
<1>2. worker'[w] = c /\ \A v \in Workers \ {w} : worker'[v] = worker[v]
  BY <1>1, GotoType DEF IInv
<1>3. BusyWithAnIntent'
  BY <1>1, <1>2 DEF IInv, BusyWithAnIntent
<1>4. RecordedThenSent'
  BY <1>1 DEF IInv, RecordedThenSent, Exists
<1>5. OwnersAreUnique'
  BY <1>1, <1>2 DEF IInv, OwnersAreUnique, Exists
<1>6. AnswersAreBacked'
  <2>1. c.pc = "apply" => Backed(c.answer, book[c.intent])
    BY <1>1, FilledType DEF IInv, TypeOK, Backed, Intents
  <2> QED BY <1>1, <1>2, <2>1 DEF IInv, AnswersAreBacked
<1>7. RowsClaimOnlyTheTruth'
  BY <1>1 DEF IInv, RowsClaimOnlyTheTruth
<1> QED BY <1>3, <1>4, <1>5, <1>6, <1>7 DEF Kept

LEMMA RestsKeep ==
  ASSUME IInv, Rests
  PROVE  Kept'
<1> USE DEF IInv, Rests
<1>1. RecordedThenSent'
  BY DEF RecordedThenSent, Recorded, Exists
<1>2. OwnersAreUnique'
  BY DEF OwnersAreUnique, Exists
<1> QED
  BY <1>1, <1>2 DEF Kept, BusyWithAnIntent, AnswersAreBacked, RowsClaimOnlyTheTruth

LEMMA CreateRowKeeps ==
  ASSUME IInv, NEW w \in Workers, CreateRow(w)
  PROVE  Kept'
<1> DEFINE i == worker[w].intent
<1> DEFINE c == At(IF i \in Paper THEN "paper" ELSE "queued", i)
<1>1. i \in Intents /\ ~Exists(i)
  BY BusyIntent DEF CreateRow, IInv
<1>2. c \in Continuations /\ c.intent = i /\ c.pc \in {"paper", "queued"}
      /\ (c.pc = "paper" => i \in Paper) /\ (c.pc = "queued" => i \in Live)
  BY <1>1, AtType DEF At, Steps, Intents
<1>3. worker'[w] = c /\ \A v \in Workers \ {w} : worker'[v] = worker[v]
  BY <1>2, GotoType DEF CreateRow, IInv
<1>4. UNCHANGED <<batch, book, wire, sent>>
  BY DEF CreateRow, exchange
<1>5. \A j \in Intents : /\ row'[j].filled = row[j].filled
                         /\ Exists(j)' <=> (Exists(j) \/ j = i)
                         /\ row'[j].state = IF j = i THEN "PENDING" ELSE row[j].state
  BY <1>1 DEF CreateRow, Exists, IInv, TypeOK
<1>6. BusyWithAnIntent'
  BY <1>1, <1>2, <1>3 DEF IInv, BusyWithAnIntent
<1>7. RecordedThenSent'
  BY <1>4, <1>5 DEF IInv, RecordedThenSent
<1>8. sent[i] = 0
  BY <1>1 DEF IInv, RecordedThenSent
<1>9. OwnersAreUnique'
  <2>1. \A v \in Workers : worker[v].pc = "queued" => worker[v].intent # i
    BY <1>1 DEF IInv, OwnersAreUnique
  <2>2. \A v \in Workers : worker[v].pc \notin {"idle", "create"} => worker[v].intent \in Intents
    BY DEF IInv, BusyWithAnIntent
  <2> QED BY <1>1, <1>2, <1>3, <1>4, <1>5, <1>8, <2>1, <2>2 DEF IInv, OwnersAreUnique
<1>10. AnswersAreBacked'
  BY <1>2, <1>3, <1>4 DEF IInv, AnswersAreBacked
<1>11. RowsClaimOnlyTheTruth'
  BY <1>4, <1>5 DEF IInv, RowsClaimOnlyTheTruth, Intents
<1> QED BY <1>6, <1>7, <1>9, <1>10, <1>11 DEF Kept

LEMMA SubmitKeeps ==
  ASSUME IInv, NEW w \in Workers, Submit(w)
  PROVE  Kept'
<1> DEFINE i == worker[w].intent
<1>1. i \in Live /\ i \in Intents /\ sent[i] = 0 /\ Exists(i)
  BY DEF Submit, IInv, OwnersAreUnique, Intents
<1>2. At("placing", i) \in Continuations
  BY <1>1, AtType DEF Steps
<1>3. worker'[w] = At("placing", i) /\ \A v \in Workers \ {w} : worker'[v] = worker[v]
  BY <1>2, GotoType DEF Submit, IInv
<1>4. UNCHANGED <<row, batch, book>>
  BY DEF Submit, database
<1>5. sent' = [sent EXCEPT ![i] = 1] /\ wire' = [wire EXCEPT ![i] = "travelling"]
  BY <1>1 DEF Submit, IInv, TypeOK
<1>6. BusyWithAnIntent'
  BY <1>1, <1>3 DEF At, IInv, BusyWithAnIntent
<1>7. RecordedThenSent'
  BY <1>1, <1>4, <1>5 DEF IInv, TypeOK, RecordedThenSent, Exists
<1>8. OwnersAreUnique'
  <2>1. \A v \in Workers \ {w} : worker[v].pc = "queued" => worker[v].intent # i
    BY DEF Submit, IInv, OwnersAreUnique
  <2>2. \A j : j # i => sent'[j] = sent[j]
    BY <1>5 DEF IInv, TypeOK
  <2> QED BY <1>1, <1>3, <1>4, <2>1, <2>2 DEF At, IInv, OwnersAreUnique, Exists
<1>9. AnswersAreBacked'
  BY <1>3, <1>4 DEF At, IInv, AnswersAreBacked
<1>10. RowsClaimOnlyTheTruth'
  BY <1>4 DEF IInv, RowsClaimOnlyTheTruth
<1> QED BY <1>6, <1>7, <1>8, <1>9, <1>10 DEF Kept

LEMMA WrittenRow ==
  ASSUME IInv, NEW w \in Workers, Writes(w)
  PROVE  /\ \A j \in Intents \ {worker[w].intent} : row'[j] = row[j]
         /\ row'[worker[w].intent].state # "NONE"
<1>1. worker[w].intent \in Intents
  BY BusyIntent DEF Writes, PaperFill, CancelPaper, RecordFailure, ApplyResult, IInv
<1>2. worker[w].answer \in OrderRecord
  BY DEF IInv, TypeOK, Continuations
<1>3. worker[w].answer # Absent => worker[w].answer.status # "NONE"
  BY <1>2 DEF OrderRecord, Statuses, OpenStatuses, TerminalStates
<1> QED
  BY <1>1, <1>3
     DEF Writes, PaperFill, CancelPaper, RecordFailure, ApplyResult, IInv, TypeOK

LEMMA WritesKeep ==
  ASSUME IInv, NEW w \in Workers, Writes(w)
  PROVE  Kept'
<1> DEFINE i == worker[w].intent
<1>1. worker'[w] = Idle /\ \A v \in Workers \ {w} : worker'[v] = worker[v]
  BY GotoType, IdleType DEF Writes, IInv
<1>2. UNCHANGED <<batch, book, wire, sent>>
  BY DEF Writes
<1>3. i \in Intents
  BY BusyIntent DEF Writes, PaperFill, CancelPaper, RecordFailure, ApplyResult, IInv
<1>4. /\ \A j \in Intents \ {i} : row'[j] = row[j]
      /\ row'[i].state # "NONE"
  BY WrittenRow
<1>5. \A j \in Intents : Exists(j) => Exists(j)'
  BY <1>4 DEF Exists
<1>6. BusyWithAnIntent'
  BY <1>1 DEF Idle, IInv, BusyWithAnIntent
<1>7. RecordedThenSent'
  BY <1>2, <1>5 DEF IInv, RecordedThenSent
<1>8. OwnersAreUnique'
  <2>1. \A v \in Workers : worker[v].pc # "idle" => worker[v].intent \in Intents
    BY DEF IInv, BusyWithAnIntent
  <2> QED BY <1>1, <1>2, <1>5, <2>1 DEF Idle, IInv, OwnersAreUnique
<1>9. AnswersAreBacked'
  BY <1>1, <1>2 DEF Idle, IInv, AnswersAreBacked
<1>10. RowsClaimOnlyTheTruth'
  <2> SUFFICES ASSUME i \in Live
               PROVE  /\ row'[i].filled <= book[i].filled
                      /\ row'[i].state \in {"FILLED", "CANCELED", "EXPIRED"}
                            => book[i] = [status |-> row'[i].state, filled |-> row'[i].filled]
    BY <1>2, <1>4 DEF IInv, RowsClaimOnlyTheTruth, Intents
  <2>1. i \notin Paper
    BY IntentsAssumption
  <2>2. row[i].filled <= book[i].filled
    BY DEF IInv, RowsClaimOnlyTheTruth
  <2>3. ~PaperFill(w) /\ ~CancelPaper(w)
    BY <2>1 DEF PaperFill, CancelPaper, IInv, OwnersAreUnique
  <2>4. CASE RecordFailure(w)
    BY <1>3, <2>2, <2>4 DEF RecordFailure, IInv, TypeOK
  <2>5. CASE ApplyResult(w)
    <3> DEFINE answer == worker[w].answer
    <3>1. answer \in OrderRecord /\ Backed(answer, book[i])
      BY <2>5 DEF ApplyResult, IInv, TypeOK, Continuations, AnswersAreBacked
    <3>2. CASE answer = Absent
      BY <1>3, <2>2, <2>5, <3>2 DEF ApplyResult, IInv, TypeOK
    <3>3. CASE answer # Absent
      <4>1. row'[i].state = answer.status /\ row'[i].filled = answer.filled
        BY <1>3, <2>5, <3>3 DEF ApplyResult, IInv, TypeOK
      <4>2. answer = [status |-> answer.status, filled |-> answer.filled]
        BY <3>1, <3>3 DEF OrderRecord
      <4> QED BY <3>1, <4>1, <4>2 DEF Backed
    <3> QED BY <3>2, <3>3
  <2> QED BY <2>3, <2>4, <2>5 DEF Writes
<1> QED BY <1>6, <1>7, <1>8, <1>9, <1>10 DEF Kept

(* An order of the exchange only grows, so what was true of it stays true.  *)
LEMMA BackedGrows ==
  ASSUME NEW a \in OrderRecord, NEW o \in OrderRecord, NEW p \in OrderRecord,
         Backed(a, o), p.filled >= o.filled, o.status \in TerminalStates => p = o
  PROVE  Backed(a, p)
<1>1. a.filled \in 0 .. Qty /\ o.filled \in 0 .. Qty /\ p.filled \in 0 .. Qty
  BY FilledType
<1> QED BY <1>1, SizesAssumption DEF Backed, TerminalStates

LEMMA ExecutesGrows ==
  ASSUME IInv, NEW i, Executes(i)
  PROVE  \A j \in Intents :
            /\ book'[j] \in OrderRecord
            /\ book'[j].filled >= book[j].filled
            /\ book[j].status \in TerminalStates => book'[j] = book[j]
<1>1. i \in Intents /\ book[i].status \notin TerminalStates
  BY DEF Executes
<1>2. PICK order \in [status : Statuses, filled : 0 .. Qty] :
         order.filled >= book[i].filled /\ book' = [book EXCEPT ![i] = order]
  BY DEF Executes
<1>3. \A j \in Intents : book[j].filled \in 0 .. Qty
  BY FilledType DEF IInv, TypeOK
<1>4. order \in OrderRecord
  BY DEF OrderRecord
<1> QED BY <1>1, <1>2, <1>3, <1>4, SizesAssumption DEF IInv, TypeOK

(* What follows whenever an order of the exchange changes, whatever the     *)
(* workers do meanwhile.                                                    *)
LEMMA ExecutesKeeps ==
  ASSUME IInv, NEW i, Executes(i)
  PROVE  /\ RecordedThenSent'
         /\ RowsClaimOnlyTheTruth'
         /\ \A v \in Workers :
               worker[v].pc = "apply" => Backed(worker[v].answer, book'[worker[v].intent])
<1>1. UNCHANGED <<row, batch, sent>> /\ sent[i] = 1 /\ i \in Intents
  BY DEF Executes
<1>2. \A j \in Intents \ {i} : book'[j] = book[j] /\ wire'[j] = wire[j]
  BY DEF Executes, IInv, TypeOK
<1>3. wire'[i] # "travelling"
  BY DEF Executes, IInv, TypeOK
<1>4. RecordedThenSent'
  BY <1>1, <1>2, <1>3 DEF IInv, RecordedThenSent, Exists
<1>5. \A j \in Intents : row[j].filled \in 0 .. Qty /\ book[j].filled \in 0 .. Qty
  BY FilledType DEF IInv, TypeOK
<1>6. \A j \in Intents : book'[j].filled \in 0 .. Qty
  BY ExecutesGrows, FilledType
<1>7. RowsClaimOnlyTheTruth'
  <2> SUFFICES ASSUME NEW j \in Live
               PROVE  /\ row[j].filled <= book'[j].filled
                      /\ row[j].state \in {"FILLED", "CANCELED", "EXPIRED"}
                            => book'[j] = [status |-> row[j].state, filled |-> row[j].filled]
    BY <1>1 DEF RowsClaimOnlyTheTruth
  <2>1. j \in Intents
    BY DEF Intents
  <2>2. row[j].filled <= book'[j].filled
    <3>1. row[j].filled <= book[j].filled
      BY DEF IInv, RowsClaimOnlyTheTruth
    <3>2. book[j].filled <= book'[j].filled
      BY <1>5, <1>6, <2>1, ExecutesGrows, SizesAssumption
    <3> QED BY <1>5, <1>6, <2>1, <3>1, <3>2, SizesAssumption
  <2>3. ASSUME row[j].state \in {"FILLED", "CANCELED", "EXPIRED"}
        PROVE  book'[j] = [status |-> row[j].state, filled |-> row[j].filled]
    <3>1. book[j] = [status |-> row[j].state, filled |-> row[j].filled]
      BY <2>3 DEF IInv, RowsClaimOnlyTheTruth
    <3>2. book[j].status \in TerminalStates
      BY <2>3, <3>1 DEF TerminalStates
    <3> QED BY <2>1, <3>1, <3>2, ExecutesGrows
  <2> QED BY <2>2, <2>3
<1>8. ASSUME NEW v \in Workers, worker[v].pc = "apply"
      PROVE  Backed(worker[v].answer, book'[worker[v].intent])
  <2>1. worker[v].intent \in Intents /\ worker[v].answer \in OrderRecord
    BY <1>8, BusyIntent DEF IInv, TypeOK, Continuations
  <2>2. Backed(worker[v].answer, book[worker[v].intent])
    BY <1>8 DEF IInv, AnswersAreBacked
  <2>3. book[worker[v].intent] \in OrderRecord
    BY <2>1 DEF IInv, TypeOK
  <2> QED BY <2>1, <2>2, <2>3, ExecutesGrows, BackedGrows
<1> QED BY <1>4, <1>7, <1>8

LEMMA ExchangeKeeps ==
  ASSUME IInv, NEW i, Executes(i), UNCHANGED worker
  PROVE  Kept'
<1>1. UNCHANGED <<row, sent>>
  BY DEF Executes
<1>2. BusyWithAnIntent' /\ OwnersAreUnique'
  BY <1>1 DEF IInv, BusyWithAnIntent, OwnersAreUnique, Exists
<1>3. AnswersAreBacked'
  BY ExecutesKeeps DEF AnswersAreBacked
<1> QED BY <1>2, <1>3, ExecutesKeeps DEF Kept

LEMMA CancelKeeps ==
  ASSUME IInv, NEW w \in Workers, CancelOrder(w)
  PROVE  Kept'
<1> DEFINE i == worker[w].intent
<1>1. /\ Executes(i) /\ i \in Live /\ Exists(i)
      /\ Goto(w, Apply(i, book'[i])) \/ Goto(w, Idle)
  BY CancelExecutes
<1>2. i \in Intents /\ book'[i] \in OrderRecord
  BY <1>1, ExecutesGrows DEF Intents
<1>3. /\ worker'[w] = Apply(i, book'[i]) \/ worker'[w] = Idle
      /\ \A v \in Workers \ {w} : worker'[v] = worker[v]
  BY <1>1, <1>2, GotoType, ApplyType, IdleType DEF IInv
<1>4. UNCHANGED <<row, sent>>
  BY <1>1 DEF Executes
<1>5. BusyWithAnIntent'
  BY <1>2, <1>3 DEF IInv, BusyWithAnIntent, Apply, Idle
<1>6. OwnersAreUnique'
  BY <1>1, <1>3, <1>4 DEF IInv, OwnersAreUnique, Exists, Apply, Idle
<1>7. AnswersAreBacked'
  <2>1. Backed(book'[i], book'[i])
    BY <1>2, FilledType, SizesAssumption DEF Backed
  <2>2. CASE worker'[w] = Idle
    BY <1>1, <1>3, <2>2, ExecutesKeeps DEF AnswersAreBacked, Idle
  <2>3. CASE worker'[w] = Apply(i, book'[i])
    <3>1. worker'[w].intent = i /\ worker'[w].answer = book'[i]
      BY <2>3 DEF Apply
    <3>2. \A v \in Workers \ {w} :
             worker'[v].pc = "apply" => Backed(worker'[v].answer, book'[worker'[v].intent])
      BY <1>1, <1>3, ExecutesKeeps
    <3> QED BY <2>1, <3>1, <3>2 DEF AnswersAreBacked
  <2> QED BY <1>3, <2>2, <2>3
<1> QED BY <1>1, <1>5, <1>6, <1>7, ExecutesKeeps DEF Kept

LEMMA LossKeeps ==
  ASSUME IInv, Crash \/ \E i \in Intents : FailToLand(i)
  PROVE  Kept'
<1>1. CASE Crash
  <2>1. \A w \in Workers : worker'[w] = Idle
    BY <1>1 DEF Crash
  <2>2. UNCHANGED <<row, book, wire, sent>> /\ batch' = {}
    BY <1>1 DEF Crash, database, exchange
  <2> QED
    BY <2>1, <2>2 DEF Kept, IInv, BusyWithAnIntent, RecordedThenSent, OwnersAreUnique,
                      AnswersAreBacked, RowsClaimOnlyTheTruth, Idle, Exists
<1>2. ASSUME NEW i \in Intents, FailToLand(i)
      PROVE  Kept'
  <2>1. UNCHANGED <<row, worker, batch, book, sent>>
    BY <1>2 DEF FailToLand, database, process
  <2>2. wire[i] = "travelling" /\ wire'[i] # "travelling"
    BY <1>2 DEF FailToLand, IInv, TypeOK
  <2>3. \A j \in Intents \ {i} : wire'[j] = wire[j]
    BY <1>2 DEF FailToLand, IInv, TypeOK
  <2>4. RecordedThenSent'
    BY <2>1, <2>2, <2>3 DEF IInv, RecordedThenSent, Exists
  <2> QED
    BY <2>1, <2>4 DEF Kept, IInv, BusyWithAnIntent, OwnersAreUnique, AnswersAreBacked,
                      RowsClaimOnlyTheTruth, Exists
<1> QED BY <1>1, <1>2

LEMMA InitIInv == Init => IInv
<1> SUFFICES ASSUME Init PROVE IInv
  OBVIOUS
<1>1. TypeOK
  BY IdleType, AbsentType, SizesAssumption, BoundsAssumption
     DEF Init, TypeOK, RowStates, ApiCalls
<1>2. \A w \in Workers : worker[w].pc = "idle"
  BY DEF Init, Idle
<1>3. RecordedThenSent
  BY DEF Init, RecordedThenSent
<1>4. RowsClaimOnlyTheTruth
  BY DEF Init, RowsClaimOnlyTheTruth, Intents, Absent
<1> QED
  BY <1>1, <1>2, <1>3, <1>4
     DEF IInv, BusyWithAnIntent, OwnersAreUnique, AnswersAreBacked

LEMMA IInvStep == IInv /\ [Next]_vars => IInv'
<1> SUFFICES ASSUME IInv, [Next]_vars PROVE IInv'
  OBVIOUS
<1>1. TypeOK'
  BY TypeStep DEF IInv
<1>2. Kept'
  BY StepKinds, MovesKeep, RestsKeep, CreateRowKeeps, SubmitKeeps, WritesKeep,
     ExchangeKeeps, CancelKeeps, LossKeeps
<1> QED BY <1>1, <1>2 DEF IInv, Kept

-----------------------------------------------------------------------------
(* Theorems *)

(* Every reachable state of the order path satisfies the inductive          *)
(* invariant: types, one owner per submission, and answers that are true.   *)
THEOREM Invariance == Spec => []IInv
  BY InitIInv, IInvStep, PTL DEF Spec

(* The state of rows, workers and exchange stays within its types.          *)
THEOREM TypeCorrect == Spec => []TypeOK
<1>1. IInv => TypeOK
  BY DEF IInv
<1> QED BY <1>1, Invariance, PTL

(* However a place call is replayed, raced or interrupted, its intent is    *)
(* submitted to the exchange at most once (OrdersService.place).            *)
THEOREM SubmittedOnce == Spec => []AtMostOneSubmission
<1>1. IInv => AtMostOneSubmission
  BY DEF IInv, RecordedThenSent, AtMostOneSubmission
<1> QED BY <1>1, Invariance, PTL

(* No order exists on the exchange, and none was sent, without its row.     *)
THEOREM WrittenFirst == Spec => []RecordedBeforeSent
<1>1. IInv => RecordedBeforeSent
  BY DEF IInv, RecordedThenSent, RecordedBeforeSent
<1> QED BY <1>1, Invariance, PTL

(* No interleaving of late and unconditional writes of place, sync, cancel  *)
(* and the reconciler makes a row claim a fill or an end that did not occur.*)
THEOREM RowsAreTruthful == Spec => []RowsClaimOnlyTheTruth
<1>1. IInv => RowsClaimOnlyTheTruth
  BY DEF IInv
<1> QED BY <1>1, Invariance, PTL

-----------------------------------------------------------------------------
(* The kill switch *)

(* It is only read at start, when every handler of the process before has   *)
(* died; and a handler past it has checked it.                              *)
Drained == killSwitch => \A w \in Workers : worker[w].pc \notin {"create", "queued"}

LEMMA DrainedStep ==
  ASSUME TypeOK, BusyWithAnIntent, Drained, [Next]_vars
  PROVE  Drained'
<1> USE DEF process
<1>1. ASSUME NEW h \in Handlers, NEW i \in Intents,
             PlaceRequest(h, i) \/ SyncRequest(h, i) \/ CancelRequest(h, i)
      PROVE  Drained'
  <2>1. CASE PlaceRequest(h, i)
    BY <2>1 DEF PlaceRequest, Drained
  <2>2. CASE SyncRequest(h, i) \/ CancelRequest(h, i)
    <3>1. PICK step \in {"sync", "cancel", "cancelPaper"} : Goto(h, At(step, i))
      BY <2>2 DEF SyncRequest, CancelRequest
    <3>2. At(step, i) \in Continuations /\ At(step, i).pc \notin {"create", "queued"}
      BY AtType DEF Steps, At
    <3>3. UNCHANGED killSwitch
      BY <2>2 DEF SyncRequest, CancelRequest
    <3> QED BY <3>1, <3>2, <3>3, HandlersWork, GotoType DEF Drained
  <2> QED BY <1>1, <2>1, <2>2
<1>2. ASSUME NEW w \in Workers, Continue(w) \/ WriteFails(w)
      PROVE  Drained'
  <2>1. UNCHANGED killSwitch
    BY <1>2 DEF Continue, CredentialsRefused, CreateRow, CreateConflict, PaperFill, Submit,
                PlaceAnswered, PlaceRefused, PlaceRetryable, PlacePlainError, RecordFailure,
                SyncPaper, FetchOrder, FetchFails, ApplyResult, CancelPaper, CancelOrder,
                CancelAcknowledged, CancelFails, WriteFails
  <2>2. CASE CreateRow(w)
    BY <2>1, <2>2 DEF CreateRow, Drained
  <2>3. CASE ~CreateRow(w)
    <3>1. \A v \in Workers \ {w} : worker'[v] = worker[v]
      BY <1>2 DEF Continue, CredentialsRefused, CreateRow, CreateConflict, PaperFill, Submit,
                  PlaceAnswered, PlaceRefused, PlaceRetryable, PlacePlainError, RecordFailure,
                  SyncPaper, FetchOrder, FetchFails, ApplyResult, CancelPaper, CancelOrder,
                  CancelAcknowledged, CancelFails, WriteFails, Goto, TypeOK
    <3>2. worker'[w].pc \notin {"create", "queued"}
      <4>1. \E c : Goto(w, c) /\ c.pc \notin {"create", "queued"}
        BY <1>2, <2>3
           DEF Continue, CredentialsRefused, CreateConflict, PaperFill, Submit,
               PlaceAnswered, PlaceRefused, PlaceRetryable, PlacePlainError, RecordFailure,
               SyncPaper, FetchOrder, FetchFails, ApplyResult, CancelPaper, CancelOrder,
               CancelAcknowledged, CancelFails, WriteFails, At, Apply, Idle
      <4> QED BY <4>1 DEF Goto, TypeOK
    <3> QED BY <2>1, <3>1, <3>2 DEF Drained
  <2> QED BY <2>2, <2>3
<1>3. ASSUME \/ ReconcilerTick \/ UNCHANGED vars
             \/ \E i \in Intents :
                   Land(i) \/ FailToLand(i) \/ Trade(i) \/ CloseOnExchange(i) \/ Age(i)
      PROVE  Drained'
  BY <1>3 DEF ReconcilerTick, Land, FailToLand, Trade, CloseOnExchange, Age, vars, Drained
<1>4. ASSUME ReconcilerNext
      PROVE  Drained'
  <2>1. PICK i \in batch : Goto(Reconciler, At("sync", i))
    BY <1>4 DEF ReconcilerNext, Oldest
  <2>2. At("sync", i) \in Continuations /\ At("sync", i).pc = "sync"
    BY <2>1, AtType DEF Steps, At, TypeOK, Intents
  <2> QED BY <1>4, <2>1, <2>2, HandlersWork, GotoType DEF ReconcilerNext, Drained
<1>5. ASSUME Crash
      PROVE  Drained'
  BY <1>5 DEF Crash, Drained, Idle
<1> QED BY <1>1, <1>2, <1>3, <1>4, <1>5 DEF Next

(* What a step may do while the switch is on.                               *)
LEMMA DrainedStops ==
  ASSUME IInv, Drained, [Next]_vars
  PROVE  killSwitch => \A i \in Intents : sent'[i] = sent[i] /\ (Exists(i)' = Exists(i))
<1> SUFFICES ASSUME killSwitch, NEW i \in Intents
             PROVE  sent'[i] = sent[i] /\ (Exists(i)' = Exists(i))
  OBVIOUS
<1>1. \A w \in Workers : ~CreateRow(w) /\ ~Submit(w)
  BY DEF Drained, CreateRow, Submit
<1>2. ASSUME NEW w \in Workers, Writes(w)
      PROVE  sent'[i] = sent[i] /\ (Exists(i)' = Exists(i))
  <2>1. Exists(worker[w].intent) /\ worker[w].intent \in Intents
    BY <1>2, BusyIntent DEF Writes, PaperFill, CancelPaper, RecordFailure, ApplyResult, IInv,
                            OwnersAreUnique
  <2>2. /\ \A j \in Intents \ {worker[w].intent} : row'[j] = row[j]
        /\ row'[worker[w].intent].state # "NONE"
    BY <1>2, <2>1, WrittenRow
  <2> QED BY <1>2, <2>1, <2>2 DEF Writes, Exists
<1>3. ASSUME NEW w \in Workers, CancelOrder(w)
      PROVE  UNCHANGED <<row, sent>>
  BY <1>3, CancelExecutes DEF Executes
<1>4. UNCHANGED <<row, sent>> \/ (sent'[i] = sent[i] /\ (Exists(i)' = Exists(i)))
  BY StepKinds, <1>1, <1>2, <1>3
     DEF Rests, Moves, Executes, FailToLand, Crash, database, exchange
<1> QED BY <1>4 DEF Exists

(* While the kill switch is on no order is recorded and none is sent        *)
(* (OrdersService.assertTradingEnabled).                                    *)
THEOREM KillSwitchHolds == Spec => KillSwitchStopsOrders
<1>1. Init => Drained
  BY DEF Init, Drained, Idle
<1>2. IInv /\ Drained /\ [Next]_vars => Drained'
  BY DrainedStep DEF IInv
<1>3. IInv /\ Drained /\ [Next]_vars
        => [killSwitch => \A i \in Intents : sent'[i] = sent[i] /\ (Exists(i)' = Exists(i))]_vars
  BY DrainedStops
<1> QED BY <1>1, <1>2, <1>3, Invariance, PTL DEF Spec, KillSwitchStopsOrders

-----------------------------------------------------------------------------
(* Refinement *)

LEMMA LedgerInit == Init => Ledger!Init
<1> SUFFICES ASSUME Init PROVE Ledger!Init
  OBVIOUS
<1>1. \A i \in Live : ~Exists(i) /\ sent[i] = 0 /\ book[i] = Absent /\ row[i].filled = 0
  BY DEF Init, Exists, Intents
<1> QED BY <1>1 DEF Ledger!Init, Ledger!Absent, Absent

LEMMA LedgerStep ==
  ASSUME IInv, IInv', [Next]_vars
  PROVE  [Ledger!Next]_(Ledger!ledger)
<1> USE DEF Ledger!ledger
<1>1. ASSUME UNCHANGED <<row, book, sent>>
      PROVE  UNCHANGED Ledger!ledger
  BY <1>1 DEF Exists
<1>2. ASSUME Rests \/ Crash \/ (\E i \in Intents : FailToLand(i)) \/ \E w \in Workers : Moves(w)
      PROVE  UNCHANGED Ledger!ledger
  BY <1>1, <1>2 DEF Rests, Crash, FailToLand, Moves, database, exchange
<1>3. ASSUME NEW w \in Workers, CreateRow(w)
      PROVE  [Ledger!Next]_(Ledger!ledger)
  <2>1. PICK i \in Intents : i = worker[w].intent /\ ~Exists(i)
    BY <1>3, BusyIntent DEF CreateRow, IInv
  <2>2. \A j \in Intents : /\ row'[j].filled = row[j].filled
                           /\ row'[j].state = IF j = i THEN "PENDING" ELSE row[j].state
    BY <1>3, <2>1 DEF CreateRow, IInv, TypeOK
  <2>3. UNCHANGED <<book, sent>>
    BY <1>3 DEF CreateRow, exchange
  <2>4. \A j \in Live : (row'[j].state # "NONE") <=> (Exists(j) \/ j = i)
    BY <2>2 DEF Exists, Intents
  <2>5. [j \in Live |-> row[j].filled]' = [j \in Live |-> row[j].filled]
    BY <2>2 DEF Intents
  <2>6. CASE i \in Live
    <3>1. Ledger!Record(i)
      BY <2>1, <2>3, <2>4, <2>5, <2>6 DEF Ledger!Record, Exists
    <3> QED BY <2>6, <3>1 DEF Ledger!Next
  <2>7. CASE i \notin Live
    BY <2>3, <2>4, <2>5, <2>7 DEF Exists
  <2> QED BY <2>6, <2>7
<1>4. ASSUME NEW w \in Workers, Submit(w)
      PROVE  Ledger!Next
  <2>1. PICK i \in Live : i = worker[w].intent /\ Exists(i) /\ sent[i] = 0
    BY <1>4 DEF Submit, IInv, OwnersAreUnique
  <2>2. UNCHANGED <<row, book>> /\ sent' = [sent EXCEPT ![i] = 1]
    BY <1>4, <2>1 DEF Submit, database
  <2>3. [j \in Live |-> sent[j]]' = [[j \in Live |-> sent[j]] EXCEPT ![i] = 1]
    BY <2>1, <2>2 DEF IInv, TypeOK, Intents
  <2>4. {j \in Live : Exists(j)}' = {j \in Live : Exists(j)}
    BY <2>2 DEF Exists
  <2>5. UNCHANGED <<[j \in Live |-> book[j]], [j \in Live |-> row[j].filled]>>
    BY <2>2
  <2>6. i \in {j \in Live : Exists(j)} /\ [j \in Live |-> sent[j]][i] = 0
    BY <2>1
  <2>7. Ledger!Submit(i)
    BY <2>3, <2>4, <2>5, <2>6 DEF Ledger!Submit
  <2> QED BY <2>1, <2>7 DEF Ledger!Next
<1>5. ASSUME NEW w \in Workers, Writes(w)
      PROVE  [Ledger!Next]_(Ledger!ledger)
  <2>1. PICK i \in Intents : i = worker[w].intent /\ Exists(i)
    BY <1>5, BusyIntent
       DEF Writes, PaperFill, CancelPaper, RecordFailure, ApplyResult, IInv, OwnersAreUnique
  <2>2. (\A j \in Intents \ {i} : row'[j] = row[j]) /\ row'[i].state # "NONE"
    BY <1>5, <2>1, WrittenRow
  <2>3. UNCHANGED <<book, sent>>
    BY <1>5 DEF Writes
  <2>4. {j \in Live : row'[j].state # "NONE"} = {j \in Live : Exists(j)}
    BY <2>1, <2>2 DEF Exists, Intents
  <2>5. CASE i \in Live
    <3>1. row'[i].filled \in 0 .. book[i].filled
      <4>1. row'[i].filled \in 0 .. Qty /\ book[i].filled \in 0 .. Qty
        BY <2>1, FilledType DEF IInv, TypeOK
      <4>2. row'[i].filled <= book[i].filled
        BY <2>3, <2>5 DEF IInv, RowsClaimOnlyTheTruth
      <4> QED BY <4>1, <4>2, SizesAssumption
    <3>2. [j \in Live |-> row'[j].filled]
            = [[j \in Live |-> row[j].filled] EXCEPT ![i] = row'[i].filled]
      BY <2>2, <2>5 DEF Intents
    <3>3. {j \in Live : Exists(j)}' = {j \in Live : Exists(j)}
      BY <2>4 DEF Exists
    <3>4. UNCHANGED <<[j \in Live |-> book[j]], [j \in Live |-> sent[j]]>>
      BY <2>3
    <3>5. i \in {j \in Live : Exists(j)} /\ [j \in Live |-> book[j]][i] = book[i]
      BY <2>1, <2>5
    <3>6. Ledger!Report(i)
      BY <3>1, <3>2, <3>3, <3>4, <3>5 DEF Ledger!Report
    <3> QED BY <2>5, <3>6 DEF Ledger!Next
  <2>6. CASE i \notin Live
    <3>1. [j \in Live |-> row'[j].filled] = [j \in Live |-> row[j].filled]
      BY <2>2, <2>6 DEF Intents
    <3> QED BY <2>3, <2>4, <3>1 DEF Exists
  <2> QED BY <2>5, <2>6
<1>6. ASSUME NEW i \in Intents, Executes(i)
      PROVE  Ledger!Next
  <2>1. i \in Live
    BY <1>6 DEF Executes, IInv, RecordedThenSent
  <2>2. PICK order \in [status : Statuses, filled : 0 .. Qty] :
           order.filled >= book[i].filled /\ book' = [book EXCEPT ![i] = order]
    BY <1>6 DEF Executes
  <2>3. [j \in Live |-> book[j]]' = [[j \in Live |-> book[j]] EXCEPT ![i] = order]
    BY <2>1, <2>2 DEF IInv, TypeOK, Intents
  <2>4. order \in Ledger!Orders
    BY DEF Ledger!Orders, Ledger!Open, Ledger!Closed, Statuses, OpenStatuses, TerminalStates
  <2>5. Ledger!Execute(i)
    BY <1>6, <2>1, <2>2, <2>3, <2>4
       DEF Ledger!Execute, Ledger!Closed, Executes, TerminalStates, Exists
  <2> QED BY <2>1, <2>5 DEF Ledger!Next
<1>7. ASSUME NEW w \in Workers, CancelOrder(w)
      PROVE  Ledger!Next
  BY <1>6, <1>7, CancelExecutes DEF Intents
<1> QED
  BY StepKinds, <1>2, <1>3, <1>4, <1>5, <1>6, <1>7

(* The execution path implements the ledger: recorded, submitted at most    *)
(* once, executed, and nothing reported that was not executed.              *)
THEOREM LedgerImplemented == Spec => ImplementsLedger
<1>1. IInv /\ IInv' /\ [Next]_vars => [Ledger!Next]_(Ledger!ledger)
  BY LedgerStep
<1> QED
  BY <1>1, LedgerInit, Invariance, PTL DEF Spec, ImplementsLedger, Ledger!Spec

-----------------------------------------------------------------------------
(* Rows that are written off *)

(* A row stays, and a submission that is over stays over: only the worker   *)
(* that has just created a row comes to submit.                             *)
LEMMA OverStays ==
  ASSUME IInv, [Next]_vars, NEW i \in Intents, Over(i)
  PROVE  Over(i)'
<1>1. \A w \in Workers : worker[w].pc # "idle" => worker[w].intent \in Intents
  BY DEF IInv, BusyWithAnIntent
<1>2. CASE Rests
  BY <1>2 DEF Rests, Over, Queued, Exists
<1>3. ASSUME NEW w \in Workers, Moves(w)
      PROVE  Over(i)'
  <2>1. PICK c \in Continuations :
           Goto(w, c) /\ c.pc # "queued" /\ UNCHANGED <<row, wire>>
    BY <1>3 DEF Moves
  <2>2. worker'[w] = c /\ \A v \in Workers \ {w} : worker'[v] = worker[v]
    BY <2>1, GotoType DEF IInv
  <2> QED BY <2>1, <2>2 DEF Over, Queued, Exists
<1>4. ASSUME NEW w \in Workers, CreateRow(w)
      PROVE  Over(i)'
  <2> DEFINE j == worker[w].intent
  <2> DEFINE c == At(IF j \in Paper THEN "paper" ELSE "queued", j)
  <2>1. j \in Intents /\ j # i
    BY <1>1, <1>4 DEF CreateRow, Over
  <2>2. c \in Continuations /\ c.intent = j
    BY <2>1, AtType DEF At, Steps
  <2>3. worker'[w] = c /\ \A v \in Workers \ {w} : worker'[v] = worker[v]
    BY <1>4, <2>2, GotoType DEF CreateRow, IInv
  <2>4. row'[i] = row[i] /\ UNCHANGED wire
    BY <1>4, <2>1 DEF CreateRow, IInv, TypeOK, exchange
  <2> QED BY <2>1, <2>2, <2>3, <2>4 DEF Over, Queued, Exists
<1>5. ASSUME NEW w \in Workers, Submit(w)
      PROVE  Over(i)'
  <2> DEFINE j == worker[w].intent
  <2>1. j \in Intents /\ j # i
    BY <1>1, <1>5 DEF Submit, Over, Queued
  <2>2. At("placing", j) \in Continuations
    BY <2>1, AtType DEF Steps
  <2>3. worker'[w] = At("placing", j) /\ \A v \in Workers \ {w} : worker'[v] = worker[v]
    BY <1>5, <2>2, GotoType DEF Submit, IInv
  <2>4. wire'[i] = wire[i] /\ UNCHANGED row
    BY <1>5, <2>1 DEF Submit, IInv, TypeOK, database
  <2> QED BY <2>3, <2>4 DEF Over, Queued, Exists, At
<1>6. ASSUME NEW w \in Workers, Writes(w)
      PROVE  Over(i)'
  <2>1. worker'[w] = Idle /\ \A v \in Workers \ {w} : worker'[v] = worker[v]
    BY <1>6, GotoType, IdleType DEF Writes, IInv
  <2>2. Exists(i)' /\ UNCHANGED wire
    BY <1>6, WrittenRow DEF Writes, Exists, Over
  <2> QED BY <2>1, <2>2 DEF Over, Queued, Idle
<1>7. ASSUME NEW j \in Intents, Executes(j)
      PROVE  Exists(i)' /\ wire'[i] # "travelling"
  BY <1>7 DEF Executes, Over, Exists, IInv, TypeOK
<1>8. ASSUME NEW w \in Workers, CancelOrder(w)
      PROVE  Over(i)'
  <2> DEFINE j == worker[w].intent
  <2>1. /\ Executes(j) /\ j \in Intents
        /\ Goto(w, Apply(j, book'[j])) \/ Goto(w, Idle)
    BY <1>8, CancelExecutes DEF Intents
  <2>2. Apply(j, book'[j]) \in Continuations
    BY <2>1, ApplyType, ExecutesGrows
  <2>3. /\ worker'[w] = Apply(j, book'[j]) \/ worker'[w] = Idle
        /\ \A v \in Workers \ {w} : worker'[v] = worker[v]
    BY <2>1, <2>2, GotoType, IdleType DEF IInv
  <2> QED BY <1>7, <2>1, <2>3 DEF Over, Queued, Apply, Idle
<1>9. ASSUME NEW j \in Intents, Executes(j) /\ UNCHANGED worker
      PROVE  Over(i)'
  BY <1>7, <1>9 DEF Over, Queued
<1>10. ASSUME NEW j \in Intents, FailToLand(j)
       PROVE  Over(i)'
  BY <1>10 DEF FailToLand, Over, Queued, Exists, IInv, TypeOK, database, process
<1>11. CASE Crash
  BY <1>11 DEF Crash, Over, Queued, Exists, Idle, database, exchange
<1> QED
  BY StepKinds, <1>2, <1>3, <1>4, <1>5, <1>6, <1>8, <1>9, <1>10, <1>11

(* How the exchange's record of an order changes: it appears while its      *)
(* submission travels, and only an open one changes.                        *)
LEMMA BookSteps ==
  ASSUME IInv, [Next]_vars, NEW i \in Intents
  PROVE  \/ book'[i] = book[i]
         \/ book[i] = Absent /\ wire[i] = "travelling" /\ wire'[i] = "landed" /\ book'[i] # Absent
         \/ book[i].status \in OpenStatuses /\ wire'[i] = wire[i] /\ book'[i] # Absent
<1>1. CASE UNCHANGED book
  BY <1>1
<1>2. ASSUME NEW j \in Intents, Land(j)
      PROVE  \/ book'[i] = book[i]
             \/ /\ book[i] = Absent /\ wire[i] = "travelling"
                /\ wire'[i] = "landed" /\ book'[i] # Absent
  <2>1. CASE i # j
    BY <1>2, <2>1 DEF Land, IInv, TypeOK
  <2>2. CASE i = j
    BY <1>2, <2>2 DEF Land, IInv, TypeOK, RecordedThenSent, Absent
  <2> QED BY <2>1, <2>2
<1>3. ASSUME NEW j \in Intents, book[j].status \in OpenStatuses, UNCHANGED wire,
             \E order \in [status : Statuses, filled : 0 .. Qty] :
                 book' = [book EXCEPT ![j] = order]
      PROVE  \/ book'[i] = book[i]
             \/ book[i].status \in OpenStatuses /\ wire'[i] = wire[i] /\ book'[i] # Absent
  <2>1. PICK order \in [status : Statuses, filled : 0 .. Qty] :
           book' = [book EXCEPT ![j] = order]
    BY <1>3
  <2>2. order.status # "ABSENT"
    BY DEF Statuses, OpenStatuses, TerminalStates
  <2> QED BY <1>3, <2>1, <2>2 DEF IInv, TypeOK, Absent
<1>4. ASSUME NEW j \in Intents, Trade(j) \/ CloseOnExchange(j)
      PROVE  /\ book[j].status \in OpenStatuses
             /\ UNCHANGED wire
             /\ \E order \in [status : Statuses, filled : 0 .. Qty] :
                    book' = [book EXCEPT ![j] = order]
  BY <1>4, ExchangeExecutes DEF Trade, CloseOnExchange, Executes
<1>5. ASSUME NEW w \in Workers, CancelOrder(w)
      PROVE  /\ worker[w].intent \in Intents
             /\ book[worker[w].intent].status \in OpenStatuses
             /\ UNCHANGED wire
             /\ \E order \in [status : Statuses, filled : 0 .. Qty] :
                    book' = [book EXCEPT ![worker[w].intent] = order]
  BY <1>5, CancelExecutes DEF CancelOrder, Executes
<1>6. \/ UNCHANGED book
      \/ \E j \in Intents : Land(j) \/ Trade(j) \/ CloseOnExchange(j)
      \/ \E w \in Workers : CancelOrder(w)
  BY HandlersWork
     DEF Next, Continue, vars, PlaceRequest, SyncRequest, CancelRequest, CredentialsRefused,
         CreateRow, CreateConflict, PaperFill, Submit, PlaceAnswered, PlaceRefused,
         PlaceRetryable, PlacePlainError, RecordFailure, SyncPaper, FetchOrder, FetchFails,
         ApplyResult, CancelPaper, CancelAcknowledged, CancelFails, WriteFails, ReconcilerTick,
         ReconcilerNext, FailToLand, Age, Crash, exchange
<1> QED BY <1>1, <1>2, <1>3, <1>4, <1>5, <1>6

(* An order that landed has no submission to come.                          *)
LEMMA LandedIsOver ==
  ASSUME IInv, ReadLate, NEW i \in Intents, book[i] # Absent \/ wire[i] = "refused"
  PROVE  Over(i)
<1>1. sent[i] # 0 /\ wire[i] # "travelling"
  BY DEF IInv, RecordedThenSent, ReadLate
<1>2. Exists(i)
  BY <1>1 DEF IInv, RecordedThenSent
<1> QED BY <1>1, <1>2 DEF Over, Queued, IInv, OwnersAreUnique

(* A dead intent stays dead.                                                *)
LEMMA NothingBehindStays ==
  ASSUME IInv, [Next]_vars, NEW i \in Intents, NothingBehind(i)
  PROVE  NothingBehind(i)'
<1>1. Over(i)' /\ wire[i] # "travelling"
  BY OverStays DEF NothingBehind, Over
<1>2. book[i].status \notin OpenStatuses
  BY DEF NothingBehind, OpenStatuses
<1> QED BY <1>1, <1>2, BookSteps DEF NothingBehind

(* What landed does not go away, and a rejection is final.                  *)
LEMMA RejectedStays ==
  ASSUME IInv, [Next]_vars, NEW i \in Intents
  PROVE  /\ book[i] # Absent => book'[i] # Absent
         /\ book[i].status = "REJECTED" => book'[i].status = "REJECTED"
  BY BookSteps DEF OpenStatuses, Absent

(* A reader that stays where it is stays late.                              *)
LEMMA ReadersStay ==
  ASSUME IInv, LateInv, [Next]_vars, NEW v \in Workers, worker'[v] = worker[v]
  PROVE  ReadsLate(v)'
<1>1. CASE worker[v].pc = "idle"
  BY <1>1 DEF ReadsLate
<1>2. CASE worker[v].pc # "idle"
  <2> PICK i : i = worker[v].intent
    OBVIOUS
  <2>1. i \in Intents /\ ReadsLate(v)
    BY <1>2 DEF IInv, BusyWithAnIntent, LateInv, ReadersAreLate
  <2>2. (Over(i) => Over(i)') /\ (NothingBehind(i) => NothingBehind(i)')
    BY <2>1, OverStays, NothingBehindStays
  <2>3. /\ book[i] # Absent => book'[i] # Absent
        /\ book[i].status = "REJECTED" => book'[i].status = "REJECTED"
    BY <2>1, RejectedStays
  <2>4. i = worker'[v].intent
    OBVIOUS
  <2>5. Over(i)' <=> Over(worker[v].intent)'
    BY <2>4 DEF Over, Queued, Exists
  <2>6. NothingBehind(i)' <=> NothingBehind(worker[v].intent)'
    BY <2>4, <2>5 DEF NothingBehind
  <2> QED
    BY <2>1, <2>2, <2>3, <2>4, <2>5, <2>6 DEF ReadsLate
<1> QED BY <1>1, <1>2

(* A worker that goes on to a step where it reads, or has read, the         *)
(* exchange does so late.                                                   *)
LEMMA ReadersStartLate ==
  ASSUME IInv, LateInv, [Next]_vars, NEW w \in Workers, NEW i \in Intents,
         NEW c \in Continuations, Goto(w, c), c.intent = i,
         c.pc = "sync" => w # Reconciler \/ Over(i)',
         c.pc = "final" => NothingBehind(i)',
         c.pc = "apply" =>
            /\ c.answer = Absent => NothingBehind(i)'
            /\ c.answer # Absent => book'[i] # Absent
            /\ c.answer.status = "REJECTED" => book'[i].status = "REJECTED"
  PROVE  ReadersAreLate'
<1>1. worker'[w] = c /\ \A v \in Workers \ {w} : worker'[v] = worker[v]
  BY GotoType DEF IInv
<1>2. i = worker'[w].intent
  BY <1>1
<1>3. Over(i)' <=> Over(worker[w].intent)'
  BY <1>2 DEF Over, Queued, Exists
<1>4. NothingBehind(i)' <=> NothingBehind(worker[w].intent)'
  BY <1>2, <1>3 DEF NothingBehind
<1>5. ReadsLate(w)'
  BY <1>1, <1>2, <1>3, <1>4 DEF ReadsLate
<1> QED BY <1>1, <1>5, ReadersStay DEF ReadersAreLate

(* So does one that goes on to any other step.                              *)
LEMMA OthersReadNothing ==
  ASSUME IInv, LateInv, [Next]_vars, NEW w \in Workers,
         NEW c \in Continuations, Goto(w, c),
         c.pc \notin {"final", "apply"}, c.pc = "sync" => w # Reconciler
  PROVE  ReadersAreLate'
<1>1. worker'[w] = c /\ \A v \in Workers \ {w} : worker'[v] = worker[v]
  BY GotoType DEF IInv
<1>2. ReadsLate(w)'
  BY <1>1 DEF ReadsLate
<1> QED BY <1>1, <1>2, ReadersStay DEF ReadersAreLate

(* A request has read nothing yet.                                          *)
LEMMA RequestsAreLate ==
  ASSUME IInv, LateInv, [Next]_vars, NEW h \in Handlers, NEW i \in Intents,
         PlaceRequest(h, i) \/ SyncRequest(h, i) \/ CancelRequest(h, i)
  PROVE  ReadersAreLate'
<1>1. h \in Workers /\ h # Reconciler
  BY HandlersWork, WorkersAssumption
<1>2. ASSUME NEW step \in {"create", "sync", "cancel", "cancelPaper"}, Goto(h, At(step, i))
      PROVE  ReadersAreLate'
  <2>1. At(step, i) \in Continuations /\ At(step, i).pc \notin {"final", "apply"}
    BY AtType DEF At, Steps
  <2> QED BY <1>1, <1>2, <2>1, OthersReadNothing
<1>3. CASE UNCHANGED worker
  BY <1>3, ReadersStay DEF ReadersAreLate
<1> QED BY <1>2, <1>3 DEF PlaceRequest, SyncRequest, CancelRequest

(* A refusal, an answer and a record all say how the submission ended.      *)
LEMMA ContinuationsAreLate ==
  ASSUME IInv, LateInv, [Next]_vars, NothingMisread, NEW w \in Workers, Continue(w)
  PROVE  ReadersAreLate'
<1> PICK i : i = worker[w].intent
  OBVIOUS
<1>1. i \in Intents
  BY DEF Continue, IInv, BusyWithAnIntent, CredentialsRefused, CreateRow, CreateConflict,
         PaperFill, Submit, PlaceAnswered, PlaceRefused, PlaceRetryable, PlacePlainError,
         RecordFailure, SyncPaper, FetchOrder, FetchFails, ApplyResult, CancelPaper,
         CancelOrder, CancelAcknowledged, CancelFails
<1>2. Idle \in Continuations /\ Idle.pc = "idle"
  BY IdleType DEF Idle
<1>3. \A step \in Steps : /\ At(step, i) \in Continuations
                          /\ At(step, i).intent = i
                          /\ At(step, i).pc = step
  BY <1>1, AtType DEF At
<1>4. CASE Goto(w, Idle)
  BY <1>2, <1>4, OthersReadNothing
<1>5. ASSUME NEW step \in {"paper", "queued", "placing", "retryable"}, Goto(w, At(step, i))
      PROVE  ReadersAreLate'
  BY <1>3, <1>5, OthersReadNothing DEF Steps
<1>6. CASE PlaceRefused(w) \/ PlacePlainError(w)
  <2>1. worker[w].pc = "placing" /\ Goto(w, At("final", i))
    BY <1>6 DEF PlaceRefused, PlacePlainError
  <2>2. worker'[w].pc = "final"
    BY <1>3, <2>1, GotoType DEF IInv, Steps
  <2>3. NothingBehind(i)
    BY <2>1, <2>2 DEF NothingMisread, ErrorsAreFinal
  <2>4. NothingBehind(i)'
    BY <1>1, <2>3, NothingBehindStays
  <2> QED BY <1>1, <1>3, <2>1, <2>4, ReadersStartLate DEF Steps
<1>7. CASE PlaceAnswered(w) \/ FetchOrder(w)
  <2>1. /\ Goto(w, Apply(i, book[i]))
        /\ UNCHANGED book
        /\ book[i] = Absent => worker[w].pc = "sync"
    BY <1>7 DEF PlaceAnswered, FetchOrder, exchange
  <2>2. Apply(i, book[i]) \in Continuations
    BY <1>1, ApplyType DEF IInv, TypeOK
  <2>9. worker'[w].pc = "apply" /\ worker'[w].answer = book[i]
    BY <2>1, <2>2, GotoType DEF IInv, Apply
  <2>10. book[i] = Absent => Over(i)
    <3>1. CASE w = Reconciler
      BY <2>1, <3>1 DEF LateInv, ReadersAreLate, ReadsLate
    <3>2. CASE w \in Handlers
      BY <2>1, <2>9, <3>2 DEF NothingMisread, UsersReadInTime
    <3> QED BY <3>1, <3>2 DEF Workers
  <2>3. book[i] = Absent => NothingBehind(i)
    BY <2>10 DEF NothingBehind, Absent
  <2>4. book[i] = Absent => NothingBehind(i)'
    BY <1>1, <2>3, NothingBehindStays
  <2>5. PICK order : order = book[i]
    OBVIOUS
  <2> DEFINE c == Apply(i, order)
  <2>6. /\ c \in Continuations /\ c.intent = i /\ c.pc = "apply" /\ c.answer = order
    BY <1>1, <2>5, ApplyType DEF Apply, IInv, TypeOK
  <2>7. book'[i] = order
    BY <2>1, <2>5
  <2> HIDE DEF c
  <2>8. Goto(w, c)
    BY <2>1, <2>5 DEF c
  <2> QED BY <1>1, <2>4, <2>5, <2>6, <2>7, <2>8, ReadersStartLate
<1>9. CASE CancelAcknowledged(w)
  <2>1. Goto(w, At("sync", i)) /\ book[i] # Absent
    BY <1>9 DEF CancelAcknowledged, OpenStatuses, Absent
  <2>2. Over(i)'
    BY <1>1, <2>1, LandedIsOver, OverStays DEF LateInv
  <2> QED BY <1>1, <1>3, <2>1, <2>2, ReadersStartLate DEF Steps
<1>8. CASE CancelOrder(w) /\ ~Goto(w, Idle)
  <2>1. PICK order : order = [book[i] EXCEPT !.status = "CANCELED"]
    OBVIOUS
  <2>2. Goto(w, Apply(i, order)) /\ book' = [book EXCEPT ![i] = order]
    BY <1>8, <2>1 DEF CancelOrder
  <2>3. book[i] \in [status : Statuses, filled : 0 .. Qty]
    BY <1>1, <1>8, OpenOrderType DEF CancelOrder, IInv, TypeOK
  <2>4. order.status = "CANCELED" /\ order \in OrderRecord
    BY <2>1, <2>3 DEF OrderRecord, Statuses, TerminalStates
  <2>5. book'[i] = order /\ order # Absent
    BY <1>1, <2>2, <2>4 DEF IInv, TypeOK, Absent
  <2> DEFINE c == Apply(i, order)
  <2>6. /\ c \in Continuations /\ c.intent = i /\ c.pc = "apply" /\ c.answer = order
    BY <1>1, <2>4, ApplyType DEF Apply
  <2> HIDE DEF c
  <2>7. Goto(w, c)
    BY <2>2 DEF c
  <2> QED BY <1>1, <2>4, <2>5, <2>6, <2>7, ReadersStartLate
<1> QED
  BY <1>4, <1>5, <1>6, <1>7, <1>8, <1>9
     DEF Continue, CredentialsRefused, CreateRow, CreateConflict, PaperFill, Submit,
         PlaceRetryable, PlacePlainError, RecordFailure, SyncPaper, FetchFails, ApplyResult,
         CancelPaper, CancelOrder, CancelAcknowledged, CancelFails

(* No step leaves a worker acting on what it read too early.                *)
LEMMA ReadersAreLateStep ==
  ASSUME IInv, LateInv, [Next]_vars, NothingMisread
  PROVE  ReadersAreLate'
<1>1. CASE UNCHANGED worker
  BY <1>1, ReadersStay DEF ReadersAreLate
<1>2. ASSUME NEW w \in Workers, WriteFails(w)
      PROVE  ReadersAreLate'
  BY <1>2, IdleType, OthersReadNothing DEF WriteFails, Idle
<1>3. CASE ReconcilerNext
  <2>1. PICK i \in batch : Goto(Reconciler, At("sync", i))
    BY <1>3 DEF ReconcilerNext, Oldest
  <2>2. i \in Intents /\ Over(i)'
    BY <2>1, OverStays DEF LateInv, ReadLate, IInv, TypeOK, Intents
  <2>3. At("sync", i) \in Continuations /\ At("sync", i).intent = i /\ At("sync", i).pc = "sync"
    BY <2>2, AtType DEF At, Steps
  <2> QED BY <2>1, <2>2, <2>3, HandlersWork, ReadersStartLate
<1>4. CASE Crash
  BY <1>4 DEF Crash, ReadersAreLate, ReadsLate, Idle
<1>5. UNCHANGED worker \/ Crash \/ ReconcilerNext
      \/ (\E w \in Workers : Continue(w) \/ WriteFails(w))
      \/ \E h \in Handlers, i \in Intents :
            PlaceRequest(h, i) \/ SyncRequest(h, i) \/ CancelRequest(h, i)
  BY DEF Next, vars, ReconcilerTick, Land, FailToLand, Trade, CloseOnExchange, Age, process
<1> QED BY <1>1, <1>2, <1>3, <1>4, <1>5, ContinuationsAreLate, RequestsAreLate

(* A row is met late: an open one shows an order that landed, and a PENDING *)
(* one is only re-read when it is stale.                                    *)
LEMMA ReadLateStep ==
  ASSUME IInv, LateInv, [Next]_vars, NothingMisread
  PROVE  ReadLate'
<1> SUFFICES ASSUME NEW i \in Intents
             PROVE  /\ book'[i] # Absent => wire'[i] = "landed"
                    /\ row'[i].state \in OpenStatuses => book'[i] # Absent
                    /\ i \in stale' \cup batch' => Over(i)'
  BY DEF ReadLate
<1>3. book'[i] # Absent => wire'[i] = "landed"
  <2>1. CASE book'[i] = book[i] /\ book[i] # Absent
    <3>1. wire[i] = "landed" /\ sent[i] # 0
      BY <2>1 DEF LateInv, ReadLate, IInv, RecordedThenSent
    <3>2. ASSUME NEW w \in Workers, Submit(w)
          PROVE  wire'[i] = wire[i]
      BY <3>1, <3>2 DEF Submit, IInv, TypeOK, OwnersAreUnique
    <3>3. ASSUME NEW j \in Intents, Land(j) \/ FailToLand(j)
          PROVE  wire'[i] = wire[i]
      BY <3>1, <3>3 DEF Land, FailToLand, IInv, TypeOK
    <3>4. wire'[i] = wire[i]
      BY <3>2, <3>3, HandlersWork
         DEF Next, Continue, vars, PlaceRequest, SyncRequest, CancelRequest,
             CredentialsRefused, CreateRow, CreateConflict, PaperFill, PlaceAnswered,
             PlaceRefused, PlaceRetryable, PlacePlainError, RecordFailure, SyncPaper,
             FetchOrder, FetchFails, ApplyResult, CancelPaper, CancelOrder, CancelAcknowledged, CancelFails,
             WriteFails, ReconcilerTick, ReconcilerNext, Trade, CloseOnExchange, Age, Crash,
             exchange
    <3> QED BY <3>1, <3>4
  <2>2. book[i].status \in OpenStatuses => book[i] # Absent
    BY DEF OpenStatuses, Absent
  <2> QED BY <2>1, <2>2, BookSteps DEF LateInv, ReadLate
<1>4. row'[i].state \in OpenStatuses => book'[i] # Absent
  <2>1. CASE row'[i] = row[i]
    BY <2>1, RejectedStays DEF LateInv, ReadLate
  <2>2. CASE row'[i] # row[i] /\ row'[i].state \in OpenStatuses
    <3>1. PICK w \in Workers : CreateRow(w) \/ Writes(w)
      BY <2>2, StepKinds, CancelExecutes
         DEF Rests, Moves, Submit, Executes, FailToLand, Crash, database
    <3>2. worker[w].intent \in Intents
      BY <3>1 DEF Writes, CreateRow, PaperFill, CancelPaper, RecordFailure, ApplyResult,
                  IInv, BusyWithAnIntent
    <3>3. worker[w].intent = i
      BY <2>2, <3>1, <3>2, WrittenRow DEF CreateRow, IInv, TypeOK
    <3>4. ApplyResult(w) /\ worker[w].answer # Absent
      BY <2>2, <3>1, <3>2, <3>3
         DEF Writes, CreateRow, PaperFill, CancelPaper, RecordFailure, ApplyResult,
             IInv, TypeOK, OpenStatuses
    <3>5. book[i] # Absent
      BY <3>3, <3>4 DEF ApplyResult, LateInv, ReadersAreLate, ReadsLate
    <3> QED BY <3>5, RejectedStays
  <2> QED BY <2>1, <2>2
<1>5. i \in stale' \cup batch' => Over(i)'
  <2>1. CASE i \in stale \cup batch
    BY <2>1, OverStays DEF LateInv, ReadLate
  <2>2. Age(i) => Over(i)
    BY DEF Age, Over, NothingMisread, QueueKeepsMoving
  <2>3. CASE ReconcilerTick /\ i \in batch'
    <3>1. i \in Candidates
      BY <2>3 DEF ReconcilerTick, Oldest
    <3>2. book[i] # Absent \/ i \in stale
      BY <3>1 DEF Candidates, LateInv, ReadLate
    <3> QED BY <3>2, LandedIsOver, OverStays DEF LateInv, ReadLate
  <2>4. i \in stale' => i \in stale \/ Age(i)
    BY DEF Next, Continue, vars, PlaceRequest, SyncRequest, CancelRequest,
           CredentialsRefused, CreateRow, CreateConflict, PaperFill, Submit, PlaceAnswered,
           PlaceRefused, PlaceRetryable, PlacePlainError, RecordFailure, SyncPaper,
           FetchOrder, FetchFails, ApplyResult, CancelPaper, CancelOrder, CancelAcknowledged, CancelFails,
           WriteFails, ReconcilerTick, ReconcilerNext, Land, FailToLand, Trade,
           CloseOnExchange, Age, Crash, database
  <2>5. i \in batch' => i \in batch \/ ReconcilerTick
    BY DEF Next, Continue, vars, PlaceRequest, SyncRequest, CancelRequest,
           CredentialsRefused, CreateRow, CreateConflict, PaperFill, Submit, PlaceAnswered,
           PlaceRefused, PlaceRetryable, PlacePlainError, RecordFailure, SyncPaper,
           FetchOrder, FetchFails, ApplyResult, CancelPaper, CancelOrder, CancelAcknowledged, CancelFails,
           WriteFails, ReconcilerNext, Land, FailToLand, Trade,
           CloseOnExchange, Age, Crash, process
  <2> QED BY <2>1, <2>2, <2>3, <2>4, <2>5, OverStays
<1> QED BY <1>3, <1>4, <1>5

(* A row is written off by a refusal, by a record that says REJECTED, or by *)
(* a late reader that found no order.                                       *)
LEMMA WrittenOffStep ==
  ASSUME IInv, LateInv, [Next]_vars
  PROVE  WrittenOffForGood'
<1> SUFFICES ASSUME NEW i \in Live, row'[i].state = "REJECTED"
             PROVE  NothingBehind(i)'
  BY DEF WrittenOffForGood
<1>1. i \in Intents
  BY DEF Intents
<1>2. SUFFICES NothingBehind(i)
  BY <1>1, NothingBehindStays
<1>3. CASE row'[i] = row[i]
  BY <1>1, <1>3 DEF LateInv, WrittenOffForGood
<1>4. CASE row'[i] # row[i]
  <2>1. PICK w \in Workers : CreateRow(w) \/ Writes(w)
    BY <1>1, <1>4, StepKinds, CancelExecutes
       DEF Rests, Moves, Submit, Executes, FailToLand, Crash, database
  <2>2. worker[w].intent \in Intents
    BY <2>1 DEF Writes, CreateRow, PaperFill, CancelPaper, RecordFailure, ApplyResult,
                IInv, BusyWithAnIntent
  <2>3. worker[w].intent = i
    BY <1>1, <1>4, <2>1, <2>2, WrittenRow DEF CreateRow, IInv, TypeOK
  <2>4. \/ RecordFailure(w) /\ worker[w].pc = "final"
        \/ ApplyResult(w)
    BY <1>1, <2>1, <2>2, <2>3
       DEF Writes, CreateRow, PaperFill, CancelPaper, RecordFailure, IInv, TypeOK
  <2>5. CASE worker[w].pc = "final"
    BY <2>3, <2>5 DEF LateInv, ReadersAreLate, ReadsLate
  <2>6. CASE ApplyResult(w)
    <3>1. worker[w].answer = Absent \/ worker[w].answer.status = "REJECTED"
      BY <1>1, <2>3, <2>6 DEF ApplyResult, IInv, TypeOK
    <3>2. CASE worker[w].answer = Absent
      BY <1>1, <2>3, <2>6, <3>2 DEF ApplyResult, LateInv, ReadersAreLate, ReadsLate
    <3>3. CASE worker[w].answer.status = "REJECTED"
      <4>1. book[i].status = "REJECTED" /\ book[i] # Absent
        BY <2>3, <2>6, <3>3 DEF ApplyResult, LateInv, ReadersAreLate, ReadsLate, Absent
      <4> QED BY <1>1, <4>1, LandedIsOver DEF NothingBehind, LateInv
    <3> QED BY <3>1, <3>2, <3>3
  <2> QED BY <2>4, <2>5, <2>6
<1> QED BY <1>3, <1>4

(* Nothing has happened at the start.                                       *)
LEMMA LateInit == Init => LateInv
  BY DEF Init, LateInv, ReadLate, ReadersAreLate, ReadsLate, WrittenOffForGood, Exists,
         Idle, OpenStatuses, Intents

LEMMA LateStep == IInv /\ LateInv /\ [Next]_vars /\ [NothingMisread]_vars => LateInv'
<1> SUFFICES ASSUME IInv, LateInv, [Next]_vars, [NothingMisread]_vars PROVE LateInv'
  OBVIOUS
<1>1. CASE UNCHANGED vars
  <2>1. UNCHANGED <<row, stale, batch, worker, book, wire>>
    BY <1>1 DEF vars, database, process, exchange
  <2>2. \A i : (Over(i)' <=> Over(i)) /\ (NothingBehind(i)' <=> NothingBehind(i))
    BY <2>1 DEF Over, NothingBehind, Exists, Queued
  <2> QED
    BY <2>1, <2>2 DEF LateInv, ReadLate, ReadersAreLate, ReadsLate, WrittenOffForGood
<1>2. CASE NothingMisread
  <2>1. ReadLate'
    BY <1>2, ReadLateStep
  <2>2. ReadersAreLate'
    BY <1>2, ReadersAreLateStep
  <2>3. WrittenOffForGood'
    BY WrittenOffStep
  <2> QED BY <2>1, <2>2, <2>3 DEF LateInv
<1> QED BY <1>1, <1>2

(* No money moves that nobody wrote down, unless one of three things does   *)
(* happen: an error is taken for final too early, a user reads too early,   *)
(* or a submission waits past STALE_AFTER_MS (place, sync, cancel and the   *)
(* reconciler, through any replay, race, restart and failed write).         *)
THEOREM MoneyIsRecorded == Spec /\ [][NothingMisread]_vars => []NoMoneyUnrecorded
<1>1. LateInv => NoMoneyUnrecorded
  BY DEF LateInv, WrittenOffForGood, NothingBehind, NoMoneyUnrecorded
<1> QED BY <1>1, LateInit, LateStep, Invariance, PTL DEF Spec
=============================================================================
