------------------------ MODULE RequestLifecycleProofs ------------------------
(***************************************************************************)
(* Theorems about RequestLifecycle, for any number of requests, external   *)
(* ids, invocations, Configure calls, faults and redeliveries.  The        *)
(* argument has three stages: types (TypeInv), what no step undoes         *)
(* (Growth), and what an invocation in flight therefore still knows when   *)
(* it writes (IInv).                                                       *)
(***************************************************************************)
EXTENDS RequestLifecycle, ForwardedRequestsProofs

-----------------------------------------------------------------------------
(* Facts about values *)

(* translateStatus only answers portal-facing statuses, or "".             *)
LEMMA TranslateType == \A u : translateStatus(u) \in Translations
  BY DEF translateStatus, Translation, Translations

(* What HandleEvent passes to UpsertForwardedRequest is well-typed.        *)
LEMMA WriteTypes ==
    ASSUME NEW r \in Requests
    PROVE  /\ SubmittedWrite(r) \in Write
           /\ \A e \in ExtIds : AcknowledgedWrite(r, e) \in Write
           /\ FailedWrite(r) \in Write
  BY PayloadAssumption
     DEF SubmittedWrite, AcknowledgedWrite, FailedWrite, Write, Active, Terminal

(* A table the tick records a poll in is a table, in which every row has   *)
(* grown.                                                                  *)
LEMMA RecordedPollTable ==
    ASSUME TypeInv, NEW t \in Ticks, tick[t].pc = "record"
    PROVE  /\ RecordedPoll(t) \in Table
           /\ \A r \in Requests : Grows(rows[r], RecordedPoll(t)[r])
           /\ \A r \in Requests : r # tick[t].row.id => RecordedPoll(t)[r] = rows[r]
  <1> DEFINE s == tick[t].row
             got == tick[t].got
             w == [id |-> s.id, ext |-> s.ext, status |-> s.status,
                   polled |-> Now, err |-> TRUE, auto |-> FALSE]
             status == IF got = "" THEN s.status ELSE got
  <1>1. /\ s \in Snapshot /\ rows \in Table
        /\ got \in Translations \cup {"error"}
    BY DEF TypeInv, TypeOK, TickShape, TickRec
  <1>2. /\ s.id \in Requests /\ s.ext \in ExtIds /\ s.status \in Active
        /\ Now \in Nat
    BY <1>1 DEF Snapshot, Now
  <1>3. CASE got = "error"
    <2>1. w \in Write
      BY <1>2 DEF Write
    <2>2. RecordedPoll(t) = UpsertForwardedRequest(rows, w)
      BY <1>3 DEF RecordedPoll
    <2>3. w.id = s.id
      OBVIOUS
    <2> HIDE DEF w
    <2> QED
      BY <1>1, <2>1, <2>2, <2>3, UpsertTable
  <1>4. CASE got # "error"
    <2>1. status \in Active \cup Terminal
      BY <1>1, <1>2, <1>4 DEF Translations, Active, Terminal
    <2>2. RecordedPoll(t) = MarkPolled(rows, s.id, s.ext, status, Now)
      BY <1>4 DEF RecordedPoll
    <2> HIDE DEF status
    <2> QED
      BY <1>1, <1>2, <2>1, <2>2, MarkPolledTable
  <1> QED
    BY <1>3, <1>4

(* So are the tables the two later statements of HandleEvent leave behind, *)
(* committed or not.                                                       *)
LEMMA StatementTable ==
    ASSUME rows \in Table, NEW w \in Write, NEW g \in Gens,
           faults \in 0..MaxFaults,
           \/ Commits(g, UpsertForwardedRequest(rows, w))
           \/ Errs(g, UpsertForwardedRequest(rows, w))
    PROVE  /\ rows' \in {rows, UpsertForwardedRequest(rows, w)}
           /\ rows' \in Table
           /\ faults' \in 0..MaxFaults
  BY UpsertTable, BoundAssumption DEF Commits, Errs, Fault

(* The routing of events addresses requests.                               *)
LEMMA AddressedType == Addressed \subseteq Requests
  BY DEF Addressed

-----------------------------------------------------------------------------
(* Stage 1: types *)

(* An idle invocation is well-typed.                                       *)
LEMMA IdleTypes == /\ IdleHandler \in HandlerRec /\ IdleHandler.pc = "idle"
                   /\ IdleTick \in TickRec /\ IdleTick.pc = "idle"
                   /\ IdleTick.todo = {}
  BY BoundAssumption DEF IdleHandler, HandlerRec, HandlerPC, Gens,
     IdleTick, TickRec, TickPC, NoRow, Translations

(* The initial state has its types.                                        *)
LEMMA TypeInvInit == Init => TypeInv
  <1> SUFFICES ASSUME Init PROVE TypeInv
    OBVIOUS
  <1> USE DEF Init
  <1>1. rows \in Table
    BY DEF EmptyTable, AbsentRow, Table, Row, Status
  <1>2. monitor \in [ExtIds -> Monitor]
    BY DEF Monitor
  <1>3. handler \in [Handlers -> HandlerRec] /\ \A h \in Handlers : HandlerShape(h)
    BY IdleTypes DEF HandlerShape
  <1>4. tick \in [Ticks -> TickRec] /\ \A t \in Ticks : TickShape(t)
    BY IdleTypes DEF TickShape
  <1>5. /\ acked \subseteq Requests
        /\ consumer \in Gens /\ reconciler \in Gens /\ open \subseteq Gens
        /\ sent \in [Requests -> SUBSET Events]
        /\ faults \in 0..MaxFaults /\ dups \in 0..MaxDups
    BY BoundAssumption DEF Gens
  <1> QED
    BY <1>1, <1>2, <1>3, <1>4, <1>5 DEF TypeInv, TypeOK

(* The record of an invocation of HandleEvent keeps its type and shape     *)
(* when the step sets one handler to a well-formed record.                 *)
LEMMA HandlerUpdate ==
    ASSUME TypeInv, NEW h \in Handlers, NEW k \in HandlerRec,
           handler' = [handler EXCEPT ![h] = k],
           k.pc # "idle" => k.req \in Addressed,
           k.pc = "accepted" => k.ext \in ExtIds
    PROVE  /\ handler' \in [Handlers -> HandlerRec]
           /\ (\A g \in Handlers : HandlerShape(g))'
  BY DEF TypeInv, TypeOK, HandlerShape

(* The same for an invocation of Tick.                                     *)
LEMMA TickUpdate ==
    ASSUME TypeInv, NEW t \in Ticks, NEW k \in TickRec,
           tick' = [tick EXCEPT ![t] = k],
           k.pc \in {"record", "publish"} => k.row \in Snapshot,
           k.pc = "publish" => k.got \notin {"", "error"}
    PROVE  /\ tick' \in [Ticks -> TickRec]
           /\ (\A u \in Ticks : TickShape(u))'
  BY DEF TypeInv, TypeOK, TickShape

(* Handing out an external id keeps the upstream's list well-typed.        *)
LEMMA AcceptType ==
    ASSUME monitor \in [ExtIds -> Monitor], NEW e \in ExtIds, NEW r \in Requests,
           Accept(e, r)
    PROVE  monitor' \in [ExtIds -> Monitor]
  <1> DEFINE m == [reqs |-> monitor[e].reqs \cup {r},
                   status |-> IF monitor[e].status = "none" THEN "queued"
                              ELSE monitor[e].status]
  <1>1. m \in Monitor
    BY UpstreamAssumption DEF Monitor
  <1>2. monitor' = [monitor EXCEPT ![e] = m]
    BY DEF Accept
  <1> QED
    BY <1>1, <1>2

(* After a poll is recorded or a change published, Tick is idle or at the  *)
(* head of its loop.                                                       *)
LEMMA NextRowType ==
    ASSUME TypeInv, NEW t \in Ticks
    PROVE  NextRow(t) \in TickRec /\ NextRow(t).pc \in {"idle", "poll"}
  <1>1. tick[t] \in TickRec
    BY DEF TypeInv, TypeOK
  <1>2. IdleTick \in TickRec /\ IdleTick.pc = "idle"
    BY IdleTypes
  <1>3. [tick[t] EXCEPT !.pc = "poll", !.row = NoRow, !.got = ""] \in TickRec
    BY <1>1 DEF TickRec, TickPC, NoRow, Translations
  <1>4. [tick[t] EXCEPT !.pc = "poll", !.row = NoRow, !.got = ""].pc = "poll"
    BY <1>1 DEF TickRec
  <1> QED
    BY <1>2, <1>3, <1>4 DEF NextRow

(* Every step keeps the types.                                             *)
LEMMA TypeInvNext == TypeInv /\ [Next]_vars => TypeInv'
  <1> SUFFICES ASSUME TypeInv, [Next]_vars PROVE TypeInv'
    OBVIOUS
  <1>t. /\ rows \in Table
        /\ monitor \in [ExtIds -> Monitor]
        /\ acked \subseteq Requests
        /\ handler \in [Handlers -> HandlerRec]
        /\ tick \in [Ticks -> TickRec]
        /\ consumer \in Gens /\ reconciler \in Gens /\ open \subseteq Gens
        /\ sent \in [Requests -> SUBSET Events]
        /\ faults \in 0..MaxFaults /\ dups \in 0..MaxDups
        /\ \A h \in Handlers : HandlerShape(h)
        /\ \A t \in Ticks : TickShape(t)
    BY DEF TypeInv, TypeOK
  <1>h. ASSUME UNCHANGED handler PROVE (\A h \in Handlers : HandlerShape(h))'
    BY <1>t, <1>h DEF HandlerShape
  <1>k. ASSUME UNCHANGED tick PROVE (\A t \in Ticks : TickShape(t))'
    BY <1>t, <1>k DEF TickShape
  <1>f. ASSUME NEW kind, Fault(kind) PROVE faults' \in 0..MaxFaults
    BY <1>t, <1>f, BoundAssumption DEF Fault
  <1>1. ASSUME NEW h \in Handlers, NEW r \in Requests, HandleEvent(h, r)
        PROVE  TypeInv'
    <2> USE <1>1 DEF HandleEvent
    <2> DEFINE k == [pc |-> "adding", req |-> r, ext |-> None, gen |-> consumer]
    <2>1. k \in HandlerRec /\ k.req \in Addressed /\ k.pc # "accepted"
      BY <1>t DEF HandlerRec, HandlerPC
    <2>2. handler' \in [Handlers -> HandlerRec] /\ (\A g \in Handlers : HandlerShape(g))'
      <3>1. CASE handler' = [handler EXCEPT ![h] = k]
        <4> HIDE DEF k
        <4> QED
          BY <2>1, <3>1, HandlerUpdate
      <3>2. CASE Nack(h)
        BY <3>2, IdleTypes, HandlerUpdate DEF Nack
      <3> QED
        BY <3>1, <3>2
    <2>6. faults' \in 0..MaxFaults
      BY <1>t, <1>f
    <2>3. SubmittedWrite(r) \in Write
      BY PayloadAssumption DEF SubmittedWrite, Write, Active
    <2>4. rows' \in Table
      BY <1>t, <2>3, UpsertTable
    <2>5. dups' \in 0..MaxDups
      BY <1>t, BoundAssumption DEF Deliver
    <2> QED
      BY <1>t, <1>k, <2>2, <2>4, <2>5, <2>6 DEF TypeInv, TypeOK, config
  <1>2. ASSUME NEW r \in Requests, IgnoreEvent(r) PROVE TypeInv'
    BY <1>t, <1>h, <1>k, <1>2 DEF IgnoreEvent, TypeInv, TypeOK, config, procs
  <1>3. ASSUME NEW h \in Handlers, HandlerStep(h) PROVE TypeInv'
    <2> DEFINE r == handler[h].req
    <2>r. handler[h].pc # "idle" => r \in Requests
      BY <1>t, AddressedType DEF HandlerShape
    <2>s. /\ handler[h].gen \in Gens
          /\ handler[h].pc = "accepted" => handler[h].ext \in ExtIds
      BY <1>t DEF HandlerShape, HandlerRec
    <2>p. ASSUME NEW pc \in HandlerPC \ {"accepted"}, handler[h].pc # "idle",
                 handler' = [handler EXCEPT ![h].pc = pc]
          PROVE  handler' \in [Handlers -> HandlerRec]
                 /\ (\A g \in Handlers : HandlerShape(g))'
      <3> DEFINE k == [handler[h] EXCEPT !.pc = pc]
      <3>1. k \in HandlerRec /\ k.pc = pc /\ k.req = r
        BY <1>t, <2>p DEF HandlerRec
      <3>2. r \in Addressed
        BY <1>t, <2>p DEF HandlerShape
      <3> QED
        BY <2>p, <3>1, <3>2, HandlerUpdate
    <2>i. ASSUME handler' = [handler EXCEPT ![h] = IdleHandler]
          PROVE  handler' \in [Handlers -> HandlerRec]
                 /\ (\A g \in Handlers : HandlerShape(g))'
      BY <2>i, IdleTypes, HandlerUpdate
    <2>1. CASE AddMonitoring(h)
      <3>1. handler[h].pc = "adding" /\ r \in Requests /\ r \in Addressed
        BY <1>t, <2>1, <2>r DEF AddMonitoring, HandlerShape
      <3>2. monitor' \in [ExtIds -> Monitor] /\ faults' \in 0..MaxFaults
        BY <1>t, <1>f, <2>1, <3>1, AcceptType DEF AddMonitoring
      <3>3. handler' \in [Handlers -> HandlerRec] /\ (\A g \in Handlers : HandlerShape(g))'
        <4>1. CASE handler' = [handler EXCEPT ![h].pc = "rejected"]
          BY <2>p, <3>1, <4>1 DEF HandlerPC
        <4>2. CASE \E e \in ExtIds :
                     handler' = [handler EXCEPT ![h].pc = "accepted", ![h].ext = e]
          <5> PICK e \in ExtIds :
                     handler' = [handler EXCEPT ![h].pc = "accepted", ![h].ext = e]
            BY <4>2
          <5> DEFINE k == [handler[h] EXCEPT !.pc = "accepted", !.ext = e]
          <5>1. k \in HandlerRec /\ k.req = r /\ k.ext = e
            BY <1>t DEF HandlerRec, HandlerPC
          <5>2. handler' = [handler EXCEPT ![h] = k]
            BY <1>t
          <5> QED
            BY <3>1, <5>1, <5>2, HandlerUpdate
        <4> QED
          BY <2>1, <4>1, <4>2 DEF AddMonitoring
      <3> QED
        BY <1>t, <1>k, <2>1, <3>2, <3>3 DEF AddMonitoring, TypeInv, TypeOK, config
    <2>2. CASE PersistAcknowledged(h)
      <3>1. AcknowledgedWrite(r, handler[h].ext) \in Write
        BY <2>2, <2>r, <2>s, WriteTypes DEF PersistAcknowledged
      <3>2. rows' \in Table /\ faults' \in 0..MaxFaults
        BY <1>t, <2>2, <2>s, <3>1, StatementTable DEF PersistAcknowledged
      <3>3. handler' \in [Handlers -> HandlerRec] /\ (\A g \in Handlers : HandlerShape(g))'
        BY <2>2, <2>p, <2>i DEF PersistAcknowledged, Nack, HandlerPC
      <3> QED
        BY <1>t, <1>k, <2>2, <3>2, <3>3 DEF PersistAcknowledged, TypeInv, TypeOK, config
    <2>3. CASE PersistFailed(h)
      <3>1. FailedWrite(r) \in Write
        BY <2>3, <2>r, PayloadAssumption DEF PersistFailed, FailedWrite, Write, Terminal
      <3>2. rows' \in Table /\ faults' \in 0..MaxFaults
        BY <1>t, <2>3, <2>s, <3>1, StatementTable DEF PersistFailed
      <3>3. handler' \in [Handlers -> HandlerRec] /\ (\A g \in Handlers : HandlerShape(g))'
        BY <2>3, <2>p, <2>i DEF PersistFailed, Nack, HandlerPC
      <3> QED
        BY <1>t, <1>k, <2>3, <3>2, <3>3 DEF PersistFailed, TypeInv, TypeOK, config
    <2>4. CASE TellPortal(h)
      <3>1. handler' \in [Handlers -> HandlerRec] /\ (\A g \in Handlers : HandlerShape(g))'
        BY <2>4, <2>p DEF TellPortal, HandlerPC
      <3>2. sent' \in [Requests -> SUBSET Events] /\ faults' \in 0..MaxFaults
        BY <1>t, <1>f, <2>4 DEF TellPortal, Publish, Events
      <3> QED
        BY <1>t, <1>k, <2>4, <3>1, <3>2 DEF TellPortal, TypeInv, TypeOK, config
    <2>5. CASE Ack(h)
      <3>1. acked' \subseteq Requests
        BY <1>t, <2>5, <2>r DEF Ack
      <3>2. handler' \in [Handlers -> HandlerRec] /\ (\A g \in Handlers : HandlerShape(g))'
        BY <2>5, <2>i DEF Ack
      <3> QED
        BY <1>t, <1>k, <2>5, <3>1, <3>2 DEF Ack, TypeInv, TypeOK, config
    <2> QED
      BY <1>3, <2>1, <2>2, <2>3, <2>4, <2>5 DEF HandlerStep
  <1>4. ASSUME NEW t \in Ticks, TickStart(t) PROVE TypeInv'
    <2> DEFINE todo == {[id |-> r, ext |-> rows[r].ext, status |-> rows[r].status] :
                          r \in Pollable}
               k == [IdleTick EXCEPT !.pc = "poll", !.gen = reconciler, !.todo = todo]
    <2>1. todo \subseteq Snapshot
      BY <1>t DEF Pollable, NonTerminal, Unsubmitted, Present, Snapshot, Table, Row, Status
    <2>2. k \in TickRec /\ k.pc = "poll"
      BY <1>t, <2>1, IdleTypes DEF TickRec, TickPC
    <2>3. tick' = [tick EXCEPT ![t] = k]
      BY <1>4 DEF TickStart
    <2>4. tick' \in [Ticks -> TickRec] /\ (\A u \in Ticks : TickShape(u))'
      BY <2>2, <2>3, TickUpdate
    <2> QED
      BY <1>t, <1>h, <1>4, <2>4 DEF TickStart, TypeInv, TypeOK, config
  <1>5. ASSUME NEW t \in Ticks, GetMonitoring(t) PROVE TypeInv'
    <2>1. PICK s \in tick[t].todo, got \in Translations \cup {"error"} :
                 tick' = [tick EXCEPT ![t] = Answered(@, s, got)]
      BY <1>5, TranslateType DEF GetMonitoring
    <2> DEFINE k == Answered(tick[t], s, got)
    <2>2. s \in Snapshot
      BY <1>t DEF TickRec
    <2>3. k \in TickRec /\ k.pc = "record" /\ k.row = s
      BY <1>t, <2>2 DEF Answered, TickRec, TickPC
    <2>4. tick' = [tick EXCEPT ![t] = k]
      BY <1>t, <2>1
    <2>5. tick' \in [Ticks -> TickRec] /\ (\A u \in Ticks : TickShape(u))'
      BY <2>2, <2>3, <2>4, TickUpdate
    <2>6. faults' \in 0..MaxFaults
      BY <1>t, <1>f, <1>5 DEF GetMonitoring
    <2> QED
      BY <1>t, <1>h, <1>5, <2>5, <2>6 DEF GetMonitoring, TypeInv, TypeOK, config
  <1>6. ASSUME NEW t \in Ticks, RecordPoll(t) PROVE TypeInv'
    <2>1. tick[t].pc = "record" /\ tick[t].row \in Snapshot
      BY <1>t, <1>6 DEF RecordPoll, TickShape
    <2>2. rows' \in Table /\ faults' \in 0..MaxFaults
      BY <1>t, <1>f, <1>6, <2>1, RecordedPollTable DEF RecordPoll, Commits, Errs
    <2>3. tick' \in [Ticks -> TickRec] /\ (\A u \in Ticks : TickShape(u))'
      <3>1. CASE Silent(t)
        <4>1. tick' = [tick EXCEPT ![t] = NextRow(t)]
          BY <1>6, <3>1 DEF RecordPoll
        <4> QED
          BY <4>1, NextRowType, TickUpdate
      <3>2. CASE ~Silent(t)
        <4> DEFINE k == [tick[t] EXCEPT !.pc = "publish"]
        <4>1. tick' = [tick EXCEPT ![t] = k]
          BY <1>t, <1>6, <3>2 DEF RecordPoll
        <4>2. k \in TickRec /\ k.row = tick[t].row /\ k.got = tick[t].got
          BY <1>t DEF TickRec, TickPC
        <4>3. k.got \notin {"", "error"}
          BY <3>2, <4>2 DEF Silent
        <4> QED
          BY <2>1, <4>1, <4>2, <4>3, TickUpdate
      <3> QED
        BY <3>1, <3>2
    <2> QED
      BY <1>t, <1>h, <1>6, <2>2, <2>3 DEF RecordPoll, TypeInv, TypeOK, config
  <1>7. ASSUME NEW t \in Ticks, PublishChange(t) PROVE TypeInv'
    <2>1. tick' \in [Ticks -> TickRec] /\ (\A u \in Ticks : TickShape(u))'
      BY <1>7, NextRowType, TickUpdate DEF PublishChange
    <2>2. ChangeEvent(tick[t].got) \in Events
      BY DEF ChangeEvent, Events
    <2>3. sent' \in [Requests -> SUBSET Events] /\ faults' \in 0..MaxFaults
      BY <1>t, <1>f, <1>7, <2>2 DEF PublishChange, Publish
    <2> QED
      BY <1>t, <1>h, <1>7, <2>1, <2>3 DEF PublishChange, TypeInv, TypeOK, config
  <1>8. ASSUME NEW t \in Ticks, BudgetExpires(t) PROVE TypeInv'
    <2>1. tick' \in [Ticks -> TickRec] /\ (\A u \in Ticks : TickShape(u))'
      BY <1>8, IdleTypes, TickUpdate DEF BudgetExpires
    <2> QED
      BY <1>t, <1>h, <1>f, <1>8, <2>1 DEF BudgetExpires, TypeInv, TypeOK, config
  <1>9. CASE ConfigureConsumer \/ ConfigureStep
    <2>1. consumer' \in Gens /\ reconciler' \in Gens /\ open' \subseteq Gens
      <3>1. consumer < MaxGen => consumer + 1 \in Gens
        BY <1>t, BoundAssumption DEF Gens
      <3>2. CASE ConfigureConsumer
        BY <1>t, <3>1, <3>2 DEF ConfigureConsumer
      <3>3. CASE ConfigureReconciler
        BY <1>t, <3>3 DEF ConfigureReconciler
      <3>4. CASE ClosePool
        BY <1>t, <3>4 DEF ClosePool
      <3> QED
        BY <1>9, <3>2, <3>3, <3>4 DEF ConfigureStep
    <2> QED
      BY <1>t, <1>h, <1>k, <1>9, <2>1
         DEF ConfigureConsumer, ConfigureStep, ConfigureReconciler, ClosePool,
             TypeInv, TypeOK, procs
  <1>10. CASE Crash
    <2>1. /\ handler' \in [Handlers -> HandlerRec] /\ (\A h \in Handlers : HandlerShape(h))'
          /\ tick' \in [Ticks -> TickRec] /\ (\A t \in Ticks : TickShape(t))'
      BY <1>10, IdleTypes DEF Crash, HandlerShape, TickShape
    <2>2. consumer' \in Gens /\ reconciler' \in Gens /\ open' \subseteq Gens
      BY <1>10, BoundAssumption DEF Crash, Gens
    <2> QED
      BY <1>t, <1>f, <1>10, <2>1, <2>2 DEF Crash, TypeInv, TypeOK
  <1>11. ASSUME NEW e \in ExtIds, NEW u \in UpStatuses, UpstreamMove(e, u) PROVE TypeInv'
    <2>1. monitor' \in [ExtIds -> Monitor]
      BY <1>t, <1>11 DEF UpstreamMove, Monitor
    <2> QED
      BY <1>t, <1>h, <1>k, <1>11, <2>1 DEF UpstreamMove, TypeInv, TypeOK, procs, config
  <1>12. CASE UNCHANGED vars
    BY <1>t, <1>h, <1>k, <1>12 DEF vars, TypeInv, TypeOK
  <1> QED
    BY <1>1, <1>2, <1>3, <1>4, <1>5, <1>6, <1>7, <1>8, <1>9, <1>10, <1>11, <1>12
       DEF Next, TickStep

(* Type correctness: whatever interleaves or fails, every row keeps the    *)
(* columns and the statuses the store documents, and every invocation a    *)
(* well-formed state.                                                      *)
THEOREM TypeCorrect == Spec => []TypeOK
  <1>1. TypeInv => TypeOK
    BY DEF TypeInv
  <1> QED
    BY <1>1, TypeInvInit, TypeInvNext, PTL DEF Spec

-----------------------------------------------------------------------------
(* Stage 2: what no step undoes *)

RowsGrow == \A r \in Requests : Grows(rows[r], rows'[r])

(* Monitors gain requests, and an imported one stays imported.             *)
MonitorsGrow ==
    \A e \in ExtIds :
        /\ monitor[e].reqs \subseteq monitor'[e].reqs
        /\ translateStatus(monitor[e].status) = "imported"
             => translateStatus(monitor'[e].status) = "imported"

(* A step of a handler's second statement makes rows grow, committed or    *)
(* not.                                                                    *)
LEMMA StatementGrows ==
    ASSUME rows \in Table, NEW w \in Write,
           rows' \in {rows, UpsertForwardedRequest(rows, w)}
    PROVE  RowsGrow
  BY UpsertTable DEF RowsGrow, Grows

(* Handing out an external id makes monitors grow.                         *)
LEMMA AcceptGrows ==
    ASSUME monitor \in [ExtIds -> Monitor], NEW e \in ExtIds, NEW r \in Requests,
           Accept(e, r)
    PROVE  MonitorsGrow /\ r \in monitor'[e].reqs
  <1> DEFINE m == [reqs |-> monitor[e].reqs \cup {r},
                   status |-> IF monitor[e].status = "none" THEN "queued"
                              ELSE monitor[e].status]
  <1>1. monitor' = [monitor EXCEPT ![e] = m]
    BY DEF Accept
  <1>2. translateStatus("none") # "imported"
    BY DEF translateStatus, Translation
  <1> QED
    BY <1>1, <1>2 DEF MonitorsGrow

(* No step takes back a row, an external id, a terminal status, a request  *)
(* of a monitor or its import.                                             *)
LEMMA Growth == TypeInv /\ [Next]_vars => RowsGrow /\ MonitorsGrow
  <1> SUFFICES ASSUME TypeInv, [Next]_vars PROVE RowsGrow /\ MonitorsGrow
    OBVIOUS
  <1>t. /\ rows \in Table
        /\ monitor \in [ExtIds -> Monitor]
        /\ \A h \in Handlers :
             /\ HandlerShape(h)
             /\ handler[h].gen \in Gens
        /\ faults \in 0..MaxFaults
    BY DEF TypeInv, TypeOK, HandlerRec
  <1>r. ASSUME UNCHANGED rows PROVE RowsGrow
    BY <1>r DEF RowsGrow, Grows
  <1>m. ASSUME UNCHANGED monitor PROVE MonitorsGrow
    BY <1>m DEF MonitorsGrow
  <1>1. ASSUME NEW h \in Handlers, NEW r \in Requests, HandleEvent(h, r)
        PROVE  RowsGrow /\ MonitorsGrow
    <2>1. SubmittedWrite(r) \in Write
      BY PayloadAssumption DEF SubmittedWrite, Write, Active
    <2> QED
      BY <1>t, <1>m, <1>1, <2>1, StatementGrows DEF HandleEvent
  <1>2. ASSUME NEW h \in Handlers, AddMonitoring(h) PROVE RowsGrow /\ MonitorsGrow
    <2>1. handler[h].req \in Requests
      BY <1>t, <1>2, AddressedType DEF AddMonitoring, HandlerShape
    <2> QED
      BY <1>t, <1>m, <1>r, <1>2, <2>1, AcceptGrows DEF AddMonitoring
  <1>3. ASSUME NEW h \in Handlers, PersistAcknowledged(h) PROVE RowsGrow /\ MonitorsGrow
    <2>1. AcknowledgedWrite(handler[h].req, handler[h].ext) \in Write
      BY <1>t, <1>3, AddressedType, WriteTypes DEF PersistAcknowledged, HandlerShape
    <2>2. rows' \in {rows, UpsertForwardedRequest(rows,
                             AcknowledgedWrite(handler[h].req, handler[h].ext))}
      BY <1>t, <1>3, <2>1, StatementTable DEF PersistAcknowledged
    <2> QED
      BY <1>t, <1>m, <1>3, <2>1, <2>2, StatementGrows DEF PersistAcknowledged
  <1>4. ASSUME NEW h \in Handlers, PersistFailed(h) PROVE RowsGrow /\ MonitorsGrow
    <2>1. FailedWrite(handler[h].req) \in Write
      BY <1>t, <1>4, AddressedType, PayloadAssumption
         DEF PersistFailed, HandlerShape, FailedWrite, Write, Terminal
    <2>2. rows' \in {rows, UpsertForwardedRequest(rows, FailedWrite(handler[h].req))}
      BY <1>t, <1>4, <2>1, StatementTable DEF PersistFailed
    <2> QED
      BY <1>t, <1>m, <1>4, <2>1, <2>2, StatementGrows DEF PersistFailed
  <1>5. ASSUME NEW t \in Ticks, RecordPoll(t) PROVE RowsGrow /\ MonitorsGrow
    <2>1. \A r \in Requests : Grows(rows[r], RecordedPoll(t)[r])
      BY <1>5, RecordedPollTable DEF RecordPoll
    <2> QED
      BY <1>m, <1>r, <1>5, <2>1 DEF RecordPoll, Commits, Errs, RowsGrow
  <1>6. ASSUME NEW e \in ExtIds, NEW u \in UpStatuses, UpstreamMove(e, u)
        PROVE  RowsGrow /\ MonitorsGrow
    <2>1. MonitorsGrow
      BY <1>t, <1>6 DEF UpstreamMove, Settled, Terminal, MonitorsGrow, Monitor
    <2> QED
      BY <1>r, <1>6, <2>1 DEF UpstreamMove
  <1>7. CASE UNCHANGED <<rows, monitor>>
    BY <1>r, <1>m, <1>7
  <1> QED
    BY <1>1, <1>2, <1>3, <1>4, <1>5, <1>6, <1>7
       DEF Next, HandlerStep, TickStep, ConfigureStep, IgnoreEvent, TellPortal, Ack,
           TickStart, GetMonitoring, PublishChange, BudgetExpires, ConfigureConsumer,
           ConfigureReconciler, ClosePool, Crash, vars

(* A terminal status is never left: not by a duplicate event, not by a     *)
(* tick that still holds an old status, not by an overlapping tick.        *)
THEOREM TerminalIsStable == Spec => TerminalStable
  <1>1. TypeInv /\ [Next]_vars =>
          [\A r \in Requests :
             rows[r].status \in Terminal => rows'[r].status = rows[r].status]_vars
    BY Growth DEF RowsGrow, Grows
  <1> QED
    BY <1>1, TypeInvInit, TypeInvNext, PTL DEF Spec, TerminalStable

(* Once a request can be polled, no write makes it invisible to the        *)
(* reconciler again.                                                       *)
THEOREM ExternalIdIsKept == Spec => ExternalIdKept
  <1>1. TypeInv /\ [Next]_vars =>
          [\A r \in Requests : rows[r].ext # None => rows'[r].ext # None]_vars
    BY Growth DEF RowsGrow, Grows
  <1> QED
    BY <1>1, TypeInvInit, TypeInvNext, PTL DEF Spec, ExternalIdKept

-----------------------------------------------------------------------------
(* Stage 3: what an invocation in flight still knows *)

ImportedIsTrue == \A r \in Requests : rows[r].status = "imported" => UpstreamImported(r)

(* The conjuncts of IInv about the table and the upstream alone.           *)
RowsInv == /\ AbsentRowsAreEmpty
           /\ StuckRowDiagnosis
           /\ ExtIdOfOwnRequest
           /\ ImportedIsTrue
           /\ AutoMonitorKept

(* Knowledge outlives every step in which rows and monitors only grow.     *)
LEMMA KnowledgeKept ==
    ASSUME RowsGrow, MonitorsGrow
    PROVE  /\ \A r \in Requests : Trackable(r) => Trackable(r)'
           /\ \A r \in Present(rows) : r \in Present(rows')
           /\ \A s \in Snapshot : Known(s) => Known(s)'
           /\ \A r \in Requests : UpstreamImported(r) => UpstreamImported(r)'
  <1>1. \A r \in Requests : Trackable(r) => Trackable(r)'
    BY DEF RowsGrow, Grows, Trackable, Terminal
  <1>2. \A r \in Present(rows) : r \in Present(rows')
    BY DEF RowsGrow, Grows, Present
  <1>3. \A s \in Snapshot : Known(s) => Known(s)'
    BY DEF RowsGrow, Grows, MonitorsGrow, Snapshot, Known
  <1>4. \A r \in Requests : UpstreamImported(r) => UpstreamImported(r)'
    BY DEF MonitorsGrow, UpstreamImported
  <1> QED
    BY <1>1, <1>2, <1>3, <1>4

(* A handler the step does not touch still knows what it knew.             *)
LEMMA HandlerKept ==
    ASSUME TypeInv, RowsGrow, MonitorsGrow,
           NEW h \in Handlers, HandlerKnows(h), handler'[h] = handler[h]
    PROVE  HandlerKnows(h)'
  <1>1. CASE handler[h].pc = "idle"
    BY <1>1 DEF HandlerKnows
  <1>2. CASE handler[h].pc # "idle"
    <2>1. /\ handler[h].req \in Requests
          /\ handler[h].pc = "accepted" => handler[h].ext \in ExtIds
      BY <1>2, AddressedType DEF TypeInv, HandlerShape
    <2>2. handler[h].req \in Present(rows')
      BY <1>2, <2>1, KnowledgeKept DEF HandlerKnows
    <2>3. handler[h].pc = "accepted" => handler[h].req \in monitor'[handler[h].ext].reqs
      BY <1>2, <2>1 DEF HandlerKnows, MonitorsGrow
    <2>4. handler[h].pc \in Telling => Trackable(handler[h].req)'
      BY <1>2, <2>1, KnowledgeKept DEF HandlerKnows, Trackable
    <2> QED
      BY <2>2, <2>3, <2>4 DEF HandlerKnows, Trackable
  <1> QED
    BY <1>1, <1>2

(* The same for a tick, whose record may also have lost rows to do.        *)
LEMMA TickKept ==
    ASSUME TypeInv, RowsGrow, MonitorsGrow,
           NEW t \in Ticks, TickKnows(t),
           tick'[t].todo \subseteq tick[t].todo,
           \/ tick'[t].pc \notin {"record", "publish"}
           \/ /\ tick[t].pc \in {"record", "publish"}
              /\ tick'[t].row = tick[t].row
              /\ tick'[t].got = tick[t].got
    PROVE  TickKnows(t)'
  <1>1. /\ tick[t].todo \subseteq Snapshot
        /\ tick[t].pc \in {"record", "publish"} => tick[t].row \in Snapshot
    BY DEF TypeInv, TypeOK, TickShape, TickRec
  <1>2. \A s \in tick'[t].todo : Known(s)'
    BY <1>1, KnowledgeKept DEF TickKnows, Known
  <1>3. CASE tick'[t].pc \notin {"record", "publish"}
    BY <1>2, <1>3 DEF TickKnows, Known
  <1>4. CASE tick'[t].pc \in {"record", "publish"}
    <2>1. tick[t].row \in Snapshot /\ Known(tick[t].row) /\ tick'[t].row = tick[t].row
      BY <1>1, <1>4 DEF TickKnows
    <2>2. Known(tick[t].row)'
      BY <2>1, KnowledgeKept DEF Known
    <2>3. tick'[t].got = "imported" => UpstreamImported(tick[t].row.id)'
      BY <1>4, <2>1, KnowledgeKept DEF TickKnows, UpstreamImported, Snapshot
    <2> QED
      BY <1>2, <2>1, <2>2, <2>3 DEF TickKnows, Known, UpstreamImported
  <1> QED
    BY <1>3, <1>4

(* The conjuncts about the table hold when the table does not change.      *)
LEMMA RowsKept ==
    ASSUME TypeInv, RowsInv, MonitorsGrow, UNCHANGED rows
    PROVE  RowsInv'
  <1>1. \A r \in Requests : UpstreamImported(r) => UpstreamImported(r)'
    BY DEF MonitorsGrow, UpstreamImported
  <1>2. \A r \in Requests : rows[r].ext # None => rows[r].ext \in ExtIds
    BY DEF TypeInv, TypeOK, Table, Row
  <1>3. AbsentRowsAreEmpty' /\ StuckRowDiagnosis' /\ AutoMonitorKept'
    BY DEF RowsInv, AbsentRowsAreEmpty, StuckRowDiagnosis, AutoMonitorKept, Present
  <1>4. ExtIdOfOwnRequest'
    BY <1>2 DEF RowsInv, ExtIdOfOwnRequest, MonitorsGrow
  <1>5. ImportedIsTrue'
    BY <1>1 DEF RowsInv, ImportedIsTrue
  <1> QED
    BY <1>3, <1>4, <1>5 DEF RowsInv

(* An upsert keeps them if the row it writes tells the truth: its external *)
(* id is the request's own, it does not claim an import, and a row without *)
(* id is submitted or failed with an error.                                *)
LEMMA UpsertKeepsRows ==
    ASSUME TypeInv, RowsInv, MonitorsGrow, NEW w \in Write,
           rows' \in {rows, UpsertForwardedRequest(rows, w)},
           \/ w.auto = AutoMonitor[w.id]
           \/ w.auto = FALSE /\ w.id \in Present(rows),
           w.ext # None => w.id \in monitor'[w.ext].reqs,
           w.status # "imported",
           \/ w.ext # None
           \/ w.status = "submitted" /\ ~w.err
           \/ w.status = "failed" /\ w.err
    PROVE  RowsInv'
  <1> DEFINE i == w.id
             old == rows[i]
             new == Merge(old, w)
  <1>t. /\ rows \in Table /\ i \in Requests /\ old \in Row
        /\ AutoMonitor[i] \in BOOLEAN
    BY PayloadAssumption DEF TypeInv, TypeOK, Write, Table
  <1>1. CASE rows' = rows
    BY <1>1, RowsKept
  <1>2. CASE rows' = UpsertForwardedRequest(rows, w)
    <2>1. rows'[i] = new /\ \A r \in Requests : r # i => rows'[r] = rows[r]
      BY <1>t, <1>2, UpsertTable
    <2>2. new.status # "none"
      BY <1>t DEF Merge, Guarded, Write, Active, Terminal
    <2>3. AbsentRowsAreEmpty'
      BY <1>t, <2>1, <2>2 DEF RowsInv, AbsentRowsAreEmpty, Present
    <2>4. new.ext = None => IF new.err THEN new.status = "failed"
                                       ELSE new.status = "submitted"
      <3>1. CASE old.status = "none"
        <4>1. old = AbsentRow
          BY <1>t, <3>1 DEF RowsInv, AbsentRowsAreEmpty, Present
        <4> QED
          BY <1>t, <4>1 DEF AbsentRow, Merge, Guarded, Coalesce, Terminal, Write
      <3>2. CASE old.status # "none"
        <4>1. old.ext = None => IF old.err THEN old.status = "failed"
                                           ELSE old.status = "submitted"
          BY <1>t, <3>2 DEF RowsInv, StuckRowDiagnosis, Present
        <4> QED
          BY <1>t, <4>1 DEF Merge, Guarded, Coalesce, Terminal, Write, Row
      <3> QED
        BY <3>1, <3>2
    <2>5. StuckRowDiagnosis'
      BY <1>t, <2>1, <2>4 DEF RowsInv, StuckRowDiagnosis, Present
    <2>6. new.ext # None => i \in monitor'[new.ext].reqs
      BY <1>t DEF RowsInv, ExtIdOfOwnRequest, Merge, Coalesce, MonitorsGrow, Row
    <2>7. \A r \in Requests \ {i} :
            rows'[r].ext # None => r \in monitor'[rows'[r].ext].reqs
      BY <1>t, <2>1 DEF RowsInv, ExtIdOfOwnRequest, MonitorsGrow, Table, Row
    <2>8. ExtIdOfOwnRequest'
      BY <2>1, <2>6, <2>7 DEF ExtIdOfOwnRequest
    <2>9. \A r \in Requests : rows'[r].status = "imported" => rows[r].status = "imported"
      BY <1>t, <2>1 DEF Merge, Guarded, Terminal
    <2>10. ImportedIsTrue'
      BY <2>9 DEF RowsInv, ImportedIsTrue, MonitorsGrow, UpstreamImported
    <2>11. new.auto = AutoMonitor[i]
      <3>1. CASE old.status = "none"
        <4>1. old.auto = FALSE
          BY <1>t, <3>1 DEF RowsInv, AbsentRowsAreEmpty, Present, AbsentRow
        <4>2. w.auto = AutoMonitor[i]
          BY <3>1 DEF Present
        <4> QED
          BY <1>t, <4>1, <4>2 DEF Merge
      <3>2. CASE old.status # "none"
        <4>1. old.auto = AutoMonitor[i]
          BY <1>t, <3>2 DEF RowsInv, AutoMonitorKept, Present
        <4> QED
          BY <1>t, <4>1 DEF Merge
      <3> QED
        BY <3>1, <3>2
    <2>12. AutoMonitorKept'
      BY <1>t, <2>1, <2>11 DEF RowsInv, AutoMonitorKept, Present
    <2> QED
      BY <2>3, <2>5, <2>8, <2>10, <2>12 DEF RowsInv
  <1> QED
    BY <1>1, <1>2

(* So does the update of a successful poll of the row's own monitor.       *)
LEMMA MarkPolledKeepsRows ==
    ASSUME TypeInv, RowsInv, MonitorsGrow,
           NEW i \in Present(rows), NEW ext \in ExtIds,
           NEW status \in Active \cup Terminal, NEW when \in Nat,
           rows' \in {rows, MarkPolled(rows, i, ext, status, when)},
           i \in monitor'[ext].reqs,
           status = "imported" => UpstreamImported(i)'
    PROVE  RowsInv'
  <1> DEFINE old == rows[i]
             new == Polled(old, ext, status, when)
  <1>t. /\ rows \in Table /\ i \in Requests /\ old \in Row
        /\ AutoMonitor[i] \in BOOLEAN /\ ext # None
    BY PayloadAssumption, NoneIsNoId DEF TypeInv, TypeOK, Table, Present
  <1>1. CASE rows' = rows
    BY <1>1, RowsKept
  <1>2. CASE rows' = MarkPolled(rows, i, ext, status, when)
    <2>1. rows'[i] = new /\ \A r \in Requests : r # i => rows'[r] = rows[r]
      BY <1>t, <1>2, MarkPolledTable
    <2>2. new.status # "none" /\ new.ext = ext /\ new.auto = old.auto
      BY <1>t, PolledRow DEF Polled, Guarded, Active, Terminal
    <2>3. AbsentRowsAreEmpty'
      BY <1>t, <2>1, <2>2 DEF RowsInv, AbsentRowsAreEmpty, Present
    <2>4. StuckRowDiagnosis'
      BY <1>t, <2>1, <2>2 DEF RowsInv, StuckRowDiagnosis, Present
    <2>5. \A r \in Requests \ {i} :
            rows'[r].ext # None => r \in monitor'[rows'[r].ext].reqs
      BY <1>t, <2>1 DEF RowsInv, ExtIdOfOwnRequest, MonitorsGrow, Table, Row
    <2>6. ExtIdOfOwnRequest'
      BY <2>1, <2>2, <2>5 DEF ExtIdOfOwnRequest
    <2>7. \A r \in Requests : UpstreamImported(r) => UpstreamImported(r)'
      BY DEF MonitorsGrow, UpstreamImported
    <2>8. new.status = "imported" => UpstreamImported(i)'
      BY <1>t, <2>7 DEF RowsInv, ImportedIsTrue, Polled, Guarded
    <2>9. ImportedIsTrue'
      BY <2>1, <2>7, <2>8 DEF RowsInv, ImportedIsTrue, UpstreamImported
    <2>10. AutoMonitorKept'
      BY <1>t, <2>1, <2>2 DEF RowsInv, AutoMonitorKept, Present
    <2> QED
      BY <2>3, <2>4, <2>6, <2>9, <2>10 DEF RowsInv
  <1> QED
    BY <1>1, <1>2

(* IInv, regrouped.                                                        *)
TellsTruth == \A r \in Requests : "request_fulfilled" \in sent[r] => UpstreamImported(r)

LEMMA IInvParts ==
    IInv <=> /\ TypeInv /\ RowsInv /\ TellsTruth /\ AckedIsTrackable
             /\ \A h \in Handlers : HandlerKnows(h)
             /\ \A t \in Ticks : TickKnows(t)
  BY DEF IInv, RowsInv, FulfilledIsTrue, ImportedIsTrue, TellsTruth

LEMMA IInvPartsNext ==
    IInv' <=> /\ TypeInv' /\ RowsInv' /\ TellsTruth' /\ AckedIsTrackable'
              /\ (\A h \in Handlers : HandlerKnows(h))'
              /\ (\A t \in Ticks : TickKnows(t))'
  BY DEF IInv, RowsInv, FulfilledIsTrue, ImportedIsTrue, TellsTruth

(* The initial state satisfies the inductive invariant.                    *)
LEMMA IInvInit == Init => IInv
  <1> SUFFICES ASSUME Init PROVE IInv
    OBVIOUS
  <1>1. \A r \in Requests : rows[r] = AbsentRow /\ sent[r] = {}
    BY DEF Init, EmptyTable
  <1>2. RowsInv /\ TellsTruth /\ AckedIsTrackable
    <2>1. Present(rows) = {}
      BY <1>1 DEF Present, AbsentRow
    <2>2. AbsentRowsAreEmpty /\ StuckRowDiagnosis /\ AutoMonitorKept
      BY <1>1, <2>1 DEF AbsentRowsAreEmpty, StuckRowDiagnosis, AutoMonitorKept
    <2>3. ExtIdOfOwnRequest /\ ImportedIsTrue /\ TellsTruth
      BY <1>1 DEF ExtIdOfOwnRequest, ImportedIsTrue, TellsTruth, AbsentRow
    <2>4. AckedIsTrackable
      BY DEF Init, AckedIsTrackable
    <2> QED
      BY <2>2, <2>3, <2>4 DEF RowsInv
  <1>3. \A h \in Handlers : HandlerKnows(h)
    BY IdleTypes DEF Init, HandlerKnows
  <1>4. \A t \in Ticks : TickKnows(t)
    BY IdleTypes DEF Init, TickKnows
  <1> QED
    BY <1>2, <1>3, <1>4, TypeInvInit, IInvParts

(* A step that leaves sent or acked alone keeps what they say.             *)
LEMMA SaidKept ==
    ASSUME IInv, RowsGrow, MonitorsGrow
    PROVE  /\ UNCHANGED sent => TellsTruth'
           /\ UNCHANGED acked => AckedIsTrackable'
  <1>1. \A r \in Requests : UpstreamImported(r) => UpstreamImported(r)'
    BY DEF MonitorsGrow, UpstreamImported
  <1>2. \A r \in Requests : Trackable(r) => Trackable(r)'
    BY DEF RowsGrow, Grows, Trackable, Terminal
  <1> QED
    BY <1>1, <1>2, AddressedType, IInvParts
       DEF TellsTruth, AckedIsTrackable, Trackable, UpstreamImported

(* What HandleEvent does keeps the inductive invariant.                    *)
LEMMA HandlerKeepsIInv ==
    ASSUME IInv, TypeInv', RowsGrow, MonitorsGrow, NEW h \in Handlers,
           HandlerStep(h) \/ \E r \in Requests : HandleEvent(h, r)
    PROVE  IInv'
  <1> DEFINE k == handler[h]
  <1>t. /\ TypeInv /\ RowsInv /\ HandlerKnows(h)
        /\ rows \in Table /\ handler \in [Handlers -> HandlerRec] /\ k \in HandlerRec
        /\ handler' \in [Handlers -> HandlerRec]
        /\ k.pc # "idle" => k.req \in Requests /\ k.req \in Addressed
        /\ k.pc = "accepted" => k.ext \in ExtIds
        /\ faults \in 0..MaxFaults /\ k.gen \in Gens
    BY IInvParts, AddressedType DEF TypeInv, TypeOK, HandlerShape, HandlerRec
  <1>q. PICK q : q = k.req
    OBVIOUS
  <1>k. UNCHANGED tick => (\A t \in Ticks : TickKnows(t))'
    <2> SUFFICES ASSUME UNCHANGED tick, NEW t \in Ticks PROVE TickKnows(t)'
      OBVIOUS
    <2> QED
      BY IInvParts, TickKept
  <1>h. ASSUME NEW r \in HandlerRec, handler' = [handler EXCEPT ![h] = r],
               HandlerKnows(h)'
        PROVE  (\A g \in Handlers : HandlerKnows(g))'
    <2> SUFFICES ASSUME NEW g \in Handlers PROVE HandlerKnows(g)'
      OBVIOUS
    <2> QED
      BY <1>h, <1>t, IInvParts, HandlerKept
  <1>i. ASSUME handler' = [handler EXCEPT ![h] = IdleHandler]
        PROVE  (\A g \in Handlers : HandlerKnows(g))'
    <2>1. HandlerKnows(h)'
      BY <1>i, <1>t, IdleTypes DEF HandlerKnows
    <2> QED
      BY <1>i, <1>h, <2>1, IdleTypes
  <1>p. ASSUME NEW pc \in HandlerPC \ {"accepted"},
               handler' = [handler EXCEPT ![h].pc = pc],
               k.pc # "idle", pc \in Telling => Trackable(q)'
        PROVE  (\A g \in Handlers : HandlerKnows(g))'
    <2> DEFINE r == [k EXCEPT !.pc = pc]
    <2>1. r \in HandlerRec /\ r.pc = pc /\ r.req = k.req
      BY <1>t DEF HandlerRec
    <2>2. handler' = [handler EXCEPT ![h] = r]
      BY <1>p
    <2>3. handler'[h] = r
      BY <1>t, <2>2
    <2>4. k.req \in Present(rows')
      BY <1>t, <1>p, KnowledgeKept DEF HandlerKnows
    <2>5. HandlerKnows(h)'
      BY <1>p, <1>q, <2>1, <2>3, <2>4 DEF HandlerKnows, Trackable
    <2> QED
      BY <1>h, <2>1, <2>2, <2>5
  <1>1. ASSUME NEW r \in Requests, HandleEvent(h, r) PROVE IInv'
    <2> DEFINE w == SubmittedWrite(r)
               n == [pc |-> "adding", req |-> r, ext |-> None, gen |-> consumer]
    <2>1. w \in Write /\ rows' = UpsertForwardedRequest(rows, w)
      BY <1>1, PayloadAssumption DEF HandleEvent, SubmittedWrite, Write, Active
    <2>2. RowsInv'
      BY <1>t, <2>1, UpsertKeepsRows DEF SubmittedWrite
    <2>3. r \in Present(rows')
      <3>1. w.id = r /\ w.status \in Active
        BY DEF SubmittedWrite, Active
      <3>2. rows'[r] = Merge(rows[r], w)
        BY <1>t, <2>1, <3>1, UpsertTable
      <3> QED
        BY <3>1, <3>2 DEF Merge, Guarded, Present, Active, Terminal
    <2>6. TellsTruth' /\ AckedIsTrackable' /\ (\A t \in Ticks : TickKnows(t))'
      BY <1>1, <1>k, SaidKept DEF HandleEvent
    <2>7. CASE handler' = [handler EXCEPT ![h] = n]
      <3>1. n \in HandlerRec /\ handler'[h] = n
        BY <1>1, <1>t, <2>7 DEF HandleEvent, HandlerRec, HandlerPC, TypeInv, TypeOK
      <3>2. HandlerKnows(h)'
        BY <2>3, <3>1 DEF HandlerKnows, Telling
      <3> HIDE DEF n
      <3>3. (\A g \in Handlers : HandlerKnows(g))'
        BY <1>h, <2>7, <3>1, <3>2
      <3> QED
        BY <2>2, <2>6, <3>3, IInvPartsNext
    <2>8. CASE Nack(h)
      BY <1>i, <2>2, <2>6, <2>8, IInvPartsNext DEF Nack
    <2> QED
      BY <1>1, <2>7, <2>8 DEF HandleEvent
  <1>2. CASE AddMonitoring(h)
    <2>1. RowsInv' /\ TellsTruth' /\ AckedIsTrackable' /\ (\A t \in Ticks : TickKnows(t))'
      BY <1>2, <1>t, <1>k, SaidKept, RowsKept DEF AddMonitoring
    <2>2. CASE handler' = [handler EXCEPT ![h].pc = "rejected"]
      <3>1. k.pc # "idle" /\ "rejected" \in HandlerPC \ {"accepted"}
            /\ "rejected" \notin Telling
        BY <1>2 DEF AddMonitoring, HandlerPC, Telling
      <3>2. (\A g \in Handlers : HandlerKnows(g))'
        BY <1>p, <2>2, <3>1
      <3> QED
        BY <2>1, <3>2, IInvPartsNext
    <2>3. CASE \E e \in ExtIds :
                 /\ Accept(e, k.req)
                 /\ handler' = [handler EXCEPT ![h].pc = "accepted", ![h].ext = e]
      <3> PICK e \in ExtIds :
                 /\ Accept(e, k.req)
                 /\ handler' = [handler EXCEPT ![h].pc = "accepted", ![h].ext = e]
        BY <2>3
      <3> DEFINE r == [k EXCEPT !.pc = "accepted", !.ext = e]
      <3>1. /\ r \in HandlerRec /\ r.pc = "accepted" /\ r.req = k.req /\ r.ext = e
        BY <1>t DEF HandlerRec, HandlerPC
      <3>2. handler' = [handler EXCEPT ![h] = r] /\ handler'[h] = r
        BY <1>t
      <3>3. k.pc # "idle" /\ k.req \in Requests
        BY <1>2, <1>t DEF AddMonitoring
      <3>4. k.req \in monitor'[e].reqs
        BY <1>t, <3>3, AcceptGrows DEF TypeInv, TypeOK
      <3>5. k.req \in Present(rows')
        BY <1>t, <3>3, KnowledgeKept DEF HandlerKnows
      <3>6. HandlerKnows(h)'
        BY <3>1, <3>2, <3>4, <3>5 DEF HandlerKnows, Telling
      <3> QED
        BY <1>h, <2>1, <3>1, <3>2, <3>6, IInvPartsNext
    <2> QED
      BY <1>2, <2>2, <2>3 DEF AddMonitoring
  <1>3. CASE PersistAcknowledged(h)
    <2> DEFINE w == AcknowledgedWrite(k.req, k.ext)
    <2>1. k.pc = "accepted" /\ k.req \in Requests /\ k.ext \in ExtIds /\ k.ext # None
      BY <1>3, <1>t, NoneIsNoId DEF PersistAcknowledged
    <2>2. w \in Write
      BY <2>1, WriteTypes
    <2>3. rows' \in {rows, UpsertForwardedRequest(rows, w)}
      BY <1>3, <1>t, <2>2, StatementTable DEF PersistAcknowledged
    <2>4. k.req \in monitor'[k.ext].reqs
      BY <1>t, <2>1 DEF HandlerKnows, MonitorsGrow
    <2>5. RowsInv'
      <3>1. /\ w.id = k.req /\ w.ext = k.ext /\ w.auto = AutoMonitor[w.id]
            /\ w.status = "acknowledged"
        BY DEF AcknowledgedWrite
      <3> HIDE DEF w
      <3> QED
        BY <1>t, <2>1, <2>2, <2>3, <2>4, <3>1, UpsertKeepsRows
    <2>6. TellsTruth' /\ AckedIsTrackable' /\ (\A t \in Ticks : TickKnows(t))'
      BY <1>3, <1>k, SaidKept DEF PersistAcknowledged
    <2>7. CASE /\ Commits(k.gen, UpsertForwardedRequest(rows, w))
               /\ handler' = [handler EXCEPT ![h].pc = "tell_acknowledged"]
      <3>1. rows' = UpsertForwardedRequest(rows, w)
        BY <2>7 DEF Commits
      <3>2. w.id = k.req /\ w.ext = k.ext
        BY DEF AcknowledgedWrite
      <3>3. rows'[k.req] = Merge(rows[k.req], w)
        BY <1>t, <2>2, <3>1, <3>2, UpsertTable
      <3>4. rows'[k.req].ext # None
        BY <2>1, <3>2, <3>3 DEF Merge, Coalesce
      <3>5. Trackable(q)'
        BY <1>q, <3>4 DEF Trackable
      <3>6. (\A g \in Handlers : HandlerKnows(g))'
        BY <1>p, <2>1, <2>7, <3>5 DEF HandlerPC
      <3> QED
        BY <2>5, <2>6, <3>6, IInvPartsNext
    <2>8. CASE Nack(h)
      BY <1>i, <2>5, <2>6, <2>8, IInvPartsNext DEF Nack
    <2> QED
      BY <1>3, <2>7, <2>8 DEF PersistAcknowledged
  <1>4. CASE PersistFailed(h)
    <2> DEFINE w == FailedWrite(k.req)
    <2>1. k.pc = "rejected" /\ k.req \in Requests /\ k.req \in Present(rows)
      BY <1>4, <1>t DEF PersistFailed, HandlerKnows
    <2>2. w \in Write
      BY <2>1, PayloadAssumption DEF FailedWrite, Write, Terminal
    <2>3. rows' \in {rows, UpsertForwardedRequest(rows, w)}
      BY <1>4, <1>t, <2>2, StatementTable DEF PersistFailed
    <2>4. /\ w.id = k.req /\ w.ext = None /\ w.auto = AutoMonitor[w.id]
          /\ w.status = "failed" /\ w.err = TRUE
      BY DEF FailedWrite
    <2>5. RowsInv'
      <3> HIDE DEF w
      <3> QED
        BY <1>t, <2>2, <2>3, <2>4, UpsertKeepsRows
    <2>6. TellsTruth' /\ AckedIsTrackable' /\ (\A t \in Ticks : TickKnows(t))'
      BY <1>4, <1>k, SaidKept DEF PersistFailed
    <2>7. CASE /\ Commits(k.gen, UpsertForwardedRequest(rows, w))
               /\ handler' = [handler EXCEPT ![h].pc = "tell_failed"]
      <3>1. rows'[k.req] = Merge(rows[k.req], w)
        BY <1>t, <2>2, <2>4, <2>7, UpsertTable DEF Commits
      <3>2. rows'[k.req].status \in Terminal
        BY <2>4, <3>1 DEF Merge, Guarded, Terminal
      <3>3. Trackable(q)'
        BY <1>q, <2>1, <2>5, <3>2
           DEF RowsInv, StuckRowDiagnosis, Present, Trackable, Terminal
      <3>4. (\A g \in Handlers : HandlerKnows(g))'
        BY <1>p, <2>1, <2>7, <3>3 DEF HandlerPC
      <3> QED
        BY <2>5, <2>6, <3>4, IInvPartsNext
    <2>8. CASE Nack(h)
      BY <1>i, <2>5, <2>6, <2>8, IInvPartsNext DEF Nack
    <2> QED
      BY <1>4, <2>7, <2>8 DEF PersistFailed
  <1>5. CASE TellPortal(h)
    <2>1. RowsInv' /\ AckedIsTrackable' /\ (\A t \in Ticks : TickKnows(t))'
      BY <1>5, <1>t, <1>k, SaidKept, RowsKept DEF TellPortal
    <2>2. k.pc \in Telling /\ k.req \in Requests
      BY <1>5, <1>t DEF TellPortal, Telling
    <2>3. TellsTruth'
      <3>1. \A r \in Requests : UpstreamImported(r) => UpstreamImported(r)'
        BY DEF MonitorsGrow, UpstreamImported
      <3>2. sent \in [Requests -> SUBSET Events]
        BY <1>t DEF TypeInv, TypeOK
      <3>3. \A r \in Requests :
              "request_fulfilled" \in sent'[r] => "request_fulfilled" \in sent[r]
        BY <1>5, <2>2, <3>2 DEF TellPortal, Publish
      <3> QED
        BY <3>1, <3>3, IInvParts DEF TellsTruth, UpstreamImported
    <2>4. Trackable(q)'
      BY <1>t, <1>q, <2>2, KnowledgeKept DEF HandlerKnows, Telling
    <2>5. (\A g \in Handlers : HandlerKnows(g))'
      BY <1>5, <1>p, <2>2, <2>4 DEF TellPortal, HandlerPC, Telling
    <2> QED
      BY <2>1, <2>3, <2>5, IInvPartsNext
  <1>6. CASE Ack(h)
    <2>1. RowsInv' /\ TellsTruth' /\ (\A t \in Ticks : TickKnows(t))'
      BY <1>6, <1>t, <1>k, SaidKept, RowsKept DEF Ack
    <2>2. Trackable(q)'
      BY <1>6, <1>t, <1>q, KnowledgeKept DEF Ack, HandlerKnows, Telling
    <2>3. \A r \in Addressed : Trackable(r) => Trackable(r)'
      BY AddressedType, KnowledgeKept
    <2>4. AckedIsTrackable'
      BY <1>6, <1>q, <2>2, <2>3, IInvParts DEF Ack, AckedIsTrackable
    <2>5. (\A g \in Handlers : HandlerKnows(g))'
      BY <1>6, <1>i DEF Ack
    <2> QED
      BY <2>1, <2>4, <2>5, IInvPartsNext
  <1> QED
    BY <1>1, <1>2, <1>3, <1>4, <1>5, <1>6 DEF HandlerStep

(* What Tick does keeps the inductive invariant.                           *)
LEMMA TickKeepsIInv ==
    ASSUME IInv, TypeInv', RowsGrow, MonitorsGrow, NEW t \in Ticks,
           TickStart(t) \/ TickStep(t) \/ BudgetExpires(t)
    PROVE  IInv'
  <1> DEFINE k == tick[t]
  <1>t. /\ TypeInv /\ RowsInv /\ TellsTruth /\ TickKnows(t)
        /\ rows \in Table /\ tick \in [Ticks -> TickRec] /\ k \in TickRec
        /\ monitor \in [ExtIds -> Monitor] /\ sent \in [Requests -> SUBSET Events]
        /\ k.todo \subseteq Snapshot
        /\ k.pc \in {"record", "publish"} => k.row \in Snapshot
    BY IInvParts DEF TypeInv, TypeOK, TickShape, TickRec
  <1>h. UNCHANGED handler => (\A h \in Handlers : HandlerKnows(h))'
    <2> SUFFICES ASSUME UNCHANGED handler, NEW h \in Handlers PROVE HandlerKnows(h)'
      OBVIOUS
    <2> QED
      BY IInvParts, HandlerKept
  <1>k. ASSUME NEW n \in TickRec, tick' = [tick EXCEPT ![t] = n], TickKnows(t)'
        PROVE  (\A u \in Ticks : TickKnows(u))'
    <2> SUFFICES ASSUME NEW u \in Ticks PROVE TickKnows(u)'
      OBVIOUS
    <2>1. CASE u = t
      BY <1>k, <2>1
    <2>2. CASE u # t
      <3>1. tick'[u] = tick[u] /\ TickKnows(u)
        BY <1>t, <1>k, <2>2, IInvParts
      <3> QED
        BY <1>t, <3>1, TickKept
    <2> QED
      BY <2>1, <2>2
  <1>n. ASSUME NEW n \in {IdleTick, NextRow(t)}, tick' = [tick EXCEPT ![t] = n]
        PROVE  (\A u \in Ticks : TickKnows(u))'
    <2>1. n \in TickRec /\ n.pc \in {"idle", "poll"}
      BY <1>t, <1>n, NextRowType, IdleTypes
    <2>2. n.todo \subseteq k.todo
      BY <1>t, <1>n, IdleTypes DEF NextRow, TickRec
    <2>3. tick'[t] = n
      BY <1>t, <1>n
    <2>4. TickKnows(t)'
      BY <1>t, <2>1, <2>2, <2>3, TickKept
    <2> QED
      BY <1>k, <1>n, <2>1, <2>4
  <1>1. CASE TickStart(t)
    <2> DEFINE todo == {[id |-> r, ext |-> rows[r].ext, status |-> rows[r].status] :
                          r \in Pollable}
               n == [IdleTick EXCEPT !.pc = "poll", !.gen = reconciler, !.todo = todo]
    <2>1. RowsInv' /\ TellsTruth' /\ AckedIsTrackable' /\ (\A h \in Handlers : HandlerKnows(h))'
      BY <1>1, <1>t, <1>h, SaidKept, RowsKept DEF TickStart
    <2>2. tick' = [tick EXCEPT ![t] = n] /\ UNCHANGED <<rows, monitor>>
      BY <1>1 DEF TickStart
    <2>3. n.pc = "poll" /\ n.todo = todo /\ tick'[t] = n
      BY <1>t, <2>2 DEF IdleTick
    <2>4. \A s \in todo : Known(s)
      <3> SUFFICES ASSUME NEW r \in Pollable
                   PROVE  rows[r].ext # None /\ r \in monitor[rows[r].ext].reqs
        BY DEF Known
      <3> QED
        BY <1>t DEF Pollable, NonTerminal, Unsubmitted, Present, RowsInv, ExtIdOfOwnRequest
    <2>5. TickKnows(t)'
      BY <2>2, <2>3, <2>4 DEF TickKnows, Known
    <2>6. tick'[t] \in TickRec
      BY DEF TypeInv, TypeOK
    <2> HIDE DEF n
    <2>7. (\A u \in Ticks : TickKnows(u))'
      BY <1>k, <2>2, <2>3, <2>5, <2>6
    <2> QED
      BY <2>1, <2>7, IInvPartsNext
  <1>2. CASE GetMonitoring(t)
    <2>1. RowsInv' /\ TellsTruth' /\ AckedIsTrackable' /\ (\A h \in Handlers : HandlerKnows(h))'
      BY <1>2, <1>t, <1>h, SaidKept, RowsKept DEF GetMonitoring
    <2>0. PICK s \in k.todo :
             \E got \in {translateStatus(monitor[s.ext].status), "error"} :
                 tick' = [tick EXCEPT ![t] = Answered(@, s, got)]
      BY <1>2 DEF GetMonitoring
    <2>2. PICK got \in {translateStatus(monitor[s.ext].status), "error"} :
                 tick' = [tick EXCEPT ![t] = Answered(@, s, got)]
      BY <2>0
    <2> DEFINE n == Answered(k, s, got)
    <2>3. n.todo \subseteq k.todo /\ n.row = s /\ n.got = got /\ tick'[t] = n
      BY <1>t, <2>2 DEF Answered, TickRec
    <2>4. s \in Snapshot /\ Known(s) /\ UNCHANGED <<rows, monitor>>
      BY <1>2, <1>t DEF TickKnows, GetMonitoring
    <2>5. got = "imported" => UpstreamImported(s.id)
      BY <2>2, <2>4 DEF Known, Snapshot, UpstreamImported
    <2>6. TickKnows(t)'
      BY <1>t, <2>3, <2>4, <2>5 DEF TickKnows, Known, UpstreamImported
    <2>7. tick'[t] \in TickRec /\ tick' = [tick EXCEPT ![t] = n]
      BY <1>t, <2>2 DEF TypeInv, TypeOK
    <2> HIDE DEF n
    <2>8. (\A u \in Ticks : TickKnows(u))'
      BY <1>k, <2>3, <2>6, <2>7
    <2> QED
      BY <2>1, <2>8, IInvPartsNext
  <1>3. CASE RecordPoll(t)
    <2> DEFINE s == k.row
               status == IF k.got = "" THEN s.status ELSE k.got
               w == [id |-> s.id, ext |-> s.ext, status |-> s.status,
                     polled |-> Now, err |-> TRUE, auto |-> FALSE]
    <2>1. /\ k.pc = "record" /\ s \in Snapshot /\ Known(s)
          /\ k.got \in Translations \cup {"error"}
          /\ k.got = "imported" => UpstreamImported(s.id)
      BY <1>3, <1>t DEF RecordPoll, TickKnows, TickRec
    <2>2. /\ s.id \in Requests /\ s.ext \in ExtIds /\ s.status \in Active
          /\ s.ext # None /\ Now \in Nat
      BY <2>1, NoneIsNoId DEF Snapshot, Now
    <2>3. s.id \in Present(rows) /\ s.id \in monitor'[s.ext].reqs
      BY <1>t, <2>1, <2>2
         DEF Known, MonitorsGrow, RowsInv, AbsentRowsAreEmpty, AbsentRow
    <2>4. rows' \in {rows, RecordedPoll(t)}
      BY <1>3 DEF RecordPoll, Commits, Errs
    <2>5. RowsInv'
      <3>1. CASE k.got = "error"
        <4>1. w \in Write /\ w.status # "imported"
          BY <2>2 DEF Write, Active
        <4>2. rows' \in {rows, UpsertForwardedRequest(rows, w)}
          BY <2>4, <3>1 DEF RecordedPoll
        <4>3. w.id = s.id /\ w.ext = s.ext /\ w.auto = FALSE
          OBVIOUS
        <4> HIDE DEF w
        <4> QED
          BY <1>t, <2>2, <2>3, <4>1, <4>2, <4>3, UpsertKeepsRows
      <3>2. CASE k.got # "error"
        <4>1. status \in Active \cup Terminal
          BY <2>1, <2>2, <3>2 DEF Translations, Active, Terminal
        <4>2. status = "imported" => UpstreamImported(s.id)
          BY <2>1, <2>2 DEF Active
        <4>3. PICK i : i = s.id
          OBVIOUS
        <4>4. status = "imported" => UpstreamImported(i)'
          BY <2>2, <4>2, <4>3, KnowledgeKept
        <4>5. rows' \in {rows, MarkPolled(rows, i, s.ext, status, Now)}
          BY <2>4, <3>2, <4>3 DEF RecordedPoll
        <4> HIDE DEF status
        <4>6. PICK x : x = status
          OBVIOUS
        <4>7. PICK e : e = s.ext
          OBVIOUS
        <4>8. rows' \in {rows, MarkPolled(rows, i, e, x, Now)}
          BY <4>5, <4>6, <4>7
        <4>9. i \in Present(rows) /\ i \in monitor'[e].reqs /\ e \in ExtIds
          BY <2>2, <2>3, <4>3, <4>7
        <4> QED
          BY <1>t, <2>2, <4>1, <4>4, <4>6, <4>8, <4>9, MarkPolledKeepsRows
      <3> QED
        BY <3>1, <3>2
    <2>6. TellsTruth' /\ AckedIsTrackable' /\ (\A h \in Handlers : HandlerKnows(h))'
      BY <1>3, <1>h, SaidKept DEF RecordPoll
    <2>7. (\A u \in Ticks : TickKnows(u))'
      <3>1. CASE Silent(t)
        <4>1. tick' = [tick EXCEPT ![t] = NextRow(t)]
          BY <1>3, <3>1 DEF RecordPoll
        <4> QED
          BY <1>n, <4>1
      <3>2. CASE ~Silent(t)
        <4> DEFINE n == [k EXCEPT !.pc = "publish"]
        <4>1. tick' = [tick EXCEPT ![t] = n] /\ tick'[t] = n
          BY <1>3, <1>t, <3>2 DEF RecordPoll
        <4>2. /\ n \in TickRec /\ n.todo = k.todo /\ n.row = k.row /\ n.got = k.got
          BY <1>t DEF TickRec, TickPC
        <4> HIDE DEF n
        <4>3. TickKnows(t)'
          BY <1>t, <2>1, <4>1, <4>2, TickKept
        <4> QED
          BY <1>k, <4>1, <4>2, <4>3
      <3> QED
        BY <3>1, <3>2
    <2> QED
      BY <2>5, <2>6, <2>7, IInvPartsNext
  <1>4. CASE PublishChange(t)
    <2>1. RowsInv' /\ AckedIsTrackable' /\ (\A h \in Handlers : HandlerKnows(h))'
      BY <1>4, <1>t, <1>h, SaidKept, RowsKept DEF PublishChange
    <2>2. /\ k.pc = "publish" /\ k.row.id \in Requests
          /\ k.got = "imported" => UpstreamImported(k.row.id)
      BY <1>4, <1>t DEF PublishChange, TickKnows, Snapshot
    <2>3. ChangeEvent(k.got) = "request_fulfilled" => k.got = "imported"
      BY DEF ChangeEvent
    <2>4. \A r \in Requests : "request_fulfilled" \in sent'[r] => UpstreamImported(r)
      BY <1>4, <1>t, <2>2, <2>3 DEF PublishChange, Publish, TellsTruth
    <2>5. TellsTruth'
      BY <1>4, <2>4 DEF PublishChange, TellsTruth, UpstreamImported
    <2>6. (\A u \in Ticks : TickKnows(u))'
      BY <1>4, <1>n DEF PublishChange
    <2> QED
      BY <2>1, <2>5, <2>6, IInvPartsNext
  <1>5. CASE BudgetExpires(t)
    <2>1. RowsInv' /\ TellsTruth' /\ AckedIsTrackable' /\ (\A h \in Handlers : HandlerKnows(h))'
      BY <1>5, <1>t, <1>h, SaidKept, RowsKept DEF BudgetExpires
    <2>2. (\A u \in Ticks : TickKnows(u))'
      BY <1>5, <1>n DEF BudgetExpires
    <2> QED
      BY <2>1, <2>2, IInvPartsNext
  <1> QED
    BY <1>1, <1>2, <1>3, <1>4, <1>5 DEF TickStep

(* The invariant is inductive.                                             *)
LEMMA IInvNext == IInv /\ [Next]_vars => IInv'
  <1> SUFFICES ASSUME IInv, [Next]_vars PROVE IInv'
    OBVIOUS
  <1>t. TypeInv /\ TypeInv' /\ RowsGrow /\ MonitorsGrow /\ RowsInv
    BY IInvParts, TypeInvNext, Growth
  <1>k. /\ UNCHANGED tick => (\A t \in Ticks : TickKnows(t))'
        /\ UNCHANGED handler => (\A h \in Handlers : HandlerKnows(h))'
    <2>1. ASSUME UNCHANGED tick, NEW t \in Ticks PROVE TickKnows(t)'
      BY <1>t, <2>1, IInvParts, TickKept
    <2>2. ASSUME UNCHANGED handler, NEW h \in Handlers PROVE HandlerKnows(h)'
      BY <1>t, <2>2, IInvParts, HandlerKept
    <2> QED
      BY <2>1, <2>2
  <1>1. CASE \E h \in Handlers : HandlerStep(h) \/ \E r \in Requests : HandleEvent(h, r)
    BY <1>t, <1>1, HandlerKeepsIInv
  <1>2. CASE \E t \in Ticks : TickStart(t) \/ TickStep(t) \/ BudgetExpires(t)
    BY <1>t, <1>2, TickKeepsIInv
  <1>3. ASSUME NEW r \in Requests, IgnoreEvent(r) PROVE IInv'
    <2>1. RowsInv' /\ TellsTruth'
      BY <1>3, <1>t, SaidKept, RowsKept DEF IgnoreEvent
    <2>2. AckedIsTrackable'
      BY <1>3, IInvParts DEF IgnoreEvent, AckedIsTrackable, Trackable
    <2> QED
      BY <1>3, <1>t, <1>k, <2>1, <2>2, IInvPartsNext DEF IgnoreEvent, procs
  <1>4. CASE Crash
    <2>1. RowsInv' /\ TellsTruth' /\ AckedIsTrackable'
      BY <1>4, <1>t, SaidKept, RowsKept DEF Crash
    <2>2. (\A h \in Handlers : HandlerKnows(h))' /\ (\A t \in Ticks : TickKnows(t))'
      BY <1>4, IdleTypes DEF Crash, HandlerKnows, TickKnows
    <2> QED
      BY <1>t, <2>1, <2>2, IInvPartsNext
  <1>5. CASE UNCHANGED <<rows, handler, tick, sent, acked>>
    <2>1. RowsInv' /\ TellsTruth' /\ AckedIsTrackable'
      BY <1>5, <1>t, SaidKept, RowsKept
    <2> QED
      BY <1>5, <1>t, <1>k, <2>1, IInvPartsNext
  <1>6. ASSUME NEW e \in ExtIds, NEW u \in UpStatuses, UpstreamMove(e, u) PROVE IInv'
    BY <1>5, <1>6 DEF UpstreamMove, procs
  <1> QED
    BY <1>1, <1>2, <1>3, <1>4, <1>5, <1>6
       DEF Next, ConfigureConsumer, ConfigureStep, ConfigureReconciler, ClosePool,
           procs, vars

(* The inductive invariant holds in every reachable state.                 *)
THEOREM Invariance == Spec => []IInv
  BY IInvInit, IInvNext, PTL DEF Spec

(* HandleEvent never acknowledges an event of ours whose request is lost:  *)
(* it can be polled, or it has failed; no crash, lost reply, failed        *)
(* statement, duplicate or reconfiguration undoes this.                    *)
THEOREM AcknowledgedIsTrackable == Spec => []AckedIsTrackable
  <1>1. IInv => AckedIsTrackable
    BY DEF IInv
  <1> QED
    BY <1>1, Invariance, PTL

(* The runbook's reading of a row without external id is right.            *)
THEOREM StuckRowsAreDiagnosed == Spec => []StuckRowDiagnosis
  <1>1. IInv => StuckRowDiagnosis
    BY DEF IInv
  <1> QED
    BY <1>1, Invariance, PTL

(* No row ever carries another request's external id.                      *)
THEOREM ExternalIdIsOwn == Spec => []ExtIdOfOwnRequest
  <1>1. IInv => ExtIdOfOwnRequest
    BY DEF IInv
  <1> QED
    BY <1>1, Invariance, PTL

(* A request is recorded as imported, or said to be fulfilled, only when   *)
(* the upstream has imported a book for it.                                *)
THEOREM FulfilmentIsTrue == Spec => []FulfilledIsTrue
  <1>1. IInv => FulfilledIsTrue
    BY DEF IInv
  <1> QED
    BY <1>1, Invariance, PTL

(* The auto_monitor flag of the event is the flag of the row for ever.     *)
THEOREM AutoMonitorIsKept == Spec => []AutoMonitorKept
  <1>1. IInv => AutoMonitorKept
    BY DEF IInv
  <1> QED
    BY <1>1, Invariance, PTL

-----------------------------------------------------------------------------
(* The promise to the portal *)

(* Only HandleEvent, whose request has a row, adds requests to monitors.   *)
LEMMA MonitoredNext ==
    IInv /\ MonitoredIsAccepted /\ [Next]_vars => MonitoredIsAccepted'
  <1> SUFFICES ASSUME IInv, MonitoredIsAccepted, [Next]_vars PROVE MonitoredIsAccepted'
    OBVIOUS
  <1>t. /\ TypeInv /\ RowsGrow /\ MonitorsGrow
        /\ monitor \in [ExtIds -> Monitor]
        /\ Present(rows) \subseteq Present(rows')
    BY IInvParts, Growth, KnowledgeKept DEF TypeInv, TypeOK
  <1>1. CASE UNCHANGED monitor
    BY <1>t, <1>1 DEF MonitoredIsAccepted
  <1>2. ASSUME NEW h \in Handlers, AddMonitoring(h) PROVE MonitoredIsAccepted'
    <2>1. handler[h].req \in Present(rows)
      BY <1>2, IInvParts DEF AddMonitoring, HandlerKnows
    <2>2. ASSUME NEW e \in ExtIds, Accept(e, handler[h].req) PROVE MonitoredIsAccepted'
      BY <1>t, <2>1, <2>2 DEF Accept, MonitoredIsAccepted
    <2> QED
      BY <1>1, <1>2, <2>2 DEF AddMonitoring
  <1>3. ASSUME NEW e \in ExtIds, NEW u \in UpStatuses, UpstreamMove(e, u)
        PROVE  MonitoredIsAccepted'
    <2>1. \A x \in ExtIds : monitor'[x].reqs = monitor[x].reqs
      BY <1>t, <1>3 DEF UpstreamMove, Monitor
    <2> QED
      BY <1>t, <2>1 DEF MonitoredIsAccepted
  <1> QED
    BY <1>1, <1>2, <1>3
       DEF Next, HandleEvent, IgnoreEvent, HandlerStep, PersistAcknowledged, PersistFailed,
           TellPortal, Ack, TickStart, TickStep, GetMonitoring, RecordPoll, PublishChange,
           BudgetExpires, ConfigureConsumer, ConfigureStep, ConfigureReconciler, ClosePool,
           Crash, vars

(* The statuses, as the promise sees them.                                 *)
LEMMA OutcomeCases ==
    ASSUME NEW status \in Status
    PROVE  /\ Outcome(status) = "none" <=> status = "none"
           /\ Outcome(status) = "pending" <=> status \in Active
           /\ status \in Terminal => Outcome(status) = status
           /\ Outcome(status) \in {"none", "pending", "imported", "failed"}
  BY DEF Outcome, Status, Active, Terminal

(* A write of one row accepts its request, settles it, or does not concern *)
(* the promise.                                                            *)
LEMMA RowStep ==
    ASSUME rows \in Table, rows' \in Table, RowsGrow, NEW i \in Requests,
           \A r \in Requests : r # i => rows'[r] = rows[r],
           UNCHANGED <<monitor, sent>>,
           rows[i].status = "none" => rows'[i].status \in Active \cup {"none"},
           rows'[i].status = "imported" => UpstreamImported(i)
    PROVE  [Promise!Next]_(Promise!vars)
  <1> DEFINE out == [r \in Requests |-> Outcome(rows[r].status)]
             new == [r \in Requests |-> Outcome(rows'[r].status)]
             avail == {r \in Requests : UpstreamImported(r)}
  <1>1. rows[i].status \in Status /\ rows'[i].status \in Status
    BY DEF Table, Row
  <1>2. new = [out EXCEPT ![i] = Outcome(rows'[i].status)]
    OBVIOUS
  <1>3. avail' = avail
    BY DEF UpstreamImported
  <1>4. CASE new = out
    BY <1>3, <1>4 DEF Promise!vars
  <1>5. CASE new # out
    <2>1. out[i] # new[i] /\ out[i] = Outcome(rows[i].status)
          /\ new[i] = Outcome(rows'[i].status)
      BY <1>2, <1>5
    <2>2. rows[i].status \notin Terminal
      BY <2>1 DEF RowsGrow, Grows
    <2>3. CASE rows[i].status = "none"
      <3>1. out[i] = "none" /\ new[i] = "pending"
        BY <1>1, <2>1, <2>3, OutcomeCases
      <3>2. Promise!Accept(i)
        BY <1>2, <1>3, <2>1, <3>1 DEF Promise!Accept
      <3> QED
        BY <3>2 DEF Promise!Next
    <2>4. CASE rows[i].status # "none"
      <3>1. rows[i].status \in Active
        BY <1>1, <2>2, <2>4 DEF Status
      <3>2. rows'[i].status # "none"
        BY <2>4 DEF RowsGrow, Grows
      <3>3. out[i] = "pending" /\ rows'[i].status \notin Active
        BY <1>1, <2>1, <3>1, OutcomeCases
      <3>4. rows'[i].status \in {"imported", "failed"} /\ new[i] = rows'[i].status
        BY <1>1, <2>1, <3>2, <3>3, OutcomeCases DEF Status, Terminal
      <3>5. new[i] = "imported" => i \in avail
        BY <3>4
      <3>6. Promise!Settle(i)
        BY <1>2, <1>3, <2>1, <3>3, <3>4, <3>5 DEF Promise!Settle
      <3> QED
        BY <3>6 DEF Promise!Next
    <2> QED
      BY <2>3, <2>4
  <1> QED
    BY <1>4, <1>5

(* A publication about an accepted request is an announcement.             *)
LEMMA PublishStep ==
    ASSUME rows \in Table, NEW i \in Present(rows), NEW event \in Events,
           Publish(i, event), UNCHANGED <<rows, monitor>>,
           event = "request_fulfilled" => UpstreamImported(i)
    PROVE  [Promise!Next]_(Promise!vars)
  <1> DEFINE out == [r \in Requests |-> Outcome(rows[r].status)]
             avail == {r \in Requests : UpstreamImported(r)}
  <1>1. out' = out /\ avail' = avail
    BY DEF UpstreamImported
  <1>2. i \in Requests /\ out[i] # "none"
    BY OutcomeCases DEF Present, Table, Row
  <1>3. CASE UNCHANGED sent
    BY <1>1, <1>3 DEF Promise!vars
  <1>4. CASE sent' = [sent EXCEPT ![i] = @ \cup {event}]
    <2>1. Promise!Announce(i, event)
      BY <1>1, <1>2, <1>4 DEF Promise!Announce, Promise!Accepted
    <2> QED
      BY <1>2, <2>1 DEF Promise!Next, Promise!Events, Events
  <1> QED
    BY <1>3, <1>4 DEF Publish

(* A step of the upstream's list makes books available to requests that    *)
(* were accepted.                                                          *)
LEMMA UpstreamStep ==
    ASSUME rows \in Table, UNCHANGED <<rows, sent>>, MonitorsGrow, MonitoredIsAccepted'
    PROVE  [Promise!Next]_(Promise!vars)
  <1> DEFINE out == [r \in Requests |-> Outcome(rows[r].status)]
             avail == {r \in Requests : UpstreamImported(r)}
             new == {r \in Requests : UpstreamImported(r)'}
  <1>1. out' = out /\ avail' = new
    OBVIOUS
  <1>2. avail \subseteq new
    BY DEF MonitorsGrow, UpstreamImported
  <1>3. new \subseteq Present(rows)
    BY DEF MonitoredIsAccepted, UpstreamImported
  <1>4. new \subseteq {r \in Requests : out[r] # "none"}
    BY <1>3, OutcomeCases DEF Present, Table, Row
  <1>5. Promise!BecomeAvailable(new)
    BY <1>1, <1>2 DEF Promise!BecomeAvailable
  <1> QED
    BY <1>4, <1>5 DEF Promise!Next, Promise!Accepted

(* The steps of the code and of the upstream, one by one.                  *)
LEMMA PromiseStep ==
    ASSUME IInv, IInv', MonitoredIsAccepted', RowsGrow, MonitorsGrow, [Next]_vars
    PROVE  [Promise!Next]_(Promise!vars)
  <1>t. /\ rows \in Table /\ rows' \in Table
        /\ handler \in [Handlers -> HandlerRec] /\ tick \in [Ticks -> TickRec]
    BY DEF IInv, TypeInv, TypeOK
  <1>i. UNCHANGED monitor =>
          \A r \in Requests : rows'[r].status = "imported" => UpstreamImported(r)
    BY DEF IInv, FulfilledIsTrue, UpstreamImported
  <1>u. \A t \in Table, w \in Write : \A r \in Requests :
          r # w.id => UpsertForwardedRequest(t, w)[r] = t[r]
    BY DEF UpsertForwardedRequest, Table
  <1>s. UNCHANGED <<rows, monitor, sent>> => [Promise!Next]_(Promise!vars)
    BY DEF Promise!vars, UpstreamImported
  <1>1. ASSUME NEW h \in Handlers, NEW i \in Requests, HandleEvent(h, i)
        PROVE  [Promise!Next]_(Promise!vars)
    <2>1. SubmittedWrite(i) \in Write /\ SubmittedWrite(i).id = i
          /\ SubmittedWrite(i).status = "submitted"
      BY WriteTypes DEF SubmittedWrite
    <2>2. /\ UNCHANGED <<monitor, sent>>
          /\ rows' = UpsertForwardedRequest(rows, SubmittedWrite(i))
      BY <1>1 DEF HandleEvent
    <2>3. \A r \in Requests : r # i => rows'[r] = rows[r]
      BY <1>t, <1>u, <2>1, <2>2
    <2>4. rows[i].status = "none" => rows'[i].status = "submitted"
      BY <1>t, <2>1, <2>2 DEF UpsertForwardedRequest, Merge, Guarded, Terminal, Table
    <2> QED
      BY <1>t, <1>i, <2>2, <2>3, <2>4, RowStep DEF Active
  <1>2. ASSUME NEW h \in Handlers, HandlerStep(h)
        PROVE  [Promise!Next]_(Promise!vars)
    <2> DEFINE i == handler[h].req
    <2>k. /\ handler[h].pc # "idle" => i \in Present(rows) /\ i \in Requests
          /\ handler[h].pc = "accepted" => handler[h].ext \in ExtIds
      BY DEF IInv, TypeInv, HandlerShape, HandlerKnows, Present
    <2>r. ASSUME UNCHANGED <<monitor, sent>>, handler[h].pc # "idle",
                 NEW w \in Write, w.id = i,
                 rows' \in {rows, UpsertForwardedRequest(rows, w)}
          PROVE  [Promise!Next]_(Promise!vars)
      <3>1. \A r \in Requests : r # i => rows'[r] = rows[r]
        BY <1>t, <1>u, <2>r
      <3>2. rows[i].status # "none"
        BY <2>k, <2>r DEF Present
      <3> QED
        BY <1>t, <1>i, <2>k, <2>r, <3>1, <3>2, RowStep
    <2>1. CASE AddMonitoring(h)
      BY <1>t, <2>1, UpstreamStep DEF AddMonitoring
    <2>2. CASE PersistAcknowledged(h)
      <3> DEFINE w == AcknowledgedWrite(i, handler[h].ext)
      <3>1. w \in Write /\ w.id = i
        BY <2>2, <2>k, WriteTypes DEF PersistAcknowledged, AcknowledgedWrite
      <3>2. rows' \in {rows, UpsertForwardedRequest(rows, w)}
        BY <2>2 DEF PersistAcknowledged, Commits, Errs
      <3> HIDE DEF w
      <3> QED
        BY <2>2, <2>r, <3>1, <3>2 DEF PersistAcknowledged
    <2>3. CASE PersistFailed(h)
      <3> DEFINE w == FailedWrite(i)
      <3>1. w \in Write /\ w.id = i
        BY <2>3, <2>k, WriteTypes DEF PersistFailed, FailedWrite
      <3>2. rows' \in {rows, UpsertForwardedRequest(rows, w)}
        BY <2>3 DEF PersistFailed, Commits, Errs
      <3> HIDE DEF w
      <3> QED
        BY <2>3, <2>r, <3>1, <3>2 DEF PersistFailed
    <2>4. CASE TellPortal(h)
      <3>1. PICK event \in {"request_acknowledged", "request_failed"} : Publish(i, event)
        BY <2>4 DEF TellPortal
      <3>2. i \in Present(rows) /\ UNCHANGED <<rows, monitor>>
        BY <2>4, <2>k DEF TellPortal
      <3>3. event \in Events /\ event # "request_fulfilled"
        BY DEF Events
      <3> QED
        BY <1>t, <3>1, <3>2, <3>3, PublishStep
    <2>5. CASE Ack(h)
      BY <1>s, <2>5 DEF Ack
    <2> QED
      BY <1>2, <2>1, <2>2, <2>3, <2>4, <2>5 DEF HandlerStep
  <1>3. ASSUME NEW t \in Ticks, RecordPoll(t)
        PROVE  [Promise!Next]_(Promise!vars)
    <2> DEFINE i == tick[t].row.id
    <2>1. tick[t].row \in Snapshot /\ i \in Requests /\ Known(tick[t].row)
      BY <1>3 DEF RecordPoll, IInv, TypeInv, TickShape, TickKnows, Snapshot
    <2>2. i \in Present(rows)
      BY <2>1, NoneIsNoId DEF Known, IInv, AbsentRowsAreEmpty, AbsentRow
    <2>3. rows' \in {rows, RecordedPoll(t)} /\ UNCHANGED <<monitor, sent>>
      BY <1>3 DEF RecordPoll, Commits, Errs
    <2>4. \A r \in Requests : r # i => RecordedPoll(t)[r] = rows[r]
      BY <1>t DEF RecordedPoll, UpsertForwardedRequest, MarkPolled, Table
    <2>5. \A r \in Requests : r # i => rows'[r] = rows[r]
      BY <2>3, <2>4
    <2> QED
      BY <1>t, <1>i, <2>1, <2>2, <2>3, <2>5, RowStep DEF Present
  <1>4. ASSUME NEW t \in Ticks, PublishChange(t)
        PROVE  [Promise!Next]_(Promise!vars)
    <2>1. /\ tick[t].row \in Snapshot /\ tick[t].row.id \in Requests
          /\ Known(tick[t].row)
          /\ tick[t].got = "imported" => UpstreamImported(tick[t].row.id)
      BY <1>4 DEF PublishChange, IInv, TypeInv, TickShape, TickKnows, Snapshot
    <2>2. tick[t].row.id \in Present(rows)
      BY <2>1, NoneIsNoId DEF Known, IInv, AbsentRowsAreEmpty, AbsentRow
    <2>3. /\ ChangeEvent(tick[t].got) \in Events
          /\ ChangeEvent(tick[t].got) = "request_fulfilled" => tick[t].got = "imported"
      BY DEF ChangeEvent, Events
    <2>4. Publish(tick[t].row.id, ChangeEvent(tick[t].got)) /\ UNCHANGED <<rows, monitor>>
      BY <1>4 DEF PublishChange
    <2> QED
      BY <1>t, <2>1, <2>2, <2>3, <2>4, PublishStep
  <1>5. ASSUME NEW e \in ExtIds, NEW u \in UpStatuses, UpstreamMove(e, u)
        PROVE  [Promise!Next]_(Promise!vars)
    BY <1>t, <1>5, UpstreamStep DEF UpstreamMove
  <1> QED
    BY <1>s, <1>1, <1>2, <1>3, <1>4, <1>5
       DEF Next, IgnoreEvent, TickStart, TickStep, GetMonitoring, BudgetExpires,
           ConfigureConsumer, ConfigureStep, ConfigureReconciler, ClosePool, Crash, vars

LEMMA PromiseInit == Init => Promise!Init /\ MonitoredIsAccepted
  <1> SUFFICES ASSUME Init PROVE Promise!Init /\ MonitoredIsAccepted
    OBVIOUS
  <1>1. \A r \in Requests : rows[r].status = "none"
    BY DEF Init, EmptyTable, AbsentRow
  <1>2. \A e \in ExtIds : monitor[e].reqs = {}
    BY DEF Init
  <1>3. \A r \in Requests : ~UpstreamImported(r) /\ Outcome(rows[r].status) = "none"
    BY <1>1, <1>2, OutcomeCases DEF UpstreamImported, Status
  <1> QED
    BY <1>2, <1>3 DEF Promise!Init, MonitoredIsAccepted, Init

(* For every number of handlers, ticks, requests and generations, and      *)
(* through every fault of the model, the consumer and the reconciler       *)
(* together implement RequestPromise: a request is settled once, imported  *)
(* only when its book is available, and told about only after it was       *)
(* accepted.                                                               *)
THEOREM KeepsThePromise == Spec => KeepsPromise
  <1>1. IInv /\ MonitoredIsAccepted /\ [Next]_vars
          => MonitoredIsAccepted' /\ [Promise!Next]_(Promise!vars)
    <2> SUFFICES ASSUME IInv, MonitoredIsAccepted, [Next]_vars
                 PROVE  MonitoredIsAccepted' /\ [Promise!Next]_(Promise!vars)
      OBVIOUS
    <2>1. IInv' /\ MonitoredIsAccepted' /\ RowsGrow /\ MonitorsGrow
      BY IInvNext, MonitoredNext, Growth, IInvParts
    <2> QED
      BY <2>1, PromiseStep
  <1> QED
    BY <1>1, PromiseInit, Invariance, PTL DEF Spec, KeepsPromise, Promise!Spec

-----------------------------------------------------------------------------
(* The mutex of the reconciler *)

OneGeneration == MaxGen <= 1

(* A tick belongs to a Reconciler, and each of them runs one at a time.    *)
MutexInv ==
    /\ \A t \in Ticks : Running(t) => tick[t].gen # 0
    /\ \A t, u \in Ticks : Running(t) /\ Running(u) /\ tick[t].gen = tick[u].gen => t = u

LEMMA MutexNext ==
    ASSUME TypeInv, MutexInv, [Next]_vars
    PROVE  MutexInv'
  <1>t. /\ tick \in [Ticks -> TickRec] /\ reconciler \in Gens
        /\ \A t \in Ticks : tick[t] \in TickRec
    BY DEF TypeInv, TypeOK
  <1> DEFINE GoesOn(u) == Running(u)' => Running(u) /\ tick'[u].gen = tick[u].gen
  <1>g. (\A u \in Ticks : GoesOn(u)) => MutexInv'
    BY DEF MutexInv, Running
  <1>1. ASSUME UNCHANGED tick PROVE MutexInv'
    BY <1>1, <1>g DEF Running
  <1>2. ASSUME NEW t \in Ticks, TickStart(t) PROVE MutexInv'
    <2>1. /\ tick'[t].gen = reconciler /\ \A u \in Ticks \ {t} : tick'[u] = tick[u]
      BY <1>2, <1>t DEF TickStart, IdleTick
    <2>2. /\ reconciler # 0
          /\ \A u \in Ticks : Running(u) => tick[u].gen # reconciler
      BY <1>2 DEF TickStart, Locked
    <2> QED
      BY <2>1, <2>2 DEF MutexInv, Running
  <1>3. ASSUME NEW t \in Ticks, GetMonitoring(t) PROVE MutexInv'
    <2>1. PICK s, got : tick' = [tick EXCEPT ![t] = Answered(@, s, got)]
      BY <1>3 DEF GetMonitoring
    <2>2. /\ tick'[t].gen = tick[t].gen /\ Running(t)
          /\ \A u \in Ticks \ {t} : tick'[u] = tick[u]
      BY <1>3, <1>t, <2>1 DEF GetMonitoring, Running, Answered, TickRec
    <2> QED
      BY <1>g, <2>2 DEF Running
  <1>4. ASSUME NEW t \in Ticks, RecordPoll(t) \/ PublishChange(t) \/ BudgetExpires(t)
        PROVE  MutexInv'
    <2>1. PICK n \in {IdleTick, NextRow(t), [tick[t] EXCEPT !.pc = "publish"]} :
             tick' = [tick EXCEPT ![t] = n]
      BY <1>4, <1>t DEF RecordPoll, PublishChange, BudgetExpires
    <2>2. n.pc = "idle" \/ n.gen = tick[t].gen
      BY <1>t, <2>1, IdleTypes DEF NextRow, TickRec
    <2>3. /\ tick'[t] = n /\ Running(t) /\ \A u \in Ticks \ {t} : tick'[u] = tick[u]
      BY <1>4, <1>t, <2>1 DEF RecordPoll, PublishChange, BudgetExpires, Running
    <2>4. \A u \in Ticks : GoesOn(u)
      BY <2>2, <2>3 DEF Running
    <2> QED
      BY <1>g, <2>4
  <1>5. CASE Crash
    <2>1. \A u \in Ticks : ~Running(u)'
      BY <1>5, IdleTypes DEF Crash, Running
    <2> QED
      BY <1>g, <2>1
  <1> QED
    BY <1>1, <1>2, <1>3, <1>4, <1>5
       DEF Next, HandleEvent, IgnoreEvent, HandlerStep, AddMonitoring,
           PersistAcknowledged, PersistFailed, TellPortal, Ack, TickStep,
           ConfigureConsumer, ConfigureStep, ConfigureReconciler, ClosePool,
           UpstreamMove, vars, procs

(* While Configure is called once in the life of a process tickMu does     *)
(* what its comment says (reconciler.go:39-42), whatever fails: no two     *)
(* ticks run at a time.  It is the mutex of a Reconciler, though, so a     *)
(* second Configure voids this (run Overlap).                              *)
THEOREM TicksAreSole ==
    ASSUME OneGeneration PROVE Spec => []TicksNeverOverlap
  <1>1. Init => MutexInv
    BY IdleTypes DEF Init, MutexInv, Running
  <1>2. TypeInv /\ MutexInv /\ [Next]_vars => (TypeInv /\ MutexInv)'
    BY TypeInvNext, MutexNext
  <1>3. TypeInv /\ MutexInv => TicksNeverOverlap
    <2> SUFFICES ASSUME TypeInv, MutexInv, NEW t \in Ticks, NEW u \in Ticks,
                        Running(t), Running(u)
                 PROVE  t = u
      BY DEF TicksNeverOverlap
    <2>1. tick[t].gen \in Gens /\ tick[u].gen \in Gens
      BY DEF TypeInv, TypeOK, TickRec
    <2>2. tick[t].gen = 1 /\ tick[u].gen = 1
      BY <2>1, BoundAssumption DEF MutexInv, OneGeneration, Gens
    <2> QED
      BY <2>2 DEF MutexInv
  <1> QED
    BY <1>1, <1>2, <1>3, TypeInvInit, PTL DEF Spec
=============================================================================
