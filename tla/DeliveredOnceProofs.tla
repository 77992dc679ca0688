-------------------------- MODULE DeliveredOnceProofs --------------------------
(***************************************************************************)
(* What RequestLifecycle guarantees only while the host delivers every     *)
(* event once, which takes that no duplicate comes, no process dies and no *)
(* statement fails (DeliveredOnce).  Polls may still fail, replies and     *)
(* publications get lost, ticks overlap and be cut off, handlers run side  *)
(* by side, and Configure may close a pool under them.  Two of the three   *)
(* properties also need that no second Configure comes (OneGeneration):    *)
(* two ticks may overlap after one.                                        *)
(***************************************************************************)
EXTENDS RequestLifecycleProofs

DeliveredOnce == MaxDups = 0 /\ FaultKinds \cap {"db", "crash"} = {}

Handling(h) == handler[h].pc # "idle"

(* Nothing was decided of a request, by the upstream or by its refusal.    *)
Undecided(r) ==
    /\ r \notin acked
    /\ \A h \in Handlers : handler[h].pc \in Telling => handler[h].req # r

OneHandler ==
    /\ \A g, h \in Handlers :
         Handling(g) /\ Handling(h) /\ handler[g].req = handler[h].req => g = h
    /\ \A h \in Handlers : Handling(h) => handler[h].req \notin acked

Fresh(r) ==
    rows[r].status \in {"none", "submitted"} /\ rows[r].ext = None /\ sent[r] = {}
FreshUntilDecided == \A r \in Requests : Undecided(r) => Fresh(r)

RefusedHasNoId ==
    \A h \in Handlers : handler[h].pc = "tell_failed" =>
        /\ rows[handler[h].req].ext = None
        /\ rows[handler[h].req].status = "failed"

(* What a tick holds of a row is the row's one external id, and an outcome *)
(* it was answered is the outcome of that monitor.                         *)
InHand(t) == tick[t].todo \cup
             IF tick[t].pc \in {"record", "publish"} THEN {tick[t].row} ELSE {}
TickAgrees(t) ==
    /\ \A s \in InHand(t) : rows[s.id].ext = s.ext
    /\ tick[t].pc \in {"record", "publish"} /\ tick[t].got \in Terminal =>
         translateStatus(monitor[tick[t].row.ext].status) = tick[t].got

(* So whatever the portal was told of an outcome, the row, or the monitor  *)
(* it points to, stands for the same one.                                  *)
OutcomeOf(r) ==
    IF rows[r].ext = None THEN rows[r].status
                          ELSE translateStatus(monitor[rows[r].ext].status)
TellsOutcome(r) ==
    /\ "request_fulfilled" \in sent[r] => rows[r].ext # None /\ OutcomeOf(r) = "imported"
    /\ "request_failed" \in sent[r] => OutcomeOf(r) = "failed"

OnceInv ==
    /\ OneHandler
    /\ FreshUntilDecided
    /\ RefusedHasNoId
    /\ \A t \in Ticks : TickAgrees(t)
    /\ \A r \in Requests : TellsOutcome(r)

(* With one generation there is one tick, and what it listed stays so      *)
(* until it records it.                                                    *)
Listed(t) == tick[t].todo \cup IF tick[t].pc = "record" THEN {tick[t].row} ELSE {}
StillAsListed(t) ==
    /\ tick[t].gen = 1
    /\ \A s, u \in tick[t].todo : s.id = u.id => s = u
    /\ tick[t].pc = "record" => \A s \in tick[t].todo : s.id # tick[t].row.id
    /\ \A s \in Listed(t) : rows[s.id].status = s.status
SoleInv ==
    /\ TicksNeverOverlap
    /\ \A t \in Ticks : Running(t) => StillAsListed(t)
    /\ ImportedHasNoError

-----------------------------------------------------------------------------
(* What every step keeps, and what follows from it *)

(* A settled monitor stays as it is.                                       *)
SettledStay ==
    \A e \in ExtIds : translateStatus(monitor[e].status) \in Terminal =>
                          monitor'[e].status = monitor[e].status

(* An external id is only given once, while nothing is decided.            *)
GivenOnce ==
    \A r \in Requests : rows'[r].ext # rows[r].ext => rows[r].ext = None /\ Undecided(r)

LEMMA NoneIsOpen == translateStatus("none") = ""
  BY DEF translateStatus, Translation

LEMMA AcceptStays ==
    ASSUME monitor \in [ExtIds -> Monitor], NEW e \in ExtIds, NEW r \in Requests,
           Accept(e, r)
    PROVE  SettledStay
  <1> DEFINE m == [reqs |-> monitor[e].reqs \cup {r},
                   status |-> IF monitor[e].status = "none" THEN "queued"
                              ELSE monitor[e].status]
  <1>1. monitor' = [monitor EXCEPT ![e] = m]
    BY DEF Accept
  <1> QED
    BY <1>1, NoneIsOpen DEF SettledStay, Terminal

LEMMA MoveStays ==
    ASSUME monitor \in [ExtIds -> Monitor], NEW e \in ExtIds, NEW u \in UpStatuses,
           UpstreamMove(e, u)
    PROVE  SettledStay
  BY DEF UpstreamMove, Settled, SettledStay, Monitor

LEMMA OnceFrame ==
    ASSUME IInv, OnceInv, RowsGrow, GivenOnce, SettledStay
    PROVE  /\ \A t \in Ticks :
                /\ tick'[t].todo \subseteq tick[t].todo
                /\ \/ tick'[t].pc \notin {"record", "publish"}
                   \/ /\ tick[t].pc \in {"record", "publish"}
                      /\ tick'[t].row = tick[t].row
                      /\ tick'[t].got = tick[t].got
                => TickAgrees(t)'
           /\ \A r \in Requests : sent'[r] = sent[r] => TellsOutcome(r)'
           /\ \A h \in Handlers : handler[h].pc = "tell_failed" =>
                /\ rows'[handler[h].req].ext = None
                /\ rows'[handler[h].req].status = "failed"
  <1>1. ASSUME NEW t \in Ticks, tick'[t].todo \subseteq tick[t].todo,
               \/ tick'[t].pc \notin {"record", "publish"}
               \/ /\ tick[t].pc \in {"record", "publish"}
                  /\ tick'[t].row = tick[t].row
                  /\ tick'[t].got = tick[t].got
        PROVE  TickAgrees(t)'
    <2>1. InHand(t)' \subseteq InHand(t)
      BY <1>1 DEF InHand
    <2>2. InHand(t) \subseteq Snapshot /\ \A s \in InHand(t) : Known(s)
      BY <1>1, IInvParts DEF InHand, TypeInv, TypeOK, TickShape, TickRec, TickKnows
    <2>3. \A s \in InHand(t) : rows'[s.id].ext = rows[s.id].ext
      BY <2>2 DEF GivenOnce, Known, Snapshot
    <2>4. \A s \in InHand(t) : rows[s.id].ext = s.ext
      BY <1>1 DEF OnceInv, TickAgrees
    <2>5. \A s \in InHand(t)' : rows'[s.id].ext = s.ext
      BY <2>1, <2>3, <2>4
    <2>6. ASSUME tick'[t].pc \in {"record", "publish"}, tick'[t].got \in Terminal
          PROVE  translateStatus(monitor'[tick'[t].row.ext].status) = tick'[t].got
      <3>1. /\ tick[t].pc \in {"record", "publish"} /\ tick'[t].row = tick[t].row
            /\ tick'[t].got = tick[t].got
        BY <1>1, <2>6
      <3>2. tick[t].row.ext \in ExtIds
        BY <2>2, <3>1 DEF InHand, Snapshot
      <3>3. translateStatus(monitor[tick[t].row.ext].status) = tick[t].got
        BY <1>1, <2>6, <3>1 DEF OnceInv, TickAgrees
      <3> QED
        BY <2>6, <3>1, <3>2, <3>3 DEF SettledStay
    <2> QED
      BY <2>5, <2>6 DEF TickAgrees
  <1>2. ASSUME NEW r \in Requests, sent'[r] = sent[r] PROVE TellsOutcome(r)'
    <2>t. rows[r].ext \in ExtIds \cup {None} /\ TellsOutcome(r)
      BY IInvParts DEF TypeInv, TypeOK, Table, Row, OnceInv
    <2>1. CASE rows[r].ext = None /\ rows'[r].ext # None
      <3>1. sent[r] = {}
        BY <2>1 DEF GivenOnce, OnceInv, FreshUntilDecided, Fresh
      <3> QED
        BY <1>2, <3>1 DEF TellsOutcome
    <2>2. CASE rows[r].ext = None /\ rows'[r].ext = None
      BY <1>2, <2>t, <2>2 DEF TellsOutcome, OutcomeOf, RowsGrow, Grows, Terminal
    <2>3. CASE rows[r].ext # None
      <3>1. rows'[r].ext = rows[r].ext /\ rows[r].ext \in ExtIds
        BY <2>t, <2>3 DEF GivenOnce
      <3>2. OutcomeOf(r) \in Terminal => OutcomeOf(r)' = OutcomeOf(r)
        BY <2>3, <3>1 DEF OutcomeOf, SettledStay
      <3> QED
        BY <1>2, <2>t, <3>1, <3>2 DEF TellsOutcome, Terminal
    <2> QED
      BY <2>1, <2>2, <2>3
  <1>3. ASSUME NEW h \in Handlers, handler[h].pc = "tell_failed"
        PROVE  /\ rows'[handler[h].req].ext = None
               /\ rows'[handler[h].req].status = "failed"
    <2>1. handler[h].req \in Requests
      BY <1>3, IInvParts, AddressedType DEF TypeInv, HandlerShape
    <2>2. ~Undecided(handler[h].req)
      BY <1>3 DEF Undecided, Telling
    <2>3. rows[handler[h].req].ext = None /\ rows[handler[h].req].status = "failed"
      BY <1>3 DEF OnceInv, RefusedHasNoId
    <2> QED
      BY <2>1, <2>2, <2>3 DEF GivenOnce, RowsGrow, Grows, Terminal
  <1> QED
    BY <1>1, <1>2, <1>3

(* A handler that stays with its request, or gives it up undecided.        *)
LEMMA HandlerMoves ==
    ASSUME TypeInv, OneHandler, NEW h \in Handlers, Handling(h),
           \A g \in Handlers \ {h} : handler'[g] = handler[g],
           UNCHANGED acked,
           \/ handler'[h].pc = "idle" /\ handler[h].pc \notin Telling
           \/ /\ handler'[h].req = handler[h].req
              /\ handler[h].pc \in Telling => handler'[h].pc \in Telling
    PROVE  /\ OneHandler'
           /\ \A r \in Requests : Undecided(r)' => Undecided(r)
  <1>1. OneHandler'
    BY DEF OneHandler, Handling
  <1>2. ASSUME NEW r \in Requests, Undecided(r)' PROVE Undecided(r)
    <2>1. "idle" \notin Telling
      BY DEF Telling
    <2>2. ASSUME NEW g \in Handlers, handler[g].pc \in Telling PROVE handler[g].req # r
      BY <1>2, <2>1, <2>2 DEF Undecided
    <2> QED
      BY <1>2, <2>2 DEF Undecided
  <1> QED
    BY <1>1, <1>2

(* A handler that has not decided yet is the only one to decide.           *)
LEMMA StillUndecided ==
    ASSUME TypeInv, OneHandler, NEW h \in Handlers, Handling(h),
           handler[h].pc \notin Telling
    PROVE  Undecided(handler[h].req)
  BY DEF OneHandler, Undecided, Handling, Telling

-----------------------------------------------------------------------------
(* The handlers *)

(* Neither the rows of the undecided nor what was said of them changes.    *)
LEMMA FreshKept ==
    ASSUME FreshUntilDecided,
           \A r \in Requests : Undecided(r)' =>
              Undecided(r) /\ rows'[r] = rows[r] /\ sent'[r] = sent[r]
    PROVE  FreshUntilDecided'
  BY DEF FreshUntilDecided, Fresh

LEMMA RefusedKept ==
    ASSUME IInv, OnceInv, RowsGrow, GivenOnce, SettledStay, NEW h \in Handlers,
           \A g \in Handlers \ {h} : handler'[g] = handler[g],
           handler'[h].pc # "tell_failed"
    PROVE  RefusedHasNoId'
  <1>1. ASSUME NEW g \in Handlers, handler'[g].pc = "tell_failed"
        PROVE  /\ rows'[handler'[g].req].ext = None
               /\ rows'[handler'[g].req].status = "failed"
    <2>1. g # h /\ handler'[g] = handler[g]
      BY <1>1
    <2> QED
      BY <1>1, <2>1, OnceFrame
  <1> QED
    BY <1>1 DEF RefusedHasNoId

LEMMA TicksAndTold ==
    ASSUME IInv, OnceInv, RowsGrow, GivenOnce, SettledStay, UNCHANGED tick
    PROVE  /\ (\A t \in Ticks : TickAgrees(t))'
           /\ UNCHANGED sent => (\A r \in Requests : TellsOutcome(r))'
  <1>1. (\A t \in Ticks : TickAgrees(t))'
    <2> SUFFICES ASSUME NEW t \in Ticks PROVE TickAgrees(t)'
      OBVIOUS
    <2> QED
      BY OnceFrame
  <1>2. ASSUME UNCHANGED sent PROVE (\A r \in Requests : TellsOutcome(r))'
    <2> SUFFICES ASSUME NEW r \in Requests PROVE TellsOutcome(r)'
      OBVIOUS
    <2> QED
      BY <1>2, OnceFrame
  <1> QED
    BY <1>1, <1>2

(* An event arrives once, and finds its request undecided.                 *)
LEMMA EventOnce ==
    ASSUME DeliveredOnce, IInv, NEW h \in Handlers, NEW r \in Requests, HandleEvent(h, r)
    PROVE  /\ Undecided(r) /\ \A g \in Handlers : handler[g].req # r
           /\ ~Handling(h)
           /\ handler' = [handler EXCEPT ![h] =
                [pc |-> "adding", req |-> r, ext |-> None, gen |-> consumer]]
           /\ rows'[r] = Merge(rows[r], SubmittedWrite(r))
           /\ \A q \in Requests : q # r => rows'[q] = rows[q]
           /\ UNCHANGED <<monitor, acked, tick, sent>>
  <1>1. Due(r)
    <2>1. dups \in 0..0
      BY IInvParts DEF DeliveredOnce, TypeInv, TypeOK
    <2> QED
      BY <2>1 DEF HandleEvent, Deliver, DeliveredOnce
  <1>2. ~Fault("db")
    BY DEF Fault, DeliveredOnce
  <1>3. SubmittedWrite(r) \in Write /\ SubmittedWrite(r).id = r
    BY WriteTypes DEF SubmittedWrite
  <1>4. rows \in Table /\ rows' = UpsertForwardedRequest(rows, SubmittedWrite(r))
    BY IInvParts DEF HandleEvent, TypeInv, TypeOK
  <1>5. /\ rows'[r] = Merge(rows[r], SubmittedWrite(r))
        /\ \A q \in Requests : q # r => rows'[q] = rows[q]
    BY <1>3, <1>4, UpsertTable
  <1> QED
    BY <1>1, <1>2, <1>5 DEF HandleEvent, Due, Undecided, Handling

LEMMA HandleEventOnce ==
    ASSUME DeliveredOnce, IInv, OnceInv, RowsGrow,
           NEW h \in Handlers, NEW r \in Requests, HandleEvent(h, r)
    PROVE  OnceInv'
  <1> DEFINE n == [pc |-> "adding", req |-> r, ext |-> None, gen |-> consumer]
  <1>1. /\ Undecided(r) /\ \A g \in Handlers : handler[g].req # r
        /\ ~Handling(h)
        /\ handler' = [handler EXCEPT ![h] = n]
        /\ rows'[r] = Merge(rows[r], SubmittedWrite(r))
        /\ \A q \in Requests : q # r => rows'[q] = rows[q]
        /\ UNCHANGED <<monitor, acked, tick, sent>>
    BY EventOnce
  <1>2. /\ handler'[h] = n /\ n.pc = "adding" /\ n.req = r
        /\ \A g \in Handlers \ {h} : handler'[g] = handler[g]
    BY <1>1, IInvParts DEF TypeInv, TypeOK
  <1> HIDE DEF n
  <1>3. Fresh(r) /\ rows'[r].status = "submitted" /\ rows'[r].ext = None
    BY <1>1 DEF OnceInv, FreshUntilDecided, Fresh, Merge, Guarded, Coalesce, Terminal,
                SubmittedWrite
  <1>4. GivenOnce /\ SettledStay
    BY <1>1, <1>3 DEF GivenOnce, SettledStay, Fresh
  <1>5. OneHandler'
    BY <1>1, <1>2 DEF OnceInv, OneHandler, Handling, Undecided
  <1>6. \A q \in Requests : Undecided(q)' => Undecided(q)
    BY <1>1, <1>2 DEF Undecided, Handling, Telling
  <1>7. FreshUntilDecided'
    BY <1>1, <1>3, <1>6 DEF OnceInv, FreshUntilDecided, Fresh
  <1>8. RefusedHasNoId'
    BY <1>2, <1>4, RefusedKept
  <1> QED
    BY <1>1, <1>4, <1>5, <1>7, <1>8, TicksAndTold DEF OnceInv

(* A statement of a handler commits, or finds the pool closed.             *)
LEMMA StatementOnce ==
    ASSUME DeliveredOnce, IInv, NEW g, NEW w \in Write,
           \/ Commits(g, UpsertForwardedRequest(rows, w))
           \/ Errs(g, UpsertForwardedRequest(rows, w))
    PROVE  /\ Errs(g, UpsertForwardedRequest(rows, w)) => UNCHANGED rows
           /\ Commits(g, UpsertForwardedRequest(rows, w)) =>
                rows'[w.id] = Merge(rows[w.id], w)
           /\ \A q \in Requests : q # w.id => rows'[q] = rows[q]
  <1>1. ~Fault("db")
    BY DEF Fault, DeliveredOnce
  <1>2. rows \in Table
    BY IInvParts DEF TypeInv, TypeOK
  <1> QED
    BY <1>1, <1>2, UpsertTable DEF Commits, Errs

(* What a handler does with a request it has not decided: it gives it up,  *)
(* goes on, or decides it with its row.                                    *)
LEMMA UndecidedStep ==
    ASSUME IInv, OnceInv, RowsGrow, SettledStay, NEW h \in Handlers,
           Handling(h), handler[h].pc \notin Telling,
           \A g \in Handlers \ {h} : handler'[g] = handler[g],
           UNCHANGED <<acked, tick, sent>>,
           \A q \in Requests : q # handler[h].req => rows'[q] = rows[q],
           \/ handler'[h].pc = "idle" /\ UNCHANGED rows
           \/ handler'[h].req = handler[h].req /\ handler'[h].pc \notin Telling
              /\ UNCHANGED rows
           \/ /\ handler'[h].req = handler[h].req
              /\ \/ handler'[h].pc = "tell_acknowledged"
                 \/ /\ handler'[h].pc = "tell_failed"
                    /\ rows'[handler[h].req].ext = None
                    /\ rows'[handler[h].req].status = "failed"
    PROVE  OnceInv'
  <1> DEFINE r == handler[h].req
  <1>t. TypeInv /\ OneHandler
    BY IInvParts DEF OnceInv
  <1>1. Undecided(r)
    BY <1>t, StillUndecided
  <1>2. GivenOnce
    <2>1. r \in Requests
      BY <1>t, AddressedType DEF TypeInv, HandlerShape, Handling
    <2> QED
      BY <1>1, <2>1 DEF GivenOnce, OnceInv, FreshUntilDecided, Fresh
  <1>3. OneHandler' /\ \A q \in Requests : Undecided(q)' => Undecided(q)
    BY <1>t, HandlerMoves DEF Telling
  <1>4. FreshUntilDecided'
    <2>1. ASSUME NEW q \in Requests, Undecided(q)' PROVE rows'[q] = rows[q]
      <3>1. "tell_acknowledged" \in Telling /\ "tell_failed" \in Telling
        BY DEF Telling
      <3> QED
        BY <2>1, <3>1 DEF Undecided
    <2> QED
      BY <1>3, <2>1, FreshKept DEF OnceInv
  <1>5. RefusedHasNoId'
    <2> SUFFICES ASSUME NEW g \in Handlers, handler'[g].pc = "tell_failed"
                 PROVE  /\ rows'[handler'[g].req].ext = None
                        /\ rows'[handler'[g].req].status = "failed"
      BY DEF RefusedHasNoId
    <2>1. CASE g = h
      BY <2>1 DEF Telling
    <2>2. CASE g # h
      BY <1>2, <2>2, OnceFrame
    <2> QED
      BY <2>1, <2>2
  <1> QED
    BY <1>2, <1>3, <1>4, <1>5, TicksAndTold DEF OnceInv

LEMMA UndecidedSteps ==
    ASSUME DeliveredOnce, IInv, OnceInv, RowsGrow, NEW h \in Handlers,
           AddMonitoring(h) \/ PersistAcknowledged(h) \/ PersistFailed(h)
    PROVE  OnceInv'
  <1> DEFINE r == handler[h].req
  <1>t. /\ handler \in [Handlers -> HandlerRec] /\ handler[h] \in HandlerRec
        /\ r \in Requests /\ Handling(h) /\ handler[h].pc \notin Telling
        /\ handler[h].pc = "accepted" => handler[h].ext \in ExtIds
        /\ monitor \in [ExtIds -> Monitor]
    BY IInvParts, AddressedType
       DEF TypeInv, TypeOK, HandlerShape, AddMonitoring, PersistAcknowledged,
           PersistFailed, Handling, Telling
  <1>o. UNCHANGED <<acked, tick, sent>> /\ \A g \in Handlers \ {h} : handler'[g] = handler[g]
    BY <1>t DEF AddMonitoring, PersistAcknowledged, PersistFailed, Nack
  <1>u. UNCHANGED monitor => SettledStay
    BY DEF SettledStay
  <1>1. CASE AddMonitoring(h)
    <2>1. SettledStay
      BY <1>1, <1>t, <1>u, AcceptStays DEF AddMonitoring
    <2>2. handler'[h].req = r /\ handler'[h].pc \in {"accepted", "rejected"} /\ UNCHANGED rows
      BY <1>1, <1>t DEF AddMonitoring, HandlerRec
    <2> QED
      BY <1>o, <1>t, <2>1, <2>2, UndecidedStep DEF Telling
  <1>2. CASE PersistAcknowledged(h)
    <2> DEFINE w == AcknowledgedWrite(r, handler[h].ext)
    <2>1. w \in Write /\ w.id = r
      BY <1>2, <1>t, WriteTypes DEF PersistAcknowledged, AcknowledgedWrite
    <2>2. \/ Commits(handler[h].gen, UpsertForwardedRequest(rows, w))
             /\ handler' = [handler EXCEPT ![h].pc = "tell_acknowledged"]
          \/ Errs(handler[h].gen, UpsertForwardedRequest(rows, w)) /\ Nack(h)
      BY <1>2 DEF PersistAcknowledged
    <2> HIDE DEF w
    <2>3. \A q \in Requests : q # r => rows'[q] = rows[q]
      BY <2>1, <2>2, StatementOnce
    <2>4. \/ handler'[h].pc = "tell_acknowledged" /\ handler'[h].req = r
          \/ handler'[h].pc = "idle" /\ UNCHANGED rows
      BY <1>t, <2>1, <2>2, IdleTypes, StatementOnce DEF Nack, HandlerRec
    <2>5. SettledStay
      BY <1>2, <1>u DEF PersistAcknowledged
    <2> QED
      BY <1>o, <1>t, <2>3, <2>4, <2>5, UndecidedStep
  <1>3. CASE PersistFailed(h)
    <2> DEFINE w == FailedWrite(r)
    <2>1. w \in Write /\ w.id = r /\ w.ext = None /\ w.status = "failed"
      BY <1>t, WriteTypes DEF FailedWrite
    <2>2. \/ Commits(handler[h].gen, UpsertForwardedRequest(rows, w))
             /\ handler' = [handler EXCEPT ![h].pc = "tell_failed"]
          \/ Errs(handler[h].gen, UpsertForwardedRequest(rows, w)) /\ Nack(h)
      BY <1>3 DEF PersistFailed
    <2> HIDE DEF w
    <2>3. \A q \in Requests : q # r => rows'[q] = rows[q]
      BY <2>1, <2>2, StatementOnce
    <2>4. Fresh(r)
      BY <1>t, StillUndecided, IInvParts DEF OnceInv, FreshUntilDecided
    <2>5. Merge(rows[r], w).ext = None /\ Merge(rows[r], w).status = "failed"
      BY <2>1, <2>4 DEF Fresh, Merge, Guarded, Coalesce, Terminal
    <2>6. \/ /\ handler'[h].pc = "tell_failed" /\ handler'[h].req = r
             /\ rows'[r].ext = None /\ rows'[r].status = "failed"
          \/ handler'[h].pc = "idle" /\ UNCHANGED rows
      <3>1. CASE Commits(handler[h].gen, UpsertForwardedRequest(rows, w))
                 /\ handler' = [handler EXCEPT ![h].pc = "tell_failed"]
        BY <1>t, <2>1, <2>5, <3>1, StatementOnce DEF HandlerRec
      <3>2. CASE Errs(handler[h].gen, UpsertForwardedRequest(rows, w)) /\ Nack(h)
        BY <1>t, <2>1, <3>2, IdleTypes, StatementOnce DEF Nack
      <3> QED
        BY <2>2, <3>1, <3>2
    <2>7. SettledStay
      BY <1>3, <1>u DEF PersistFailed
    <2> QED
      BY <1>o, <1>t, <2>3, <2>6, <2>7, UndecidedStep
  <1> QED
    BY <1>1, <1>2, <1>3

LEMMA DecidedSteps ==
    ASSUME IInv, OnceInv, RowsGrow, NEW h \in Handlers, TellPortal(h) \/ Ack(h)
    PROVE  OnceInv'
  <1>q. PICK r : r = handler[h].req
    OBVIOUS
  <1>t. /\ handler \in [Handlers -> HandlerRec] /\ handler[h] \in HandlerRec
        /\ r \in Requests /\ Handling(h) /\ handler[h].pc \in Telling
        /\ OneHandler /\ TypeInv /\ sent \in [Requests -> SUBSET Events]
    BY <1>q, IInvParts, AddressedType
       DEF TypeInv, TypeOK, HandlerShape, TellPortal, Ack, Handling, Telling, OnceInv
  <1>o. /\ UNCHANGED <<rows, monitor, tick>>
        /\ \A g \in Handlers \ {h} : handler'[g] = handler[g]
        /\ handler'[h].pc \notin {"tell_failed"}
    BY <1>t, IdleTypes DEF TellPortal, Ack, HandlerRec
  <1>1. GivenOnce /\ SettledStay
    BY <1>o DEF GivenOnce, SettledStay
  <1>2. RefusedHasNoId'
    BY <1>1, <1>o, RefusedKept
  <1>3. (\A t \in Ticks : TickAgrees(t))' /\ (UNCHANGED sent => (\A q \in Requests : TellsOutcome(q))')
    BY <1>1, <1>o, TicksAndTold
  <1>4. CASE TellPortal(h)
    <2>1. handler'[h].pc = "return" /\ handler'[h].req = r /\ UNCHANGED acked
      BY <1>4, <1>q, <1>t DEF TellPortal, HandlerRec
    <2>2. OneHandler' /\ \A q \in Requests : Undecided(q)' => Undecided(q)
      BY <1>o, <1>q, <1>t, <2>1, HandlerMoves DEF Telling
    <2>3. \A q \in Requests : q # r => sent'[q] = sent[q]
      BY <1>4, <1>q, <1>t DEF TellPortal, Publish
    <2>4. ~Undecided(r)
      BY <1>q, <1>t DEF Undecided
    <2>5. FreshUntilDecided'
      BY <1>o, <2>2, <2>3, <2>4, FreshKept DEF OnceInv
    <2>6. TellsOutcome(r)'
      <3>1. /\ "request_fulfilled" \in sent'[r] => "request_fulfilled" \in sent[r]
            /\ "request_failed" \in sent'[r] =>
                 "request_failed" \in sent[r] \/ handler[h].pc = "tell_failed"
        BY <1>4, <1>q, <1>t DEF TellPortal, Publish
      <3>2. handler[h].pc = "tell_failed" => OutcomeOf(r) = "failed"
        BY <1>q DEF OnceInv, RefusedHasNoId, OutcomeOf
      <3>3. OutcomeOf(r)' = OutcomeOf(r)
        BY <1>o DEF OutcomeOf
      <3> QED
        BY <1>o, <1>t, <3>1, <3>2, <3>3 DEF OnceInv, TellsOutcome
    <2>7. (\A q \in Requests : TellsOutcome(q))'
      <3> SUFFICES ASSUME NEW q \in Requests PROVE TellsOutcome(q)'
        OBVIOUS
      <3> QED
        BY <1>1, <2>3, <2>6, OnceFrame
    <2> QED
      BY <1>2, <1>3, <2>2, <2>5, <2>7 DEF OnceInv
  <1>5. CASE Ack(h)
    <2>1. /\ handler'[h].pc = "idle" /\ acked' = acked \cup {r} /\ UNCHANGED sent
      BY <1>5, <1>q, <1>t, IdleTypes DEF Ack
    <2>2. OneHandler'
      BY <1>o, <1>q, <1>t, <2>1 DEF OneHandler, Handling
    <2>3. \A q \in Requests : Undecided(q)' => Undecided(q)
      BY <1>o, <1>q, <1>t, <2>1 DEF Undecided, Telling
    <2>4. FreshUntilDecided'
      BY <1>o, <2>1, <2>3, FreshKept DEF OnceInv
    <2> QED
      BY <1>2, <1>3, <2>1, <2>2, <2>4 DEF OnceInv
  <1> QED
    BY <1>4, <1>5

-----------------------------------------------------------------------------
(* The ticks *)

(* What a recorded poll, answered got, makes of the row it listed as s.    *)
RowRecorded(t, s, got) ==
    /\ s \in Snapshot /\ rows[s.id].ext = s.ext /\ s.ext # None
    /\ got \in Translations \cup {"error"}
    /\ RecordedPoll(t)[s.id].ext = s.ext
    /\ RecordedPoll(t)[s.id].status =
         Guarded(rows[s.id].status, IF got \in {"", "error"} THEN s.status ELSE got)
    /\ got # "error" => ~RecordedPoll(t)[s.id].err
    /\ \A q \in Requests : q # s.id => RecordedPoll(t)[q] = rows[q]

LEMMA RecordedRow ==
    ASSUME IInv, NEW t \in Ticks, TickAgrees(t), tick[t].pc = "record"
    PROVE  RowRecorded(t, tick[t].row, tick[t].got)
  <1>q. PICK s, got : s = tick[t].row /\ got = tick[t].got
    OBVIOUS
  <1>t. /\ TypeInv /\ RowsInv /\ rows \in Table /\ s \in Snapshot /\ Known(s)
        /\ got \in Translations \cup {"error"}
    BY <1>q, IInvParts DEF TypeInv, TypeOK, TickShape, TickRec, TickKnows
  <1>1. /\ s.id \in Requests /\ s.ext \in ExtIds /\ s.status \in Active /\ s.ext # None
        /\ Now \in Nat
    BY <1>t, NoneIsNoId DEF Snapshot, Now
  <1>2. s \in InHand(t) /\ rows[s.id].ext = s.ext
    BY <1>q DEF TickAgrees, InHand
  <1>3. s.id \in Present(rows)
    BY <1>1, <1>2, <1>t DEF RowsInv, AbsentRowsAreEmpty, AbsentRow
  <1>4. \A q \in Requests : q # s.id => RecordedPoll(t)[q] = rows[q]
    BY <1>q, <1>t, RecordedPollTable
  <1>5. CASE got = "error"
    <2> DEFINE w == [id |-> s.id, ext |-> s.ext, status |-> s.status,
                     polled |-> Now, err |-> TRUE, auto |-> FALSE]
    <2>1. w \in Write /\ w.id = s.id /\ w.ext = s.ext /\ w.status = s.status
      BY <1>1 DEF Write
    <2>2. RecordedPoll(t) = UpsertForwardedRequest(rows, w)
      BY <1>5, <1>q DEF RecordedPoll
    <2> HIDE DEF w
    <2>3. RecordedPoll(t)[s.id] = Merge(rows[s.id], w)
      BY <1>t, <2>1, <2>2, UpsertTable
    <2>4. /\ RecordedPoll(t)[s.id].ext = s.ext
          /\ RecordedPoll(t)[s.id].status = Guarded(rows[s.id].status, s.status)
      BY <1>1, <2>1, <2>3 DEF Merge, Coalesce
    <2>5. s.status = IF got \in {"", "error"} THEN s.status ELSE got
      BY <1>5
    <2> QED
      BY <1>1, <1>2, <1>4, <1>5, <1>q, <1>t, <2>4, <2>5 DEF RowRecorded
  <1>6. CASE got # "error"
    <2> DEFINE status == IF got = "" THEN s.status ELSE got
    <2>1. status \in Active \cup Terminal
      BY <1>1, <1>6, <1>t DEF Translations, Active, Terminal
    <2>2. RecordedPoll(t) = MarkPolled(rows, s.id, s.ext, status, Now)
      BY <1>6, <1>q DEF RecordedPoll
    <2>3. status = IF got \in {"", "error"} THEN s.status ELSE got
      BY <1>6
    <2> HIDE DEF status
    <2>4. PICK i, e : i = s.id /\ e = s.ext
      OBVIOUS
    <2>5. MarkPolled(rows, i, e, status, Now)[i] = Polled(rows[i], e, status, Now)
      BY <1>1, <1>3, <1>t, <2>1, <2>4, MarkPolledTable
    <2>6. RecordedPoll(t)[s.id] = Polled(rows[s.id], s.ext, status, Now)
      BY <2>2, <2>4, <2>5
    <2>7. /\ RecordedPoll(t)[s.id].ext = s.ext /\ ~RecordedPoll(t)[s.id].err
          /\ RecordedPoll(t)[s.id].status = Guarded(rows[s.id].status, status)
      BY <1>1, <2>6 DEF Polled, Coalesce
    <2> QED
      BY <1>1, <1>2, <1>4, <1>6, <1>q, <1>t, <2>3, <2>7 DEF RowRecorded
  <1> QED
    BY <1>5, <1>6

(* Ticks decide nothing for a handler.                                     *)
LEMMA HandlersAside ==
    ASSUME IInv, OnceInv, RowsGrow, GivenOnce, SettledStay, UNCHANGED <<handler, acked>>,
           \A r \in Requests : rows[r].ext = None => rows'[r] = rows[r] /\ sent'[r] = sent[r]
    PROVE  OneHandler' /\ FreshUntilDecided' /\ RefusedHasNoId'
  <1>1. OneHandler' /\ \A r \in Requests : Undecided(r)' => Undecided(r)
    BY DEF OnceInv, OneHandler, Handling, Undecided
  <1>2. \A r \in Requests : Undecided(r) => rows[r].ext = None
    BY DEF OnceInv, FreshUntilDecided, Fresh
  <1>3. FreshUntilDecided'
    BY <1>1, <1>2, FreshKept DEF OnceInv
  <1>4. RefusedHasNoId'
    BY OnceFrame DEF RefusedHasNoId
  <1> QED
    BY <1>1, <1>3, <1>4

LEMMA TickSteps ==
    ASSUME DeliveredOnce, IInv, OnceInv, RowsGrow, NEW t \in Ticks,
           TickStart(t) \/ TickStep(t) \/ BudgetExpires(t)
    PROVE  OnceInv'
  <1> DEFINE k == tick[t]
  <1>t. /\ TypeInv /\ rows \in Table /\ tick \in [Ticks -> TickRec] /\ k \in TickRec
        /\ TickAgrees(t) /\ k.todo \subseteq Snapshot
        /\ sent \in [Requests -> SUBSET Events]
        /\ k.pc \in {"record", "publish"} => k.row \in Snapshot /\ Known(k.row)
    BY IInvParts DEF TypeInv, TypeOK, TickShape, TickRec, TickKnows, OnceInv
  <1>u. /\ UNCHANGED <<handler, acked, monitor>>
        /\ \A u \in Ticks \ {t} : tick'[u] = tick[u]
    BY <1>t DEF TickStart, TickStep, GetMonitoring, RecordPoll, PublishChange, BudgetExpires
  <1>m. SettledStay
    BY <1>u DEF SettledStay
  <1>r. UNCHANGED rows => GivenOnce
    BY DEF GivenOnce
  <1>k. ASSUME GivenOnce, TickAgrees(t)' PROVE (\A u \in Ticks : TickAgrees(u))'
    <2> SUFFICES ASSUME NEW u \in Ticks PROVE TickAgrees(u)'
      OBVIOUS
    <2> QED
      BY <1>k, <1>m, <1>u, OnceFrame
  <1>s. ASSUME GivenOnce, UNCHANGED sent PROVE (\A r \in Requests : TellsOutcome(r))'
    <2> SUFFICES ASSUME NEW r \in Requests PROVE TellsOutcome(r)'
      OBVIOUS
    <2> QED
      BY <1>m, <1>s, OnceFrame
  <1>n. ASSUME GivenOnce, NEW n \in {IdleTick, NextRow(t)}, tick' = [tick EXCEPT ![t] = n]
        PROVE  TickAgrees(t)'
    <2>1. n.pc \in {"idle", "poll"} /\ n.todo \subseteq k.todo /\ tick'[t] = n
      BY <1>n, <1>t, NextRowType, IdleTypes DEF NextRow, TickRec
    <2> QED
      BY <1>m, <1>n, <2>1, OnceFrame
  <1>1. CASE TickStart(t)
    <2>1. /\ UNCHANGED <<rows, sent>>
          /\ tick'[t] = [IdleTick EXCEPT !.pc = "poll", !.gen = reconciler,
               !.todo = {[id |-> r, ext |-> rows[r].ext, status |-> rows[r].status] :
                           r \in Pollable}]
      BY <1>1, <1>t DEF TickStart
    <2>2. /\ tick'[t].pc = "poll"
          /\ tick'[t].todo = {[id |-> r, ext |-> rows[r].ext, status |-> rows[r].status] :
                                r \in Pollable}
      BY <2>1 DEF IdleTick
    <2>3. TickAgrees(t)'
      BY <2>1, <2>2 DEF TickAgrees, InHand
    <2> QED
      BY <1>k, <1>m, <1>r, <1>s, <1>u, <2>1, <2>3, HandlersAside DEF OnceInv
  <1>2. CASE GetMonitoring(t)
    <2>0. PICK s \in k.todo :
             \E got \in {translateStatus(monitor[s.ext].status), "error"} :
                 tick' = [tick EXCEPT ![t] = Answered(@, s, got)]
      BY <1>2 DEF GetMonitoring
    <2>1. PICK got \in {translateStatus(monitor[s.ext].status), "error"} :
                 tick' = [tick EXCEPT ![t] = Answered(@, s, got)]
      BY <2>0
    <2>2. UNCHANGED <<rows, sent>>
      BY <1>2 DEF GetMonitoring
    <2>3. tick'[t].todo \subseteq k.todo /\ tick'[t].row = s /\ tick'[t].got = got
      BY <1>t, <2>1 DEF Answered, TickRec
    <2>4. \A x \in k.todo : rows[x.id].ext = x.ext
      BY <1>t DEF TickAgrees, InHand
    <2>5. TickAgrees(t)'
      BY <1>u, <2>2, <2>3, <2>4 DEF TickAgrees, InHand, Terminal
    <2> QED
      BY <1>k, <1>m, <1>r, <1>s, <1>u, <2>2, <2>5, HandlersAside DEF OnceInv
  <1>3. CASE RecordPoll(t)
    <2>q. PICK s, got : s = k.row /\ got = k.got
      OBVIOUS
    <2>1. k.pc = "record" /\ rows' \in {rows, RecordedPoll(t)} /\ UNCHANGED sent
      BY <1>3 DEF RecordPoll, Commits, Errs
    <2>2. /\ s.id \in Requests /\ rows[s.id].ext = s.ext /\ s.ext # None
          /\ RecordedPoll(t)[s.id].ext = s.ext
          /\ \A q \in Requests : q # s.id => RecordedPoll(t)[q] = rows[q]
      <3>1. tick[t].pc = "record" /\ s = tick[t].row /\ got = tick[t].got
        BY <2>1, <2>q
      <3>2. s \in Snapshot /\ s.id \in Requests
        BY <1>t, <3>1 DEF Snapshot
      <3>3. RowRecorded(t, s, got)
        BY <1>t, <3>1, RecordedRow
      <3> HIDE DEF k
      <3> QED
        BY <3>2, <3>3 DEF RowRecorded
    <2>3. GivenOnce /\ \A r \in Requests : rows[r].ext = None => rows'[r] = rows[r]
      BY <2>1, <2>2 DEF GivenOnce
    <2>4. TickAgrees(t)'
      <3>1. CASE Silent(t)
        <4>1. tick' = [tick EXCEPT ![t] = NextRow(t)]
          BY <1>3, <3>1 DEF RecordPoll
        <4> QED
          BY <1>n, <2>3, <4>1
      <3>2. CASE ~Silent(t)
        <4>1. tick'[t] = [k EXCEPT !.pc = "publish"]
          BY <1>3, <1>t, <3>2 DEF RecordPoll
        <4>2. tick'[t].todo = k.todo /\ tick'[t].row = k.row /\ tick'[t].got = k.got
          BY <1>t, <4>1 DEF TickRec
        <4> QED
          BY <1>m, <2>1, <2>3, <4>2, OnceFrame
      <3> QED
        BY <3>1, <3>2
    <2> QED
      BY <1>k, <1>m, <1>s, <1>u, <2>1, <2>3, <2>4, HandlersAside DEF OnceInv
  <1>4. CASE PublishChange(t)
    <2>q. PICK s : s = k.row
      OBVIOUS
    <2>g. PICK got : got = k.got
      OBVIOUS
    <2>1. /\ k.pc = "publish" /\ UNCHANGED rows /\ s \in Snapshot /\ s.id \in Requests
          /\ tick' = [tick EXCEPT ![t] = NextRow(t)]
      BY <1>4, <1>t, <2>q DEF PublishChange, Snapshot
    <2>2. /\ rows[s.id].ext = s.ext /\ s.ext # None
          /\ got \in Terminal => translateStatus(monitor[s.ext].status) = got
      BY <1>t, <2>1, <2>g, <2>q DEF TickAgrees, InHand, Known
    <2>3. /\ \A r \in Requests : r # s.id => sent'[r] = sent[r]
          /\ "request_fulfilled" \in sent'[s.id] =>
               "request_fulfilled" \in sent[s.id] \/ got = "imported"
          /\ "request_failed" \in sent'[s.id] =>
               "request_failed" \in sent[s.id] \/ got = "failed"
      BY <1>4, <1>t, <2>1, <2>g, <2>q DEF PublishChange, Publish, ChangeEvent
    <2>4. OutcomeOf(s.id)' = OutcomeOf(s.id)
      BY <1>u, <2>1 DEF OutcomeOf
    <2>5. got \in Terminal => OutcomeOf(s.id) = got
      BY <2>2 DEF OutcomeOf
    <2>6. TellsOutcome(s.id)'
      BY <2>1, <2>2, <2>3, <2>4, <2>5 DEF OnceInv, TellsOutcome, Terminal
    <2>7. (\A r \in Requests : TellsOutcome(r))'
      <3> SUFFICES ASSUME NEW r \in Requests PROVE TellsOutcome(r)'
        OBVIOUS
      <3> QED
        BY <1>m, <1>r, <2>1, <2>3, <2>6, OnceFrame
    <2>8. \A r \in Requests : rows[r].ext = None => sent'[r] = sent[r]
      BY <2>2, <2>3
    <2>9. TickAgrees(t)'
      BY <1>n, <1>r, <2>1
    <2> QED
      BY <1>k, <1>m, <1>r, <1>u, <2>1, <2>7, <2>8, <2>9, HandlersAside DEF OnceInv
  <1>5. CASE BudgetExpires(t)
    <2>1. UNCHANGED <<rows, sent>> /\ tick' = [tick EXCEPT ![t] = IdleTick]
      BY <1>5 DEF BudgetExpires
    <2>2. TickAgrees(t)'
      BY <1>n, <1>r, <2>1
    <2> QED
      BY <1>k, <1>m, <1>r, <1>s, <1>u, <2>1, <2>2, HandlersAside DEF OnceInv
  <1> QED
    BY <1>1, <1>2, <1>3, <1>4, <1>5 DEF TickStep

-----------------------------------------------------------------------------
LEMMA OnceInit == Init => OnceInv
  <1> SUFFICES ASSUME Init PROVE OnceInv
    OBVIOUS
  <1>1. OneHandler /\ RefusedHasNoId
    BY IdleTypes DEF Init, OneHandler, Handling, RefusedHasNoId
  <1>2. FreshUntilDecided
    BY DEF Init, FreshUntilDecided, Fresh, EmptyTable, AbsentRow
  <1>3. \A t \in Ticks : TickAgrees(t)
    BY IdleTypes DEF Init, TickAgrees, InHand
  <1>4. \A r \in Requests : TellsOutcome(r)
    BY DEF Init, TellsOutcome
  <1> QED
    BY <1>1, <1>2, <1>3, <1>4 DEF OnceInv

LEMMA OnceNext ==
    ASSUME DeliveredOnce, IInv, OnceInv, [Next]_vars PROVE OnceInv'
  <1>g. RowsGrow /\ MonitorsGrow /\ TypeInv
    BY Growth, IInvParts
  <1>1. ASSUME UNCHANGED <<rows, handler, tick, sent>>, SettledStay,
               acked \subseteq acked', \A h \in Handlers : Handling(h) => handler[h].req \notin acked'
        PROVE  OnceInv'
    <2>1. GivenOnce
      BY <1>1 DEF GivenOnce
    <2>2. OneHandler' /\ FreshUntilDecided' /\ RefusedHasNoId'
      BY <1>1 DEF OnceInv, OneHandler, Handling, FreshUntilDecided, Undecided, Fresh,
                  RefusedHasNoId
    <2> QED
      BY <1>1, <1>g, <2>1, <2>2, TicksAndTold DEF OnceInv
  <1>2. ASSUME NEW r \in Requests, IgnoreEvent(r) PROVE OnceInv'
    <2>1. \A h \in Handlers : Handling(h) => handler[h].req # r
      BY <1>2, <1>g DEF IgnoreEvent, TypeInv, HandlerShape, Handling
    <2>2. SettledStay
      BY <1>2 DEF IgnoreEvent, SettledStay
    <2> QED
      BY <1>1, <1>2, <2>1, <2>2 DEF IgnoreEvent, OnceInv, OneHandler, procs
  <1>3. ASSUME NEW e \in ExtIds, NEW u \in UpStatuses, UpstreamMove(e, u) PROVE OnceInv'
    <2>1. SettledStay
      BY <1>3, <1>g, MoveStays DEF TypeInv, TypeOK
    <2> QED
      BY <1>1, <1>3, <2>1 DEF UpstreamMove, OnceInv, OneHandler, procs
  <1>4. CASE UNCHANGED <<rows, monitor, acked, handler, tick, sent>>
    <2>1. SettledStay
      BY <1>4 DEF SettledStay
    <2> QED
      BY <1>1, <1>4, <2>1 DEF OnceInv, OneHandler
  <1>5. ~Crash
    BY DEF Crash, Fault, DeliveredOnce
  <1>6. ASSUME NEW h \in Handlers, HandlerStep(h) PROVE OnceInv'
    BY <1>6, <1>g, UndecidedSteps, DecidedSteps DEF HandlerStep
  <1>7. ASSUME NEW h \in Handlers, NEW r \in Requests, HandleEvent(h, r) PROVE OnceInv'
    BY <1>7, <1>g, HandleEventOnce
  <1>8. ASSUME NEW t \in Ticks, TickStart(t) \/ TickStep(t) \/ BudgetExpires(t)
        PROVE  OnceInv'
    BY <1>8, <1>g, TickSteps
  <1> QED
    BY <1>2, <1>3, <1>4, <1>5, <1>6, <1>7, <1>8
       DEF Next, ConfigureConsumer, ConfigureStep, ConfigureReconciler, ClosePool, procs, vars

(* While every event is delivered once the portal is never told both       *)
(* outcomes of a request, for any number of handlers and ticks, of         *)
(* Configure calls that overlap with them, and of polls, replies and       *)
(* publications that are lost.  A redelivery breaks it (run                *)
(* RedeliveryContradicts).                                                 *)
THEOREM OutcomesAgree ==
    ASSUME DeliveredOnce PROVE Spec => []OutcomesNeverContradict
  <1>1. IInv /\ OnceInv /\ [Next]_vars => (IInv /\ OnceInv)'
    BY IInvNext, OnceNext
  <1>2. OnceInv => OutcomesNeverContradict
    BY DEF OnceInv, TellsOutcome, OutcomesNeverContradict
  <1> QED
    BY <1>1, <1>2, IInvInit, OnceInit, PTL DEF Spec

-----------------------------------------------------------------------------
(* One generation: one tick at a time *)

(* Whatever is not the record of a poll only writes the row of a request   *)
(* that was not decided, and no outcome but its refusal.                   *)
WritesTheUndecided ==
    \A r \in Requests : rows'[r] # rows[r] =>
        Fresh(r) /\ rows'[r].status \in {"submitted", "acknowledged", "failed"}

LEMMA HandlersWrite ==
    ASSUME DeliveredOnce, IInv, OnceInv, NEW h \in Handlers,
           HandlerStep(h) \/ \E r \in Requests : HandleEvent(h, r)
    PROVE  WritesTheUndecided /\ UNCHANGED tick
  <1>w. ASSUME NEW r \in Requests, Undecided(r),
               NEW w \in Write, w.id = r, w.status \in {"submitted", "acknowledged", "failed"},
               rows'[r] \in {rows[r], Merge(rows[r], w)},
               \A q \in Requests : q # r => rows'[q] = rows[q]
        PROVE  WritesTheUndecided
    <2>1. Fresh(r)
      BY <1>w DEF OnceInv, FreshUntilDecided
    <2>2. Merge(rows[r], w).status = w.status
      BY <2>1 DEF Fresh, Merge, Guarded, Terminal
    <2> QED
      BY <1>w, <2>1, <2>2 DEF WritesTheUndecided
  <1>u. UNCHANGED rows => WritesTheUndecided
    BY DEF WritesTheUndecided
  <1>1. ASSUME NEW r \in Requests, HandleEvent(h, r)
        PROVE  WritesTheUndecided /\ UNCHANGED tick
    <2>1. /\ SubmittedWrite(r) \in Write /\ SubmittedWrite(r).id = r
          /\ SubmittedWrite(r).status = "submitted"
      BY WriteTypes DEF SubmittedWrite
    <2> QED
      BY <1>1, <1>w, <2>1, EventOnce
  <1>2. CASE AddMonitoring(h) \/ TellPortal(h) \/ Ack(h)
    BY <1>2, <1>u DEF AddMonitoring, TellPortal, Ack
  <1>3. CASE PersistAcknowledged(h) \/ PersistFailed(h)
    <2>q. PICK r, e, g : r = handler[h].req /\ e = handler[h].ext /\ g = handler[h].gen
      OBVIOUS
    <2>1. /\ r \in Requests /\ Undecided(r) /\ UNCHANGED tick /\ g \in Gens
          /\ handler[h].pc = "accepted" => e \in ExtIds
      BY <1>3, <2>q, IInvParts, AddressedType, StillUndecided
         DEF PersistAcknowledged, PersistFailed, TypeInv, TypeOK, HandlerShape,
             HandlerRec, OnceInv, Handling, Telling
    <2>2. PICK w \in Write :
            /\ w.id = r /\ w.status \in {"acknowledged", "failed"}
            /\ \/ Commits(g, UpsertForwardedRequest(rows, w))
               \/ Errs(g, UpsertForwardedRequest(rows, w))
      <3>1. CASE PersistAcknowledged(h)
        <4>1. /\ AcknowledgedWrite(r, e) \in Write /\ AcknowledgedWrite(r, e).id = r
              /\ AcknowledgedWrite(r, e).status = "acknowledged"
          BY <2>1, <3>1, WriteTypes DEF PersistAcknowledged, AcknowledgedWrite
        <4> QED
          BY <2>q, <3>1, <4>1 DEF PersistAcknowledged
      <3>2. CASE PersistFailed(h)
        <4>1. /\ FailedWrite(r) \in Write /\ FailedWrite(r).id = r
              /\ FailedWrite(r).status = "failed"
          BY <2>1, WriteTypes DEF FailedWrite
        <4> QED
          BY <2>q, <3>2, <4>1 DEF PersistFailed
      <3> QED
        BY <1>3, <3>1, <3>2
    <2>3. /\ rows'[r] \in {rows[r], Merge(rows[r], w)}
          /\ \A q \in Requests : q # r => rows'[q] = rows[q]
      BY <2>1, <2>2, StatementOnce
    <2> QED
      BY <1>w, <2>1, <2>2, <2>3
  <1> QED
    BY <1>1, <1>2, <1>3 DEF HandlerStep

(* A poll that is recorded on a row still as it was listed: the status is  *)
(* held, or is the translated answer, and an import leaves no error.       *)
LEMMA RecordKeepsOrder ==
    ASSUME IInv, OnceInv, SoleInv, NEW t \in Ticks, RecordPoll(t)
    PROVE  /\ ImportedHasNoError'
           /\ \A r \in Requests :
                \/ rows'[r].status = rows[r].status
                \/ rows'[r].status \notin {"submitted", "acknowledged"}
           /\ \A s \in Snapshot : s.id # tick[t].row.id => rows'[s.id] = rows[s.id]
           /\ tick'[t].pc = "idle" \/
                /\ tick'[t].gen = tick[t].gen
                /\ tick'[t].todo = tick[t].todo
                /\ tick'[t].pc \in {"poll", "publish"}
  <1>q. PICK s, got : s = tick[t].row /\ got = tick[t].got
    OBVIOUS
  <1>t. /\ tick \in [Ticks -> TickRec] /\ tick[t] \in TickRec /\ tick[t].pc = "record"
        /\ TickAgrees(t) /\ rows' \in {rows, RecordedPoll(t)}
    BY IInvParts DEF TypeInv, TypeOK, OnceInv, RecordPoll, Commits, Errs
  <1>1. RowRecorded(t, s, got)
    BY <1>q, <1>t, RecordedRow
  <1>2. s.id \in Requests /\ s.status \in Active
    BY <1>1 DEF RowRecorded, Snapshot
  <1>3. rows[s.id].status = s.status
    BY <1>q, <1>t DEF SoleInv, StillAsListed, Listed, Running
  <1>4. \A r \in Requests : r # s.id => rows'[r] = rows[r]
    BY <1>1, <1>t DEF RowRecorded
  <1>5. CASE UNCHANGED rows
    <2>1. ImportedHasNoError'
      BY <1>5 DEF SoleInv, ImportedHasNoError
    <2> QED
      BY <1>5, <1>t, <2>1 DEF RecordPoll, NextRow, IdleTick, TickRec
  <1>6. CASE rows' = RecordedPoll(t)
    <2>1. got \in {"", "error"} => rows'[s.id].status = rows[s.id].status
      BY <1>1, <1>3, <1>6 DEF RowRecorded, Guarded
    <2>2. got \notin {"", "error"} => rows'[s.id].status = got
      BY <1>1, <1>2, <1>3, <1>6 DEF RowRecorded, Guarded, Active, Terminal
    <2>3. /\ got \in Translations \cup {"error"}
          /\ got # "error" => ~rows'[s.id].err
      BY <1>1, <1>6 DEF RowRecorded
    <2>4. ImportedHasNoError'
      <3> SUFFICES ASSUME NEW r \in Requests, rows'[r].status = "imported"
                   PROVE ~rows'[r].err
        BY DEF ImportedHasNoError
      <3>1. CASE r = s.id
        BY <1>2, <1>3, <2>1, <2>3, <3>1 DEF Active
      <3>2. CASE r # s.id
        BY <1>4, <3>2 DEF SoleInv, ImportedHasNoError
      <3> QED
        BY <3>1, <3>2
    <2>5. got \notin {"", "error"} => rows'[s.id].status \notin {"submitted", "acknowledged"}
      BY <2>2, <2>3 DEF Translations
    <2> QED
      BY <1>4, <1>q, <1>t, <2>1, <2>4, <2>5
         DEF RecordPoll, NextRow, IdleTick, TickRec, Snapshot
  <1> QED
    BY <1>5, <1>6, <1>t

(* A tick that goes on, or ends, with the rows it listed as they were.     *)
GoesOn(t) ==
    Running(t)' =>
        /\ Running(t) /\ tick'[t].gen = tick[t].gen
        /\ tick'[t].todo \subseteq tick[t].todo
        /\ tick'[t].pc = "record" =>
             \/ tick[t].pc = "record" /\ tick'[t].row = tick[t].row
             \/ /\ tick'[t].row \in tick[t].todo
                /\ tick'[t].todo = tick[t].todo \ {tick'[t].row}
        /\ \A s \in Listed(t)' : rows'[s.id].status = rows[s.id].status

LEMMA SoleKept ==
    ASSUME SoleInv, ImportedHasNoError', \A t \in Ticks : GoesOn(t)
    PROVE  SoleInv'
  <1>1. \A t \in Ticks : Running(t)' => Running(t)
    BY DEF GoesOn
  <1>2. TicksNeverOverlap'
    BY <1>1 DEF SoleInv, TicksNeverOverlap
  <1>3. ASSUME NEW t \in Ticks, Running(t)' PROVE StillAsListed(t)'
    <2>1. StillAsListed(t) /\ GoesOn(t)
      BY <1>1, <1>3 DEF SoleInv
    <2>2. \A s \in Listed(t)' : s \in Listed(t)
      BY <1>3, <2>1 DEF GoesOn, Listed
    <2>3. tick'[t].pc = "record" => \A s \in tick'[t].todo : s.id # tick'[t].row.id
      BY <1>3, <2>1 DEF GoesOn, StillAsListed
    <2> QED
      BY <1>3, <2>1, <2>2, <2>3 DEF GoesOn, StillAsListed
  <1> QED
    BY <1>2, <1>3 DEF SoleInv

LEMMA SoleNext ==
    ASSUME DeliveredOnce, OneGeneration, IInv, OnceInv, SoleInv, [Next]_vars
    PROVE  /\ SoleInv'
           /\ \A r \in Requests :
                rows[r].status \in Active \ {"submitted", "acknowledged"} =>
                    rows'[r].status \notin {"submitted", "acknowledged"}
  <1>t. /\ tick \in [Ticks -> TickRec] /\ reconciler \in Gens /\ rows \in Table
        /\ \A t \in Ticks : tick[t] \in TickRec /\ tick[t].todo \subseteq Snapshot
        /\ \A t \in Ticks : tick[t].pc = "record" => tick[t].row \in Snapshot
    BY IInvParts DEF TypeInv, TypeOK, TickShape, TickRec
  <1>k. ASSUME NEW t \in Ticks, NEW s \in Listed(t) PROVE s \in Snapshot /\ Known(s)
    BY <1>k, <1>t, IInvParts DEF Listed, TickKnows
  <1>w. ASSUME WritesTheUndecided
        PROVE  /\ ImportedHasNoError'
               /\ \A t \in Ticks : \A s \in Listed(t) : rows'[s.id].status = rows[s.id].status
               /\ \A r \in Requests :
                    rows[r].status \in Active \ {"submitted", "acknowledged"} =>
                        rows'[r].status \notin {"submitted", "acknowledged"}
    <2>1. ImportedHasNoError'
      BY <1>w DEF WritesTheUndecided, SoleInv, ImportedHasNoError
    <2>2. ASSUME NEW t \in Ticks, NEW s \in Listed(t) PROVE rows'[s.id] = rows[s.id]
      BY <1>k, <1>w, <2>2 DEF WritesTheUndecided, Fresh, Known, Snapshot
    <2>3. ASSUME NEW r \in Requests, rows[r].status \in Active \ {"submitted", "acknowledged"}
          PROVE  rows'[r].status \notin {"submitted", "acknowledged"}
      BY <1>w, <2>3 DEF WritesTheUndecided, Fresh, Active
    <2> QED
      BY <2>1, <2>2, <2>3
  <1>1. ASSUME WritesTheUndecided, UNCHANGED tick PROVE SoleInv'
    <2>1. \A t \in Ticks : GoesOn(t)
      BY <1>1, <1>w DEF GoesOn, Running, Listed
    <2> QED
      BY <1>1, <1>w, <2>1, SoleKept
  <1>u. UNCHANGED rows => WritesTheUndecided
    BY DEF WritesTheUndecided
  <1>2. ASSUME NEW t \in Ticks, TickStart(t) PROVE SoleInv' /\ UNCHANGED rows
    <2>1. reconciler = 1
      BY <1>2, <1>t, BoundAssumption DEF TickStart, OneGeneration, Gens
    <2>2. \A u \in Ticks : ~Running(u)
      BY <1>2, <2>1 DEF TickStart, Locked, SoleInv, StillAsListed
    <2>3. /\ UNCHANGED rows /\ \A u \in Ticks \ {t} : tick'[u] = tick[u]
          /\ tick'[t] = [IdleTick EXCEPT !.pc = "poll", !.gen = reconciler,
               !.todo = {[id |-> r, ext |-> rows[r].ext, status |-> rows[r].status] :
                           r \in Pollable}]
      BY <1>2, <1>t DEF TickStart
    <2>4. /\ tick'[t].pc = "poll" /\ tick'[t].gen = 1
          /\ tick'[t].todo = {[id |-> r, ext |-> rows[r].ext, status |-> rows[r].status] :
                                r \in Pollable}
      BY <2>1, <2>3 DEF IdleTick
    <2>5. StillAsListed(t)'
      BY <2>3, <2>4 DEF StillAsListed, Listed
    <2>6. \A u \in Ticks \ {t} : ~Running(u)'
      BY <2>2, <2>3 DEF Running
    <2> QED
      BY <2>3, <2>5, <2>6 DEF SoleInv, TicksNeverOverlap, ImportedHasNoError
  <1>3. ASSUME NEW t \in Ticks, GetMonitoring(t) PROVE SoleInv' /\ UNCHANGED rows
    <2>0. PICK s \in tick[t].todo :
             \E got \in {translateStatus(monitor[s.ext].status), "error"} :
                 tick' = [tick EXCEPT ![t] = Answered(@, s, got)]
      BY <1>3 DEF GetMonitoring
    <2>1. PICK got : tick' = [tick EXCEPT ![t] = Answered(@, s, got)]
      BY <2>0
    <2>2. /\ tick'[t].gen = tick[t].gen /\ tick'[t].pc = "record"
          /\ tick'[t].row = s /\ tick'[t].todo = tick[t].todo \ {s}
      BY <1>t, <2>1 DEF Answered, TickRec
    <2>3. /\ UNCHANGED rows /\ Running(t)
          /\ \A u \in Ticks \ {t} : tick'[u] = tick[u]
      BY <1>3, <1>t, <2>1 DEF GetMonitoring, Running
    <2>4. \A u \in Ticks : GoesOn(u)
      BY <2>2, <2>3 DEF GoesOn, Running, Listed
    <2> QED
      BY <1>u, <1>w, <2>3, <2>4, SoleKept
  <1>4. ASSUME NEW t \in Ticks, RecordPoll(t)
        PROVE  /\ SoleInv'
               /\ \A r \in Requests :
                    rows[r].status \in Active \ {"submitted", "acknowledged"} =>
                        rows'[r].status \notin {"submitted", "acknowledged"}
    <2>1. /\ Running(t) /\ tick[t].pc = "record" /\ StillAsListed(t)
          /\ \A u \in Ticks \ {t} : tick'[u] = tick[u] /\ ~Running(u)
      BY <1>4, <1>t DEF RecordPoll, Running, SoleInv, TicksNeverOverlap
    <2>2. \A s \in tick[t].todo : rows'[s.id] = rows[s.id]
      BY <1>4, <1>t, <2>1, RecordKeepsOrder DEF StillAsListed
    <2>3. GoesOn(t)
      BY <1>4, <2>1, <2>2, RecordKeepsOrder DEF GoesOn, Running, Listed
    <2>4. \A u \in Ticks \ {t} : GoesOn(u)
      BY <2>1 DEF GoesOn, Running
    <2>5. ImportedHasNoError'
      BY <1>4, RecordKeepsOrder
    <2>6. \A r \in Requests : \/ rows'[r].status = rows[r].status
                              \/ rows'[r].status \notin {"submitted", "acknowledged"}
      BY <1>4, RecordKeepsOrder
    <2> QED
      BY <2>3, <2>4, <2>5, <2>6, SoleKept
  <1>5. ASSUME NEW t \in Ticks, PublishChange(t) \/ BudgetExpires(t)
        PROVE  SoleInv' /\ UNCHANGED rows
    <2>n. PICK n \in {IdleTick, NextRow(t)} : tick' = [tick EXCEPT ![t] = n]
      BY <1>5 DEF PublishChange, BudgetExpires
    <2>m. /\ tick'[t] = n /\ \A u \in Ticks \ {t} : tick'[u] = tick[u]
          /\ UNCHANGED rows /\ tick[t].pc \in {"poll", "publish"}
      BY <1>5, <1>t, <2>n DEF PublishChange, BudgetExpires
    <2>o. \/ n.pc = "idle"
          \/ n.pc = "poll" /\ n.gen = tick[t].gen /\ n.todo = tick[t].todo
      BY <1>t, <2>n, IdleTypes DEF NextRow, TickRec
    <2>1. /\ UNCHANGED rows /\ Running(t) /\ tick[t].pc # "record"
          /\ \A u \in Ticks \ {t} : tick'[u] = tick[u]
          /\ \/ tick'[t].pc = "idle"
             \/ /\ tick'[t].pc = "poll" /\ tick'[t].gen = tick[t].gen
                /\ tick'[t].todo = tick[t].todo
      BY <2>m, <2>o DEF Running
    <2>2. \A u \in Ticks : GoesOn(u)
      BY <2>1 DEF GoesOn, Running, Listed
    <2> QED
      BY <1>u, <1>w, <2>1, <2>2, SoleKept
  <1>6. ASSUME NEW h \in Handlers, HandlerStep(h) \/ \E r \in Requests : HandleEvent(h, r)
        PROVE  WritesTheUndecided /\ UNCHANGED tick
    BY <1>6, HandlersWrite
  <1>7. ASSUME UNCHANGED <<rows, tick>> PROVE WritesTheUndecided /\ UNCHANGED tick
    BY <1>7, <1>u
  <1>8. ~Crash
    BY DEF Crash, Fault, DeliveredOnce
  <1>9. \/ WritesTheUndecided /\ UNCHANGED tick
        \/ \E t \in Ticks : TickStart(t) \/ TickStep(t) \/ BudgetExpires(t)
    BY <1>6, <1>7, <1>8
       DEF Next, IgnoreEvent, UpstreamMove, ConfigureConsumer, ConfigureStep,
           ConfigureReconciler, ClosePool, procs, vars
  <1>10. CASE WritesTheUndecided /\ UNCHANGED tick
    BY <1>1, <1>10, <1>w
  <1>11. ASSUME NEW t \in Ticks, TickStart(t) \/ TickStep(t) \/ BudgetExpires(t)
         PROVE  /\ SoleInv'
                /\ \A r \in Requests :
                     rows[r].status \in Active \ {"submitted", "acknowledged"} =>
                         rows'[r].status \notin {"submitted", "acknowledged"}
    <2>1. CASE UNCHANGED rows
      BY <1>2, <1>3, <1>4, <1>5, <1>11, <1>u, <1>w, <2>1 DEF TickStep
    <2>2. CASE RecordPoll(t)
      BY <1>4, <2>2
    <2> QED
      BY <1>2, <1>3, <1>5, <1>11, <2>1, <2>2 DEF TickStep
  <1> QED
    BY <1>9, <1>10, <1>11

LEMMA SoleInit == Init => SoleInv
  <1> SUFFICES ASSUME Init PROVE SoleInv
    OBVIOUS
  <1>1. \A t \in Ticks : ~Running(t)
    BY IdleTypes DEF Init, Running
  <1>2. ImportedHasNoError
    BY DEF Init, ImportedHasNoError, EmptyTable, AbsentRow
  <1> QED
    BY <1>1, <1>2 DEF SoleInv, TicksNeverOverlap

(* While every event is delivered once and Configure is called once, a     *)
(* request that was imported shows no error of an earlier poll ...         *)
THEOREM ImportsShowNoError ==
    ASSUME DeliveredOnce, OneGeneration PROVE Spec => []ImportedHasNoError
  <1>1. /\ IInv /\ OnceInv /\ SoleInv /\ [Next]_vars => (IInv /\ OnceInv /\ SoleInv)'
        /\ SoleInv => ImportedHasNoError
    BY IInvNext, OnceNext, SoleNext DEF SoleInv
  <1> QED
    BY <1>1, IInvInit, OnceInit, SoleInit, PTL DEF Spec

(* ... and a status the upstream answered never goes back to the ones that *)
(* precede it.                                                             *)
THEOREM StatusGoesOn ==
    ASSUME DeliveredOnce, OneGeneration PROVE Spec => StatusNeverRestarts
  <1>1. /\ IInv /\ OnceInv /\ SoleInv /\ [Next]_vars => (IInv /\ OnceInv /\ SoleInv)'
        /\ IInv /\ OnceInv /\ SoleInv /\ [Next]_vars =>
             [\A r \in Requests :
                rows[r].status \in Active \ {"submitted", "acknowledged"} =>
                    rows'[r].status \notin {"submitted", "acknowledged"}]_vars
    BY IInvNext, OnceNext, SoleNext
  <1> QED
    BY <1>1, IInvInit, OnceInit, SoleInit, PTL DEF Spec, StatusNeverRestarts
=============================================================================
