--------------------------- MODULE RequestLifecycle ---------------------------
(***************************************************************************)
(* The life of a forwarded request, from the portal's request_submitted    *)
(* event to its terminal status:                                           *)
(*   - internal/consumer: HandleEvent, one action per database or network  *)
(*     call it makes (Handlers are its concurrent invocations);            *)
(*   - internal/reconciler: Tick, one action per call (Ticks are its       *)
(*     concurrent invocations);                                            *)
(*   - cmd/.../main.go: the Configure callback that swaps what both use,   *)
(*     generation by generation;                                           *)
(*   - external: the upstream BookWarehouse monitor list, and the host's   *)
(*     at-least-once event delivery and one-minute cron.                   *)
(*                                                                         *)
(* What fails (a statement, a poll, the reply of an accepted submission, a *)
(* publication, the tick's 45 s budget, the process) is charged to the one *)
(* budget MaxFaults, and only the kinds in FaultKinds happen.  Steps of    *)
(* the code that change nothing are stuttering steps and have no action:   *)
(* an event refused because Configure has not run or because its first     *)
(* statement did not commit (nack), an event with another name, no payload *)
(* or no request_id (ack), a tick whose TryLock or whose listing fails,    *)
(* and a tick with no row to poll.                                         *)
(***************************************************************************)
EXTENDS ForwardedRequests

CONSTANTS
    Handlers,     \* concurrent HandleEvent invocations
    Ticks,        \* concurrent Tick invocations
    PluginIds, PluginID,
    Payload,      \* request -> the three routing keys of its event
    AutoMonitor,  \* request -> the event's auto_monitor flag
    UpStatuses,   \* status strings the upstream uses
    FaultKinds, MaxFaults,
    MaxDups,      \* redeliveries beside the one that is due
    MaxGen        \* Configure calls in the life of a process

ASSUME PayloadAssumption ==
    /\ None \notin PluginIds
    /\ PluginID \in PluginIds
    /\ Payload \in [Requests -> [1..3 -> PluginIds \cup {None}]]
    /\ AutoMonitor \in [Requests -> BOOLEAN]
ASSUME UpstreamAssumption == "queued" \in UpStatuses
ASSUME BoundAssumption ==
    MaxFaults \in Nat /\ MaxDups \in Nat /\ MaxGen \in Nat

VARIABLES
    rows,        \* the forwarded_request table
    monitor,     \* upstream: id -> the requests it was handed out for, status
    acked,       \* host: events acknowledged by HandleEvent
    handler,     \* the HandleEvent invocations
    tick,        \* the Tick invocations
    consumer,    \* generation in consumerDepsP, 0 before Configure
    reconciler,  \* generation in reconcilerPtr, 0 before Configure
    open,        \* generations whose database pool is open
    sent,        \* request -> events published for it
    faults, dups

vars == <<rows, monitor, acked, handler, tick, consumer, reconciler, open,
          sent, faults, dups>>

procs  == <<handler, tick>>
config == <<consumer, reconciler, open>>

-----------------------------------------------------------------------------
(* Values *)

Gens == 0..MaxGen
Kinds == {"db", "poll", "reply", "publish", "budget", "crash"}
Events == {"request_acknowledged", "request_failed", "request_fulfilled",
           "request_status_changed"}

Monitor == [reqs : SUBSET Requests, status : UpStatuses \cup {"none"}]

(* One row of ListNonTerminal's result, as the loop of Tick holds it.      *)
Snapshot == [id : Requests, ext : ExtIds, status : Active]

HandlerPC == {"idle", "adding", "accepted", "rejected",
              "tell_acknowledged", "tell_failed", "return"}
HandlerRec == [pc : HandlerPC, req : Requests \cup {None},
               ext : ExtIds \cup {None}, gen : Gens]
IdleHandler == [pc |-> "idle", req |-> None, ext |-> None, gen |-> 0]

(* "" is translateStatus's "no transition", "error" a failed GetMonitoring. *)
Translations == {"", "searching", "found", "downloading", "imported", "failed"}
TickPC == {"idle", "poll", "record", "publish"}
NoRow == [id |-> None, ext |-> None, status |-> "none"]
TickRec == [pc : TickPC, gen : Gens, todo : SUBSET Snapshot,
            row : Snapshot \cup {NoRow}, got : Translations \cup {"error"}]
IdleTick == [pc |-> "idle", gen |-> 0, todo |-> {}, row |-> NoRow, got |-> ""]

Translation(u, unknown) ==
    CASE u \in {"queued", "monitoring"}    -> "searching"
      [] u = "found"                       -> "found"
      [] u \in {"downloading", "grabbing"} -> "downloading"
      [] u \in {"imported", "completed"}   -> "imported"
      [] u \in {"failed", "error"}         -> "failed"
      [] OTHER                             -> unknown

(* Faulty variants: an unknown status is passed through, or read as        *)
(* "acknowledged", as the code once did.                                   *)
TranslateVerbatim(u) == Translation(u, u)
TranslateToAcknowledged(u) == Translation(u, "acknowledged")

translateStatus(u) == Translation(u, "")

(* The first routing key that is present decides, even when a later one    *)
(* names this plugin.                                                      *)
targetPluginID(r) ==
    LET present == {i \in 1..3 : Payload[r][i] # None}
    IN  IF present = {} THEN None
        ELSE Payload[r][CHOOSE i \in present : \A j \in present : i <= j]

Addressed == {r \in Requests : targetPluginID(r) = PluginID}

UpstreamImported(r) ==
    \E e \in ExtIds : /\ r \in monitor[e].reqs
                      /\ translateStatus(monitor[e].status) = "imported"

-----------------------------------------------------------------------------
(* Outcomes of one statement or one publication *)

Fault(kind) == /\ kind \in FaultKinds
               /\ faults < MaxFaults
               /\ faults' = faults + 1

(* A statement on the pool of generation g either commits or returns an    *)
(* error: the pool was closed by a later Configure, or the database failed *)
(* before or after the commit.                                             *)
Commits(g, new) == g \in open /\ rows' = new /\ UNCHANGED faults
Errs(g, new) == \/ g \notin open /\ UNCHANGED <<rows, faults>>
                \/ g \in open /\ Fault("db") /\ rows' \in {rows, new}

(* Publish never returns an error: a lost event is only logged.            *)
Publish(r, event) ==
    \/ sent' = [sent EXCEPT ![r] = @ \cup {event}] /\ UNCHANGED faults
    \/ Fault("publish") /\ UNCHANGED sent

-----------------------------------------------------------------------------
(* consumer.HandleEvent *)

(* The delivery is due while the event is unacknowledged and not being     *)
(* handled; any other delivery is a duplicate.                             *)
Due(r) == r \notin acked /\ \A h \in Handlers : handler[h].req # r

(* The three rows HandleEvent writes.                                      *)
SubmittedWrite(r) ==
    [id |-> r, ext |-> None, status |-> "submitted", polled |-> 0,
     err |-> FALSE, auto |-> AutoMonitor[r]]

(* A faulty variant: the external id is not stored.                        *)
AcknowledgedWithoutId(r, e) ==
    [id |-> r, ext |-> None, status |-> "acknowledged", polled |-> 0,
     err |-> FALSE, auto |-> AutoMonitor[r]]

AcknowledgedWrite(r, e) ==
    [id |-> r, ext |-> e, status |-> "acknowledged", polled |-> 0,
     err |-> FALSE, auto |-> AutoMonitor[r]]

FailedWrite(r) ==
    [id |-> r, ext |-> None, status |-> "failed", polled |-> 0,
     err |-> TRUE, auto |-> AutoMonitor[r]]

Deliver(r) ==
    IF Due(r) THEN UNCHANGED dups
              ELSE dups < MaxDups /\ dups' = dups + 1

(* A faulty variant: the error of a statement is swallowed.                *)
AckInsteadOfNack(h) == handler' = [handler EXCEPT ![h].pc = "return"]

Nack(h) == handler' = [handler EXCEPT ![h] = IdleHandler]

(* The first statement.  If it is reported as failed after its commit the  *)
(* event is refused but the row is there.                                  *)
HandleEvent(h, r) ==
    /\ handler[h].pc = "idle"
    /\ consumer # 0 /\ consumer \in open
    /\ r \in Addressed
    /\ Deliver(r)
    /\ rows' = UpsertForwardedRequest(rows, SubmittedWrite(r))
    /\ \/ /\ handler' = [handler EXCEPT ![h] =
                [pc |-> "adding", req |-> r, ext |-> None, gen |-> consumer]]
          /\ UNCHANGED faults
       \/ Fault("db") /\ Nack(h)
    /\ UNCHANGED <<monitor, acked, tick, config, sent>>

(* An event for another plugin is acknowledged and leaves no trace.        *)
IgnoreEvent(r) ==
    /\ consumer # 0
    /\ r \notin Addressed
    /\ r \notin acked
    /\ acked' = acked \cup {r}
    /\ UNCHANGED <<rows, monitor, procs, config, sent, faults, dups>>

(* POST /api/v1/monitoring/add.  The upstream hands out an id, new or one  *)
(* it already had, or refuses; and the reply of an accepted submission may *)
(* be lost, which the code cannot tell from a refusal.                     *)
Accept(e, r) ==
    monitor' = [monitor EXCEPT ![e] =
                  [reqs |-> @.reqs \cup {r},
                   status |-> IF @.status = "none" THEN "queued" ELSE @.status]]

AddMonitoring(h) ==
    /\ handler[h].pc = "adding"
    /\ \/ \E e \in ExtIds :
            /\ Accept(e, handler[h].req)
            /\ handler' = [handler EXCEPT ![h].pc = "accepted", ![h].ext = e]
            /\ UNCHANGED faults
       \/ /\ handler' = [handler EXCEPT ![h].pc = "rejected"]
          /\ \/ UNCHANGED <<monitor, faults>>
             \/ Fault("reply") /\ \E e \in ExtIds : Accept(e, handler[h].req)
    /\ UNCHANGED <<rows, acked, tick, config, sent, dups>>

PersistAcknowledged(h) ==
    /\ handler[h].pc = "accepted"
    /\ LET new == UpsertForwardedRequest(rows,
                    AcknowledgedWrite(handler[h].req, handler[h].ext))
       IN \/ /\ Commits(handler[h].gen, new)
             /\ handler' = [handler EXCEPT ![h].pc = "tell_acknowledged"]
          \/ Errs(handler[h].gen, new) /\ Nack(h)
    /\ UNCHANGED <<monitor, acked, tick, config, sent, dups>>

PersistFailed(h) ==
    /\ handler[h].pc = "rejected"
    /\ LET new == UpsertForwardedRequest(rows, FailedWrite(handler[h].req))
       IN \/ /\ Commits(handler[h].gen, new)
             /\ handler' = [handler EXCEPT ![h].pc = "tell_failed"]
          \/ Errs(handler[h].gen, new) /\ Nack(h)
    /\ UNCHANGED <<monitor, acked, tick, config, sent, dups>>

TellPortal(h) ==
    /\ \/ /\ handler[h].pc = "tell_acknowledged"
          /\ Publish(handler[h].req, "request_acknowledged")
       \/ /\ handler[h].pc = "tell_failed"
          /\ Publish(handler[h].req, "request_failed")
    /\ handler' = [handler EXCEPT ![h].pc = "return"]
    /\ UNCHANGED <<rows, monitor, acked, tick, config, dups>>

Ack(h) ==
    /\ handler[h].pc = "return"
    /\ acked' = acked \cup {handler[h].req}
    /\ handler' = [handler EXCEPT ![h] = IdleHandler]
    /\ UNCHANGED <<rows, monitor, tick, config, sent, faults, dups>>

-----------------------------------------------------------------------------
(* reconciler.Tick *)

Running(t) == tick[t].pc # "idle"

(* TryLock: the mutex belongs to the Reconciler, so to one generation.     *)
Locked(g) == \E t \in Ticks : Running(t) /\ tick[t].gen = g

(* The rows the loop will poll: an active row without external id is       *)
(* skipped.                                                                *)
Pollable == NonTerminal(rows) \ Unsubmitted(rows)

TickStart(t) ==
    /\ ~Running(t)
    /\ reconciler # 0 /\ reconciler \in open
    /\ ~Locked(reconciler)
    /\ Pollable # {}
    /\ tick' = [tick EXCEPT ![t] =
         [IdleTick EXCEPT !.pc = "poll", !.gen = reconciler,
            !.todo = {[id |-> r, ext |-> rows[r].ext, status |-> rows[r].status] :
                        r \in Pollable}]]
    /\ UNCHANGED <<rows, monitor, acked, handler, config, sent, faults, dups>>

(* The next iteration of the loop; after the last one Tick returns and     *)
(* releases the mutex.                                                     *)
NextRow(t) ==
    IF tick[t].todo = {} THEN IdleTick
    ELSE [tick[t] EXCEPT !.pc = "poll", !.row = NoRow, !.got = ""]

Answered(k, s, got) ==
    [k EXCEPT !.pc = "record", !.todo = @ \ {s}, !.row = s, !.got = got]

GetMonitoring(t) ==
    /\ tick[t].pc = "poll"
    /\ \E s \in tick[t].todo :
         \/ /\ tick' = [tick EXCEPT ![t] =
                  Answered(@, s, translateStatus(monitor[s.ext].status))]
            /\ UNCHANGED faults
         \/ /\ tick' = [tick EXCEPT ![t] = Answered(@, s, "error")]
            /\ Fault("poll")
    /\ UNCHANGED <<rows, monitor, acked, handler, config, sent, dups>>

(* time.Now(): within this module every poll carries the same stamp.       *)
Now == 1

(* Faulty variants: the poll is recorded on the row after the polled one;  *)
(* and a successful poll is recorded by the upsert, which cannot clear     *)
(* error_text, as the code once did.                                       *)
RecordedOffByOne(t) ==
    LET s == tick[t].row
        next == IF tick[t].todo = {} THEN s ELSE CHOOSE x \in tick[t].todo : TRUE
    IN  MarkPolled(rows, next.id, s.ext,
          IF tick[t].got \in {"", "error"} THEN next.status ELSE tick[t].got, Now)

RecordedByUpsert(t) ==
    LET s == tick[t].row
        held == tick[t].got \in {"", "error"}
    IN  UpsertForwardedRequest(rows,
          [id |-> s.id, ext |-> s.ext, polled |-> Now, auto |-> FALSE,
           status |-> IF held THEN s.status ELSE tick[t].got,
           err |-> tick[t].got = "error"])

(* Everything but the reply is the snapshot's: a failed poll rewrites the  *)
(* status and the external id the row had when the tick listed it, and so  *)
(* does a poll whose status is unknown.                                    *)
RecordedPoll(t) ==
    LET s == tick[t].row
        got == tick[t].got
    IN  IF got = "error"
        THEN UpsertForwardedRequest(rows,
               [id |-> s.id, ext |-> s.ext, status |-> s.status, polled |-> Now,
                err |-> TRUE, auto |-> FALSE])
        ELSE MarkPolled(rows, s.id, s.ext,
               IF got = "" THEN s.status ELSE got, Now)

(* A faulty variant: terminal statuses are recorded without an event.      *)
SilentAtTheEnd(t) == tick[t].got \in {"error", "", tick[t].row.status} \cup Terminal

(* No event: the poll failed, or held or repeated the listed status.       *)
Silent(t) == tick[t].got \in {"error", "", tick[t].row.status}

(* The publication follows a status change even when it was not recorded.  *)
RecordPoll(t) ==
    /\ tick[t].pc = "record"
    /\ \/ Commits(tick[t].gen, RecordedPoll(t))
       \/ Errs(tick[t].gen, RecordedPoll(t))
    /\ tick' = [tick EXCEPT ![t] =
         IF Silent(t) THEN NextRow(t) ELSE [@ EXCEPT !.pc = "publish"]]
    /\ UNCHANGED <<monitor, acked, handler, config, sent, dups>>

(* A faulty variant: whatever is not an import is told as a failure.       *)
ChangeOrFailure(status) ==
    IF status = "imported" THEN "request_fulfilled" ELSE "request_failed"

ChangeEvent(status) ==
    CASE status = "imported" -> "request_fulfilled"
      [] status = "failed"   -> "request_failed"
      [] OTHER               -> "request_status_changed"

PublishChange(t) ==
    /\ tick[t].pc = "publish"
    /\ Publish(tick[t].row.id, ChangeEvent(tick[t].got))
    /\ tick' = [tick EXCEPT ![t] = NextRow(t)]
    /\ UNCHANGED <<rows, monitor, acked, handler, config, dups>>

(* A faulty variant: the early exit does not release the mutex.            *)
BudgetExpiresLocked(t) ==
    /\ tick[t].pc = "poll"
    /\ Fault("budget")
    /\ tick' = [tick EXCEPT ![t].todo = {}]
    /\ UNCHANGED <<rows, monitor, acked, handler, config, sent, dups>>

(* ctx.Err() at the head of the loop: the rest of the rows waits.          *)
BudgetExpires(t) ==
    /\ tick[t].pc = "poll"
    /\ Fault("budget")
    /\ tick' = [tick EXCEPT ![t] = IdleTick]
    /\ UNCHANGED <<rows, monitor, acked, handler, config, sent, dups>>

-----------------------------------------------------------------------------
(* The Configure callback of main.go: a new pool, then the consumer's      *)
(* dependencies, then a new Reconciler, and at last the old pool is closed.*)
(* The host calls Configure serially.  PluginConfig has the statements,    *)
(* and keeps this order (ConfigureGenerations).                            *)

ConfigureConsumer ==
    /\ consumer = reconciler /\ open \subseteq {consumer}
    /\ consumer < MaxGen
    /\ consumer' = consumer + 1
    /\ open' = open \cup {consumer + 1}
    /\ UNCHANGED <<rows, monitor, acked, procs, reconciler, sent, faults, dups>>

ConfigureReconciler ==
    /\ reconciler # consumer
    /\ reconciler' = consumer
    /\ UNCHANGED <<rows, monitor, acked, procs, consumer, open, sent, faults, dups>>

ClosePool ==
    /\ reconciler = consumer
    /\ open \ {consumer} # {}
    /\ open' = open \cap {consumer}
    /\ UNCHANGED <<rows, monitor, acked, procs, consumer, reconciler, sent, faults, dups>>

(* The process dies with everything it held in memory; the host starts it  *)
(* again and calls Configure.                                              *)
Crash ==
    /\ consumer # 0
    /\ Fault("crash")
    /\ handler' = [h \in Handlers |-> IdleHandler]
    /\ tick' = [t \in Ticks |-> IdleTick]
    /\ consumer' = 0 /\ reconciler' = 0 /\ open' = {}
    /\ UNCHANGED <<rows, monitor, acked, sent, dups>>

-----------------------------------------------------------------------------
(* External: the upstream works on what it accepted.  A monitor that is    *)
(* imported or failed stays so.                                            *)

Settled(e) == translateStatus(monitor[e].status) \in Terminal

UpstreamMove(e, u) ==
    /\ monitor[e].reqs # {}
    /\ ~Settled(e)
    /\ u # monitor[e].status
    /\ monitor' = [monitor EXCEPT ![e].status = u]
    /\ UNCHANGED <<rows, acked, procs, config, sent, faults, dups>>

UpstreamSettle(e) ==
    \E u \in UpStatuses : translateStatus(u) \in Terminal /\ UpstreamMove(e, u)

-----------------------------------------------------------------------------
Init ==
    /\ rows = EmptyTable
    /\ monitor = [e \in ExtIds |-> [reqs |-> {}, status |-> "none"]]
    /\ acked = {}
    /\ handler = [h \in Handlers |-> IdleHandler]
    /\ tick = [t \in Ticks |-> IdleTick]
    /\ consumer = 0 /\ reconciler = 0 /\ open = {}
    /\ sent = [r \in Requests |-> {}]
    /\ faults = 0 /\ dups = 0

HandlerStep(h) == \/ AddMonitoring(h) \/ PersistAcknowledged(h)
                  \/ PersistFailed(h) \/ TellPortal(h) \/ Ack(h)

TickStep(t) == GetMonitoring(t) \/ RecordPoll(t) \/ PublishChange(t)

ConfigureStep == ConfigureReconciler \/ ClosePool

Next ==
    \/ \E h \in Handlers, r \in Requests : HandleEvent(h, r)
    \/ \E r \in Requests : IgnoreEvent(r)
    \/ \E h \in Handlers : HandlerStep(h)
    \/ \E t \in Ticks : TickStart(t) \/ TickStep(t) \/ BudgetExpires(t)
    \/ ConfigureConsumer
    \/ ConfigureStep
    \/ Crash
    \/ \E e \in ExtIds, u \in UpStatuses : UpstreamMove(e, u)

Spec == Init /\ [][Next]_vars

(* The host redelivers what is due, configures a process it started, and   *)
(* fires the cron; a Go call that was made returns (both clients have      *)
(* timeouts); the upstream settles what it accepted.                       *)
Fairness ==
    /\ \A r \in Requests :
         WF_vars(Due(r) /\ \E h \in Handlers : HandleEvent(h, r))
    /\ \A h \in Handlers : WF_vars(HandlerStep(h))
    /\ WF_vars(\E t \in Ticks : TickStart(t))
    /\ \A t \in Ticks : WF_vars(TickStep(t))
    /\ WF_vars(consumer = 0 /\ ConfigureConsumer)
    /\ WF_vars(ConfigureStep)
    /\ \A e \in ExtIds : WF_vars(UpstreamSettle(e))

FairSpec == Spec /\ Fairness

-----------------------------------------------------------------------------
(* Properties *)

(* Every variable keeps its type: what the table, the invocations and the  *)
(* counters may hold.                                                      *)
TypeOK ==
    /\ rows \in Table
    /\ monitor \in [ExtIds -> Monitor]
    /\ acked \subseteq Requests
    /\ handler \in [Handlers -> HandlerRec]
    /\ tick \in [Ticks -> TickRec]
    /\ consumer \in Gens /\ reconciler \in Gens /\ open \subseteq Gens
    /\ sent \in [Requests -> SUBSET Events]
    /\ faults \in 0..MaxFaults /\ dups \in 0..MaxDups

(* HandleEvent acknowledges an event of ours only when the request cannot  *)
(* be lost any more: the reconciler can poll it (it has an external id),   *)
(* or it failed for good.  This is what the nack paths are for.            *)
Trackable(r) == rows[r].ext # None \/ rows[r].status = "failed"
AckedIsTrackable == \A r \in acked \cap Addressed : Trackable(r)

(* What the runbook (docs/debugging.md:116-132) tells an operator of a row *)
(* without external id: it is "submitted" without an error, or "failed"    *)
(* with one; no other status is possible without an id.                    *)
StuckRowDiagnosis ==
    \A r \in Present(rows) : rows[r].ext = None =>
        IF rows[r].err THEN rows[r].status = "failed"
                       ELSE rows[r].status = "submitted"

(* However handlers and ticks interleave, the id stored with a request is  *)
(* one the upstream handed out for this very request, never a neighbour's. *)
ExtIdOfOwnRequest ==
    \A r \in Requests : rows[r].ext # None => r \in monitor[rows[r].ext].reqs

(* Nobody is told that a request is fulfilled, and no row says imported,   *)
(* unless the upstream did import a book for it.                           *)
FulfilledIsTrue ==
    \A r \in Requests :
        rows[r].status = "imported" \/ "request_fulfilled" \in sent[r]
            => UpstreamImported(r)

(* The portal is never told both outcomes of one request.                  *)
OutcomesNeverContradict ==
    \A r \in Requests : ~({"request_fulfilled", "request_failed"} \subseteq sent[r])

(* The portal's auto_monitor flag survives every later write, although the *)
(* reconciler's own upsert passes FALSE.                                   *)
AutoMonitorKept ==
    \A r \in Present(rows) : rows[r].auto = AutoMonitor[r]

(* A request that was imported has no outstanding error: the poll that     *)
(* recorded the import cleared the error_text of every earlier one.        *)
ImportedHasNoError ==
    \A r \in Requests : rows[r].status = "imported" => ~rows[r].err

(* The tick mutex keeps a process from running two ticks at a time.        *)
TicksNeverOverlap ==
    \A t, u \in Ticks : Running(t) /\ Running(u) => t = u

(* The inductive invariant behind the safety properties above: what an     *)
(* invocation in flight knows of the table and of the upstream, although   *)
(* both change under it.  What it knows is never undone: external ids and  *)
(* terminal statuses are kept, monitors only gain requests.                *)
Telling == {"tell_acknowledged", "tell_failed", "return"}

HandlerShape(h) ==
    /\ handler[h].pc # "idle" => handler[h].req \in Addressed
    /\ handler[h].pc = "accepted" => handler[h].ext \in ExtIds

HandlerKnows(h) ==
    LET k == handler[h]
    IN  k.pc # "idle" =>
          /\ k.req \in Present(rows)
          /\ k.pc = "accepted" => k.req \in monitor[k.ext].reqs
          /\ k.pc \in Telling => Trackable(k.req)

TickShape(t) ==
    /\ tick[t].pc \in {"record", "publish"} => tick[t].row \in Snapshot
    /\ tick[t].pc = "publish" => tick[t].got \notin {"", "error"}

Known(s) == rows[s.id].ext # None /\ s.id \in monitor[s.ext].reqs

TickKnows(t) ==
    LET k == tick[t]
    IN  /\ \A s \in k.todo : Known(s)
        /\ k.pc \in {"record", "publish"} =>
             /\ Known(k.row)
             /\ k.got = "imported" => UpstreamImported(k.row.id)

TypeInv == /\ TypeOK
           /\ \A h \in Handlers : HandlerShape(h)
           /\ \A t \in Ticks : TickShape(t)

AbsentRowsAreEmpty == \A r \in Requests \ Present(rows) : rows[r] = AbsentRow

(* The upstream only works for requests that have a row.                   *)
MonitoredIsAccepted == \A e \in ExtIds : monitor[e].reqs \subseteq Present(rows)

IInv == /\ TypeInv
        /\ \A h \in Handlers : HandlerKnows(h)
        /\ \A t \in Ticks : TickKnows(t)
        /\ AbsentRowsAreEmpty
        /\ StuckRowDiagnosis
        /\ ExtIdOfOwnRequest
        /\ FulfilledIsTrue
        /\ AutoMonitorKept
        /\ AckedIsTrackable

(* A terminal status is never left, whoever writes last.                   *)
TerminalStable ==
    [][\A r \in Requests :
         rows[r].status \in Terminal => rows'[r].status = rows[r].status]_vars

(* A request that can be polled stays so: its external id may be replaced  *)
(* by a later one, but no write puts NULL there again.                     *)
ExternalIdKept ==
    [][\A r \in Requests : rows[r].ext # None => rows'[r].ext # None]_vars

(* A request the upstream works on does not go back to the statuses that   *)
(* precede its submission.                                                 *)
StatusNeverRestarts ==
    [][\A r \in Requests :
         rows[r].status \in Active \ {"submitted", "acknowledged"}
             => rows'[r].status \notin {"submitted", "acknowledged"}]_vars

(* Every request routed to this plugin is settled at last, through crashes,*)
(* failed statements and polls, redeliveries and reconfigurations.         *)
EventuallySettled == \A r \in Addressed : <>(rows[r].status \in Terminal)

(* An outcome recorded is an outcome told, when no publication is lost and *)
(* no process dies.                                                        *)
OutcomeAnnounced ==
    \A r \in Requests :
        /\ rows[r].status = "imported" ~> "request_fulfilled" \in sent[r]
        /\ rows[r].status = "failed"   ~> "request_failed" \in sent[r]

(* error_text is sticky but recoverable: the error of a poll is gone after *)
(* a later successful poll, whatever that poll answers.                    *)
ErrorsRecover ==
    \A r \in Requests : rows[r].err /\ rows[r].polled # 0 ~> ~rows[r].err

(* The promise to the portal, RequestPromise, seen through the table and   *)
(* the upstream's list.                                                    *)
Outcome(status) ==
    CASE status = "none"      -> "none"
      [] status \in Active    -> "pending"
      [] status \in Terminal  -> status

Promise == INSTANCE RequestPromise WITH
    outcome   <- [r \in Requests |-> Outcome(rows[r].status)],
    available <- {r \in Requests : UpstreamImported(r)},
    told      <- sent

(* Every step of the consumer, the reconciler, the upstream and the host   *)
(* is a step of the promise, or none of its business.                      *)
KeepsPromise == Promise!Spec

(* ... and under fairness the promise is kept in time.                     *)
KeepsPromiseInTime == Promise!FairSpec
=============================================================================
