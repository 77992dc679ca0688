---------------------------- MODULE ReconcilerTick ----------------------------
(***************************************************************************)
(* Which rows a tick of the reconciler reaches, and when it comes round to *)
(* each: ListNonTerminal's order and limit (internal/store/request.go),    *)
(* the tick's time budget (internal/reconciler/reconciler.go), and the     *)
(* rows the consumer adds meanwhile.  What a poll writes is                *)
(* RequestLifecycle's; here a poll stamps last_polled and perhaps settles  *)
(* the row.                                                                *)
(*                                                                         *)
(* last_polled is abstracted to its rank among the stamps of the table     *)
(* (0 is NULL), time to the seconds a poll takes.  One reconciler is at    *)
(* work, as its mutex has it.                                              *)
(***************************************************************************)
EXTENDS Naturals, FiniteSets

CONSTANTS
    Rows,         \* request ids, numbers for their order
    Backlog,      \* rows that had their external id when the process started
    Orphans,      \* rows that never get an external id
    Limit,        \* ListNonTerminal(ctx, 200)
    TickTimeout, Latencies,  \* seconds; none above perRowTimeout
    Outcomes,     \* whether a poll may settle its row
    MaxFaults

ASSUME RowAssumption ==
    /\ Rows \subseteq Nat /\ IsFiniteSet(Rows)
    /\ Backlog \subseteq Rows /\ Orphans \subseteq Rows \ Backlog
    /\ Outcomes \subseteq BOOLEAN
ASSUME TimeAssumption ==
    /\ Limit \in Nat \ {0} /\ TickTimeout \in Nat /\ MaxFaults \in Nat
    /\ Latencies \subseteq Nat

VARIABLES
    state,    \* row -> "absent", "submitted", "acknowledged" or "settled"
    stamp,    \* row -> rank of its last_polled, 0 for NULL
    tick,     \* the tick: the rows it has still to poll, the seconds left
    faults,
    waiting   \* history: row -> rows that could be polled at its last poll
              \*                 and were not since

vars == <<state, stamp, tick, faults, waiting>>

-----------------------------------------------------------------------------
NonTerminal == {r \in Rows : state[r] \in {"submitted", "acknowledged"}}
Pollable == {r \in Rows : state[r] = "acknowledged"}

(* A faulty variant: the newest stamp first.                               *)
NewestFirst(r, s) == stamp[r] > stamp[s] \/ (stamp[r] = stamp[s] /\ r < s)

(* ORDER BY last_polled, request_id: NULLs come first.                     *)
Before(r, s) == stamp[r] < stamp[s] \/ (stamp[r] = stamp[s] /\ r < s)

(* A faulty variant: the rows are limited before they are ordered.         *)
FirstIds == {r \in NonTerminal : Cardinality({s \in NonTerminal : s < r}) < Limit}

ListNonTerminal ==
    {r \in NonTerminal : Cardinality({s \in NonTerminal : Before(s, r)}) < Limit}

(* A faulty variant: rows are marked as polled, not stamped.               *)
Marked(r) == [stamp EXCEPT ![r] = 1]

(* The row gets the newest stamp.                                          *)
Stamped(r) ==
    LET newer == {s \in Rows : stamp[s] > stamp[r]}
        stamps == Cardinality({s \in Rows : stamp[s] # 0} \cup {r})
    IN  [s \in Rows |-> IF s = r THEN stamps
                        ELSE IF s \in newer /\ stamp[r] # 0 THEN stamp[s] - 1
                        ELSE stamp[s]]

Idle == [running |-> FALSE, todo |-> {}, left |-> 0]

-----------------------------------------------------------------------------
(* The consumer: a row, and then its external id.                          *)
Submit(r) ==
    /\ state[r] = "absent"
    /\ state' = [state EXCEPT ![r] = "submitted"]
    /\ UNCHANGED <<stamp, tick, faults, waiting>>

Acknowledge(r) ==
    /\ state[r] = "submitted" /\ r \notin Orphans
    /\ state' = [state EXCEPT ![r] = "acknowledged"]
    /\ UNCHANGED <<stamp, tick, faults, waiting>>

(* Tick: rows that were listed without an external id are skipped.         *)
StartTick ==
    /\ ~tick.running
    /\ ListNonTerminal \cap Pollable # {}
    /\ tick' = [running |-> TRUE, todo |-> ListNonTerminal \cap Pollable,
                left |-> TickTimeout]
    /\ UNCHANGED <<state, stamp, faults, waiting>>

(* The loop goes through the rows in the order of the list: stamps only    *)
(* change for rows it is done with.                                        *)
Oldest(r) == r \in tick.todo /\ \A s \in tick.todo \ {r} : Before(r, s)

After(r, seconds) ==
    IF tick.todo = {r} THEN Idle
    ELSE [running |-> TRUE, todo |-> tick.todo \ {r}, left |-> tick.left - seconds]

(* A poll that is answered, or fails, within the budget is recorded, with  *)
(* or without a status that settles the row ...                            *)
Poll(r) ==
    /\ tick.running /\ Oldest(r)
    /\ \E seconds \in Latencies :
         /\ seconds < tick.left
         /\ tick' = After(r, seconds)
    /\ \E settles \in Outcomes :
         state' = IF settles THEN [state EXCEPT ![r] = "settled"] ELSE state
    /\ stamp' = Stamped(r)
    /\ waiting' = [s \in Rows |-> IF s = r THEN Pollable \ {r} ELSE waiting[s] \ {r}]
    /\ UNCHANGED faults

(* ... unless its statement fails: the error is kept for the end of the    *)
(* tick and the next row is polled.                                        *)
PollUnrecorded(r) ==
    /\ tick.running /\ Oldest(r)
    /\ faults < MaxFaults /\ faults' = faults + 1
    /\ \E seconds \in Latencies :
         /\ seconds < tick.left
         /\ tick' = After(r, seconds)
    /\ waiting' = [s \in Rows |-> waiting[s] \ {r}]
    /\ UNCHANGED <<state, stamp>>

(* A poll that outlasts the budget is cut off; its statement fails with    *)
(* the same context, and the loop ends with the rest of the rows unpolled. *)
CutOff ==
    /\ tick.running
    /\ \E seconds \in Latencies : seconds >= tick.left
    /\ tick' = Idle
    /\ UNCHANGED <<state, stamp, faults, waiting>>

-----------------------------------------------------------------------------
Init ==
    /\ state = [r \in Rows |-> IF r \in Backlog THEN "acknowledged" ELSE "absent"]
    /\ stamp = [r \in Rows |-> 0]
    /\ tick = Idle
    /\ faults = 0
    /\ waiting = [r \in Rows |-> {}]

TickStep == CutOff \/ \E r \in Rows : Poll(r) \/ PollUnrecorded(r)

Next == \/ \E r \in Rows : Submit(r) \/ Acknowledge(r)
        \/ StartTick
        \/ TickStep

Spec == Init /\ [][Next]_vars

(* The cron fires again and again, a tick goes on, and the consumer comes  *)
(* to the end of every event but the orphans'.                             *)
FairSpec == /\ Spec
            /\ WF_vars(StartTick) /\ WF_vars(TickStep)
            /\ \A r \in Rows : WF_vars(Acknowledge(r))

-----------------------------------------------------------------------------
(* Properties *)

(* The ranks are ranks: no two stamped rows share one, none is missing,    *)
(* and what a tick has to poll it can poll.                                *)
RanksOK ==
    /\ \A r, s \in Rows : stamp[r] = stamp[s] /\ stamp[r] # 0 => r = s
    /\ \A r \in Rows : stamp[r] \in 0..Cardinality({s \in Rows : stamp[s] # 0})
    /\ tick.running => tick.todo # {} /\ tick.todo \subseteq Pollable

(* No row is polled twice while another one that could be polled all the   *)
(* time waits: the limit and the budget delay rows, but stamps, tie-break  *)
(* and the order of the loop make a rotation.                              *)
FairRotation ==
    [][\A r \in Rows : Poll(r) => waiting[r] \cap Pollable = {}]_vars

(* Every row that can be polled is polled again and again until it is      *)
(* settled: its stamp becomes the newest one.                              *)
Newest(r) == stamp[r] # 0 /\ \A s \in Rows : stamp[s] <= stamp[r]

NoRowStarves ==
    \A r \in Rows : r \in Pollable ~> Newest(r) \/ state[r] = "settled"
=============================================================================
