-------------------------- MODULE ForwardedRequests --------------------------
(***************************************************************************)
(* The forwarded_request table of internal/store/request.go: the row, the  *)
(* two SQL statements that write it, and the selection the reconciler      *)
(* works from.  The module has no variables: a table is a function from    *)
(* request ids to rows, and every operator takes the table as an argument, *)
(* so that the modules that own a table can be proved about with the facts *)
(* of this one.                                                            *)
(*                                                                         *)
(* Data is abstracted to what the properties tell apart: error_text to     *)
(* whether it is non-NULL, last_polled to a natural number (0 is NULL),    *)
(* external_id to a member of ExtIds or None (NULL, which the code reads   *)
(* as "").  created_at and updated_at order nothing and are left out.      *)
(***************************************************************************)
EXTENDS Naturals

CONSTANTS
    Requests,   \* request ids the portal hands out
    ExtIds,     \* monitoring ids the upstream hands out
    None        \* SQL NULL / Go ""

ASSUME NoneIsNoId == None \notin Requests \cup ExtIds

(* "none" is the absence of a row: rows are never deleted by this code.    *)
Terminal == {"imported", "failed"}
Active   == {"submitted", "acknowledged", "searching", "found", "downloading"}
Status   == {"none"} \cup Active \cup Terminal

Row == [status : Status, ext : ExtIds \cup {None}, polled : Nat,
        err : BOOLEAN, auto : BOOLEAN]

Table == [Requests -> Row]

AbsentRow == [status |-> "none", ext |-> None, polled |-> 0,
              err |-> FALSE, auto |-> FALSE]

EmptyTable == [r \in Requests |-> AbsentRow]

Present(t) == {r \in Requests : t[r].status # "none"}

(* What a caller passes to UpsertForwardedRequest.                         *)
Write == [id : Requests, ext : ExtIds \cup {None}, status : Active \cup Terminal,
          polled : Nat, err : BOOLEAN, auto : BOOLEAN]

(* A faulty variant: the statement without COALESCE.                       *)
Overwrite(new, null, old) == new

Coalesce(new, null, old) == IF new # null THEN new ELSE old

(* A faulty variant: the statements without the terminal guard.            *)
Unguarded(old, new) == new

(* The terminal guard: both statements keep a terminal status.             *)
Guarded(old, new) == IF old \in Terminal THEN old ELSE new

(* A faulty variant: auto_monitor is set from the latest write.            *)
MergeLatestFlag(row, w) ==
    [status |-> Guarded(row.status, w.status),
     ext    |-> Coalesce(w.ext, None, row.ext),
     polled |-> Coalesce(w.polled, 0, row.polled),
     err    |-> w.err \/ row.err,
     auto   |-> w.auto]

(* ON CONFLICT (request_id) DO UPDATE.                                     *)
Merge(row, w) ==
    [status |-> Guarded(row.status, w.status),
     ext    |-> Coalesce(w.ext, None, row.ext),
     polled |-> Coalesce(w.polled, 0, row.polled),
     err    |-> w.err \/ row.err,
     auto   |-> w.auto \/ row.auto]

(* The insert half is the merge into the row of NULLs.                     *)
UpsertForwardedRequest(t, w) == [t EXCEPT ![w.id] = Merge(@, w)]

(* SET ... of the poll's UPDATE: error_text is cleared.                    *)
Polled(row, ext, status, when) ==
    [status |-> Guarded(row.status, status),
     ext    |-> Coalesce(ext, None, row.ext),
     polled |-> when,
     err    |-> FALSE,
     auto   |-> row.auto]

(* UPDATE ... WHERE request_id = $1: nothing happens without a row.        *)
MarkPolled(t, id, ext, status, when) ==
    IF id \in Present(t)
    THEN [t EXCEPT ![id] = Polled(@, ext, status, when)]
    ELSE t

(* WHERE status NOT IN ('imported','failed').                              *)
NonTerminal(t) == {r \in Present(t) : t[r].status \notin Terminal}

(* The rows the diagnostics count as "unsubmitted": active, never given an *)
(* external id.                                                            *)
Unsubmitted(t) == {r \in NonTerminal(t) : t[r].ext = None}
=============================================================================
