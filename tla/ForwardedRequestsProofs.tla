----------------------- MODULE ForwardedRequestsProofs -----------------------
(***************************************************************************)
(* What the two statements of ForwardedRequests do to a row, for every set *)
(* of requests and external ids: they keep the type, and a row only grows. *)
(***************************************************************************)
EXTENDS ForwardedRequests, TLAPS

(* What no write undoes: a row stays, keeps having an external id once it  *)
(* has one, and keeps a terminal status.                                   *)
Grows(old, new) ==
    /\ old.status # "none" => new.status # "none"
    /\ old.ext # None => new.ext # None
    /\ old.status \in Terminal => new.status = old.status

(* The merge of a write into a row is a row, and has grown.                *)
LEMMA MergeRow ==
    ASSUME NEW row \in Row, NEW w \in Write
    PROVE  /\ Merge(row, w) \in Row
           /\ Grows(row, Merge(row, w))
  BY DEF Row, Write, Merge, Guarded, Coalesce, Grows, Status, Active, Terminal

(* UpsertForwardedRequest yields a table, changes one row, and that row is *)
(* the merge.                                                              *)
LEMMA UpsertTable ==
    ASSUME NEW t \in Table, NEW w \in Write
    PROVE  /\ UpsertForwardedRequest(t, w) \in Table
           /\ UpsertForwardedRequest(t, w)[w.id] = Merge(t[w.id], w)
           /\ \A r \in Requests :
                r # w.id => UpsertForwardedRequest(t, w)[r] = t[r]
           /\ \A r \in Requests : Grows(t[r], UpsertForwardedRequest(t, w)[r])
  <1>1. w.id \in Requests
    BY DEF Write
  <1>2. t[w.id] \in Row
    BY <1>1 DEF Table
  <1>3. Merge(t[w.id], w) \in Row /\ Grows(t[w.id], Merge(t[w.id], w))
    BY <1>2, MergeRow
  <1>4. \A r \in Requests : Grows(t[r], t[r])
    BY DEF Grows
  <1> QED
    BY <1>1, <1>3, <1>4 DEF UpsertForwardedRequest, Table

(* A poll's update of a row is a row, and has grown.                       *)
LEMMA PolledRow ==
    ASSUME NEW row \in Row, NEW ext \in ExtIds,
           NEW status \in Active \cup Terminal, NEW when \in Nat
    PROVE  /\ Polled(row, ext, status, when) \in Row
           /\ Polled(row, ext, status, when).ext = ext
           /\ Grows(row, Polled(row, ext, status, when))
  BY NoneIsNoId
     DEF Row, Polled, Guarded, Coalesce, Grows, Status, Active, Terminal

(* MarkPolled yields a table and changes at most the row it is given,      *)
(* which grows.                                                            *)
LEMMA MarkPolledTable ==
    ASSUME NEW t \in Table, NEW id \in Requests, NEW ext \in ExtIds,
           NEW status \in Active \cup Terminal, NEW when \in Nat
    PROVE  /\ MarkPolled(t, id, ext, status, when) \in Table
           /\ id \in Present(t) =>
                MarkPolled(t, id, ext, status, when)[id]
                  = Polled(t[id], ext, status, when)
           /\ \A r \in Requests :
                r # id => MarkPolled(t, id, ext, status, when)[r] = t[r]
           /\ \A r \in Requests :
                Grows(t[r], MarkPolled(t, id, ext, status, when)[r])
  <1>1. \A r \in Requests : Grows(t[r], t[r])
    BY DEF Grows
  <1>2. t[id] \in Row
    BY DEF Table
  <1>3. /\ Polled(t[id], ext, status, when) \in Row
        /\ Grows(t[id], Polled(t[id], ext, status, when))
    BY <1>2, PolledRow
  <1> QED
    BY <1>1, <1>3 DEF MarkPolled, Table
=============================================================================
