------------------------ MODULE ReconcilerTickProofs ------------------------
(***************************************************************************)
(* Proofs about ReconcilerTick: the ranks are ranks, and the ticks come    *)
(* round to the rows in turn, whatever the limit of the list, the budget   *)
(* of a tick, the latencies and the number of rows.                        *)
(***************************************************************************)
EXTENDS ReconcilerTick, FiniteSetTheorems, TLAPS

TickTypes ==
    /\ state \in [Rows -> {"absent", "submitted", "acknowledged", "settled"}]
    /\ stamp \in [Rows -> Nat]
    /\ tick \in [running : BOOLEAN, todo : SUBSET Rows, left : Nat]
    /\ waiting \in [Rows -> SUBSET Rows]

(* Why the rotation is fair: a row that has been waiting since the last    *)
(* poll of another one has an older stamp; so whatever list contains the   *)
(* latter contains it too, and the loop comes to it first.                 *)
OlderWait ==
    \A r \in Rows : \A s \in waiting[r] \cap Pollable : stamp[s] < stamp[r]
ListedTogether == \A r \in tick.todo : waiting[r] \cap Pollable \subseteq tick.todo

RotationInv ==
    /\ TickTypes
    /\ RanksOK
    /\ \A r \in Rows : \A s \in waiting[r] : state[s] \in {"acknowledged", "settled"}
    /\ OlderWait
    /\ ListedTogether

-----------------------------------------------------------------------------
(* A new stamp: it is the newest of all, and among the other rows neither  *)
(* the order nor the absence of gaps changes.                              *)
HasStamp(s) == {r \in Rows : s[r] # 0}
Distinct(s) == \A r, u \in Rows : s[r] = s[u] /\ s[r] # 0 => r = u
Bounded(s) == \A r \in Rows : s[r] \in 0..Cardinality(HasStamp(s))

LEMMA StampedRanks ==
    ASSUME stamp \in [Rows -> Nat], Distinct(stamp), Bounded(stamp), NEW t \in Rows
    PROVE  /\ Stamped(t) \in [Rows -> Nat]
           /\ \A s \in Rows \ {t} : Stamped(t)[s] < Stamped(t)[t]
           /\ \A r, s \in Rows \ {t} :
                stamp[s] < stamp[r] => Stamped(t)[s] < Stamped(t)[r]
           /\ Distinct(Stamped(t)) /\ Bounded(Stamped(t))
  <1> DEFINE new == Stamped(t)
             old == HasStamp(stamp)
             N == Cardinality(old)
             M == Cardinality(old \cup {t})
  <1>1. IsFiniteSet(old) /\ N \in Nat
    BY RowAssumption, FS_Subset, FS_CardinalityType DEF HasStamp
  <1>2. M \in Nat \ {0} /\ M = IF t \in old THEN N ELSE N + 1
    <2>1. IsFiniteSet(old \cup {t}) /\ M = IF t \in old THEN N ELSE N + 1
      BY <1>1, FS_AddElement
    <2>2. old \cup {t} # {} /\ M \in Nat
      BY <2>1, FS_CardinalityType
    <2> QED
      BY <2>1, <2>2, FS_EmptySet
  <1>3. \A s \in Rows : stamp[s] \in 0..N
    BY DEF Bounded
  <1>4. new = [s \in Rows |-> IF s = t THEN M
                              ELSE IF stamp[s] > stamp[t] /\ stamp[t] # 0
                                   THEN stamp[s] - 1 ELSE stamp[s]]
    BY DEF Stamped, HasStamp
  <1>5. t \in old <=> stamp[t] # 0
    BY DEF HasStamp
  <1> HIDE DEF new, old, N, M
  <1>6. new[t] = M /\ new \in [Rows -> Nat]
    BY <1>1, <1>2, <1>3, <1>4
  <1>7. ASSUME NEW s \in Rows \ {t}
        PROVE  /\ new[s] < M
               /\ new[s] = IF stamp[s] > stamp[t] /\ stamp[t] # 0
                           THEN stamp[s] - 1 ELSE stamp[s]
               /\ new[s] = 0 <=> stamp[s] = 0
    <2>1. stamp[s] \in 0..N /\ stamp[t] \in 0..N
      BY <1>3
    <2>2. stamp[s] = stamp[t] => stamp[s] = 0
      BY DEF Distinct
    <2> QED
      BY <1>1, <1>2, <1>4, <1>5, <2>1, <2>2
  <1>8. ASSUME NEW r \in Rows \ {t}, NEW s \in Rows \ {t}, stamp[s] < stamp[r]
        PROVE  new[s] < new[r]
    <2>1. stamp[s] \in 0..N /\ stamp[t] \in 0..N /\ stamp[r] \in 0..N
      BY <1>3
    <2>2. (stamp[s] = stamp[t] => stamp[s] = 0) /\ (stamp[r] = stamp[t] => stamp[r] = 0)
      BY DEF Distinct
    <2> QED
      BY <1>1, <1>7, <1>8, <2>1, <2>2
  <1>9. Distinct(new)
    <2> SUFFICES ASSUME NEW r \in Rows, NEW s \in Rows, new[r] = new[s], new[r] # 0
                 PROVE  r = s
      BY DEF Distinct
    <2>1. CASE r = t \/ s = t
      BY <1>2, <1>6, <1>7, <2>1
    <2>2. CASE r # t /\ s # t
      <3>1. stamp[r] \in Nat /\ stamp[s] \in Nat /\ new[r] \in Nat /\ new[s] \in Nat
        BY <1>6
      <3>2. ~(stamp[r] < stamp[s]) /\ ~(stamp[s] < stamp[r])
        BY <1>8, <2>2, <3>1
      <3>3. stamp[r] = stamp[s] /\ stamp[r] # 0
        BY <1>7, <2>2, <3>1, <3>2
      <3> QED
        BY <3>3 DEF Distinct
    <2> QED
      BY <2>1, <2>2
  <1>10. Bounded(new)
    <2>1. HasStamp(new) = old \cup {t}
      BY <1>2, <1>6, <1>7 DEF HasStamp, old
    <2>2. Cardinality(HasStamp(new)) = M
      BY <2>1 DEF M
    <2> QED
      BY <1>2, <1>6, <1>7, <2>2 DEF Bounded
  <1> QED
    BY <1>6, <1>7, <1>8, <1>9, <1>10 DEF new

(* RanksOK, in these terms.                                                *)
LEMMA RanksOfStamps ==
    RanksOK <=> /\ Distinct(stamp) /\ Bounded(stamp)
                /\ tick.running => tick.todo # {} /\ tick.todo \subseteq Pollable
  BY DEF RanksOK, Distinct, Bounded, HasStamp

(* A list contains, with a row, every row that comes before it.            *)
LEMMA ListIsPrefix ==
    ASSUME stamp \in [Rows -> Nat], NEW r \in ListNonTerminal, NEW s \in NonTerminal,
           Before(s, r)
    PROVE  s \in ListNonTerminal
  <1> DEFINE first(u) == {v \in NonTerminal : Before(v, u)}
  <1>1. IsFiniteSet(NonTerminal) /\ NonTerminal \subseteq Rows /\ Rows \subseteq Nat
    BY RowAssumption, FS_Subset DEF NonTerminal
  <1>2. r \in NonTerminal /\ Cardinality(first(r)) < Limit
    BY DEF ListNonTerminal
  <1>3. first(s) \subseteq first(r)
    <2> SUFFICES ASSUME NEW v \in first(s)
                 PROVE  v \in first(r)
      OBVIOUS
    <2>1. /\ v \in Nat /\ s \in Nat /\ r \in Nat
          /\ stamp[v] \in Nat /\ stamp[s] \in Nat /\ stamp[r] \in Nat
      BY <1>1, <1>2
    <2>2. Before(v, s) /\ Before(s, r)
      OBVIOUS
    <2>3. Before(v, r)
      BY <2>1, <2>2 DEF Before
    <2> QED
      BY <2>3
  <1>4. /\ IsFiniteSet(first(r)) /\ IsFiniteSet(first(s))
        /\ Cardinality(first(s)) <= Cardinality(first(r))
    BY <1>1, <1>3, FS_Subset
  <1>5. Cardinality(first(r)) \in Nat /\ Cardinality(first(s)) \in Nat /\ Limit \in Nat
    BY <1>4, FS_CardinalityType, TimeAssumption
  <1>6. Cardinality(first(s)) < Limit
    BY <1>2, <1>4, <1>5
  <1> QED
    BY <1>6 DEF ListNonTerminal

-----------------------------------------------------------------------------
(* The invariant, step by step.                                            *)

LEMMA RotationInit == Init => RotationInv
  <1> SUFFICES ASSUME Init PROVE RotationInv
    OBVIOUS
  <1>1. TickTypes
    BY RowAssumption DEF Init, TickTypes, Idle
  <1>2. RanksOK
    <2>1. Distinct(stamp)
      BY DEF Init, Distinct
    <2>2. HasStamp(stamp) = {}
      BY DEF Init, HasStamp
    <2>3. Bounded(stamp)
      BY <2>2, FS_EmptySet DEF Init, Bounded
    <2> QED
      BY <2>1, <2>3, RanksOfStamps DEF Init, Idle
  <1> QED
    BY <1>1, <1>2 DEF Init, RotationInv, OlderWait, ListedTogether, Idle

LEMMA ConsumerStep ==
    ASSUME RotationInv, NEW r \in Rows, Submit(r) \/ Acknowledge(r)
    PROVE  RotationInv'
  <1>1. TickTypes'
    BY DEF RotationInv, TickTypes, Submit, Acknowledge
  <1>2. UNCHANGED <<stamp, tick, faults, waiting>>
    BY DEF Submit, Acknowledge
  <1>3. state[r] \in {"absent", "submitted"} /\ \A s \in Rows \ {r} : state'[s] = state[s]
    BY DEF RotationInv, TickTypes, Submit, Acknowledge
  <1>4. Pollable \subseteq Pollable' /\ Pollable' \subseteq Pollable \cup {r}
    BY <1>3 DEF Pollable
  <1>5. \A u \in Rows : r \notin waiting[u]
    BY <1>3 DEF RotationInv
  <1>6. \A u \in Rows : waiting[u] \subseteq Rows
    BY DEF RotationInv, TickTypes
  <1>7. RanksOK'
    BY <1>2, <1>4 DEF RotationInv, RanksOK
  <1>8. (\A u \in Rows : \A s \in waiting[u] : state[s] \in {"acknowledged", "settled"})'
    BY <1>2, <1>3, <1>5, <1>6 DEF RotationInv
  <1>9. OlderWait' /\ ListedTogether'
    <2>1. tick.todo \subseteq Rows
      BY DEF RotationInv, TickTypes
    <2> QED
      BY <1>2, <1>4, <1>5, <2>1 DEF RotationInv, OlderWait, ListedTogether
  <1> QED
    BY <1>1, <1>7, <1>8, <1>9 DEF RotationInv

LEMMA StartTickStep ==
    ASSUME RotationInv, StartTick
    PROVE  RotationInv'
  <1>1. /\ UNCHANGED <<state, stamp, faults, waiting>>
        /\ tick' = [running |-> TRUE, todo |-> ListNonTerminal \cap Pollable,
                    left |-> TickTimeout]
        /\ ListNonTerminal \cap Pollable # {}
    BY DEF StartTick
  <1>2. ListNonTerminal \subseteq Rows
    BY DEF ListNonTerminal, NonTerminal
  <1>3. Pollable' = Pollable
    BY <1>1 DEF Pollable
  <1>4. TickTypes'
    BY <1>1, <1>2, TimeAssumption DEF RotationInv, TickTypes
  <1>5. RanksOK'
    BY <1>1, <1>3 DEF RotationInv, RanksOK
  <1>6. ASSUME NEW r \in ListNonTerminal \cap Pollable, NEW s \in waiting[r] \cap Pollable
        PROVE  s \in ListNonTerminal
    <2>1. stamp \in [Rows -> Nat] /\ stamp[s] < stamp[r]
      BY DEF RotationInv, TickTypes, OlderWait, Pollable
    <2>2. s \in NonTerminal
      BY DEF Pollable, NonTerminal
    <2>3. Before(s, r)
      BY <2>1 DEF Before
    <2> QED
      BY <2>1, <2>2, <2>3, ListIsPrefix
  <1>7. OlderWait' /\ ListedTogether'
    BY <1>1, <1>3, <1>6 DEF RotationInv, OlderWait, ListedTogether
  <1> QED
    BY <1>1, <1>4, <1>5, <1>7 DEF RotationInv

(* What the loop has left after a row.                                     *)
LEMMA AfterRow ==
    ASSUME TickTypes, tick.running, NEW r \in tick.todo, NEW seconds \in Latencies,
           seconds < tick.left, tick' = After(r, seconds)
    PROVE  /\ tick' \in [running : BOOLEAN, todo : SUBSET Rows, left : Nat]
           /\ tick'.todo = tick.todo \ {r}
           /\ tick'.running => tick'.todo # {}
  <1>1. seconds \in Nat /\ tick.left \in Nat /\ tick.left - seconds \in Nat
    BY TimeAssumption DEF TickTypes
  <1>2. tick.todo \subseteq Rows
    BY DEF TickTypes
  <1>3. CASE tick.todo = {r}
    BY <1>3 DEF After, Idle
  <1>4. CASE tick.todo # {r}
    BY <1>1, <1>2, <1>4 DEF After
  <1> QED
    BY <1>3, <1>4

(* The row the loop comes to has not been overtaken.                       *)
LEMMA OldestHasNoneWaiting ==
    ASSUME RotationInv, NEW r \in Rows, Oldest(r)
    PROVE  waiting[r] \cap Pollable = {}
  <1> SUFFICES ASSUME NEW s \in waiting[r] \cap Pollable
               PROVE  FALSE
    OBVIOUS
  <1>1. stamp[s] < stamp[r] /\ stamp[s] \in Nat /\ stamp[r] \in Nat
    BY DEF RotationInv, TickTypes, OlderWait, Pollable
  <1>2. s \in tick.todo /\ s # r
    BY <1>1 DEF RotationInv, ListedTogether, Oldest
  <1>3. Before(r, s)
    BY <1>2 DEF Oldest
  <1> QED
    BY <1>1, <1>3 DEF Before

LEMMA PollStep ==
    ASSUME RotationInv, NEW t \in Rows, Poll(t)
    PROVE  RotationInv'
  <1>1. /\ t \in tick.todo /\ tick.todo \subseteq Pollable
        /\ tick.todo \subseteq Rows /\ Pollable \subseteq Rows
    BY DEF RotationInv, RanksOK, TickTypes, Poll, Oldest, Pollable
  <1>2. /\ tick' \in [running : BOOLEAN, todo : SUBSET Rows, left : Nat]
        /\ tick'.todo = tick.todo \ {t}
        /\ tick'.running => tick'.todo # {}
    BY <1>1, AfterRow DEF RotationInv, Poll
  <1>3. /\ state' \in [Rows -> {"absent", "submitted", "acknowledged", "settled"}]
        /\ \A s \in Rows \ {t} : state'[s] = state[s]
        /\ state'[t] \in {"acknowledged", "settled"}
    BY <1>1 DEF RotationInv, TickTypes, Poll, Pollable
  <1>4. /\ Pollable' \subseteq Pollable
        /\ \A s \in Pollable \ {t} : s \in Pollable'
    BY <1>1, <1>3 DEF Pollable
  <1>5. /\ stamp' \in [Rows -> Nat]
        /\ \A s \in Rows \ {t} : stamp'[s] < stamp'[t]
        /\ \A r, s \in Rows \ {t} : stamp[s] < stamp[r] => stamp'[s] < stamp'[r]
        /\ Distinct(stamp') /\ Bounded(stamp')
    <2>1. stamp \in [Rows -> Nat] /\ Distinct(stamp) /\ Bounded(stamp)
      BY RanksOfStamps DEF RotationInv, TickTypes
    <2>2. stamp' = Stamped(t)
      BY DEF Poll
    <2> QED
      BY <2>1, <2>2, StampedRanks
  <1>6. /\ waiting' \in [Rows -> SUBSET Rows]
        /\ waiting'[t] = Pollable \ {t}
        /\ \A r \in Rows \ {t} : waiting'[r] = waiting[r] \ {t}
    BY <1>1 DEF RotationInv, TickTypes, Poll
  <1>7. TickTypes'
    BY <1>2, <1>3, <1>5, <1>6 DEF TickTypes
  <1>8. RanksOK'
    <2>1. tick'.todo \subseteq Pollable'
      BY <1>1, <1>2, <1>4
    <2> QED
      BY <1>2, <1>5, <2>1 DEF RanksOK, Distinct, Bounded, HasStamp
  <1>9. (\A r \in Rows : \A s \in waiting[r] : state[s] \in {"acknowledged", "settled"})'
    <2> SUFFICES ASSUME NEW r \in Rows, NEW s \in waiting'[r]
                 PROVE  state'[s] \in {"acknowledged", "settled"}
      OBVIOUS
    <2>1. CASE r = t
      BY <1>3, <1>6, <2>1 DEF Pollable
    <2>2. CASE r # t
      BY <1>3, <1>6, <2>2 DEF RotationInv, TickTypes
    <2> QED
      BY <2>1, <2>2
  <1>10. OlderWait'
    <2> SUFFICES ASSUME NEW r \in Rows, NEW s \in waiting'[r] \cap Pollable'
                 PROVE  stamp'[s] < stamp'[r]
      BY DEF OlderWait
    <2>1. s \in Rows \ {t} /\ s \in Pollable
      BY <1>1, <1>4, <1>6
    <2>2. CASE r = t
      BY <1>5, <2>1, <2>2
    <2>3. CASE r # t
      BY <1>5, <1>6, <2>1, <2>3 DEF RotationInv, OlderWait
    <2> QED
      BY <2>2, <2>3
  <1>11. ListedTogether'
    <2> SUFFICES ASSUME NEW r \in tick'.todo, NEW s \in waiting'[r] \cap Pollable'
                 PROVE  s \in tick'.todo
      BY DEF ListedTogether
    <2>1. r \in tick.todo /\ r # t /\ r \in Rows
      BY <1>1, <1>2
    <2>2. s \in waiting[r] \cap Pollable /\ s # t
      BY <1>4, <1>6, <2>1
    <2> QED
      BY <1>2, <2>1, <2>2 DEF RotationInv, ListedTogether
  <1> QED
    BY <1>7, <1>8, <1>9, <1>10, <1>11 DEF RotationInv

LEMMA PollUnrecordedStep ==
    ASSUME RotationInv, NEW t \in Rows, PollUnrecorded(t)
    PROVE  RotationInv'
  <1>1. /\ t \in tick.todo /\ tick.todo \subseteq Rows /\ tick.todo \subseteq Pollable
        /\ UNCHANGED <<state, stamp>> /\ Pollable' = Pollable
    BY DEF RotationInv, RanksOK, TickTypes, PollUnrecorded, Oldest, Pollable
  <1>2. /\ tick' \in [running : BOOLEAN, todo : SUBSET Rows, left : Nat]
        /\ tick'.todo = tick.todo \ {t}
        /\ tick'.running => tick'.todo # {}
    BY <1>1, AfterRow DEF RotationInv, PollUnrecorded
  <1>3. /\ waiting' \in [Rows -> SUBSET Rows]
        /\ \A r \in Rows : waiting'[r] = waiting[r] \ {t}
    BY DEF RotationInv, TickTypes, PollUnrecorded
  <1>4. TickTypes'
    BY <1>1, <1>2, <1>3 DEF RotationInv, TickTypes
  <1>5. RanksOK'
    BY <1>1, <1>2 DEF RotationInv, RanksOK
  <1>6. (\A r \in Rows : \A s \in waiting[r] : state[s] \in {"acknowledged", "settled"})'
    BY <1>1, <1>3 DEF RotationInv
  <1>7. OlderWait'
    BY <1>1, <1>3 DEF RotationInv, OlderWait
  <1>8. ListedTogether'
    BY <1>1, <1>2, <1>3 DEF RotationInv, ListedTogether
  <1> QED
    BY <1>4, <1>5, <1>6, <1>7, <1>8 DEF RotationInv

LEMMA CutOffStep ==
    ASSUME RotationInv, CutOff
    PROVE  RotationInv'
  <1>1. UNCHANGED <<state, stamp, faults, waiting>> /\ tick' = Idle
    BY DEF CutOff
  <1>2. Pollable' = Pollable
    BY <1>1 DEF Pollable
  <1>3. TickTypes' /\ RanksOK'
    BY <1>1, <1>2 DEF RotationInv, TickTypes, RanksOK, Idle
  <1>4. OlderWait' /\ ListedTogether'
    BY <1>1, <1>2 DEF RotationInv, OlderWait, ListedTogether, Idle
  <1> QED
    BY <1>1, <1>3, <1>4 DEF RotationInv

LEMMA RotationStep == RotationInv /\ [Next]_vars => RotationInv'
  <1> SUFFICES ASSUME RotationInv, [Next]_vars PROVE RotationInv'
    OBVIOUS
  <1>1. ASSUME NEW r \in Rows, Submit(r) \/ Acknowledge(r) PROVE RotationInv'
    BY <1>1, ConsumerStep
  <1>2. CASE StartTick
    BY <1>2, StartTickStep
  <1>3. ASSUME NEW r \in Rows, Poll(r) PROVE RotationInv'
    BY <1>3, PollStep
  <1>4. ASSUME NEW r \in Rows, PollUnrecorded(r) PROVE RotationInv'
    BY <1>4, PollUnrecordedStep
  <1>5. CASE CutOff
    BY <1>5, CutOffStep
  <1>6. CASE UNCHANGED vars
    <2>1. Pollable' = Pollable /\ UNCHANGED <<state, stamp, tick, faults, waiting>>
      BY <1>6 DEF vars, Pollable
    <2> QED
      BY <2>1 DEF RotationInv, TickTypes, RanksOK, OlderWait, ListedTogether
  <1> QED
    BY <1>1, <1>2, <1>3, <1>4, <1>5, <1>6 DEF Next, TickStep

LEMMA RotationInvariant == Spec => []RotationInv
  BY RotationInit, RotationStep, PTL DEF Spec

-----------------------------------------------------------------------------
(* The stamps of any table are ranked, and a tick polls only rows that     *)
(* have their external id and are not settled.                             *)
THEOREM RanksAreRanks == Spec => []RanksOK
  BY RotationInvariant, PTL DEF RotationInv

(* The reconciler's loop over the list (reconciler.go) and the list's      *)
(* order and limit (store/request.go) make a rotation of any number of     *)
(* rows: none is polled twice while another one waits.                     *)
THEOREM PollsRotate == Spec => FairRotation
  <1>1. RotationInv /\ [Next]_vars
          => [\A r \in Rows : Poll(r) => waiting[r] \cap Pollable = {}]_vars
    BY OldestHasNoneWaiting DEF Poll
  <1> QED
    BY <1>1, RotationInvariant, PTL DEF Spec, FairRotation
=============================================================================
