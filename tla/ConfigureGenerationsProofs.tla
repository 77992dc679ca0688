---------------------- MODULE ConfigureGenerationsProofs ----------------------
(***************************************************************************)
(* What follows from ConfigureGenerations for everything that implements   *)
(* it: through failed Configure calls and crashes, for any number of them. *)
(***************************************************************************)
EXTENDS ConfigureGenerations, TLAPS

(* The inductive invariant: between its two switches a Configure has the   *)
(* two pools of the two parts open, and nothing else.                      *)
GInv ==
    /\ consumer \in Nat /\ reconciler \in Nat
    /\ \/ Settled
       \/ consumer = reconciler + 1 /\ open \subseteq {reconciler, consumer}
    /\ WorkersHavePools
    /\ TwoPools

LEMMA GInvInit == Init => GInv
  <1> SUFFICES ASSUME Init PROVE GInv
    OBVIOUS
  <1>1. open \subseteq {0, 0 + 1} /\ 0 \in Nat
    BY DEF Init
  <1> QED
    BY <1>1 DEF Init, GInv, Settled, WorkersHavePools, TwoPools

LEMMA GInvNext == GInv /\ [Next]_vars => GInv'
  <1> SUFFICES ASSUME GInv, [Next]_vars PROVE GInv'
    OBVIOUS
  <1>n. consumer \in Nat /\ reconciler \in Nat /\ WorkersHavePools
    BY DEF GInv
  <1>g. PICK g \in Nat : open \subseteq {g, g + 1}
    BY DEF GInv, TwoPools
  <1>1. CASE OpenPool
    <2>1. open' \subseteq {consumer, consumer + 1}
      BY <1>1 DEF OpenPool
    <2> QED
      BY <1>n, <1>1, <2>1 DEF OpenPool, GInv, Settled, WorkersHavePools, TwoPools
  <1>2. CASE SwitchConsumer
    <2>1. open' \subseteq {consumer, consumer + 1}
      BY <1>2 DEF SwitchConsumer
    <2>2. consumer' = reconciler' + 1 /\ consumer' \in Nat /\ reconciler' = consumer
      BY <1>n, <1>2 DEF SwitchConsumer, Settled
    <2>3. WorkersHavePools'
      BY <1>n, <1>2 DEF SwitchConsumer, Settled, WorkersHavePools
    <2> QED
      BY <1>n, <2>1, <2>2, <2>3 DEF GInv, TwoPools
  <1>3. CASE SwitchReconciler
    <2>1. TwoPools'
      BY <1>g, <1>3 DEF SwitchReconciler, TwoPools
    <2> QED
      BY <1>n, <1>3, <2>1 DEF SwitchReconciler, GInv, Settled, WorkersHavePools
  <1>4. CASE Close
    <2>1. TwoPools'
      BY <1>g, <1>4 DEF Close, TwoPools
    <2> QED
      BY <1>n, <1>4, <2>1 DEF Close, GInv, Settled, WorkersHavePools
  <1>5. CASE Crash
    <2>1. open' \subseteq {0, 0 + 1} /\ 0 \in Nat
      BY <1>5 DEF Crash
    <2> QED
      BY <1>5, <2>1 DEF Crash, GInv, Settled, WorkersHavePools, TwoPools
  <1>6. CASE UNCHANGED vars
    BY <1>6 DEF vars, GInv, Settled, WorkersHavePools, TwoPools
  <1> QED
    BY <1>1, <1>2, <1>3, <1>4, <1>5, <1>6 DEF Next

(* The consumer and the reconciler that are in force have an open pool     *)
(* each, at every moment of every Configure, and there are never more than *)
(* two pools.                                                              *)
THEOREM PoolsOfWorkers == Spec => [](WorkersHavePools /\ TwoPools)
  <1>1. GInv => WorkersHavePools /\ TwoPools
    BY DEF GInv
  <1> QED
    BY <1>1, GInvInit, GInvNext, PTL DEF Spec
=============================================================================
