------------------------- MODULE ConfigureGenerations -------------------------
(***************************************************************************)
(* What the Configure callback of cmd/.../main.go promises to everything   *)
(* that holds a store: the generations of the consumer's dependencies, of  *)
(* the Reconciler and of the database pools, and nothing of how settings   *)
(* are read or of what a failed Configure leaves undone.  PluginConfig,    *)
(* where Configure is a sequence of statements and switches, implements    *)
(* it; RequestLifecycle takes its three steps of Configure from here.      *)
(***************************************************************************)
EXTENDS Naturals

VARIABLES
    consumer,    \* generation of consumerDepsP, 0 before Configure
    reconciler,  \* generation of reconcilerPtr, 0 before Configure
    open         \* generations whose pool is open

vars == <<consumer, reconciler, open>>

Settled == consumer = reconciler

Init == consumer = 0 /\ reconciler = 0 /\ open = {}

(* The pool of the next generation, beside the one in use at most.         *)
OpenPool ==
    /\ Settled /\ open \subseteq {consumer}
    /\ open' = open \cup {consumer + 1}
    /\ UNCHANGED <<consumer, reconciler>>

SwitchConsumer ==
    /\ Settled /\ open \subseteq {consumer, consumer + 1}
    /\ consumer' = consumer + 1
    /\ open' = open \cup {consumer + 1}
    /\ UNCHANGED reconciler

SwitchReconciler ==
    /\ ~Settled
    /\ reconciler' = consumer
    /\ UNCHANGED <<consumer, open>>

(* The old pool when both have left it, or the new one of a Configure that *)
(* fails.                                                                  *)
Close ==
    /\ Settled
    /\ open' = open \cap {consumer}
    /\ UNCHANGED <<consumer, reconciler>>

Crash == consumer' = 0 /\ reconciler' = 0 /\ open' = {}

Next == OpenPool \/ SwitchConsumer \/ SwitchReconciler \/ Close \/ Crash

Spec == Init /\ [][Next]_vars

-----------------------------------------------------------------------------
(* Properties *)

(* What is handed out last works on an open pool (main.go:97-113).         *)
WorkersHavePools == {consumer, reconciler} \ {0} \subseteq open

(* There are never more than two pools, each of up to MaxConns connections *)
(* to the database (main.go:59-69).                                        *)
TwoPools == \E g \in Nat : open \subseteq {g, g + 1}
=============================================================================
