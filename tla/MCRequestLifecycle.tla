-------------------------- MODULE MCRequestLifecycle --------------------------
(***************************************************************************)
(* RequestLifecycle for TLC: the plugin ids and the payloads of the model  *)
(* values the configurations use, and the symmetries of the safety runs.   *)
(***************************************************************************)
EXTENDS RequestLifecycle, TLC

CONSTANTS Ours, Theirs

(* Requests of the configurations: mine is routed by its first key;        *)
(* fallback has no first key, and its second one is ours; theirs names     *)
(* another backend first and this one only in a later key.                 *)
CONSTANTS mine, fallback, theirs

MCPluginIds == {Ours, Theirs}

MCPayload ==
    [r \in Requests |->
        CASE r = mine     -> <<Ours, None, Theirs>>
          [] r = fallback -> <<None, Ours, None>>
          [] r = theirs   -> <<Theirs, Ours, Ours>>]

MCAutoMonitor == [r \in Requests |-> r = mine]

Symmetry == Permutations(Handlers) \cup Permutations(Ticks) \cup Permutations(ExtIds)
=============================================================================
