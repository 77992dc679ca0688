-------------------------- MODULE PluginConfigProofs --------------------------
(***************************************************************************)
(* Theorems about PluginConfig, for every set of patches, hosts, keys and  *)
(* faults: its types; that no client ever works with a base URL and a key  *)
(* that were not saved together; that Configure implements                 *)
(* ConfigureGenerations; that at rest every part works with the row; and   *)
(* that nothing but a save changes a row the operator saved.               *)
(***************************************************************************)
EXTENDS PluginConfig, TLAPS

(* What is stored, built and merged of a configuration is well-typed.      *)
LEMMA ConfigTypes ==
    ASSUME NEW c \in Config
    PROVE  /\ Settings(c) \in ClientSettings
           /\ Storable(c) \in Config /\ Storable(c).cover # None
           /\ Pair(Storable(c)) = Pair(c) /\ Pair(Settings(c)) = Pair(c)
           /\ Pair(c) \in Pairs /\ Pair(c) \in Shown
           /\ c.secret \in Secrets \cup {None} /\ c.key \in Keys \cup {None}
  <1>1. normalizeCoverSize(c.cover) \in {"thumbnail", "medium", "original"}
    BY DEF normalizeCoverSize
  <1>2. None \notin CoverSizes /\ "medium" \in CoverSizes
    BY ConfigAssumption DEF CoverSizes
  <1> QED
    BY <1>1, <1>2 DEF Config, Settings, ClientSettings, Storable, Pair, Pairs, Shown

LEMMA LegacyType ==
    ASSUME NEW c \in Config, NEW current \in Config PROVE Legacy(c, current) \in Config
  BY DEF Legacy, Config

LEMMA KeptKeyType ==
    ASSUME NEW body \in Config, NEW key \in Keys \cup {None}
    PROVE  KeptKey(body, key) \in Config
  BY DEF KeptKey, Config

(* The constants the variables start from, and are reset to.               *)
LEMMA IdleTypes ==
    /\ NoConfig \in Config
    /\ DefaultAppConfig \in Config /\ DefaultAppConfig.cover # None
    /\ IdleConfigure \in [pc : ConfigurePC, gen : Gens, cfg : Config, host : Config,
                          alone : BOOLEAN]
    /\ IdlePatch \in [pc : PatchPC, gen : Gens, body : Config, cur : Keys \cup {None}]
    /\ Forgotten \in [Gens -> ClientSettings]
    /\ Nowhere \in [Parts -> Gens]
  <1>1. NoConfig \in Config
    BY DEF NoConfig, Config
  <1>2. DefaultAppConfig \in Config /\ DefaultAppConfig.cover # None
    BY ConfigAssumption DEF DefaultAppConfig, Config, CoverSizes
  <1>3. 0 \in Gens
    BY LimitAssumption DEF Gens
  <1> QED
    BY <1>1, <1>2, <1>3, ConfigTypes
       DEF IdleConfigure, IdlePatch, ConfigurePC, PatchPC, Forgotten, Nowhere

(* Store keeps the types, and the pair of what it stores.                  *)
LEMMA StoreKeeps ==
    ASSUME ConfigTypeOK, NEW c \in Config, Store(c)
    PROVE  /\ stored' \in Config /\ stored'.cover # None
           /\ pairs' \subseteq Pairs /\ pairs \subseteq pairs'
           /\ Pair(stored') \in pairs' /\ Pair(c) \in pairs'
  BY ConfigTypes DEF Store, ConfigTypeOK

LEMMA FaultCounts ==
    ASSUME ConfigTypeOK, NEW kind, Fault(kind) PROVE faults' \in 0..MaxFaults
  BY LimitAssumption DEF Fault, ConfigTypeOK

LEMMA TypeInit == Init => ConfigTypeOK
  <1> SUFFICES ASSUME Init PROVE ConfigTypeOK
    OBVIOUS
  <1>1. Pair(NoConfig) \in Shown /\ Pair(DefaultAppConfig) \in Pairs
    BY IdleTypes, ConfigTypes
  <1>2. /\ shown \in [Gens -> Shown] /\ secret \in [Gens -> Secrets \cup {None}]
        /\ pairs \subseteq Pairs
    <2>1. shown = [g \in Gens |-> Pair(NoConfig)] /\ secret = [g \in Gens |-> None]
          /\ pairs = {Pair(DefaultAppConfig)}
      BY DEF Init
    <2> QED
      BY <1>1, <2>1
  <1>6. faults \in 0..MaxFaults
    BY LimitAssumption DEF Init
  <1>7. apart \in BOOLEAN
    BY DEF Init
  <1>3. /\ stored \in Config /\ stored.cover # None /\ host \in Config
        /\ client \in [Gens -> ClientSettings]
        /\ serving \in [Parts -> Gens] /\ open \subseteq Gens
    BY IdleTypes DEF Init
  <1>4. configure \in [pc : ConfigurePC, gen : Gens, cfg : Config, host : Config,
                       alone : BOOLEAN]
    BY IdleTypes DEF Init
  <1>5. patch \in [Patches -> [pc : PatchPC, gen : Gens, body : Config,
                               cur : Keys \cup {None}]]
    BY IdleTypes DEF Init
  <1> QED
    BY <1>2, <1>3, <1>4, <1>5, <1>6, <1>7 DEF ConfigTypeOK

LEMMA ConfigureTypes ==
    ASSUME ConfigTypeOK,
           ConfigureStep \/ \E c \in HostConfigs : StartConfigure(c)
    PROVE  ConfigTypeOK'
  <1> DEFINE Call == [pc : ConfigurePC, gen : Gens, cfg : Config, host : Config,
                      alone : BOOLEAN]
  <1>t. /\ stored \in Config /\ configure \in Call
        /\ configure.cfg \in Config /\ configure.gen \in Gens /\ configure.host \in Config
        /\ configure.alone \in BOOLEAN
        /\ serving \in [Parts -> Gens] /\ "http" \in Parts /\ faults \in 0..MaxFaults
        /\ apart \in BOOLEAN
    BY DEF ConfigTypeOK, Parts
  <1>p. ASSUME NEW pc \in ConfigurePC, configure' = [configure EXCEPT !.pc = pc]
        PROVE  configure' \in Call
    BY <1>t, <1>p
  <1>q. ASSUME NEW pc \in ConfigurePC, NEW c \in Config,
               configure' = [configure EXCEPT !.pc = pc, !.cfg = c]
        PROVE  configure' \in Call
    BY <1>t, <1>q
  <1>1. ASSUME NEW c \in HostConfigs, StartConfigure(c) PROVE ConfigTypeOK'
    <2>1. serving["http"] + 1 \in Gens /\ c \in Config
      BY <1>t, <1>1, LimitAssumption, ConfigAssumption DEF StartConfigure, Gens
    <2>2. configure' \in Call
      BY <1>1, <2>1 DEF StartConfigure, ConfigurePC, Patching
    <2>3. apart' \in BOOLEAN
      BY <1>1, <1>t DEF StartConfigure, Patching
    <2> QED
      BY <1>1, <2>1, <2>2, <2>3 DEF StartConfigure, ConfigTypeOK, memory
  <1>2. CASE ImportRead
    <2>1. configure' \in Call
      <3>1. CASE Promotes(configure.cfg, stored)
        BY <1>q, <1>t, <1>2, <3>1, LegacyType DEF ImportRead, ConfigurePC
      <3>2. CASE ~Promotes(configure.cfg, stored)
        BY <1>q, <1>t, <1>2, <3>2 DEF ImportRead, ConfigurePC
      <3> QED
        BY <3>1, <3>2
    <2> QED
      BY <1>2, <2>1 DEF ImportRead, ConfigTypeOK, memory
  <1>3. CASE ImportWrite
    <2>1. configure' \in Call
      BY <1>p, <1>3 DEF ImportWrite, ConfigurePC
    <2> QED
      BY <1>3, <1>t, <2>1, StoreKeeps DEF ImportWrite, ConfigTypeOK, memory
  <1>4. CASE ImportReread
    <2>1. configure' \in Call
      BY <1>q, <1>t, <1>4 DEF ImportReread, ConfigurePC
    <2> QED
      BY <1>4, <2>1 DEF ImportReread, ConfigTypeOK, memory
  <1>5. CASE ImportFails
    <2>1. /\ stored' \in Config /\ stored'.cover # None /\ pairs' \subseteq Pairs
          /\ faults' \in 0..MaxFaults
      BY <1>5, <1>t, StoreKeeps, FaultCounts DEF ImportFails, ConfigTypeOK
    <2>2. apart' \in BOOLEAN
      BY <1>5, <1>t DEF ImportFails
    <2> QED
      BY <1>5, <2>1, <2>2, IdleTypes DEF ImportFails, ConfigTypeOK, memory
  <1>6. CASE SwitchHttp
    <2>1. configure' \in Call
      BY <1>p, <1>6 DEF SwitchHttp, ConfigurePC
    <2> QED
      BY <1>6, <1>t, <2>1, ConfigTypes DEF SwitchHttp, ConfigTypeOK
  <1>7. CASE SwitchConsumer
    <2>1. configure' \in Call
      BY <1>p, <1>7 DEF SwitchConsumer, ConfigurePC
    <2> QED
      BY <1>7, <1>t, <2>1 DEF SwitchConsumer, ConfigTypeOK
  <1>8. CASE SwitchReconciler
    <2>1. configure' \in Call
      BY <1>p, <1>8 DEF SwitchReconciler, ConfigurePC
    <2> QED
      BY <1>8, <1>t, <2>1 DEF SwitchReconciler, ConfigTypeOK
  <1>9. CASE FinishConfigure
    BY <1>9, <1>t, IdleTypes DEF FinishConfigure, ConfigTypeOK, memory
  <1> QED
    BY <1>1, <1>2, <1>3, <1>4, <1>5, <1>6, <1>7, <1>8, <1>9 DEF ConfigureStep

LEMMA PatchTypes ==
    ASSUME ConfigTypeOK, NEW p \in Patches,
           PatchStep(p) \/ \E body \in Bodies : ReadConfig(p, body)
    PROVE  ConfigTypeOK'
  <1> DEFINE Call == [pc : PatchPC, gen : Gens, body : Config, cur : Keys \cup {None}]
  <1>t. /\ stored \in Config /\ faults \in 0..MaxFaults /\ apart \in BOOLEAN
        /\ patch \in [Patches -> Call] /\ serving \in [Parts -> Gens] /\ "http" \in Parts
        /\ client \in [Gens -> ClientSettings] /\ shown \in [Gens -> Shown]
    BY DEF ConfigTypeOK, Parts
  <1>m. ASSUME NEW q \in Patches
        PROVE  Merged(q) \in Config /\ patch[q].gen \in Gens
    BY <1>t, KeptKeyType DEF Merged
  <1>p. ASSUME NEW pc \in PatchPC, patch' = [patch EXCEPT ![p].pc = pc]
        PROVE  patch' \in [Patches -> Call]
    BY <1>t, <1>p
  <1>1. ASSUME NEW body \in Bodies, ReadConfig(p, body) PROVE ConfigTypeOK'
    <2> DEFINE k == [pc |-> "read", gen |-> serving["http"], body |-> body,
                     cur |-> stored.key]
    <2>1. k \in Call
      BY <1>t, ConfigAssumption, ConfigTypes DEF PatchPC
    <2>2. patch' = [patch EXCEPT ![p] = k]
      BY <1>1 DEF ReadConfig
    <2> HIDE DEF k
    <2>3. patch' \in [Patches -> Call]
      BY <1>t, <2>1, <2>2
    <2>4. apart' \in BOOLEAN
      BY <1>1, <1>t DEF ReadConfig, Patching, Configuring
    <2>5. configure' \in [pc : ConfigurePC, gen : Gens, cfg : Config, host : Config,
                          alone : BOOLEAN]
      BY <1>1 DEF ReadConfig, ConfigTypeOK
    <2> QED
      BY <1>1, <2>3, <2>4, <2>5 DEF ReadConfig, ConfigTypeOK, memory
  <1>2. CASE PersistConfig(p)
    <2>1. patch' \in [Patches -> Call]
      BY <1>p, <1>2 DEF PersistConfig, PatchPC
    <2> QED
      BY <1>2, <1>m, <2>1, StoreKeeps DEF PersistConfig, ConfigTypeOK, memory
  <1>3. CASE PersistFails(p)
    <2>1. patch' \in [Patches -> Call]
      BY <1>3, <1>t, IdleTypes DEF PersistFails
    <2>2. /\ stored' \in Config /\ stored'.cover # None /\ pairs' \subseteq Pairs
          /\ faults' \in 0..MaxFaults /\ apart' \in BOOLEAN
      <3>1. CASE UNCHANGED <<stored, pairs, faults, apart>>
        BY <3>1 DEF ConfigTypeOK
      <3>2. CASE Fault("db") /\ UNCHANGED <<stored, pairs, apart>>
        BY <3>2, FaultCounts DEF ConfigTypeOK
      <3>3. CASE Fault("lost") /\ Store(Merged(p)) /\ apart' = TRUE
        BY <3>3, <1>m, StoreKeeps, FaultCounts
      <3> QED
        BY <1>3, <3>1, <3>2, <3>3 DEF PersistFails
    <2> QED
      BY <1>3, <2>1, <2>2 DEF PersistFails, ConfigTypeOK, memory
  <1>4. CASE ShowConfig(p)
    <2>1. patch' \in [Patches -> Call]
      BY <1>p, <1>4 DEF ShowConfig, PatchPC
    <2>2. shown' \in [Gens -> Shown]
      <3> DEFINE racing == {q \in Patches : patch[q].pc = "show" /\ patch[q].gen = patch[p].gen}
      <3>1. /\ Raced({Merged(q).base : q \in racing}) \subseteq Bases \cup {None, Torn}
            /\ Raced({Merged(q).key : q \in racing}) \subseteq Keys \cup {None, Torn}
        BY <1>m DEF Raced, Config
      <3>2. PICK base \in Bases \cup {None, Torn}, key \in Keys \cup {None, Torn} :
              shown' = [shown EXCEPT ![patch[p].gen] = [base |-> base, key |-> key]]
        BY <1>4, <3>1 DEF ShowConfig
      <3>3. [base |-> base, key |-> key] \in Shown
        BY DEF Shown
      <3> QED
        BY <1>t, <3>2, <3>3
    <2> QED
      BY <1>4, <2>1, <2>2 DEF ShowConfig, ConfigTypeOK
  <1>5. CASE ReconfigureClient(p)
    <2>1. patch' \in [Patches -> Call]
      BY <1>p, <1>5 DEF ReconfigureClient, PatchPC
    <2>2. client' \in [Gens -> ClientSettings]
      <3> DEFINE s == client[patch[p].gen]
      <3>1. s \in ClientSettings /\ Merged(p) \in Config
        BY <1>t, <1>m
      <3>2. Reconfigured(s, Merged(p)) \in ClientSettings
        BY <3>1 DEF Reconfigured, ClientSettings, Config
      <3>3. client' = [client EXCEPT ![patch[p].gen] = Reconfigured(s, Merged(p))]
        BY <1>5 DEF ReconfigureClient
      <3> QED
        BY <1>t, <3>2, <3>3
    <2> QED
      BY <1>5, <2>1, <2>2 DEF ReconfigureClient, ConfigTypeOK
  <1>6. CASE SetDefaultCoverSize(p)
    <2>1. patch' \in [Patches -> Call]
      BY <1>6, <1>t, IdleTypes DEF SetDefaultCoverSize
    <2>2. client' \in [Gens -> ClientSettings]
      <3> DEFINE size == normalizeCoverSize(Merged(p).cover)
      <3>1. size \in {"thumbnail", "medium", "original"}
        BY DEF normalizeCoverSize
      <3>2. client' = [client EXCEPT ![patch[p].gen].cover = size]
        BY <1>6 DEF SetDefaultCoverSize
      <3> HIDE DEF size
      <3> QED
        BY <1>t, <3>1, <3>2 DEF ClientSettings
    <2> QED
      BY <1>6, <2>1, <2>2 DEF SetDefaultCoverSize, ConfigTypeOK
  <1> QED
    BY <1>1, <1>2, <1>3, <1>4, <1>5, <1>6 DEF PatchStep

LEMMA TypeNext == ConfigTypeOK /\ [Next]_vars => ConfigTypeOK'
  <1> SUFFICES ASSUME ConfigTypeOK, [Next]_vars PROVE ConfigTypeOK'
    OBVIOUS
  <1>1. CASE Crash
    <2>1. faults' \in 0..MaxFaults
      BY <1>1, FaultCounts DEF Crash
    <2>2. Pair(NoConfig) \in Shown
      BY IdleTypes, ConfigTypes
    <2>3. shown' \in [Gens -> Shown] /\ secret' \in [Gens -> Secrets \cup {None}]
      BY <1>1, <2>2 DEF Crash
    <2> QED
      BY <1>1, <2>1, <2>3, IdleTypes DEF Crash, ConfigTypeOK
  <1>2. CASE UNCHANGED vars
    BY <1>2 DEF vars, ConfigTypeOK
  <1> QED
    BY <1>1, <1>2, ConfigureTypes, PatchTypes DEF Next

(* Every variable keeps its type: the row is never without a cover size,   *)
(* and clients only hold the three sizes the upstream knows.               *)
THEOREM SettingsAreTyped == Spec => []ConfigTypeOK
  BY TypeInit, TypeNext, PTL DEF Spec

-----------------------------------------------------------------------------
(* The pairs: nothing is forgotten of what was saved, so what a Configure  *)
(* or a save knows to have been saved stays saved.                         *)
LEMMA PairsGrow ==
    ASSUME ConfigTypeOK, [Next]_vars
    PROVE  pairs \subseteq pairs' /\ (Pair(stored) \in pairs => Pair(stored') \in pairs')
  <1>m. ASSUME NEW p \in Patches PROVE Merged(p) \in Config
    BY KeptKeyType DEF Merged, ConfigTypeOK
  <1>c. configure.cfg \in Config
    BY DEF ConfigTypeOK
  <1>1. CASE UNCHANGED <<stored, pairs>>
    BY <1>1
  <1>2. ASSUME NEW c \in Config, Store(c)
        PROVE  pairs \subseteq pairs' /\ Pair(stored') \in pairs'
    BY <1>2, StoreKeeps
  <1>3. UNCHANGED <<stored, pairs>> \/ \E c \in Config : Store(c)
    BY <1>m, <1>c
       DEF Next, vars, StartConfigure, ConfigureStep, ImportRead, ImportWrite, ImportReread,
           ImportFails, SwitchHttp, SwitchConsumer, SwitchReconciler, FinishConfigure,
           ReadConfig, PatchStep, PersistConfig, PersistFails, ShowConfig,
           ReconfigureClient, SetDefaultCoverSize, Crash
  <1> QED
    BY <1>1, <1>2, <1>3

(* A step that changes no client and no Configure, and moves no part of    *)
(* the plugin, leaves what they know as it is.                             *)
LEMMA ClientsKept ==
    ASSUME pairs \subseteq pairs', UNCHANGED <<client, serving>>
    PROVE  /\ SavedTogether => SavedTogether'
           /\ configure'.pc = configure.pc /\ configure'.gen = configure.gen
              /\ configure'.cfg = configure.cfg /\ ConfigureKnows => ConfigureKnows'
  BY DEF SavedTogether, ConfigureKnows

(* Saves in flight keep their knowledge while they do not move.            *)
PatchKnows(q) == patch[q].pc \in Handing => Pair(Merged(q)) \in pairs

LEMMA PatchKept ==
    ASSUME pairs \subseteq pairs', NEW q \in Patches, PatchKnows(q), patch'[q] = patch[q]
    PROVE  PatchKnows(q)'
  BY DEF PatchKnows, Merged

LEMMA ConfigurePairs ==
    ASSUME ConfigTypeOK, PairsKept, pairs \subseteq pairs', Pair(stored') \in pairs',
           ConfigureStep \/ \E c \in HostConfigs : StartConfigure(c)
    PROVE  PairsKept'
  <1>t. /\ configure.cfg \in Config /\ configure.gen \in Gens /\ stored \in Config
        /\ client \in [Gens -> ClientSettings] /\ serving \in [Parts -> Gens]
        /\ configure \in [pc : ConfigurePC, gen : Gens, cfg : Config, host : Config,
                          alone : BOOLEAN]
    BY DEF ConfigTypeOK
  <1>p. (\A q \in Patches : patch[q].pc \in Handing => Pair(Merged(q)) \in pairs)'
    <2>1. UNCHANGED patch
      BY DEF StartConfigure, ConfigureStep, ImportRead, ImportWrite, ImportReread,
             ImportFails, SwitchHttp, SwitchConsumer, SwitchReconciler, FinishConfigure
    <2> QED
      BY <2>1 DEF PairsKept, Merged
  <1>s. UNCHANGED <<client, serving>> => SavedTogether'
    BY ClientsKept DEF PairsKept
  <1>1. ASSUME NEW c \in HostConfigs, StartConfigure(c) PROVE PairsKept'
    BY <1>1, <1>p, <1>s DEF StartConfigure, memory, PairsKept, ConfigureKnows
  <1>2. CASE ImportRead
    <2>1. ConfigureKnows'
      BY <1>2, <1>t DEF ImportRead, ConfigureKnows, PairsKept
    <2> QED
      BY <1>2, <1>p, <1>s, <2>1 DEF ImportRead, memory, PairsKept
  <1>3. CASE ImportWrite
    BY <1>3, <1>t, <1>p, <1>s DEF ImportWrite, memory, PairsKept, ConfigureKnows
  <1>4. CASE ImportReread
    BY <1>4, <1>t, <1>p, <1>s DEF ImportReread, memory, PairsKept, ConfigureKnows
  <1>5. CASE ImportFails
    BY <1>5, <1>p, <1>s DEF ImportFails, memory, PairsKept, ConfigureKnows, IdleConfigure
  <1>6. CASE SwitchHttp
    <2>1. Pair(client'[configure.gen]) \in pairs'
      BY <1>6, <1>t, ConfigTypes DEF SwitchHttp, PairsKept, ConfigureKnows
    <2>2. \A g \in Gens : g # configure.gen => client'[g] = client[g]
      BY <1>6, <1>t DEF SwitchHttp
    <2>3. SavedTogether'
      BY <1>6, <1>t, <2>1, <2>2 DEF SwitchHttp, PairsKept, SavedTogether
    <2>4. ConfigureKnows'
      BY <1>6, <1>t, <2>1 DEF SwitchHttp, ConfigureKnows
    <2> QED
      BY <1>p, <2>3, <2>4 DEF PairsKept
  <1>7. CASE SwitchConsumer
    <2>1. SavedTogether' /\ ConfigureKnows'
      BY <1>7, <1>t DEF SwitchConsumer, PairsKept, SavedTogether, ConfigureKnows
    <2> QED
      BY <1>p, <2>1 DEF PairsKept
  <1>8. CASE SwitchReconciler
    <2>1. SavedTogether' /\ ConfigureKnows'
      BY <1>8, <1>t DEF SwitchReconciler, PairsKept, SavedTogether, ConfigureKnows
    <2> QED
      BY <1>p, <2>1 DEF PairsKept
  <1>9. CASE FinishConfigure
    BY <1>9, <1>p, <1>s
       DEF FinishConfigure, memory, PairsKept, ConfigureKnows, IdleConfigure
  <1> QED
    BY <1>1, <1>2, <1>3, <1>4, <1>5, <1>6, <1>7, <1>8, <1>9 DEF ConfigureStep

LEMMA PatchPairs ==
    ASSUME ConfigTypeOK, PairsKept, pairs \subseteq pairs', Pair(stored') \in pairs',
           NEW p \in Patches,
           PatchStep(p) \/ \E body \in Bodies : ReadConfig(p, body)
    PROVE  PairsKept'
  <1> DEFINE Call == [pc : PatchPC, gen : Gens, body : Config, cur : Keys \cup {None}]
  <1>t. /\ patch \in [Patches -> Call] /\ patch[p] \in Call /\ patch[p].gen \in Gens
        /\ client \in [Gens -> ClientSettings] /\ serving \in [Parts -> Gens]
        /\ configure \in [pc : ConfigurePC, gen : Gens, cfg : Config, host : Config,
                          alone : BOOLEAN]
        /\ Merged(p) \in Config
    BY KeptKeyType DEF ConfigTypeOK, Merged
  <1>o. \A q \in Patches : PatchKnows(q)
    BY DEF PairsKept, PatchKnows
  <1>q. ASSUME NEW k, patch' = [patch EXCEPT ![p] = k], PatchKnows(p)'
        PROVE  (\A q \in Patches : patch[q].pc \in Handing => Pair(Merged(q)) \in pairs)'
    <2> SUFFICES ASSUME NEW q \in Patches PROVE PatchKnows(q)'
      BY DEF PatchKnows
    <2>1. CASE q = p
      BY <1>q, <2>1
    <2>2. CASE q # p
      <3>1. patch'[q] = patch[q]
        BY <1>t, <1>q, <2>2
      <3> QED
        BY <1>o, <3>1, PatchKept
    <2> QED
      BY <2>1, <2>2
  <1>m. ASSUME NEW pc \in PatchPC, patch' = [patch EXCEPT ![p].pc = pc]
        PROVE  /\ patch' = [patch EXCEPT ![p] = [patch[p] EXCEPT !.pc = pc]]
               /\ Merged(p)' = Merged(p)
    BY <1>t, <1>m DEF Merged
  <1>i. ASSUME patch' = [patch EXCEPT ![p] = IdlePatch]
        PROVE  (\A q \in Patches : patch[q].pc \in Handing => Pair(Merged(q)) \in pairs)'
    <2>1. PatchKnows(p)'
      BY <1>t, <1>i DEF PatchKnows, IdlePatch, Handing
    <2> QED
      BY <1>i, <1>q, <2>1
  <1>c. ASSUME NEW g \in Gens, Pair(client'[g]) \in pairs',
               \A f \in Gens : f # g => client'[f] = client[f],
               UNCHANGED <<serving, configure>>
        PROVE  SavedTogether' /\ ConfigureKnows'
    BY <1>c, <1>t DEF PairsKept, SavedTogether, ConfigureKnows
  <1>s. UNCHANGED <<client, serving>> /\ configure'.pc = configure.pc
          /\ configure'.gen = configure.gen /\ configure'.cfg = configure.cfg
            => SavedTogether' /\ ConfigureKnows'
    BY ClientsKept DEF PairsKept
  <1>1. ASSUME NEW body \in Bodies, ReadConfig(p, body) PROVE PairsKept'
    <2> DEFINE k == [pc |-> "read", gen |-> serving["http"], body |-> body,
                     cur |-> stored.key]
    <2>1. patch' = [patch EXCEPT ![p] = k] /\ patch'[p] = k
      BY <1>1, <1>t DEF ReadConfig
    <2>2. PatchKnows(p)'
      BY <2>1 DEF PatchKnows, Handing
    <2> HIDE DEF k
    <2>3. (\A q \in Patches : patch[q].pc \in Handing => Pair(Merged(q)) \in pairs)'
      BY <1>q, <2>1, <2>2
    <2>4. SavedTogether' /\ ConfigureKnows'
      BY <1>1, <1>s, <1>t DEF ReadConfig, memory
    <2> QED
      BY <2>3, <2>4 DEF PairsKept
  <1>2. CASE PersistConfig(p)
    <2>1. Pair(Merged(p)) \in pairs' /\ patch' = [patch EXCEPT ![p].pc = "show"]
      BY <1>2, <1>t, StoreKeeps DEF PersistConfig
    <2>2. PatchKnows(p)'
      BY <1>m, <2>1 DEF PatchKnows, PatchPC
    <2> QED
      BY <1>2, <1>m, <1>q, <1>s, <2>1, <2>2 DEF PersistConfig, memory, PairsKept, PatchPC
  <1>3. CASE PersistFails(p)
    BY <1>3, <1>i, <1>s DEF PersistFails, memory, PairsKept
  <1>4. CASE ShowConfig(p)
    <2>1. patch[p].pc \in Handing /\ patch' = [patch EXCEPT ![p].pc = "reconfigure"]
      BY <1>4 DEF ShowConfig, Handing
    <2>2. PatchKnows(p)'
      BY <1>m, <1>o, <2>1 DEF PatchKnows, PatchPC
    <2> QED
      BY <1>4, <1>m, <1>q, <1>s, <2>1, <2>2 DEF ShowConfig, PairsKept, PatchPC
  <1>5. CASE ReconfigureClient(p)
    <2>1. patch[p].pc \in Handing /\ patch' = [patch EXCEPT ![p].pc = "cover"]
      BY <1>5 DEF ReconfigureClient, Handing
    <2>2. PatchKnows(p)'
      BY <1>m, <1>o, <2>1 DEF PatchKnows, PatchPC
    <2>3. Pair(client'[patch[p].gen]) \in pairs'
      <3>1. client'[patch[p].gen] = Reconfigured(client[patch[p].gen], Merged(p))
        BY <1>5, <1>t DEF ReconfigureClient
      <3>2. Pair(client'[patch[p].gen]) = Pair(Merged(p))
        BY <1>t, <3>1 DEF Reconfigured, Pair, ClientSettings
      <3> QED
        BY <1>o, <2>1, <3>2 DEF PatchKnows
    <2>4. SavedTogether' /\ ConfigureKnows'
      BY <1>5, <1>t, <1>c, <2>3 DEF ReconfigureClient
    <2> QED
      BY <1>m, <1>q, <2>1, <2>2, <2>4 DEF PairsKept, PatchPC
  <1>6. CASE SetDefaultCoverSize(p)
    <2>1. patch' = [patch EXCEPT ![p] = IdlePatch] /\ UNCHANGED <<serving, configure>>
      BY <1>6 DEF SetDefaultCoverSize
    <2>2. \A f \in Gens : Pair(client'[f]) = Pair(client[f])
      BY <1>6, <1>t DEF SetDefaultCoverSize, Pair, ClientSettings
    <2>3. SavedTogether' /\ ConfigureKnows'
      BY <1>t, <2>1, <2>2 DEF PairsKept, SavedTogether, ConfigureKnows
    <2> QED
      BY <1>i, <2>1, <2>3 DEF PairsKept
  <1> QED
    BY <1>1, <1>2, <1>3, <1>4, <1>5, <1>6 DEF PatchStep

LEMMA PairsInit == Init => PairsKept
  BY DEF Init, PairsKept, ConfigureKnows, SavedTogether, IdleConfigure, IdlePatch, Nowhere,
         Handing

LEMMA PairsNext == ConfigTypeOK /\ PairsKept /\ [Next]_vars => PairsKept'
  <1> SUFFICES ASSUME ConfigTypeOK, PairsKept, [Next]_vars PROVE PairsKept'
    OBVIOUS
  <1>g. pairs \subseteq pairs' /\ Pair(stored') \in pairs'
    BY PairsGrow DEF PairsKept
  <1>1. CASE Crash
    BY <1>1, <1>g
       DEF Crash, PairsKept, ConfigureKnows, SavedTogether, IdleConfigure, IdlePatch,
           Nowhere, Handing
  <1>2. CASE UNCHANGED vars
    BY <1>2 DEF vars, PairsKept, ConfigureKnows, SavedTogether, Merged
  <1> QED
    BY <1>1, <1>2, <1>g, ConfigurePairs, PatchPairs DEF Next

(* Why no key reaches a foreign upstream, whatever saves, Configure calls  *)
(* and crashes interleave: the inductive invariant.                        *)
THEOREM PairsAreKept == Spec => []PairsKept
  BY TypeInit, TypeNext, PairsInit, PairsNext, PTL DEF Spec

(* No client works with a base URL and a key that were not saved together. *)
THEOREM KeysStayWithTheirUpstream == Spec => []SavedTogether
  <1>1. PairsKept => SavedTogether
    BY DEF PairsKept
  <1> QED
    BY <1>1, PairsAreKept, PTL

-----------------------------------------------------------------------------
(* Where a Configure stands says which generation each part works with and *)
(* which pools are open.                                                   *)
Settled == serving["consumer"] = serving["reconciler"]
Building == {"import", "promote", "reread", "http"}

GenInv ==
    LET http == serving["http"]  c == serving["consumer"]  g == configure.gen
    IN  /\ configure.pc \in ConfigurePC
        /\ http \in Nat /\ c \in Nat
        /\ configure.pc = "idle" => Settled /\ http = c /\ open \subseteq {c}
        /\ configure.pc \in Building =>
             Settled /\ http = c /\ g = c + 1 /\ open \subseteq {c, g} /\ g \in open
        /\ configure.pc = "consumer" =>
             Settled /\ http = g /\ g = c + 1 /\ open \subseteq {c, g} /\ g \in open
        /\ configure.pc = "reconciler" => ~Settled /\ http = g /\ c = g /\ g \in open
        /\ configure.pc = "close" => Settled /\ http = g /\ c = g /\ g \in open

LEMMA GenInvInit == Init => GenInv /\ Generations!Init
  BY DEF Init, GenInv, Settled, ConfigurePC, Building, Nowhere, Parts, IdleConfigure,
         Generations!Init

LEMMA GenInvNext ==
    ASSUME ConfigTypeOK, GenInv, [Next]_vars
    PROVE  GenInv' /\ [Generations!Next]_(Generations!vars)
  <1> DEFINE Goal == GenInv' /\ [Generations!Next]_(Generations!vars)
  <1>t. /\ serving \in [Parts -> Gens] /\ {"http", "consumer", "reconciler"} = Parts
        /\ configure \in [pc : ConfigurePC, gen : Gens, cfg : Config, host : Config,
                          alone : BOOLEAN]
    BY DEF ConfigTypeOK, Parts
  <1>1. ASSUME NEW c \in HostConfigs, StartConfigure(c) PROVE Goal
    <2>1. /\ configure.pc = "idle" /\ UNCHANGED serving
          /\ configure'.pc = "import" /\ configure'.gen = serving["http"] + 1
          /\ open' = open \cup {serving["http"] + 1}
      BY <1>1 DEF StartConfigure, Configuring, memory
    <2>2. /\ Settled /\ serving["http"] = serving["consumer"]
          /\ open \subseteq {serving["consumer"]}
          /\ serving["consumer"] \in Nat
      BY <2>1 DEF GenInv
    <2>3. GenInv'
      BY <2>1, <2>2 DEF GenInv, Settled, Building, ConfigurePC
    <2>4. Generations!OpenPool
      BY <2>1, <2>2 DEF Settled, Generations!OpenPool, Generations!Settled
    <2> QED
      BY <2>3, <2>4 DEF Generations!Next
  <1>2. CASE ImportRead \/ ImportWrite \/ ImportReread \/ SwitchHttp
    <2>1. UNCHANGED open /\ configure'.gen = configure.gen
          /\ serving'["consumer"] = serving["consumer"]
          /\ serving'["reconciler"] = serving["reconciler"]
      BY <1>2, <1>t DEF ImportRead, ImportWrite, ImportReread, SwitchHttp, memory
    <2>2. configure.pc \in Building
      BY <1>2 DEF ImportRead, ImportWrite, ImportReread, SwitchHttp, Building
    <2>3. \/ configure'.pc \in Building /\ UNCHANGED serving
          \/ configure'.pc = "consumer" /\ serving'["http"] = configure.gen
      BY <1>2, <1>t
         DEF ImportRead, ImportWrite, ImportReread, SwitchHttp, Building, memory
    <2>4. UNCHANGED Generations!vars
      BY <2>1 DEF Generations!vars
    <2>5. GenInv'
      BY <2>1, <2>2, <2>3 DEF GenInv, Settled, Building, ConfigurePC
    <2> QED
      BY <2>4, <2>5
  <1>3. CASE ImportFails
    BY <1>3, <1>t DEF ImportFails, IdleConfigure, memory, GenInv, Settled, Building,
       ConfigurePC, Generations!Next, Generations!Close, Generations!Settled
  <1>4. CASE SwitchConsumer
    BY <1>4, <1>t DEF SwitchConsumer, GenInv, Settled, Building, ConfigurePC,
       Generations!Next, Generations!SwitchConsumer, Generations!Settled
  <1>5. CASE SwitchReconciler
    BY <1>5, <1>t DEF SwitchReconciler, GenInv, Settled, Building, ConfigurePC,
       Generations!Next, Generations!SwitchReconciler, Generations!Settled
  <1>6. CASE FinishConfigure
    BY <1>6, <1>t DEF FinishConfigure, IdleConfigure, memory, GenInv, Settled, Building,
       ConfigurePC, Generations!Next, Generations!Close, Generations!Settled
  <1>7. CASE Crash
    BY <1>7 DEF Crash, IdleConfigure, Nowhere, Parts, GenInv, Settled, Building,
       ConfigurePC, Generations!Next, Generations!Crash
  <1>8. ASSUME UNCHANGED <<serving, open>>, configure'.pc = configure.pc,
               configure'.gen = configure.gen
        PROVE  Goal
    BY <1>8 DEF GenInv, Settled, Building, Generations!vars
  <1>9. ASSUME NEW p \in Patches, NEW body \in Bodies, ReadConfig(p, body) PROVE Goal
    <2>1. configure'.pc = configure.pc /\ configure'.gen = configure.gen
      BY <1>9, <1>t DEF ReadConfig
    <2> QED
      BY <1>8, <1>9, <2>1 DEF ReadConfig, memory
  <1>10. ASSUME NEW p \in Patches, PatchStep(p) PROVE Goal
    <2>1. UNCHANGED <<serving, open, configure>>
      BY <1>10 DEF PatchStep, PersistConfig, PersistFails, ShowConfig, ReconfigureClient,
                   SetDefaultCoverSize, memory
    <2> QED
      BY <1>8, <2>1
  <1>11. CASE UNCHANGED vars
    BY <1>8, <1>11 DEF vars
  <1> QED
    BY <1>1, <1>2, <1>3, <1>4, <1>5, <1>6, <1>7, <1>9, <1>10, <1>11
       DEF Next, ConfigureStep

(* Whatever statement of a Configure fails, whatever is saved meanwhile    *)
(* and wherever the process dies: the settings model implements            *)
(* ConfigureGenerations.                                                   *)
THEOREM KeepsTheGenerations == Spec => KeepsGenerations
  BY TypeInit, TypeNext, GenInvInit, GenInvNext, PTL
     DEF Spec, KeepsGenerations, Generations!Spec

-----------------------------------------------------------------------------
(* What is in force.  A Configure that runs alone knows the row, and so    *)
(* does a save that overlaps with no other writer; apart says when that is *)
(* not so.                                                                 *)
Busy(p) == patch[p].pc # "idle"

InForce ==
    /\ \A part \in Parts : client[serving[part]] = Settings(stored)
    /\ shown[serving["http"]] = Pair(stored)

AloneKnows ==
    /\ configure.pc = "promote" => stored = DefaultAppConfig
    /\ configure.pc \in {"import", "promote"} /\ ~apart /\ serving["http"] # 0 => InForce
    /\ configure.pc = "http" => configure.cfg = stored
    /\ configure.pc \in {"consumer", "reconciler", "close"} =>
         /\ client[configure.gen] = Settings(stored)
         /\ shown[configure.gen] = Pair(stored)

SaveKnows(p) ==
    /\ Busy(p) => patch[p].gen = serving["http"]
    /\ patch[p].pc = "read" =>
         patch[p].cur = stored.key /\ (serving["http"] # 0 => InForce)
    /\ patch[p].pc \in Handing => stored = Storable(Merged(p))
    /\ patch[p].pc \in {"reconfigure", "cover"} => shown[patch[p].gen] = Pair(stored)
    /\ patch[p].pc = "cover" => Pair(client[patch[p].gen]) = Pair(stored)

ForceInv ==
    /\ Configuring /\ ~configure.alone => apart
    /\ Configuring /\ configure.alone => ~Patching /\ AloneKnows
    /\ ~apart => /\ \A p, q \in Patches : Busy(p) /\ Busy(q) => p = q
                 /\ \A p \in Patches : SaveKnows(p)
    /\ SettingsInForce

LEMMA StoredSettings ==
    ASSUME NEW c \in Config
    PROVE  Settings(Storable(c)) = Settings(c) /\ Pair(Storable(c)) = Pair(c)
  <1>1. /\ normalizeCoverSize("medium") = "medium"
        /\ c.cover = None => normalizeCoverSize(c.cover) = "medium"
    BY ConfigAssumption DEF normalizeCoverSize, CoverSizes
  <1> QED
    BY <1>1 DEF Config, Settings, Storable, Pair

(* At rest all parts work with one generation.                             *)
LEMMA OneGeneration ==
    ASSUME ConfigTypeOK, GenInv, configure.pc \in {"idle", "close"}
    PROVE  /\ \A part \in Parts : serving[part] = serving["http"]
           /\ configure.pc = "close" => serving["http"] = configure.gen
  BY DEF GenInv, Settled, Parts

LEMMA SaveKept ==
    ASSUME UNCHANGED <<stored, client, shown, serving>>,
           NEW q \in Patches, SaveKnows(q), patch'[q] = patch[q]
    PROVE  SaveKnows(q)'
  <1>1. InForce' <=> InForce
    BY DEF InForce
  <1>2. Merged(q)' = Merged(q)
    BY DEF Merged
  <1> QED
    BY <1>1, <1>2 DEF SaveKnows, Busy

LEMMA IdleKnows ==
    ASSUME NEW q \in Patches, ~Busy(q) PROVE SaveKnows(q)
  BY DEF SaveKnows, Busy, Handing

LEMMA ForceInit == Init => ForceInv
  <1> SUFFICES ASSUME Init PROVE ForceInv
    OBVIOUS
  <1>1. ~Patching /\ ~Configuring /\ \A p \in Patches : ~Busy(p)
    BY DEF Init, Patching, Configuring, Busy, IdlePatch, IdleConfigure
  <1>2. serving["http"] = 0
    BY DEF Init, Nowhere, Parts
  <1> QED
    BY <1>1, <1>2, IdleKnows DEF ForceInv, SettingsInForce, Quiet

LEMMA ForceConfigure ==
    ASSUME ConfigTypeOK, GenInv, ForceInv,
           ConfigureStep \/ \E c \in HostConfigs : StartConfigure(c)
    PROVE  ForceInv'
  <1>t. /\ configure \in [pc : ConfigurePC, gen : Gens, cfg : Config, host : Config,
                          alone : BOOLEAN]
        /\ client \in [Gens -> ClientSettings] /\ shown \in [Gens -> Shown]
        /\ serving \in [Parts -> Gens] /\ apart \in BOOLEAN
    BY DEF ConfigTypeOK
  <1>i. UNCHANGED <<stored, client, shown, serving>> => (InForce' <=> InForce)
    BY DEF InForce
  <1>p. UNCHANGED patch /\ (Patching' <=> Patching)
    BY DEF Patching, StartConfigure, ConfigureStep, ImportRead, ImportWrite, ImportReread,
           ImportFails, SwitchHttp, SwitchConsumer, SwitchReconciler, FinishConfigure
  <1>s. ASSUME ~apart' => ~Patching
        PROVE  (~apart => /\ \A q, r \in Patches : Busy(q) /\ Busy(r) => q = r
                          /\ \A q \in Patches : SaveKnows(q))'
    <2>1. ~apart' => \A q \in Patches : Busy(q)' = FALSE
      BY <1>p, <1>s DEF Patching, Busy
    <2>2. ASSUME NEW q \in Patches, ~Busy(q)' PROVE SaveKnows(q)'
      BY <2>2 DEF SaveKnows, Busy, Handing
    <2> QED
      BY <2>1, <2>2
  <1>1. ASSUME NEW c \in HostConfigs, StartConfigure(c) PROVE ForceInv'
    <2>1. /\ ~Configuring /\ UNCHANGED <<stored, client, shown, serving>>
          /\ configure'.pc = "import" /\ configure'.alone = ~Patching
          /\ apart' = (apart \/ Patching)
      BY <1>1 DEF StartConfigure, memory
    <2>2. Configuring'
      BY <2>1 DEF Configuring
    <2>3. ~apart' /\ serving'["http"] # 0 => InForce'
      BY <1>i, <2>1 DEF ForceInv, SettingsInForce, Quiet, InForce
    <2>4. (Configuring /\ configure.alone => ~Patching /\ AloneKnows)'
      BY <1>p, <2>1, <2>3 DEF AloneKnows
    <2> QED
      BY <1>s, <2>1, <2>2, <2>4 DEF ForceInv, SettingsInForce, Quiet
  <1>2. ASSUME Configuring, Configuring', UNCHANGED <<apart>>,
               configure'.alone = configure.alone,
               configure.alone => AloneKnows'
        PROVE  ForceInv'
    BY <1>2, <1>p, <1>s DEF ForceInv, SettingsInForce, Quiet
  <1>3. CASE ImportRead
    <2>1. /\ Configuring /\ Configuring' /\ UNCHANGED <<stored, client, shown, serving, apart>>
          /\ configure.pc = "import" /\ configure'.alone = configure.alone
          /\ configure'.pc = "promote" => stored = DefaultAppConfig
          /\ configure'.pc = "http" => configure'.cfg = stored
          /\ configure'.pc \in {"promote", "http"}
      BY <1>3, <1>t DEF ImportRead, Configuring, Promotes, memory
    <2>2. configure.alone => AloneKnows'
      BY <1>i, <2>1 DEF ForceInv, AloneKnows, InForce
    <2> QED
      BY <1>2, <2>1, <2>2
  <1>4. CASE ImportWrite
    <2>1. /\ Configuring /\ Configuring' /\ UNCHANGED apart
          /\ configure'.pc = "reread" /\ configure'.alone = configure.alone
      BY <1>4, <1>t DEF ImportWrite, Configuring
    <2> QED
      BY <1>2, <2>1 DEF AloneKnows
  <1>5. CASE ImportReread
    <2>1. /\ Configuring /\ Configuring' /\ UNCHANGED <<apart, stored>>
          /\ configure'.pc = "http" /\ configure'.alone = configure.alone
          /\ configure'.cfg = stored
      BY <1>5, <1>t DEF ImportReread, Configuring
    <2> QED
      BY <1>2, <2>1 DEF AloneKnows
  <1>6. CASE ImportFails
    <2>1. /\ Configuring /\ ~Configuring' /\ UNCHANGED <<client, shown, serving>>
          /\ ~apart' => ~apart /\ UNCHANGED stored /\ configure.pc \in {"import", "promote"}
      BY <1>6, <1>t DEF ImportFails, Configuring, IdleConfigure, memory
    <2>2. ~apart' => configure.alone /\ ~Patching /\ AloneKnows
      BY <1>t, <2>1 DEF ForceInv
    <2>3. SettingsInForce'
      BY <1>i, <2>1, <2>2 DEF SettingsInForce, Quiet, AloneKnows, InForce
    <2> QED
      BY <1>s, <2>1, <2>2, <2>3 DEF ForceInv
  <1>7. CASE SwitchHttp
    <2>1. /\ Configuring /\ Configuring' /\ UNCHANGED <<apart, stored>>
          /\ configure.pc = "http" /\ configure'.pc = "consumer"
          /\ configure'.alone = configure.alone /\ configure'.gen = configure.gen
          /\ configure.gen \in Gens
          /\ client'[configure.gen] = Settings(configure.cfg)
          /\ shown'[configure.gen] = Pair(configure.cfg)
      BY <1>7, <1>t DEF SwitchHttp, Configuring
    <2>2. configure.alone => AloneKnows'
      BY <2>1 DEF ForceInv, AloneKnows
    <2> QED
      BY <1>2, <2>1, <2>2
  <1>8. CASE SwitchConsumer \/ SwitchReconciler
    <2>1. /\ Configuring /\ Configuring' /\ UNCHANGED <<apart, stored, client, shown>>
          /\ configure.pc \in {"consumer", "reconciler"}
          /\ configure'.pc \in {"reconciler", "close"}
          /\ configure'.alone = configure.alone /\ configure'.gen = configure.gen
      BY <1>8, <1>t DEF SwitchConsumer, SwitchReconciler, Configuring
    <2>2. configure.alone => AloneKnows'
      BY <2>1 DEF ForceInv, AloneKnows
    <2> QED
      BY <1>2, <2>1, <2>2
  <1>9. CASE FinishConfigure
    <2>1. /\ Configuring /\ ~Configuring' /\ UNCHANGED <<stored, client, shown, serving>>
          /\ configure.pc = "close" /\ apart' = ~configure.alone
      BY <1>9, <1>t DEF FinishConfigure, Configuring, IdleConfigure, memory
    <2>2. ~apart' => ~Patching /\ AloneKnows
      BY <2>1 DEF ForceInv
    <2>3. ~apart' => InForce
      BY <2>1, <2>2, OneGeneration DEF AloneKnows, InForce
    <2>4. SettingsInForce'
      BY <1>i, <2>1, <2>3 DEF SettingsInForce, InForce
    <2> QED
      BY <1>s, <2>1, <2>2, <2>4 DEF ForceInv
  <1> QED
    BY <1>1, <1>3, <1>4, <1>5, <1>6, <1>7, <1>8, <1>9 DEF ConfigureStep

LEMMA ForceRead ==
    ASSUME ConfigTypeOK, ForceInv, NEW p \in Patches, NEW body \in Bodies,
           ReadConfig(p, body)
    PROVE  ForceInv'
  <1>1. /\ patch' = [patch EXCEPT ![p] = [pc |-> "read", gen |-> serving["http"],
                                           body |-> body, cur |-> stored.key]]
        /\ apart' = (apart \/ Patching \/ Configuring)
        /\ configure'.pc = configure.pc /\ configure'.alone = FALSE
        /\ UNCHANGED <<stored, client, shown, serving>>
    BY DEF ReadConfig, memory, ConfigTypeOK
  <1>2. /\ patch'[p] = [pc |-> "read", gen |-> serving["http"], body |-> body,
                        cur |-> stored.key]
        /\ \A q \in Patches \ {p} : patch'[q] = patch[q]
    BY <1>1 DEF ConfigTypeOK
  <1>3. Patching' /\ (Configuring' <=> Configuring) /\ (InForce' <=> InForce)
    BY <1>1, <1>2 DEF Patching, Configuring, InForce
  <1>4. ASSUME ~apart'
        PROVE  /\ \A q \in Patches \ {p} : ~Busy(q)' /\ SaveKnows(q)'
               /\ SaveKnows(p)'
    <2>1. ~apart /\ ~Patching /\ ~Configuring
      BY <1>1, <1>4
    <2>2. ASSUME NEW q \in Patches \ {p} PROVE ~Busy(q)' /\ SaveKnows(q)'
      BY <1>2, <2>1 DEF Busy, Patching, SaveKnows, Handing
    <2>3. serving["http"] # 0 => InForce
      BY <2>1 DEF ForceInv, SettingsInForce, Quiet, InForce
    <2>4. SaveKnows(p)'
      BY <1>1, <1>2, <1>3, <2>3 DEF SaveKnows, Busy, Handing
    <2> QED
      BY <2>2, <2>4
  <1> QED
    BY <1>1, <1>3, <1>4 DEF ForceInv, SettingsInForce, Quiet

(* A statement or an assignment of a save: if no other writer overlaps,    *)
(* it is enough to look at what this one knows afterwards.                 *)
LEMMA ForceSave ==
    ASSUME ConfigTypeOK, ForceInv, NEW p \in Patches, Busy(p),
           \A q \in Patches \ {p} : patch'[q] = patch[q],
           UNCHANGED configure, ~apart' => ~apart,
           ~apart' => SaveKnows(p)' /\ (Busy(p)' \/ serving'["http"] = 0 \/ InForce')
    PROVE  ForceInv'
  <1>1. Patching /\ (Configuring' <=> Configuring)
    BY DEF Patching, Busy, Configuring
  <1>2. Configuring => ~configure.alone /\ apart /\ apart'
    BY <1>1 DEF ForceInv
  <1>3. ASSUME ~apart', NEW q \in Patches \ {p} PROVE ~Busy(q)' /\ SaveKnows(q)'
    <2>1. ~Busy(q)
      BY <1>3 DEF ForceInv
    <2>2. patch'[q].pc = "idle"
      BY <2>1 DEF Busy
    <2> QED
      BY <2>2 DEF Busy, SaveKnows, Handing
  <1>4. SettingsInForce'
    BY DEF SettingsInForce, Quiet, InForce, Patching, Busy
  <1> QED
    BY <1>1, <1>2, <1>3, <1>4 DEF ForceInv

LEMMA ForcePatch ==
    ASSUME ConfigTypeOK, GenInv, ForceInv, NEW p \in Patches, PatchStep(p)
    PROVE  ForceInv'
  <1> DEFINE Call == [pc : PatchPC, gen : Gens, body : Config, cur : Keys \cup {None}]
             g == patch[p].gen
  <1>t. /\ patch \in [Patches -> Call] /\ patch[p] \in Call /\ g \in Gens
        /\ client \in [Gens -> ClientSettings] /\ shown \in [Gens -> Shown]
        /\ serving \in [Parts -> Gens] /\ client[g] \in ClientSettings
        /\ Merged(p) \in Config
    BY KeptKeyType DEF ConfigTypeOK, Merged
  <1>b. Busy(p) /\ UNCHANGED configure /\ \A q \in Patches \ {p} : patch'[q] = patch[q]
    BY <1>t DEF Busy, PatchStep, PersistConfig, PersistFails, ShowConfig,
                ReconfigureClient, SetDefaultCoverSize
  <1>o. ~apart => SaveKnows(p) /\ g = serving["http"]
                  /\ \A part \in Parts : serving[part] = g
    <2>1. ~apart => ~Configuring
      BY <1>b DEF ForceInv, Patching, Busy
    <2> QED
      BY <1>b, <2>1, OneGeneration DEF ForceInv, SaveKnows, Configuring
  <1>m. ASSUME NEW pc \in PatchPC, patch' = [patch EXCEPT ![p].pc = pc]
        PROVE  /\ patch'[p].pc = pc /\ patch'[p].gen = g /\ Merged(p)' = Merged(p)
    BY <1>t, <1>m DEF Merged
  <1>i. ASSUME patch' = [patch EXCEPT ![p] = IdlePatch]
        PROVE  SaveKnows(p)'
    <2>1. patch'[p].pc = "idle"
      BY <1>t, <1>i DEF IdlePatch
    <2> QED
      BY <2>1 DEF SaveKnows, Busy, Handing
  <1>1. CASE PersistConfig(p)
    <2>1. /\ patch' = [patch EXCEPT ![p].pc = "show"] /\ stored' = Storable(Merged(p))
          /\ UNCHANGED <<serving, apart>>
      BY <1>1 DEF PersistConfig, Store, memory
    <2>2. /\ patch'[p].pc = "show" /\ patch'[p].gen = g /\ Merged(p)' = Merged(p)
      BY <1>m, <2>1 DEF PatchPC
    <2>3. ~apart' => SaveKnows(p)' /\ Busy(p)'
      BY <1>o, <2>1, <2>2 DEF SaveKnows, Busy
    <2> QED
      BY <1>b, <2>1, <2>3, ForceSave
  <1>2. CASE PersistFails(p)
    <2>1. /\ patch[p].pc = "read" /\ patch' = [patch EXCEPT ![p] = IdlePatch]
          /\ UNCHANGED <<client, shown, serving>>
          /\ ~apart' => ~apart /\ UNCHANGED stored
      BY <1>2 DEF PersistFails, memory
    <2>2. ~apart' => serving'["http"] = 0 \/ InForce'
      BY <1>o, <2>1 DEF SaveKnows, InForce
    <2> QED
      BY <1>b, <1>i, <2>1, <2>2, ForceSave
  <1>3. CASE ShowConfig(p)
    <2>1. /\ patch' = [patch EXCEPT ![p].pc = "reconfigure"] /\ patch[p].pc = "show"
          /\ UNCHANGED <<stored, client, serving, apart>>
      BY <1>3 DEF ShowConfig
    <2>2. /\ patch'[p].pc = "reconfigure" /\ patch'[p].gen = g /\ Merged(p)' = Merged(p)
      BY <1>m, <2>1 DEF PatchPC
    <2>3. ASSUME ~apart PROVE shown'[g] = Pair(stored)
      <3> DEFINE racing == {q \in Patches : patch[q].pc = "show" /\ patch[q].gen = g}
      <3>1. racing = {p}
        BY <2>1, <2>3 DEF ForceInv, Busy
      <3>2. /\ Raced({Merged(q).base : q \in racing}) = {Merged(p).base}
            /\ Raced({Merged(q).key : q \in racing}) = {Merged(p).key}
        BY <3>1 DEF Raced
      <3>3. shown' = [shown EXCEPT ![g] = Pair(Merged(p))]
        BY <1>3, <3>2 DEF ShowConfig, Pair
      <3>4. stored = Storable(Merged(p))
        BY <1>o, <2>1, <2>3 DEF SaveKnows, Handing
      <3> QED
        BY <1>t, <3>3, <3>4, StoredSettings
    <2>4. ~apart' => SaveKnows(p)' /\ Busy(p)'
      BY <1>o, <2>1, <2>2, <2>3 DEF SaveKnows, Busy, Handing
    <2> QED
      BY <1>b, <2>1, <2>4, ForceSave
  <1>4. CASE ReconfigureClient(p)
    <2>1. /\ patch' = [patch EXCEPT ![p].pc = "cover"] /\ patch[p].pc = "reconfigure"
          /\ UNCHANGED <<stored, shown, serving, apart>>
          /\ client'[g] = Reconfigured(client[g], Merged(p))
      BY <1>4, <1>t DEF ReconfigureClient
    <2>2. /\ patch'[p].pc = "cover" /\ patch'[p].gen = g /\ Merged(p)' = Merged(p)
      BY <1>m, <2>1 DEF PatchPC
    <2>3. Pair(client'[g]) = Pair(Merged(p))
      BY <1>t, <2>1 DEF Reconfigured, Pair, ClientSettings
    <2>4. ~apart' => SaveKnows(p)' /\ Busy(p)'
      BY <1>o, <1>t, <2>1, <2>2, <2>3, StoredSettings DEF SaveKnows, Busy, Handing
    <2> QED
      BY <1>b, <2>1, <2>4, ForceSave
  <1>5. CASE SetDefaultCoverSize(p)
    <2>1. /\ patch' = [patch EXCEPT ![p] = IdlePatch] /\ patch[p].pc = "cover"
          /\ UNCHANGED <<stored, shown, serving, apart>>
          /\ client'[g] = [client[g] EXCEPT !.cover = normalizeCoverSize(Merged(p).cover)]
      BY <1>5, <1>t DEF SetDefaultCoverSize
    <2>2. ASSUME ~apart PROVE InForce'
      <3>1. /\ stored = Storable(Merged(p)) /\ shown[g] = Pair(stored)
            /\ Pair(client[g]) = Pair(stored)
        BY <1>o, <2>1, <2>2 DEF SaveKnows, Handing
      <3>2. Settings(stored) = Settings(Merged(p)) /\ Pair(stored) = Pair(Merged(p))
        BY <1>t, <3>1, StoredSettings
      <3>3. client[g].base = Merged(p).base /\ client[g].key = Merged(p).key
        BY <3>1, <3>2 DEF Pair
      <3>4. client'[g] = Settings(stored)
        BY <1>t, <2>1, <3>2, <3>3 DEF Settings, ClientSettings
      <3> QED
        BY <1>o, <2>1, <2>2, <3>1, <3>4 DEF InForce
    <2> QED
      BY <1>b, <1>i, <2>1, <2>2, ForceSave
  <1> QED
    BY <1>1, <1>2, <1>3, <1>4, <1>5 DEF PatchStep

LEMMA ForceNext == ConfigTypeOK /\ GenInv /\ ForceInv /\ [Next]_vars => ForceInv'
  <1> SUFFICES ASSUME ConfigTypeOK, GenInv, ForceInv, [Next]_vars PROVE ForceInv'
    OBVIOUS
  <1>1. CASE Crash
    <2>1. /\ ~Patching' /\ ~Configuring' /\ \A p \in Patches : patch'[p].pc = "idle"
          /\ serving'["http"] = 0
      BY <1>1 DEF Crash, Patching, Configuring, IdlePatch, IdleConfigure, Nowhere, Parts
    <2> QED
      BY <2>1 DEF ForceInv, SettingsInForce, Quiet, SaveKnows, Busy, Handing
  <1>2. CASE UNCHANGED vars
    <2>1. UNCHANGED <<stored, client, shown, serving, patch, configure, apart>>
      BY <1>2 DEF vars
    <2>2. (InForce' <=> InForce) /\ (Patching' <=> Patching) /\ (Configuring' <=> Configuring)
      BY <2>1 DEF InForce, Patching, Configuring
    <2>3. \A q \in Patches : (SaveKnows(q) => SaveKnows(q)') /\ (Busy(q)' <=> Busy(q))
      BY <2>1, SaveKept DEF Busy
    <2>4. SettingsInForce'
      BY <2>1 DEF ForceInv, SettingsInForce, Quiet, Patching, Configuring
    <2> QED
      BY <2>1, <2>2, <2>3, <2>4 DEF ForceInv, AloneKnows
  <1> QED
    BY <1>1, <1>2, ForceConfigure, ForceRead, ForcePatch DEF Next

LEMMA ForceInvariant == Spec => [](ConfigTypeOK /\ GenInv /\ ForceInv)
  <1>1. Init => ConfigTypeOK /\ GenInv /\ ForceInv
    BY TypeInit, GenInvInit, ForceInit
  <1>2. ConfigTypeOK /\ GenInv /\ ForceInv /\ [Next]_vars
          => (ConfigTypeOK /\ GenInv /\ ForceInv)'
    BY TypeNext, GenInvNext, ForceNext
  <1> QED
    BY <1>1, <1>2, PTL DEF Spec

(* At rest every part of the plugin works with the saved settings, unless  *)
(* two writers overlapped or a commit was not reported.                    *)
THEOREM SavedSettingsAreInForce == Spec => []SettingsInForce
  BY ForceInvariant, PTL DEF ForceInv

(* Once the row differs from the defaults only a save changes it: the      *)
(* import of a Configure that overlaps with no save finds the defaults.    *)
THEOREM OperatorsRowWins == Spec => RowWins
  <1>1. ASSUME ConfigTypeOK, ForceInv, Next, stored # DefaultAppConfig, stored' # stored,
               ~apart'
        PROVE  \E p \in Patches : patch[p].pc = "read" /\ patch'[p] # patch[p]
    <2>1. CASE ImportWrite
      <3>1. Configuring /\ configure.pc = "promote" /\ ~apart
        BY <1>1, <2>1 DEF ImportWrite, Configuring
      <3> QED
        BY <1>1, <3>1 DEF ForceInv, AloneKnows, ConfigTypeOK
    <2>2. ASSUME NEW p \in Patches, PersistConfig(p) \/ PersistFails(p)
          PROVE  patch[p].pc = "read" /\ patch'[p] # patch[p]
      <3>1. /\ patch[p].pc = "read"
            /\ \/ patch' = [patch EXCEPT ![p].pc = "show"]
               \/ patch' = [patch EXCEPT ![p] = IdlePatch]
        BY <2>2 DEF PersistConfig, PersistFails
      <3>2. patch'[p].pc \in {"show", "idle"}
        BY <1>1, <3>1 DEF IdlePatch, ConfigTypeOK
      <3> QED
        BY <3>1, <3>2
    <2> QED
      BY <1>1, <2>1, <2>2
         DEF Next, StartConfigure, ConfigureStep, ImportRead, ImportReread, ImportFails,
             SwitchHttp, SwitchConsumer, SwitchReconciler, FinishConfigure, ReadConfig,
             PatchStep, ShowConfig, ReconfigureClient, SetDefaultCoverSize, Crash
  <1>2. ConfigTypeOK /\ ForceInv /\ [Next]_vars
          => [stored # DefaultAppConfig /\ stored' # stored /\ ~apart'
                => \E p \in Patches : patch[p].pc = "read" /\ patch'[p] # patch[p]]_vars
    BY <1>1
  <1> QED
    BY <1>2, ForceInvariant, PTL DEF Spec, RowWins

(* The key that a save with a blank one puts back is the key of the row,   *)
(* although it was read in another statement.                              *)
THEOREM BlankKeyIsKept == Spec => BlankKeepsKey
  <1>1. ASSUME ConfigTypeOK, ForceInv, Next, NEW p \in Patches, patch[p].pc = "read",
               patch'[p].pc = "show", patch[p].body.key = None, ~apart'
        PROVE  stored'.key = stored.key
    <2>1. PersistConfig(p)
      <3>1. ASSUME NEW q \in Patches, PatchStep(q) PROVE q = p /\ PersistConfig(p)
        BY <1>1, <3>1
           DEF PatchStep, PersistConfig, PersistFails, ShowConfig, ReconfigureClient,
               SetDefaultCoverSize, IdlePatch, ConfigTypeOK
      <3>2. ASSUME NEW q \in Patches, NEW body \in Bodies, ReadConfig(q, body) PROVE FALSE
        BY <1>1, <3>2 DEF ReadConfig, ConfigTypeOK
      <3>3. patch' # patch /\ ~Crash
        BY <1>1 DEF Crash, IdlePatch
      <3> QED
        BY <1>1, <3>1, <3>2, <3>3
           DEF Next, StartConfigure, ConfigureStep, ImportRead, ImportWrite, ImportReread,
               ImportFails, SwitchHttp, SwitchConsumer, SwitchReconciler, FinishConfigure
    <2>2. ~apart /\ patch[p].cur = stored.key
      BY <1>1, <2>1 DEF PersistConfig, ForceInv, SaveKnows
    <2>3. patch[p].body \in Config /\ patch[p].cur \in Keys \cup {None}
      <3>1. patch[p] \in [pc : PatchPC, gen : Gens, body : Config, cur : Keys \cup {None}]
        BY <1>1 DEF ConfigTypeOK
      <3> QED
        BY <3>1
    <2>4. Merged(p).key = stored.key /\ Merged(p) \in Config
      BY <1>1, <2>2, <2>3, KeptKeyType DEF Merged, KeptKey, Config
    <2>5. Storable(Merged(p)).key = Merged(p).key
      BY <2>4 DEF Storable, Config
    <2> QED
      BY <2>1, <2>4, <2>5 DEF PersistConfig, Store
  <1>2. ConfigTypeOK /\ ForceInv /\ [Next]_vars
          => [\A p \in Patches :
                patch[p].pc = "read" /\ patch'[p].pc = "show"
                    /\ patch[p].body.key = None /\ ~apart'
                  => stored'.key = stored.key]_vars
    BY <1>1
  <1> QED
    BY <1>2, ForceInvariant, PTL DEF Spec, BlankKeepsKey
=============================================================================
