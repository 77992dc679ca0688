----------------------------- MODULE PluginConfig -----------------------------
(***************************************************************************)
(* Where the plugin's settings live and how they get into force:           *)
(*   - internal/store/store.go: the app_config row (GetAppConfig,          *)
(*     UpdateAppConfig, ImportLegacyAppConfig);                            *)
(*   - internal/runtime/runtime.go and the callback of main.go: Configure, *)
(*     which reads the row and builds a new generation of client, HTTP     *)
(*     server, consumer and reconciler;                                    *)
(*   - internal/server/server.go: PATCH /api/v1/admin/config, one action   *)
(*     per statement and per update of a shared object (Patches are its    *)
(*     concurrent invocations);                                            *)
(*   - internal/bookwarehouse/client.go: the settings of a shared client.  *)
(*                                                                         *)
(* A configuration is abstracted to the fields that decide something: the  *)
(* upstream's base URL and key, the cover size and the signing secret.     *)
(* request_quality_profile and enable_auto_monitoring are saved and shown  *)
(* with them.  A Configure without database_url or with an invalid         *)
(* base_url, one whose pool or migration fails, a PATCH before the first   *)
(* Configure, one that cannot be decoded, and one whose GetAppConfig fails *)
(* change nothing modelled here and have no action.                        *)
(***************************************************************************)
EXTENDS Naturals

CONSTANTS
    Patches,      \* concurrent PATCH invocations
    Bases, DefaultBase, Keys, Secrets,
    None,         \* the empty string
    Torn,         \* a string with the bytes of one writer and the length of another
    HostConfigs,  \* what the host may pass to Configure
    Bodies,       \* what the operator may save
    FaultKinds, MaxFaults,
    MaxGen        \* Configure calls in the life of a process

CoverSizes == {"thumbnail", "small", "medium", "large", "original"}
Config == [base : Bases \cup {None}, key : Keys \cup {None},
           cover : CoverSizes \cup {None}, secret : Secrets \cup {None}]

ASSUME ConfigAssumption ==
    /\ DefaultBase \in Bases
    /\ None \notin Bases \cup Keys \cup Secrets \cup CoverSizes
    /\ Torn \notin Bases \cup Keys \cup {None}
    /\ HostConfigs \subseteq Config /\ Bodies \subseteq Config
ASSUME LimitAssumption == MaxFaults \in Nat /\ MaxGen \in Nat

VARIABLES
    stored,     \* the app_config row
    client,     \* generation -> settings of its upstream client
    shown,      \* generation -> s.deps.Config, as the diagnostics show it
    secret,     \* generation -> secret its media routes verify with
    serving,    \* part of the plugin -> the generation it works with
    open,       \* generations whose database pool is open
    configure,  \* the Configure call
    patch,      \* the PATCH calls
    host,       \* what the host passed to the Configure call in force
    faults,
    pairs,      \* history: every base and key that were saved together
    apart       \* history: the row may differ from what is in force

vars == <<stored, client, shown, secret, serving, open, configure, patch, host,
          faults, pairs, apart>>

memory == <<client, shown, secret, serving>>

-----------------------------------------------------------------------------
Gens == 0..MaxGen
Parts == {"http", "consumer", "reconciler"}

Pair(c) == [base |-> c.base, key |-> c.key]

DefaultAppConfig == [base |-> DefaultBase, key |-> None, cover |-> "medium",
                     secret |-> None]

(* "" and what is not a known size both mean "medium".                     *)
normalizeCoverSize(size) ==
    CASE size \in {"thumbnail", "small"}  -> "thumbnail"
      [] size \in {"original", "large"}   -> "original"
      [] OTHER                            -> "medium"

(* A faulty variant: the cover size is stored as it came.                  *)
StorableAsIs(c) == c

(* UpdateAppConfig never stores an empty cover size.                       *)
Storable(c) == [c EXCEPT !.cover = IF @ = None THEN "medium" ELSE @]

(* What a client is built or reconfigured with.                            *)
Settings(c) == [base |-> c.base, key |-> c.key, cover |-> normalizeCoverSize(c.cover)]

NoConfig == [base |-> None, key |-> None, cover |-> None, secret |-> None]

IdleConfigure == [pc |-> "idle", gen |-> 0, cfg |-> NoConfig, host |-> NoConfig,
                  alone |-> FALSE]
IdlePatch == [pc |-> "idle", gen |-> 0, body |-> NoConfig, cur |-> None]

Patching == \E p \in Patches : patch[p].pc # "idle"
Configuring == configure.pc # "idle"

Fault(kind) == kind \in FaultKinds /\ faults < MaxFaults /\ faults' = faults + 1

Store(c) == stored' = Storable(c) /\ pairs' = pairs \cup {Pair(c)}

-----------------------------------------------------------------------------
(* Configure: the pool, then ImportLegacyAppConfig, then the switch of the *)
(* HTTP handler, the consumer's dependencies and the reconciler, in this   *)
(* order, and at last the old pool is closed.  The host calls it serially. *)

StartConfigure(c) ==
    /\ ~Configuring
    /\ serving["http"] < MaxGen
    /\ configure' = [pc |-> "import", gen |-> serving["http"] + 1, cfg |-> c,
                     host |-> c, alone |-> ~Patching]
    /\ open' = open \cup {serving["http"] + 1}
    /\ apart' = (apart \/ Patching)
    /\ UNCHANGED <<stored, memory, patch, host, faults, pairs>>

(* The host's values fill in what they leave empty with the row's.         *)
Legacy(c, current) ==
    [c EXCEPT !.base  = IF @ = None THEN current.base ELSE @,
              !.cover = IF @ = None THEN current.cover ELSE @]

(* A faulty variant: the row is not looked at.                             *)
PromotesAlways(c, current) == Legacy(c, current) # current

(* The row is replaced by the host's values only while it is the default.  *)
Promotes(c, current) ==
    current = DefaultAppConfig /\ Legacy(c, current) # current

ImportRead ==
    /\ configure.pc = "import"
    /\ configure' = IF Promotes(configure.cfg, stored)
                    THEN [configure EXCEPT !.pc = "promote", !.cfg = Legacy(@, stored)]
                    ELSE [configure EXCEPT !.pc = "http", !.cfg = stored]
    /\ UNCHANGED <<stored, memory, open, patch, host, faults, pairs, apart>>

ImportWrite ==
    /\ configure.pc = "promote"
    /\ Store(configure.cfg)
    /\ configure' = [configure EXCEPT !.pc = "reread"]
    /\ UNCHANGED <<memory, open, patch, host, faults, apart>>

(* The callback goes on with the row as it is read again.                  *)
ImportReread ==
    /\ configure.pc = "reread"
    /\ configure' = [configure EXCEPT !.pc = "http", !.cfg = stored]
    /\ UNCHANGED <<stored, memory, open, patch, host, faults, pairs, apart>>

(* A statement of the import fails, before or after its commit: the        *)
(* callback closes the new pool and returns the error; the old generation  *)
(* goes on.                                                                *)
ImportFails ==
    /\ configure.pc \in {"import", "promote", "reread"}
    /\ \/ Fault("db") /\ UNCHANGED <<stored, pairs>>
          /\ apart' = (apart \/ configure.pc = "reread")
       \/ configure.pc = "promote" /\ Fault("lost") /\ Store(configure.cfg)
          /\ apart' = TRUE
    /\ configure' = IdleConfigure
    /\ open' = open \ {configure.gen}
    /\ UNCHANGED <<memory, patch, host>>

SwitchHttp ==
    /\ configure.pc = "http"
    /\ LET g == configure.gen  cfg == configure.cfg
       IN  /\ client' = [client EXCEPT ![g] = Settings(cfg)]
           /\ shown' = [shown EXCEPT ![g] = Pair(cfg)]
           /\ secret' = [secret EXCEPT ![g] = cfg.secret]
           /\ serving' = [serving EXCEPT !["http"] = g]
    /\ configure' = [configure EXCEPT !.pc = "consumer"]
    /\ UNCHANGED <<stored, open, patch, host, faults, pairs, apart>>

SwitchConsumer ==
    /\ configure.pc = "consumer"
    /\ serving' = [serving EXCEPT !["consumer"] = configure.gen]
    /\ configure' = [configure EXCEPT !.pc = "reconciler"]
    /\ UNCHANGED <<stored, client, shown, secret, open, patch, host, faults, pairs, apart>>

SwitchReconciler ==
    /\ configure.pc = "reconciler"
    /\ serving' = [serving EXCEPT !["reconciler"] = configure.gen]
    /\ configure' = [configure EXCEPT !.pc = "close"]
    /\ UNCHANGED <<stored, client, shown, secret, open, patch, host, faults, pairs, apart>>

(* A faulty variant: the pool that is closed is the new one.               *)
FinishClosingNew ==
    /\ configure.pc = "close"
    /\ open' = open \ {configure.gen}
    /\ host' = configure.host
    /\ apart' = ~configure.alone
    /\ configure' = IdleConfigure
    /\ UNCHANGED <<stored, memory, patch, faults, pairs>>

FinishConfigure ==
    /\ configure.pc = "close"
    /\ open' = {configure.gen}
    /\ host' = configure.host
    /\ apart' = ~configure.alone
    /\ configure' = IdleConfigure
    /\ UNCHANGED <<stored, memory, patch, faults, pairs>>

-----------------------------------------------------------------------------
(* PATCH /api/v1/admin/config, on the server of the generation that serves *)
(* HTTP when it arrives                                                    *)

ReadConfig(p, body) ==
    /\ patch[p].pc = "idle"
    /\ serving["http"] \in open
    /\ patch' = [patch EXCEPT ![p] =
                   [pc |-> "read", gen |-> serving["http"], body |-> body,
                    cur |-> stored.key]]
    /\ apart' = (apart \/ Patching \/ Configuring)
    /\ configure' = [configure EXCEPT !.alone = FALSE]
    /\ UNCHANGED <<stored, memory, open, host, faults, pairs>>

(* A faulty variant: the form's blank key is saved.                        *)
BlankKey(body, key) == body

(* A blank key in the form leaves the key that was read in place.          *)
KeptKey(body, key) == IF body.key = None THEN [body EXCEPT !.key = key] ELSE body

Merged(p) == KeptKey(patch[p].body, patch[p].cur)

PersistConfig(p) ==
    /\ patch[p].pc = "read"
    /\ patch[p].gen \in open
    /\ Store(Merged(p))
    /\ patch' = [patch EXCEPT ![p].pc = "show"]
    /\ UNCHANGED <<memory, open, configure, host, faults, apart>>

(* A faulty variant: the handler goes on after a failed statement.         *)
PersistFailureIgnored(p) ==
    /\ patch[p].pc = "read"
    /\ patch[p].gen \in open /\ Fault("db")
    /\ patch' = [patch EXCEPT ![p].pc = "show"]
    /\ UNCHANGED <<stored, memory, open, configure, host, pairs, apart>>

(* The statement fails, with the pool closed, or before or after its       *)
(* commit: nothing in memory is changed.                                   *)
PersistFails(p) ==
    /\ patch[p].pc = "read"
    /\ \/ patch[p].gen \notin open /\ UNCHANGED <<stored, pairs, faults, apart>>
       \/ patch[p].gen \in open /\ Fault("db") /\ UNCHANGED <<stored, pairs, apart>>
       \/ patch[p].gen \in open /\ Fault("lost") /\ Store(Merged(p)) /\ apart' = TRUE
    /\ patch' = [patch EXCEPT ![p] = IdlePatch]
    /\ UNCHANGED <<memory, open, configure, host>>

(* s.deps.Config = next is an assignment of several words that no lock     *)
(* protects: of two at a time each field may be either one's, and a string *)
(* that both change may be neither's.                                      *)
Raced(strings) ==
    strings \cup {t \in {Torn} : \E s, u \in strings : s # u}

ShowConfig(p) ==
    /\ patch[p].pc = "show"
    /\ LET racing == {q \in Patches : patch[q].pc = "show" /\ patch[q].gen = patch[p].gen}
       IN  \E base \in Raced({Merged(q).base : q \in racing}),
              key \in Raced({Merged(q).key : q \in racing}) :
             shown' = [shown EXCEPT ![patch[p].gen] = [base |-> base, key |-> key]]
    /\ patch' = [patch EXCEPT ![p].pc = "reconfigure"]
    /\ UNCHANGED <<stored, client, secret, serving, open, configure, host, faults,
                   pairs, apart>>

(* A faulty variant: the new key is used with the old base URL.            *)
RekeyedOnly(settings, c) == [settings EXCEPT !.key = c.key]

(* Client.Reconfigure sets both under the client's lock.                   *)
Reconfigured(settings, c) == [settings EXCEPT !.base = c.base, !.key = c.key]

ReconfigureClient(p) ==
    /\ patch[p].pc = "reconfigure"
    /\ client' = [client EXCEPT ![patch[p].gen] = Reconfigured(@, Merged(p))]
    /\ patch' = [patch EXCEPT ![p].pc = "cover"]
    /\ UNCHANGED <<stored, shown, secret, serving, open, configure, host, faults,
                   pairs, apart>>

SetDefaultCoverSize(p) ==
    /\ patch[p].pc = "cover"
    /\ client' = [client EXCEPT ![patch[p].gen].cover = normalizeCoverSize(Merged(p).cover)]
    /\ patch' = [patch EXCEPT ![p] = IdlePatch]
    /\ UNCHANGED <<stored, shown, secret, serving, open, configure, host, faults,
                   pairs, apart>>

(* The process dies; the row survives.                                     *)
Nowhere == [part \in Parts |-> 0]
Forgotten == [g \in Gens |-> Settings(NoConfig)]

Crash ==
    /\ serving # Nowhere
    /\ Fault("crash")
    /\ client' = Forgotten
    /\ shown' = [g \in Gens |-> Pair(NoConfig)]
    /\ secret' = [g \in Gens |-> None]
    /\ serving' = Nowhere /\ open' = {}
    /\ configure' = IdleConfigure
    /\ patch' = [p \in Patches |-> IdlePatch]
    /\ UNCHANGED <<stored, host, pairs, apart>>

-----------------------------------------------------------------------------
Init ==
    /\ stored = DefaultAppConfig
    /\ client = Forgotten
    /\ shown = [g \in Gens |-> Pair(NoConfig)]
    /\ secret = [g \in Gens |-> None]
    /\ serving = Nowhere /\ open = {}
    /\ configure = IdleConfigure
    /\ patch = [p \in Patches |-> IdlePatch]
    /\ host = NoConfig
    /\ faults = 0
    /\ pairs = {Pair(DefaultAppConfig)}
    /\ apart = FALSE

ConfigureStep == \/ ImportRead \/ ImportWrite \/ ImportReread \/ ImportFails
                 \/ SwitchHttp \/ SwitchConsumer \/ SwitchReconciler
                 \/ FinishConfigure

PatchStep(p) == \/ PersistConfig(p) \/ PersistFails(p) \/ ShowConfig(p)
                \/ ReconfigureClient(p) \/ SetDefaultCoverSize(p)

Next ==
    \/ \E c \in HostConfigs : StartConfigure(c)
    \/ ConfigureStep
    \/ \E p \in Patches, body \in Bodies : ReadConfig(p, body)
    \/ \E p \in Patches : PatchStep(p)
    \/ Crash

Spec == Init /\ [][Next]_vars

-----------------------------------------------------------------------------
(* Properties *)

Quiet == ~Patching /\ ~Configuring /\ serving["http"] # 0

ClientSettings == [base : Bases \cup {None}, key : Keys \cup {None},
                   cover : {"thumbnail", "medium", "original"}]
ConfigurePC == {"idle", "import", "promote", "reread", "http", "consumer",
                "reconciler", "close"}
PatchPC == {"idle", "read", "show", "reconfigure", "cover"}
Pairs == [base : Bases \cup {None}, key : Keys \cup {None}]
Shown == [base : Bases \cup {None, Torn}, key : Keys \cup {None, Torn}]

(* Every variable keeps its type; the row is never without a cover size    *)
(* and clients only hold the three sizes the upstream knows.               *)
ConfigTypeOK ==
    /\ stored \in Config /\ stored.cover # None
    /\ client \in [Gens -> ClientSettings]
    /\ shown \in [Gens -> Shown]
    /\ secret \in [Gens -> Secrets \cup {None}]
    /\ serving \in [Parts -> Gens] /\ open \subseteq Gens
    /\ configure \in [pc : ConfigurePC, gen : Gens, cfg : Config, host : Config,
                      alone : BOOLEAN]
    /\ patch \in [Patches -> [pc : PatchPC, gen : Gens, body : Config,
                              cur : Keys \cup {None}]]
    /\ host \in Config
    /\ faults \in 0..MaxFaults /\ pairs \subseteq Pairs /\ apart \in BOOLEAN

(* Whatever races, no client ever works with a base URL and a key that     *)
(* were not in the row together: the two fields of a client are one save's.*)
(* What a save of a blank key makes of a key read too early counts as such.*)
SavedTogether ==
    \A part \in Parts : serving[part] # 0 =>
        Pair(client[serving[part]]) \in pairs

(* Why: whatever a Configure or a save is about to hand to a client was    *)
(* read from the row or written to it before.  This is inductive.          *)
Handing == {"show", "reconfigure", "cover"}

ConfigureKnows ==
    /\ configure.pc = "http" => Pair(configure.cfg) \in pairs
    /\ configure.pc \in {"consumer", "reconciler"} =>
         Pair(client[configure.gen]) \in pairs

PairsKept ==
    /\ Pair(stored) \in pairs
    /\ ConfigureKnows
    /\ \A p \in Patches : patch[p].pc \in Handing => Pair(Merged(p)) \in pairs
    /\ SavedTogether

(* At rest every part of the plugin works with the saved settings, and the *)
(* diagnostics show them, unless two writers overlapped or a commit was    *)
(* not reported since the last Configure that ran alone.  The signing      *)
(* secret is no part of it: a save does not hand it to the HTTP server,    *)
(* which has it of the last Configure (HostSecretInForce).                 *)
SettingsInForce ==
    Quiet /\ ~apart =>
        /\ \A part \in Parts : client[serving[part]] = Settings(stored)
        /\ shown[serving["http"]] = Pair(stored)

(* The row wins over the host (docs/operations.md:26-28): once it differs  *)
(* from the defaults only a save of the operator changes it, unless a save *)
(* and a Configure overlap.                                                *)
RowWins ==
    [][stored # DefaultAppConfig /\ stored' # stored /\ ~apart'
         => \E p \in Patches : patch[p].pc = "read" /\ patch'[p] # patch[p]]_vars

(* A save with a blank key does not change the key of the row, unless      *)
(* another writer overlaps with it.                                        *)
BlankKeepsKey ==
    [][\A p \in Patches :
         patch[p].pc = "read" /\ patch'[p].pc = "show"
             /\ patch[p].body.key = None /\ ~apart'
           => stored'.key = stored.key]_vars

(* docs/operations.md:21-24: the signing secret is the one the host passes *)
(* to Configure, and no save of the operator touches it.                   *)
HostSecretInForce == Quiet => secret[serving["http"]] = host.secret

(* Consumer and reconciler change generation in the order and on the pools *)
(* that RequestLifecycle takes for granted, whatever fails on the way.     *)
Generations == INSTANCE ConfigureGenerations WITH
    consumer <- serving["consumer"], reconciler <- serving["reconciler"]

KeepsGenerations == Generations!Spec
=============================================================================
