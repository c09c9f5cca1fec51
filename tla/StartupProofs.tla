---------------------------- MODULE StartupProofs ----------------------------
(***************************************************************************)
(* Proofs about Startup, for any command line and any configuration        *)
(* object: the priority of the storage credentials, and that the object is *)
(* used as a whole or not at all.                                          *)
(***************************************************************************)
EXTENDS Startup, TLAPS

\* A DSN from somewhere else.
WithDSN(r, set, src) == [r EXCEPT !.dsn = Or(set, src, @)]

\* The settings LoadFromCR hands back, but for the AI key: every step of it, on
\* the flags, the object s and a Secret with or without a value.
Loaded(s, secret) ==
    LET r == MergeStorage(flags, s)
    IN MergeAI(MergeServer(EnvDSN(WithDSN(r, secret, "secret")), s), s)

\* The DSN among the settings loaded.
DSNOf(s, secret) == IF env.dsn THEN "env" ELSE IF secret THEN "secret"
                    ELSE IF s.dsn THEN "cr" ELSE flags.dsn

\* cfg is what was loaded, with some AI key.
HoldsConfig == \E k \in Source : cfg = [Loaded(spec, found.dsn) EXCEPT !.apiKey = k]

\* What main and LoadFromCR hold at each step.
Progress ==
    /\ pc \in Steps
    /\ flags \in Resolved
    /\ spec \in ConfigSpec
    /\ env \in [dsn : BOOLEAN, apiKey : BOOLEAN]
    /\ found \in [config : {"unread", "none", "failed", "read"},
                  dsn : BOOLEAN, apiKey : BOOLEAN]
    /\ pc \in {"config", "storageSecret", "aiSecret"} => cfg = flags /\ store = "none"
    /\ pc = "storageSecret" => base = MergeStorage(flags, spec)
    /\ pc = "aiSecret" => base = Loaded(spec, found.dsn)
    /\ pc = "env" =>
         /\ store = "none"
         /\ IF UsesConfig THEN HoldsConfig ELSE cfg = flags
    /\ pc \in {"config", "storageSecret", "aiSecret"} => ~UsesConfig
    /\ pc \notin {"config", "storageSecret", "aiSecret", "env"} =>
         \/ store = "none" /\ pc = "exited"
         \/ IF UsesConfig THEN HoldsConfig ELSE cfg = EnvDSN(flags)

\* A storage section overwrites the backend and the DSN where it sets them.
LEMMA StorageFields ==
    ASSUME NEW r \in Resolved, NEW s \in ConfigSpec
    PROVE  LET m == MergeStorage(r, s) IN
           /\ m \in Resolved
           /\ m.dsn = IF s.dsn THEN "cr" ELSE r.dsn
           /\ s.backend # "" => m.backend = s.backend
<1>1. s.dsn \in BOOLEAN /\ s.backend \in Backends \cup {""}
  BY DEF ConfigSpec
<1>2. CASE s.dsn /\ s.backend # ""
  BY <1>1, <1>2 DEF MergeStorage, Resolved, Or, Source
<1>3. CASE s.dsn /\ s.backend = ""
  BY <1>1, <1>3 DEF MergeStorage, Resolved, Or, Source
<1>4. CASE ~s.dsn /\ s.backend # ""
  BY <1>1, <1>4 DEF MergeStorage, Resolved, Or, Source
<1>5. CASE ~s.dsn /\ s.backend = ""
  BY <1>1, <1>5 DEF MergeStorage, Resolved, Or, Source
<1> QED BY <1>1, <1>2, <1>3, <1>4, <1>5

\* A server and a controller section touch the address and leader election only.
LEMMA ServerFields ==
    ASSUME NEW r \in Resolved, NEW s \in ConfigSpec
    PROVE  LET m == MergeServer(r, s) IN
           /\ m \in Resolved /\ m.backend = r.backend /\ m.dsn = r.dsn
           /\ s.address = TRUE => m.address = "cr"
           /\ s.leader = TRUE => m.leader = TRUE
<1>1. s.address \in BOOLEAN /\ s.leader \in BOOLEAN /\ r.leader \in BOOLEAN
  BY DEF ConfigSpec, Resolved
<1>2. CASE s.address
  BY <1>1, <1>2 DEF MergeServer, Resolved, Or
<1>3. CASE ~s.address
  BY <1>1, <1>3 DEF MergeServer, Resolved, Or
<1> QED BY <1>1, <1>2, <1>3

\* An AI section touches the AI settings only.
LEMMA AIFields ==
    ASSUME NEW r \in Resolved, NEW s \in ConfigSpec
    PROVE  LET m == MergeAI(r, s) IN
           /\ m \in Resolved /\ m.backend = r.backend /\ m.dsn = r.dsn
           /\ m.address = r.address /\ m.leader = r.leader
           /\ s.aiEnabled = TRUE => m.aiEnabled = TRUE /\ (s.endpoint = TRUE => m.endpoint = "cr")
<1>1. /\ s.aiEnabled \in BOOLEAN /\ s.endpoint \in BOOLEAN /\ s.model \in BOOLEAN
      /\ r.endpoint \in Source /\ r.model \in Source
  BY DEF ConfigSpec, Resolved
<1>2. CASE ~s.aiEnabled
  BY <1>1, <1>2 DEF MergeAI
<1>3. CASE s.aiEnabled
  <2> DEFINE e == Or(s.endpoint, "cr", r.endpoint)
             m == Or(s.model, "cr", r.model)
  <2>1. e \in Source /\ m \in Source /\ (s.endpoint => e = "cr")
    BY <1>1 DEF Or, Source
  <2>2. MergeAI(r, s) = [r EXCEPT !.aiEnabled = TRUE, !.endpoint = e, !.model = m]
    BY <1>3 DEF MergeAI
  <2> HIDE DEF e, m
  <2> QED BY <1>3, <2>1, <2>2 DEF Resolved
<1> QED BY <1>1, <1>2, <1>3

\* Nothing but the DSN changes.
LEMMA DSNFields ==
    ASSUME NEW r \in Resolved, NEW src \in Source \ {""}
    PROVE  LET m == [r EXCEPT !.dsn = src] IN
           m \in Resolved /\ m.backend = r.backend /\ m.dsn = src
BY DEF Resolved

\* What every field that matters is after a configuration object was loaded.
LEMMA LoadedFields ==
    ASSUME NEW s \in ConfigSpec, NEW secret \in BOOLEAN, flags \in Resolved,
           env \in [dsn : BOOLEAN, apiKey : BOOLEAN]
    PROVE  LET l == Loaded(s, secret) IN
           /\ l \in Resolved
           /\ l.dsn = DSNOf(s, secret)
           /\ s.backend # "" => l.backend = s.backend
           /\ s.address = TRUE => l.address = "cr"
           /\ s.leader = TRUE => l.leader = TRUE
           /\ s.aiEnabled = TRUE => l.aiEnabled = TRUE /\ (s.endpoint = TRUE => l.endpoint = "cr")
<1> DEFINE a == MergeStorage(flags, s)
           b == WithDSN(a, secret, "secret")
           c == EnvDSN(b)
           d == MergeServer(c, s)
           l == MergeAI(d, s)
<1>1. Loaded(s, secret) = l
  BY DEF Loaded
<1>2. /\ a \in Resolved
      /\ a.dsn = IF s.dsn THEN "cr" ELSE flags.dsn
      /\ s.backend # "" => a.backend = s.backend
  BY StorageFields
<1>3. /\ b \in Resolved /\ b.backend = a.backend
      /\ b.dsn = IF secret THEN "secret" ELSE a.dsn
  <2> HIDE DEF a
  <2>1. "secret" \in Source \ {""}
    BY DEF Source
  <2>2. CASE secret
    BY <1>2, <2>1, <2>2, DSNFields DEF WithDSN, Or
  <2>3. CASE ~secret
    <3>1. b = [a EXCEPT !.dsn = a.dsn]
      BY <2>3 DEF WithDSN, Or
    <3>2. a.dsn \in Source \ {""}
      BY <1>2 DEF Resolved
    <3> HIDE DEF b
    <3> QED BY <1>2, <2>3, <3>1, <3>2, DSNFields
  <2> QED BY <2>2, <2>3
<1>4. /\ c \in Resolved /\ c.backend = b.backend
      /\ c.dsn = IF env.dsn THEN "env" ELSE b.dsn
  <2> HIDE DEF b
  <2>1. "env" \in Source \ {""} /\ env.dsn \in BOOLEAN
    BY DEF Source
  <2>2. CASE env.dsn
    BY <1>3, <2>1, <2>2, DSNFields DEF EnvDSN, Or
  <2>3. CASE ~env.dsn
    <3>1. c = [b EXCEPT !.dsn = b.dsn]
      BY <2>3 DEF EnvDSN, Or
    <3>2. b.dsn \in Source \ {""}
      BY <1>3 DEF Resolved
    <3> HIDE DEF c
    <3> QED BY <1>3, <2>3, <3>1, <3>2, DSNFields
  <2> QED BY <2>2, <2>3
<1>5. /\ d \in Resolved /\ d.backend = c.backend /\ d.dsn = c.dsn
      /\ s.address = TRUE => d.address = "cr"
      /\ s.leader = TRUE => d.leader = TRUE
  <2> HIDE DEF c
  <2> QED BY <1>4, ServerFields
<1>6. /\ l \in Resolved /\ l.backend = d.backend /\ l.dsn = d.dsn
      /\ l.address = d.address /\ l.leader = d.leader
      /\ s.aiEnabled = TRUE => l.aiEnabled = TRUE /\ (s.endpoint = TRUE => l.endpoint = "cr")
  <2> HIDE DEF d
  <2> QED BY <1>5, AIFields
<1>7. l.dsn = DSNOf(s, secret)
  <2> HIDE DEF a, b, c, d, l
  <2> QED BY <1>2, <1>3, <1>4, <1>5, <1>6 DEF DSNOf
<1> HIDE DEF a, b, c, d, l
<1> QED BY <1>1, <1>2, <1>3, <1>4, <1>5, <1>6, <1>7

\* Taking an AI key, or the DSN the environment already gave, changes neither
\* what was loaded nor its type.
LEMMA KeepsLoaded ==
    ASSUME Progress, HoldsConfig
    PROVE  cfg \in Resolved /\ EnvDSN(cfg) = cfg
<1> DEFINE l == Loaded(spec, found.dsn)
<1>1. l \in Resolved /\ (env.dsn => l.dsn = "env")
  BY LoadedFields DEF Progress, DSNOf
<1>2. PICK k \in Source : cfg = [l EXCEPT !.apiKey = k]
  BY DEF HoldsConfig
<1> HIDE DEF l
<1>3. cfg \in Resolved /\ cfg.dsn = l.dsn
  BY <1>1, <1>2 DEF Resolved
<1>4. CASE env.dsn
  BY <1>1, <1>3, <1>4 DEF EnvDSN, Or, Resolved
<1>5. CASE ~env.dsn
  BY <1>3, <1>5 DEF EnvDSN, Or, Resolved
<1> QED BY <1>3, <1>4, <1>5

\* Steps that neither read nor resolve a setting keep what is held.
LEMMA KeepsProgress ==
    ASSUME Progress, UNCHANGED given, UNCHANGED settings,
           \/ pc' = "exited" /\ UNCHANGED store
           \/ /\ {pc, pc'} \cap {"config", "storageSecret", "aiSecret", "env"} = {}
              /\ pc' \in Steps
              /\ pc # "exited" \/ UNCHANGED <<pc, store>>
    PROVE  Progress'
BY DEF Progress, given, settings, HoldsConfig, UsesConfig, Loaded, EnvDSN, Steps

\* The invariant holds in every state: each read is a step of its own, and an
\* error at any of them leaves the flags in cfg.
THEOREM Invariance == Spec => []Progress
<1>1. Init => Progress
  <2>1. NoSpec \in ConfigSpec
    BY DEF NoSpec, ConfigSpec
  <2> QED BY <2>1, SettingsAssumption DEF Init, Progress, UsesConfig, Steps
<1>2. Progress /\ [Next]_vars => Progress'
  <2> SUFFICES ASSUME Progress, [Next]_vars PROVE Progress'
    OBVIOUS
  <2>1. CASE UNCHANGED vars
    BY <2>1 DEF Progress, vars, HoldsConfig, UsesConfig, Loaded, EnvDSN
  <2>2. CASE ReadConfig
    BY <2>2, SettingsAssumption
       DEF ReadConfig, From, Discard, given, services, Progress, UsesConfig, Steps
  <2>3. CASE ReadStorageSecret
    <3>1. CASE From("storageSecret", "env") /\ Discard /\ UNCHANGED <<given, services, signalled>>
      BY <3>1 DEF From, Discard, given, services, Progress, UsesConfig, Steps
    <3>2. CASE /\ From("storageSecret", "aiSecret")
               /\ \E value \in SecretValues(spec.storageSecret) :
                    /\ base' = LET r == [base EXCEPT !.dsn = Or(value, "secret", @)]
                               IN MergeAI(MergeServer(EnvDSN(r), spec), spec)
                    /\ found' = [found EXCEPT !.dsn = value]
               /\ UNCHANGED <<given, spec, cfg, services, signalled>>
      <4>1. PICK value \in BOOLEAN :
                    /\ base' = LET r == [base EXCEPT !.dsn = Or(value, "secret", @)]
                               IN MergeAI(MergeServer(EnvDSN(r), spec), spec)
                    /\ found' = [found EXCEPT !.dsn = value]
        BY <3>2 DEF SecretValues
      <4>2. base = MergeStorage(flags, spec) /\ cfg = flags /\ store = "none" /\ ~UsesConfig
        BY <3>2 DEF From, Progress
      <4>3. base' = Loaded(spec, value)
        BY <4>1, <4>2 DEF Loaded, WithDSN
      <4>4. UNCHANGED <<flags, env, spec, cfg, store>> /\ pc' = "aiSecret"
        BY <3>2 DEF given, services, From
      <4>5. base' = Loaded(spec, found.dsn)'
        BY <4>1, <4>3, <4>4 DEF Progress, Loaded, EnvDSN
      <4> QED BY <4>1, <4>2, <4>4, <4>5 DEF Progress, UsesConfig, Steps
    <3> QED BY <2>3, <3>1, <3>2 DEF ReadStorageSecret
  <2>4. CASE ReadAISecret
    <3>1. cfg = flags /\ store = "none" /\ ~UsesConfig /\ base = Loaded(spec, found.dsn)
      BY <2>4 DEF ReadAISecret, From, Progress
    <3>2. UNCHANGED <<flags, env, spec, store>> /\ pc' = "env"
      BY <2>4 DEF ReadAISecret, From, Discard, given, services
    <3>3. CASE Discard
      BY <3>1, <3>2, <3>3 DEF Discard, Progress, UsesConfig, Steps
    <3>4. CASE \E value \in BOOLEAN :
                  /\ cfg' = EnvKey([base EXCEPT !.apiKey = Or(value, "secret", @)])
                  /\ found' = [found EXCEPT !.config = "read", !.apiKey = value]
      <4>1. PICK value \in BOOLEAN :
                  /\ cfg' = EnvKey([base EXCEPT !.apiKey = Or(value, "secret", @)])
                  /\ found' = [found EXCEPT !.config = "read", !.apiKey = value]
        BY <3>4
      <4>2. base \in Resolved
        BY <3>1, LoadedFields DEF Progress
      <4>3. \E k \in Source : cfg' = [base EXCEPT !.apiKey = k]
        <5> DEFINE j == Or(value, "secret", base.apiKey)
                   k == Or(env.apiKey, "env", j)
        <5>1. k \in Source
          BY <4>2 DEF Or, Source, Resolved
        <5>2. cfg' = [[base EXCEPT !.apiKey = j] EXCEPT !.apiKey = k]
          BY <4>1, <4>2 DEF EnvKey, Resolved
        <5> HIDE DEF j, k
        <5>3. cfg' = [base EXCEPT !.apiKey = k]
          BY <5>2, <4>2 DEF Resolved
        <5> QED BY <5>1, <5>3
      <4>4. /\ found' \in [config : {"unread", "none", "failed", "read"},
                           dsn : BOOLEAN, apiKey : BOOLEAN]
            /\ found'.config = "read" /\ found'.dsn = found.dsn
        BY <4>1 DEF Progress
      <4>5. Loaded(spec, found.dsn)' = base
        BY <3>1, <3>2, <4>4 DEF Loaded, EnvDSN
      <4>6. HoldsConfig'
        BY <4>3, <4>5 DEF HoldsConfig
      <4>7. UsesConfig'
        BY <4>4 DEF UsesConfig
      <4>8. /\ (flags \in Resolved)' /\ (spec \in ConfigSpec)'
            /\ (env \in [dsn : BOOLEAN, apiKey : BOOLEAN])' /\ (store = "none")'
        BY <3>1, <3>2 DEF Progress
      <4> HIDE DEF HoldsConfig, UsesConfig
      <4> QED BY <3>2, <4>4, <4>6, <4>7, <4>8 DEF Progress, Steps
    <3> QED BY <2>4, <3>3, <3>4 DEF ReadAISecret, SecretValues
  <2>5. CASE ResolveEnvOverrides
    <3>1. /\ UNCHANGED <<flags, env, spec, base, found, store>>
          /\ pc = "env" /\ pc' = "open" /\ cfg' = EnvDSN(cfg)
      BY <2>5 DEF ResolveEnvOverrides, From, given, services
    <3>2. CASE UsesConfig
      BY <3>1, <3>2, KeepsLoaded DEF Progress, UsesConfig, HoldsConfig, Loaded, EnvDSN, Steps
    <3>3. CASE ~UsesConfig
      BY <3>1, <3>3 DEF Progress, UsesConfig, EnvDSN, Steps
    <3> QED BY <3>2, <3>3
  <2>6. CASE NewStore \/ Initialize \/ NewManager \/ ManagerFails
    BY <2>6, KeepsProgress
       DEF NewStore, Initialize, NewManager, ManagerFails, Exit, From, services, Steps
  <2>7. CASE ConfigureAI \/ StartAPI \/ StartManager \/ ManagerStops \/ StopAll
    BY <2>7, KeepsProgress
       DEF ConfigureAI, StartAPI, StartManager, ManagerStops, StopAll, From, services, Steps
  <2>8. CASE Close
    BY <2>8 DEF Close, From, given, settings, Progress, HoldsConfig, UsesConfig, Loaded,
                EnvDSN, Steps
  <2>9. CASE APIFails \/ APIStops
    BY <2>9 DEF APIFails, APIStops, given, settings, Progress, HoldsConfig, UsesConfig,
                Loaded, EnvDSN
  <2>10. CASE Signal
    BY <2>10, KeepsProgress DEF Signal, Exit, From, services, given, settings, Steps
  <2> QED BY <2>1, <2>2, <2>3, <2>4, <2>5, <2>6, <2>7, <2>8, <2>9, <2>10 DEF Next, Main
<1> QED BY <1>1, <1>2, PTL DEF Spec

\* The storage credential in use is the one with the highest priority, whatever
\* could not be read.
THEOREM CredentialPriority == Spec => []DSNByPriority
<1>1. Progress => DSNByPriority
  <2> SUFFICES ASSUME Progress, Settled PROVE DSNByPriority
    BY DEF DSNByPriority
  <2>1. IF UsesConfig THEN HoldsConfig ELSE cfg = EnvDSN(flags)
    BY DEF Progress, Settled, Steps
  <2>2. CASE UsesConfig
    <3> DEFINE l == Loaded(spec, found.dsn)
    <3>1. PICK k \in Source : cfg = [l EXCEPT !.apiKey = k]
      BY <2>1, <2>2 DEF HoldsConfig
    <3>0. /\ spec \in ConfigSpec /\ found.dsn \in BOOLEAN /\ flags \in Resolved
          /\ env \in [dsn : BOOLEAN, apiKey : BOOLEAN]
      BY DEF Progress
    <3>2. /\ l \in Resolved
          /\ l.dsn = DSNOf(spec, found.dsn)
      BY <3>0, LoadedFields, Zenon
    <3> HIDE DEF l
    <3>3. cfg.dsn = l.dsn
      BY <3>1, <3>2 DEF Resolved
    <3> QED BY <2>2, <3>2, <3>3 DEF DSNByPriority, DSNOf
  <2>3. CASE ~UsesConfig
    BY <2>1, <2>3 DEF DSNByPriority, EnvDSN, Or, Progress, Resolved
  <2> QED BY <2>2, <2>3
<1> QED BY <1>1, Invariance, PTL

\* No setting of a configuration object is in use unless all of them are.
THEOREM ConfigIsAtomic == Spec => []AllOrNothing
<1>1. Progress => AllOrNothing
  <2> SUFFICES ASSUME Progress, Settled PROVE AllOrNothing
    BY DEF AllOrNothing
  <2>1. IF UsesConfig THEN HoldsConfig ELSE cfg = EnvDSN(flags)
    BY DEF Progress, Settled, Steps
  <2>2. CASE UsesConfig
    <3> DEFINE l == Loaded(spec, found.dsn)
    <3>1. PICK k \in Source : cfg = [l EXCEPT !.apiKey = k]
      BY <2>1, <2>2 DEF HoldsConfig
    <3>0. /\ spec \in ConfigSpec /\ found.dsn \in BOOLEAN /\ flags \in Resolved
          /\ env \in [dsn : BOOLEAN, apiKey : BOOLEAN]
      BY DEF Progress
    <3>2. /\ l \in Resolved
          /\ spec.backend # "" => l.backend = spec.backend
          /\ spec.address = TRUE => l.address = "cr"
          /\ spec.leader = TRUE => l.leader = TRUE
          /\ spec.aiEnabled = TRUE =>
               l.aiEnabled = TRUE /\ (spec.endpoint = TRUE => l.endpoint = "cr")
      BY <3>0, LoadedFields, Zenon
    <3> HIDE DEF l
    <3>3. /\ cfg.backend = l.backend /\ cfg.address = l.address /\ cfg.leader = l.leader
          /\ cfg.aiEnabled = l.aiEnabled /\ cfg.endpoint = l.endpoint
      BY <3>1, <3>2 DEF Resolved
    <3> QED BY <2>2, <3>2, <3>3 DEF AllOrNothing, Progress, ConfigSpec
  <2>3. CASE ~UsesConfig
    BY <2>1, <2>3 DEF AllOrNothing
  <2> QED BY <2>2, <2>3
<1> QED BY <1>1, Invariance, PTL

\* A source in the place of the DSN or the key gives settings again.
LEMMA OverrideType ==
    ASSUME NEW r \in Resolved, NEW set \in BOOLEAN, NEW src \in Source \ {""}
    PROVE  /\ [r EXCEPT !.dsn = Or(set, src, @)] \in Resolved
           /\ [r EXCEPT !.apiKey = Or(set, src, @)] \in Resolved
<1>1. CASE set
  BY <1>1 DEF Or, Resolved
<1>2. CASE ~set
  BY <1>2 DEF Or, Resolved
<1> QED BY <1>1, <1>2

LEMMA TypeStep ==
    ASSUME TypeOK, Progress, Progress', [Next]_vars
    PROVE  TypeOK'
<1> USE DEF TypeOK, given, settings, services, From, Steps
<1>1. "env" \in Source \ {""} /\ "secret" \in Source \ {""}
  BY DEF Source
<1>2. CASE UNCHANGED vars
  BY <1>2 DEF vars
<1>3. CASE ReadConfig
  <2>1. CASE pc' = "env"
    BY <1>3, <2>1 DEF ReadConfig, Discard
  <2>2. CASE pc' = "storageSecret"
    <3>1. PICK s \in ConfigSpecs : spec' = s /\ base' = MergeStorage(cfg, s)
      BY <1>3, <2>2 DEF ReadConfig
    <3>2. UNCHANGED <<given, cfg, found, services, signalled>>
      BY <1>3, <2>2 DEF ReadConfig
    <3>3. base' \in Resolved
      BY <3>1, StorageFields, SettingsAssumption
    <3> QED BY <2>2, <3>1, <3>2, <3>3
  <2> QED BY <1>3, <2>1, <2>2 DEF ReadConfig
<1>4. CASE ReadStorageSecret
  <2>1. UNCHANGED <<given, spec, cfg, services, signalled>> /\ pc' \in Steps
    BY <1>4 DEF ReadStorageSecret, Discard
  <2>2. base' \in Resolved
    <3>1. CASE pc' = "env"
      BY <1>4, <3>1 DEF ReadStorageSecret, Discard
    <3>2. CASE pc' = "aiSecret"
      <4>1. base' = Loaded(spec, found'.dsn)
        BY <2>1, <3>2 DEF Progress, Loaded, EnvDSN
      <4>2. found'.dsn \in BOOLEAN
        BY DEF Progress
      <4> QED BY <4>1, <4>2, LoadedFields DEF Progress
    <3> QED BY <1>4, <3>1, <3>2 DEF ReadStorageSecret
  <2> QED BY <2>1, <2>2 DEF Progress
<1>5. CASE ReadAISecret
  <2>1. UNCHANGED <<given, spec, base, services, signalled>> /\ pc' \in Steps
    BY <1>5 DEF ReadAISecret, Discard
  <2>2. CASE Discard
    BY <2>1, <2>2 DEF Discard, Progress
  <2>3. ASSUME NEW value \in BOOLEAN,
               cfg' = EnvKey([base EXCEPT !.apiKey = Or(value, "secret", @)])
        PROVE  cfg' \in Resolved
    <3>1. [base EXCEPT !.apiKey = Or(value, "secret", @)] \in Resolved
      BY <1>1, OverrideType
    <3>2. env.apiKey \in BOOLEAN
      OBVIOUS
    <3> QED BY <1>1, <2>3, <3>1, <3>2, OverrideType DEF EnvKey
  <2>4. CASE ~Discard
    <3>1. cfg' \in Resolved
      BY <1>5, <2>3, <2>4 DEF ReadAISecret, SecretValues
    <3> QED BY <2>1, <3>1 DEF Progress
  <2> QED BY <2>2, <2>4
<1>6. CASE ResolveEnvOverrides
  <2>1. cfg' \in Resolved
    BY <1>1, <1>6, OverrideType DEF ResolveEnvOverrides, EnvDSN
  <2> QED BY <1>6, <2>1 DEF ResolveEnvOverrides
<1>7. CASE NewStore \/ Initialize \/ NewManager \/ ConfigureAI
  <2>1. cfg.aiEnabled \in BOOLEAN
    BY DEF Resolved
  <2> QED BY <1>7, <2>1 DEF NewStore, Initialize, NewManager, ConfigureAI, NewProvider, Exit
<1>8. CASE StartAPI \/ StartManager \/ ManagerStops \/ StopAll \/ Close
  BY <1>8 DEF StartAPI, StartManager, ManagerStops, StopAll, Close
<1>9. CASE APIFails \/ APIStops \/ ManagerFails
  BY <1>9 DEF APIFails, APIStops, ManagerFails, Exit
<1>10. CASE Signal
  <2>1. UNCHANGED <<given, settings, services>> /\ pc' \in Steps /\ signalled' \in BOOLEAN
    BY <1>10 DEF Signal, Exit
  <2> QED BY <2>1
<1> QED BY <1>10, <1>2, <1>3, <1>4, <1>5, <1>6, <1>7, <1>8, <1>9 DEF Next, Main

\* Every setting main holds, on every path, is one some source gave: merging
\* never leaves an empty DSN or a backend nobody named.
THEOREM TypeCorrect == Spec => []TypeOK
<1>1. Init => TypeOK
  <2> SUFFICES ASSUME Init PROVE TypeOK
    OBVIOUS
  <2>1. flags \in FlagSettings /\ base \in Resolved /\ cfg \in Resolved
    BY SettingsAssumption DEF Init
  <2>2. found \in [config : {"unread", "none", "failed", "read"}, dsn : BOOLEAN, apiKey : BOOLEAN]
    BY DEF Init
  <2> QED BY <2>1, <2>2 DEF Init, TypeOK, Steps
<1>2. TypeOK /\ Progress /\ Progress' /\ [Next]_vars => TypeOK'
  BY TypeStep
<1> QED BY <1>1, <1>2, Invariance, PTL DEF Spec

\* main goes through its steps in one order.
Ordered ==
    /\ pc \notin {"run", "stop", "close", "exited"} => api = "off" /\ manager = "off"
    /\ pc \in {"manager", "provider", "api", "run", "stop", "close"} => store = "ready"

LEMMA OrderKept == Spec => []Ordered
<1>1. Init => Ordered
  BY DEF Init, Ordered
<1>2. Ordered /\ [Next]_vars => Ordered'
  <2> SUFFICES ASSUME Ordered, [Next]_vars PROVE Ordered'
    OBVIOUS
  <2>1. CASE UNCHANGED vars
    BY <2>1 DEF Ordered, vars
  <2>2. CASE ReadConfig \/ ReadStorageSecret \/ ReadAISecret \/ ResolveEnvOverrides
    BY <2>2 DEF ReadConfig, ReadStorageSecret, ReadAISecret, ResolveEnvOverrides, From,
                services, Ordered
  <2>3. CASE NewStore \/ Initialize \/ NewManager \/ ConfigureAI
    BY <2>3 DEF NewStore, Initialize, NewManager, ConfigureAI, Exit, From, services, Ordered
  <2>4. CASE StartAPI \/ StartManager \/ ManagerStops \/ StopAll \/ Close
    BY <2>4 DEF StartAPI, StartManager, ManagerStops, StopAll, Close, From, services, Ordered
  <2>5. CASE APIFails \/ APIStops \/ ManagerFails \/ Signal
    BY <2>5 DEF APIFails, APIStops, ManagerFails, Signal, Exit, From, services, Ordered
  <2> QED BY <2>1, <2>2, <2>3, <2>4, <2>5 DEF Next, Main
<1> QED BY <1>1, <1>2, PTL DEF Spec

\* Nothing is served, and nothing watched, before the tables exist.
THEOREM StoreReady == Spec => []StoreReadyWhenUsed
<1>1. Ordered => StoreReadyWhenUsed
  BY DEF Ordered, StoreReadyWhenUsed
<1> QED BY <1>1, OrderKept, PTL

\* The provider is never replaced under a request.
THEOREM ProviderNeverSwapped == Spec => ProviderFixed
<1>1. Ordered /\ [Next]_vars => [api = "listening" => UNCHANGED ai]_vars
  <2> SUFFICES ASSUME Ordered, [Next]_vars, api = "listening" PROVE UNCHANGED ai
    OBVIOUS
  <2>1. ~ConfigureAI
    BY DEF ConfigureAI, From, Ordered
  <2> QED BY <2>1 DEF Next, Main, vars, ReadConfig, ReadStorageSecret, ReadAISecret,
       ResolveEnvOverrides, NewStore, Initialize, NewManager, StartAPI, StartManager,
       ManagerStops, StopAll, Close, APIFails, APIStops, ManagerFails, Signal, Exit, services
<1> QED BY <1>1, OrderKept, PTL DEF Spec, ProviderFixed
=============================================================================
